SPECIFICATION FairSpec
CONSTANTS
  a = a
  b = b
  c = c
  d = d
  Runner = {1, 2, 3}
  File = {1, 2, 3}
  Checksum = {a, b, c, d}
  Directory <- Releases
  NotThere = NotThere
  MaxFailures = 1
INVARIANTS
  TypeOK
  LedgerIsSchema
  AppliedInOrder
  DoneIsMigrated
PROPERTY
  EveryReleaseMigrates
