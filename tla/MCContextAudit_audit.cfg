SPECIFICATION FairSpec
CONSTANTS
  r1 = r1
  g = g
  o = o
  p = p
  c1 = c1
  c2 = c2
  Request = {r1}
  Query <- Batch
  Foreign <- Events
  MaxForeign = 1
  Consumer = {c1, c2}
  MaxJoins = 2
  MaxFailures = 1
INVARIANTS
  TypeOK
  DisclosedIsAnnounced
  AnnouncedWasRead
  StoredOnce
  NothingSkippedSilently
PROPERTIES
  DisclosedIsStored
CHECK_DEADLOCK FALSE
