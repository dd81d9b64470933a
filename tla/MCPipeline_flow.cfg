SPECIFICATION FairSpec
CONSTANTS
  i1 = i1
  r1 = r1
  c1 = c1
  ctx = ctx
  u1 = u1
  Id = {i1}
  Relay = {r1}
  Poison = {}
  BatchSize = 1
  MaxStops = 1
  Consumer = {c1}
  Column = {ctx}
  NoRow = NoRow
  MaxJoins = 2
  MaxFailures = 1
  MaxReplays = 0
  Foreign <- ForeignMessages
  MaxForeign = 1
  MaxCopies = 2
INVARIANT
  DrainedIsProjected
PROPERTIES
  StoredIsProjected
  EveryMessageAccounted
CHECK_DEADLOCK FALSE
