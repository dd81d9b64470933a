SPECIFICATION FairSpec
CONSTANTS
  c1 = c1
  c2 = c2
  x = x
  y = y
  ctx = ctx
  rsp = rsp
  e1 = e1
  e2 = e2
  e3 = e3
  e4 = e4
  Consumer = {c1}
  Entity = {x, y}
  Column = {ctx, rsp}
  EventId = {e1, e2, e3, e4}
  NoRow = NoRow
  Logs <- OrderedLogs
  MaxLog = 3
  MaxJoins = 2
  MaxFailures = 0
  MaxReplays = 1
PROPERTY
  ReplayRebuilds
CHECK_DEADLOCK FALSE
