SPECIFICATION FairSpec
CONSTANTS
  r1 = r1
  g = g
  o = o
  p = p
  c1 = c1
  c2 = c2
  Request = {r1}
  Query <- Single
  Foreign <- Events
  MaxForeign = 0
  Consumer = {c1}
  MaxJoins = 2
  MaxFailures = 0
PROPERTY
  AccessIsPersisted
CHECK_DEADLOCK FALSE
