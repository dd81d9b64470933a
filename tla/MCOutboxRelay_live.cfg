SPECIFICATION FairSpec
CONSTANTS
  r1 = r1
  r2 = r2
  e1 = e1
  e2 = e2
  e3 = e3
  Relay = {r1, r2}
  Event = {e1, e3}
  Poison = {e3}
  BatchSize = 1
  MaxStops = 1
PROPERTY
  PublishedUnlessOrphaned
CHECK_DEADLOCK FALSE
