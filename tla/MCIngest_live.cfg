SPECIFICATION FairSpec
CONSTANTS
  t1 = t1
  t2 = t2
  k1 = k1
  k2 = k2
  b1 = b1
  b2 = b2
  b3 = b3
  r1 = r1
  r2 = r2
  i1 = i1
  i2 = i2
  i3 = i3
  h1 = h1
  h2 = h2
  h3 = h3
  Handler = {h1, h2, h3}
  Tenant = {t1}
  Key = {k1, k2}
  Body = {b1}
  Ref = {r1}
  Id = {i1, i2}
  NoId = NoId
  NoCommand = NoCommand
  Command <- PoolCommands
  PoolMax = 2
PROPERTY
  EveryRequestEnds
