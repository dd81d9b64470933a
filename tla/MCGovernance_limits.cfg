SPECIFICATION FairSpec
CONSTANTS
  s1 = s1
  s2 = s2
  s3 = s3
  i1 = i1
  i2 = i2
  i3 = i3
  t1 = t1
  t2 = t2
  context = context
  health = health
  Secret = {s1, s2, s3}
  TokenId = {i1, i2, i3}
  Tenant = {t1, t2}
  Route = {context, health}
  Exempt = {health}
  AuthTokens <- Tokens
  Requests <- Clients
  None = None
  Malformed = Malformed
  Window = 2
  Second = 2
  MaxRequests = 2
INVARIANTS
  TypeOK
  BurstBounded
  LimitedByOwnRequests
  RetryAfterSuffices
PROPERTY
  NotLockedOut
