CONSTANTS
  pa = pa  pb = pb  aa = aa  ab = ab  m1 = m1  m2 = m2
  AnyModel = AnyModel  Malformed = Malformed
  NoCeiling = NoCeiling  Unusable = Unusable  NoRetry = NoRetry
  Request = {r1, r2}
  Model = {m1, m2}
  Key <- MCKey
  Documents <- MCDocuments
  Catalogs <- MCCatalogs
  Listings <- MCListings
  RetryAfter = {0, NoRetry}
  Fallback = 1
  MaxClock = 2
SPECIFICATION FairSpec
INVARIANTS ThrottleRemembers AnswersAreTrue
PROPERTIES NoAttemptInsideDeadline RequestsEnd
