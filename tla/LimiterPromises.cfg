SPECIFICATION RetryingSpec
CONSTANTS
  Keys = {k1, k2}
  Limit = 2
  Burst = 1
  Minute = 3
  Second = 1
  Horizon = 5
  NoBucket = NoBucket
INVARIANT TypeOK
INVARIANT LimiterInv
PROPERTY NeverStricter
PROPERTY PromiseKept
PROPERTY RetryAfterKept
PROPERTY EventuallyAdmitted
PROPERTY LooserOnlyAfterRefusal
