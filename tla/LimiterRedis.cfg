SPECIFICATION Spec
CONSTANTS
  Keys = {k1, k2}
  Limit = 2
  MaxCalls = 3
  Missing = Missing
INVARIANT RefusedOnlyOverLimit
