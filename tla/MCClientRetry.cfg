SPECIFICATION Spec
CONSTANTS
  None = None
  Tab = {t1}
  Key = {k1, k2}
  Body = {b1}
  MaxCalls = 2
  MaxTries = 2
INVARIANTS RetryCarriesTheSameKey
