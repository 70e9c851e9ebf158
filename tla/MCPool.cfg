SPECIFICATION Spec
CONSTANTS
  None = None
  Request = {r1, r2, r3}
  Account = {1, 2}
  PoolSize = 2
  Asks <- MCAsks
  MaxFailovers = 1
INVARIANTS TypeOK NoHoldAndWait SaturatedPoolMoves TimedOutPostedNothing NoStaleCheckout
PROPERTIES EveryRequestEnds
