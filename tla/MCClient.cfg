SPECIFICATION Spec
CONSTANTS
  None = None
  Tab = {t1}
  Key = {k1, k2}
  Body = {b1, b2}
  MaxCalls = 2
  MaxTries = 2
INVARIANTS TypeOK OneCallPerPage OncePerIntent NeverAConflict ReceiptIsTrue
PROPERTIES EverySubmissionEnds
