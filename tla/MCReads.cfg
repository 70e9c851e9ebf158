SPECIFICATION Spec
CONSTANTS
  None = None
  ana = ana
  operator = operator
  Attempt <- MCTransfers
  UserAccount <- MCUsers
  SystemAccount <- MCSystem
  Currency = {"USD", "EUR"}
  CurrencyOf <- MCCurrencyOf
  MaxStored = 7
  Caller = {ana, operator}
  Admin = operator
  Key <- MCKeys
  Owner <- MCOwner
  Opening <- MCOpening
  Requests <- MCRequests
  Time = {1, 2}
  AsOf = {2, 8, 32}
  Viewer = ana
  PageSize = 2
  Slot = {1, 2}
  MaxLoads = 2
  MaxListed = 5
INVARIANTS ReadsInductive DebtIsDated ReportAddsUp NewestFirstOnce NothingSkipped
CHECK_DEADLOCK FALSE
