SPECIFICATION Spec
CONSTANTS
  None = None
  ana = ana
  bruno = bruno
  operator = operator
  k1 = k1
  k2 = k2
  Attempt = {p1, p2, p3}
  UserAccount <- MCUsers
  SystemAccount <- MCSystem
  Currency = {"USD"}
  CurrencyOf <- MCCurrencyOf
  MaxStored = 7
  Caller <- MCCallers
  Admin = operator
  Key <- MCKeys
  Owner <- MCOwner
  Opening <- MCOpening
  Requests <- MCLive
INVARIANTS TypeOK
PROPERTIES ImplementsLedger EveryAttemptAnswered
