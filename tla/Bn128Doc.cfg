\* One thread that calls everything: what krypto.md says of isValidPoint.
CONSTANTS
  R = 3
  Cofactor = 2
  OffCurve = OffCurve
  OffField = OffField
  Thread = {t1}
  Asker = t1
  Calls <- MCCalls
  MaxCalls = 1
SPECIFICATION Spec
CHECK_DEADLOCK FALSE
INVARIANT ValidIsOnCurve
