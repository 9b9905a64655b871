\* Three threads; one of them calls everything, lists of up to two pairs included.
CONSTANTS
  R = 3
  Cofactor = 2
  OffCurve = OffCurve
  OffField = OffField
  Thread = {t1, t2, t3}
  Asker = t1
  Calls <- MCCalls
  MaxCalls = 1
SPECIFICATION FairSpec
CHECK_DEADLOCK FALSE
INVARIANTS InitBeforeUse ValidIsSubgroup AteCancels
PROPERTIES WarmUp Settles
