\* The claim of krypto.md that the hook is a function, on one round.
CONSTANTS
  MaxRounds = 1
  MaxCalls = 2
SPECIFICATION Spec
CHECK_DEADLOCK FALSE
INVARIANT IsFunction
