\* Three calls of p256verify, with every input and every place a call can fail at,
\* among three calls of other hooks.
CONSTANTS
  MaxCalls = 3
  MaxHookCalls = 3
SPECIFICATION ProgramSpec
CHECK_DEADLOCK FALSE
INVARIANTS NoMisuse NothingLeft Verdict SignerRecovered FormsAgree
