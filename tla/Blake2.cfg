\* Two and a half cycles of sigma, on either processor, and a second call on
\* what the first has left.
CONSTANTS
  MaxRounds = 25
  MaxCalls = 2
SPECIFICATION Spec
CHECK_DEADLOCK FALSE
INVARIANTS TablesAgree RowsInOrder
PROPERTY WholeSteps
