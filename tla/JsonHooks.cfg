\* Documents of up to 6 handler calls besides the closing brackets, written back
\* with at most one change.
CONSTANTS
  Text = {s, t}
  Zero = n0
  IntText = {n0, n1}
  Number = {n0, n1, frac}
  Foreign = Foreign
  MaxCalls = 6
SYMMETRY TextSymmetry
SPECIFICATION HookSpec
CHECK_DEADLOCK FALSE
INVARIANTS RoundTrip FailureHidden Segmented
PROPERTIES OthersKept ImplementsTree
