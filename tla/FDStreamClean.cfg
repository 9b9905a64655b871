\* A kernel that never fails; both halves, safety and liveness.
CONSTANTS
  BUF_SIZE = 2
  NUL = NUL
  Byte = {a, b, NUL}
  Uninit = Uninit
  ReadErrors = FALSE
  ShortWrites = FALSE
  MaxSent = 4
  MaxPut = 4
SPECIFICATION FairSpec
PROPERTIES NoFalseEnd OutChannel AllTaken
