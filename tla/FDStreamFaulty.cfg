\* read(2) may fail and write(2) may accept less than it is offered.
CONSTANTS
  BUF_SIZE = 3
  NUL = NUL
  Byte = {a, NUL}
  Uninit = Uninit
  ReadErrors = TRUE
  ShortWrites = TRUE
  MaxSent = 5
  MaxPut = 4
SPECIFICATION Spec
INVARIANTS TypeOK RingInv OutputOrdered
PROPERTIES InChannel NulIsAWall
