\* A group of order 6 with a subgroup of order 3, scalars of up to 3 bits,
\* lists of up to 2 elements: what krypto.md says of scalars too wide.
CONSTANTS
  Order = 6
  Cofactor = 2
  ScalarBits = 3
  WideBits = 3
  Scalar <- MCScalar
  AltInf = AltInf
  OffCurve = OffCurve
  Wide = Wide
  MaxLen = 2
SPECIFICATION Spec
CHECK_DEADLOCK FALSE
INVARIANTS UnfitIsFalse
