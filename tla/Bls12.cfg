\* A group of order 6 with a subgroup of order 3, scalars of up to 3 bits,
\* lists of up to 3 elements.
CONSTANTS
  Order = 6
  Cofactor = 2
  ScalarBits = 3
  WideBits = 3
  Scalar <- MCScalar
  AltInf = AltInf
  OffCurve = OffCurve
  Wide = Wide
  MaxLen = 3
SPECIFICATION Spec
CHECK_DEADLOCK FALSE
INVARIANTS Compacted MsmSum MsmThrows PairingCancels
