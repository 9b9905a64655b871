\* Three requests of clients of every kind.
CONSTANTS
  BUF_SIZE = 3
  LBrace = lb
  RBrace = rb
  Digit = dg
  Space = sp
  NUL = NUL
  Byte = {lb, rb, dg, sp, NUL}
  Uninit = Uninit
  ReadErrors = FALSE
  ShortWrites = FALSE
  MaxSent = 12
  MaxPut = 12
  MaxRequests = 3
  Clients <- MCClients
SPECIFICATION FairSession
CHECK_DEADLOCK FALSE
INVARIANTS OnlyBlanksLost RepliesInStep ReplyCostsInput MuteUntilHangUp
PROPERTIES Answered Stops InSync
