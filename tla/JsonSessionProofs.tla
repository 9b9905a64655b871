-------------------------- MODULE JsonSessionProofs --------------------------
(***************************************************************************)
(* Proofs about a session: what a reply costs a client, what is lost with  *)
(* the streams, and that a client that waits stays in step with the        *)
(* server, for any number of requests, of any length, over buffers of any  *)
(* size.                                                                   *)
(***************************************************************************)
EXTENDS JsonSession, FDStreamProofs

(* How many of the sent bytes are behind the ring: taken or lost. *)
Position == nread - rsize

Inside == {"blanks", "begin", "value", "object", "number", "parsed", "eof",
           "put", "flush", "close"}

(* The shape of a session.  The ring holds the sent bytes behind Position; a
   hook starts with a new stream, and a reply is in the buffer of the stream
   only until it is flushed. *)
Shape ==
  /\ TypeOK /\ lost \in Seq(Byte) /\ outbox \in Seq(Byte)
  /\ client \in Clients
  /\ starts \in Seq(Nat \ {0}) /\ nrequests = Len(starts)
  /\ Position \in Nat /\ Holds(Position)
  /\ Position = Len(taken) + Len(lost)
  /\ phase \in Inside => opened
  /\ phase \notin Inside => ~ opened /\ rhead = 0
  /\ phase # "flush" => writebuf = <<>>
  /\ phase = "flush" => Len(writebuf) = 1
  /\ hungup => outbox = <<>>

LEMMA ClientType ==
  ASSUME NEW c \in Clients
  PROVE  /\ c.waits \in BOOLEAN /\ c.socket \in BOOLEAN
         /\ \A r \in c.requests : r \in Seq(Byte)
  BY ClientsAssumption

LEMMA ShapeInit == ASSUME SessionInit PROVE Shape
<1>1. IInv
  BY InitInv DEF SessionInit
<1>2. /\ nread = 0 /\ rsize = 0 /\ rhead = 0 /\ taken = <<>> /\ opened = FALSE
      /\ writebuf = <<>> /\ outbox = <<>> /\ lost = <<>> /\ starts = <<>>
      /\ nrequests = 0 /\ phase = "idle" /\ client \in Clients /\ hungup = FALSE
  BY DEF SessionInit, Init, StreamInit
<1>3. Len(taken) = 0 /\ Len(lost) = 0 /\ Position = 0
  BY <1>2 DEF Position
<1>4. Holds(0)
  BY <1>1, <1>2, <1>3, RingHolds
<1>5. TypeOK /\ lost \in Seq(Byte) /\ outbox \in Seq(Byte) /\ starts \in Seq(Nat \ {0})
      /\ nrequests = Len(starts)
  BY <1>1, <1>2 DEF IInv
<1>6. phase \notin Inside /\ ~ opened /\ phase # "flush"
  BY <1>2 DEF Inside
<1>7. Position \in Nat /\ Holds(Position) /\ Position = Len(taken) + Len(lost)
  BY <1>3, <1>4
<1>. QED BY <1>2, <1>5, <1>6, <1>7, Zenon DEF Shape

(* Where a ring that holds the bytes behind k stands. *)
LEMMA HeldAt ==
  ASSUME TypeOK, NEW k \in Nat, Holds(k)
  PROVE  Position = k /\ nread \in Nat /\ rsize \in Nat /\ k <= nread /\ nread <= Len(sent)
  BY BufSizeAssumption DEF TypeOK, Holds, Position

LEMMA Counts ==
  ASSUME Shape
  PROVE  /\ Position \in Nat /\ nread \in Nat /\ rsize \in Nat /\ nread = Position + rsize
         /\ nreplies \in Nat /\ Len(lost) \in Nat
<1>1. Position \in Nat /\ Holds(Position) /\ TypeOK
  BY DEF Shape
<1>2. nread \in Nat /\ rsize \in Nat /\ nread = Position + rsize
  BY <1>1, BufSizeAssumption DEF TypeOK, Holds
<1>3. written \in Seq(Nat) /\ lost \in Seq(Byte)
  BY DEF Shape, TypeOK
<1>4. nreplies \in Nat /\ Len(lost) \in Nat
  BY <1>3 DEF nreplies
<1>. QED BY <1>1, <1>2, <1>4

(* The bytes destroyed with a stream. *)
Remains == [i \in 1 .. rsize |-> readbuf[(rhead + i - 1) % BUF_SIZE]]

LEMMA RemainsSent ==
  ASSUME TypeOK, NEW k \in Nat, Holds(k)
  PROVE  /\ Remains \in Seq(Byte) /\ Len(Remains) = rsize
         /\ \A i \in 1 .. rsize : Remains[i] = sent[k + i] /\ k + i \in 1 .. Len(sent)
<1>1. rsize \in Nat /\ nread <= Len(sent) /\ nread = k + rsize
  BY HeldAt DEF Holds
<1>2. ASSUME NEW i \in 1 .. rsize
      PROVE  /\ k + i \in 1 .. Len(sent)
             /\ readbuf[(rhead + i - 1) % BUF_SIZE] = sent[k + i]
  <2>1. /\ rhead \in Nat /\ rhead + rsize <= BUF_SIZE /\ BUF_SIZE \in Nat
        /\ rhead + i - 1 \in Slot
    BY <1>1, BufSizeAssumption DEF TypeOK, Slot, Holds, NoWrap
  <2>2. (rhead + i - 1) % BUF_SIZE = rhead + i - 1
    BY <2>1, ModSlot
  <2>3. i - 1 \in 0 .. rsize - 1 /\ rhead + (i - 1) = rhead + i - 1 /\ k + (i - 1) + 1 = k + i
    BY <1>1, <2>1
  <2>4. readbuf[rhead + (i - 1)] = sent[k + (i - 1) + 1]
    BY <2>3 DEF Holds
  <2>5. k + i \in 1 .. Len(sent)
    BY <1>1 DEF TypeOK
  <2>. QED BY <2>2, <2>3, <2>4, <2>5
<1>3. \A i \in 1 .. rsize : sent[k + i] \in Byte
  <2>1. sent \in Seq(Byte)
    BY DEF TypeOK
  <2>. QED BY <1>2, <2>1
<1>4. \A i \in 1 .. rsize : Remains[i] = sent[k + i]
  BY <1>2 DEF Remains
<1>5. Remains = [i \in 1 .. rsize |-> Remains[i]]
  BY DEF Remains
<1>6. \A i \in 1 .. rsize : Remains[i] \in Byte
  BY <1>3, <1>4
<1> HIDE DEF Remains
<1>7. Remains \in [1 .. rsize -> Byte]
  BY <1>5, <1>6
<1>8. Remains \in Seq(Byte) /\ Len(Remains) = rsize
  BY <1>1, <1>7
<1>. QED BY <1>2, <1>4, <1>8

-----------------------------------------------------------------------------
(* Each action keeps the shape. *)

LEMMA BeginShape == ASSUME Shape, NEW r \in client.requests, Begin(r) PROVE Shape'
<1>1. /\ r \in Seq(Byte) /\ outbox' = r /\ nrequests' = nrequests + 1 /\ ~ hungup
      /\ starts' = Append(starts, Len(sent) + 1)
      /\ UNCHANGED <<vars, client, phase, lost>>
  BY ClientType DEF Shape, Begin
<1>2. Len(sent) + 1 \in Nat \ {0} /\ Len(starts') = Len(starts) + 1 /\ starts' \in Seq(Nat \ {0})
  <2>1. sent \in Seq(Byte) /\ starts \in Seq(Nat \ {0})
    BY DEF Shape, TypeOK
  <2>2. Len(sent) + 1 \in Nat \ {0}
    BY <2>1
  <2>3. /\ Append(starts, Len(sent) + 1) \in Seq(Nat \ {0})
        /\ Len(Append(starts, Len(sent) + 1)) = Len(starts) + 1
    BY <2>1, <2>2, AppendProperties, Zenon
  <2>. QED BY <1>1, <2>2, <2>3, Zenon
<1>3. TypeOK' /\ Position' = Position /\ Holds(Position)'
  BY <1>1 DEF Shape, TypeOK, Slot, Position, Holds, NoWrap, vars, peerVars, readVars, writeVars
<1>. QED
  BY <1>1, <1>2, <1>3 DEF Shape, vars, peerVars, readVars, writeVars

LEMMA SendShape == ASSUME Shape, SendNext PROVE Shape'
<1>1. PICK k \in Nat : k = Position
  BY DEF Shape
<1>2. outbox \in Seq(Byte) /\ outbox # <<>> /\ Head(outbox) \in Byte /\ Tail(outbox) \in Seq(Byte)
  BY DEF Shape, SendNext
<1>3. TypeOK' /\ Holds(k)'
  BY <1>1, <1>2, SendHolds DEF Shape, SendNext
<1>4. Position' = k
  BY <1>1 DEF SendNext, Send, readVars, Position
<1>5. /\ UNCHANGED <<hungup, opened, taken, rhead, writebuf, client, nrequests, starts, phase, lost>>
      /\ outbox' = Tail(outbox) /\ ~ hungup
  BY DEF SendNext, Send, readVars, writeVars
<1>. QED BY <1>1, <1>2, <1>3, <1>4, <1>5 DEF Shape

LEMMA LeaveShape == ASSUME Shape, Leave PROVE Shape'
<1>1. /\ hungup' = TRUE /\ outbox = <<>>
      /\ UNCHANGED <<sent, opened, readVars, writeVars, clientVars, phase, lost>>
  BY DEF Leave, HangUp
<1>2. TypeOK' /\ Position' = Position /\ Holds(Position)'
  BY <1>1 DEF Shape, TypeOK, Slot, Position, Holds, NoWrap, readVars, writeVars
<1>. QED BY <1>1, <1>2 DEF Shape, readVars, writeVars, clientVars

(* The stream is opened with what read(2) has ready. *)
LEMMA ConstructShape ==
  ASSUME Shape, Construct, NEW p \in Inside, p # "flush", Goto(p), phase \notin Inside
  PROVE  /\ Shape' /\ Position' = Position
         /\ ~ ReadErrors => rsize' > 0 \/ (hungup /\ nread' = Len(sent))
<1>1. PICK k \in Nat : k = Position
  BY DEF Shape
<1>2. /\ TypeOK' /\ Holds(k)'
      /\ ~ ReadErrors => rsize' > 0 \/ (hungup /\ nread' = Len(sent))
  BY <1>1, ConstructHolds DEF Shape
<1>3. Position' = k
  <2>1. rsize' \in Nat /\ nread' = k + rsize'
    BY <1>1, <1>2, BufSizeAssumption DEF TypeOK, Holds
  <2>. QED BY <1>1, <2>1 DEF Position
<1>4. /\ UNCHANGED <<sent, hungup, taken, writebuf, client, outbox, nrequests, starts, lost>>
      /\ phase' = p /\ opened' = TRUE /\ phase # "flush"
  BY DEF Construct, peerVars, writeVars, Goto, clientVars, Inside
<1>5. Shape'
  BY <1>1, <1>2, <1>3, <1>4 DEF Shape
<1>. QED BY <1>1, <1>2, <1>3, <1>5

LEMMA PeekShape ==
  ASSUME Shape, Peek, NEW p \in Inside, p # "flush", Goto(p), phase # "flush"
  PROVE  /\ Shape' /\ Position' = Position
         /\ rsize' > 0 => peeked' = sent[Position + 1] /\ Position + 1 <= Len(sent)
         /\ rsize' = 0 => peeked' = NUL
         /\ rsize' = 0 /\ ~ ReadErrors => hungup /\ nread' = Len(sent)
<1>1. PICK k \in Nat : k = Position
  BY DEF Shape
<1>2. /\ TypeOK' /\ Holds(k)'
      /\ rsize' > 0 => peeked' = sent[k + 1]
      /\ rsize' = 0 => peeked' = NUL
      /\ rsize' = 0 /\ ~ ReadErrors => hungup /\ nread' = Len(sent)
  BY <1>1, PeekHolds DEF Shape
<1>3. Position' = k /\ nread' <= Len(sent') /\ nread' = k + rsize'
  <2>1. rsize' \in Nat /\ nread' = k + rsize'
    BY <1>1, <1>2, BufSizeAssumption DEF TypeOK, Holds
  <2>2. nread' <= Len(sent')
    BY <1>2 DEF TypeOK
  <2>. QED BY <1>1, <2>1, <2>2 DEF Position
<1>4. /\ UNCHANGED <<sent, hungup, opened, taken, rhead, writebuf, client, outbox, nrequests, starts, lost>>
      /\ phase' = p /\ opened
  BY DEF Peek, peerVars, writeVars, Goto, clientVars
<1>5. rsize' > 0 => k + 1 <= Len(sent)
  BY <1>2, <1>3, <1>4 DEF TypeOK
<1>6. Shape'
  BY <1>1, <1>2, <1>3, <1>4 DEF Shape
<1>. QED BY <1>1, <1>2, <1>3, <1>5, <1>6

LEMMA TakeShape ==
  ASSUME Shape, Take, NEW p \in Inside, p # "flush", Goto(p), phase # "flush", peeked' # NUL
  PROVE  /\ Shape' /\ Position' = Position + 1
         /\ peeked' = sent[Position + 1] /\ Position + 1 <= Len(sent)
<1>1. PICK k \in Nat : k = Position
  BY DEF Shape
<1>2. /\ TypeOK' /\ Holds(k + 1)' /\ k + 1 <= Len(sent) /\ peeked' = sent[k + 1]
      /\ taken' = Append(taken, sent[k + 1])
  BY <1>1, TakeHolds DEF Shape
<1>3. Position' = k + 1
  <2>1. rsize' \in Nat /\ nread' = (k + 1) + rsize'
    BY <1>1, <1>2, BufSizeAssumption DEF TypeOK, Holds
  <2>. QED BY <1>1, <2>1 DEF Position
<1>4. /\ UNCHANGED <<sent, hungup, opened, writebuf, client, outbox, nrequests, starts, lost>>
      /\ phase' = p /\ opened
  BY DEF Take, peerVars, writeVars, Goto, clientVars
<1>5. Len(taken') = Len(taken) + 1 /\ Len(taken) \in Nat /\ Len(lost) \in Nat
  <2>1. taken \in Seq(Byte) /\ lost \in Seq(Byte) /\ sent \in Seq(Byte) /\ k + 1 \in 1 .. Len(sent)
    BY <1>2 DEF Shape, TypeOK
  <2>2. sent[k + 1] \in Byte
    BY <2>1
  <2>. QED BY <1>2, <2>1, <2>2
<1>6. Position' = Len(taken') + Len(lost')
  BY <1>1, <1>3, <1>4, <1>5 DEF Shape
<1>7. Shape'
  BY <1>1, <1>2, <1>3, <1>4, <1>6 DEF Shape
<1>. QED BY <1>1, <1>2, <1>3, <1>7

(* A stream is destroyed with what its ring holds. *)
LEMMA DestroyShape ==
  ASSUME Shape, Destroy, NEW p, p \notin Inside, p # "flush", phase' = p
  PROVE  /\ Shape' /\ Position' = nread /\ Position <= nread /\ nread <= Len(sent)
         /\ rsize' = 0 /\ lost' = lost \o Remains /\ Len(lost') = Len(lost) + rsize
<1>1. PICK k \in Nat : k = Position
  BY DEF Shape
<1>2. TypeOK /\ Holds(k) /\ lost \in Seq(Byte)
  BY <1>1 DEF Shape
<1>3. /\ rsize \in Nat /\ nread \in Nat /\ nread = k + rsize /\ nread <= Len(sent)
      /\ Remains \in Seq(Byte) /\ Len(Remains) = rsize
  BY <1>2, HeldAt, RemainsSent DEF Holds
<1>4. /\ opened' = FALSE /\ rhead' = 0 /\ rsize' = 0 /\ writebuf' = <<>>
      /\ readbuf' = [i \in Slot |-> Uninit] /\ lost' = lost \o Remains
      /\ UNCHANGED <<sent, hungup, nread, peeked, taken, nput, written>>
      /\ UNCHANGED <<client, outbox, nrequests, starts>>
  BY DEF Destroy, Remains, peerVars, clientVars
<1>5. lost' \in Seq(Byte) /\ Len(lost') = Len(lost) + rsize /\ Len(lost) \in Nat
  <2>1. lost \in Seq(Byte) /\ Remains \in Seq(Byte) /\ lost' = lost \o Remains
    BY <1>2, <1>3, <1>4
  <2>2. lost \o Remains \in Seq(Byte) /\ Len(lost \o Remains) = Len(lost) + Len(Remains)
    BY <2>1, ConcatProperties, Zenon
  <2>. QED BY <1>3, <2>1, <2>2
<1>6. TypeOK'
  <2>1. readbuf' \in [Slot -> Byte \cup {Uninit}]
    BY <1>4
  <2>2. rhead' \in Slot /\ rsize' \in 0 .. BUF_SIZE
    BY <1>4, BufSizeAssumption DEF Slot
  <2>3. writebuf' \in Seq(Nat) /\ Len(writebuf') <= BUF_SIZE
    BY <1>4, BufSizeAssumption
  <2>. QED BY <1>2, <1>4, <2>1, <2>2, <2>3 DEF TypeOK
<1>7. Position' = nread
  BY <1>3, <1>4 DEF Position
<1>8. Holds(Position)'
  BY <1>3, <1>4, <1>7, BufSizeAssumption DEF Holds, NoWrap
<1>9. Position' = Len(taken') + Len(lost')
  <2>1. Position = Len(taken) + Len(lost) /\ Len(taken) \in Nat
    BY <1>2 DEF Shape, TypeOK
  <2>. QED BY <1>1, <1>3, <1>4, <1>5, <1>7, <2>1
<1>10. client' \in Clients /\ outbox' \in Seq(Byte) /\ starts' \in Seq(Nat \ {0})
       /\ nrequests' = Len(starts') /\ (hungup' => outbox' = <<>>)
  BY <1>4 DEF Shape
<1>11. Shape'
  BY <1>3, <1>4, <1>5, <1>6, <1>7, <1>8, <1>9, <1>10 DEF Shape
<1>. QED BY <1>1, <1>3, <1>4, <1>5, <1>7, <1>11

(* The constructor of a writing stream that has nothing to read. *)
LEMMA OpenDryShape ==
  ASSUME Shape, phase = "answer", opened' = TRUE, Goto("put"),
         UNCHANGED <<peerVars, readVars, writeVars>>
  PROVE  Shape' /\ Position' = Position /\ UNCHANGED <<sent, nread, rsize>>
<1>1. /\ UNCHANGED <<sent, hungup, nread, readbuf, rhead, rsize, peeked, taken>>
      /\ UNCHANGED <<nput, writebuf, written, client, outbox, nrequests, starts, lost>>
      /\ phase' = "put" /\ phase # "flush"
  BY DEF peerVars, readVars, writeVars, Goto, clientVars
<1>2. TypeOK' /\ Position' = Position
  BY <1>1 DEF Shape, TypeOK, Slot, Position
<1>3. Holds(Position)'
  BY <1>1, <1>2 DEF Shape, Holds, NoWrap
<1>. QED BY <1>1, <1>2, <1>3 DEF Shape, Inside

LEMMA PutShape ==
  ASSUME Shape, PutReply
  PROVE  Shape' /\ Position' = Position /\ UNCHANGED <<sent, nread, rsize, written>>
<1>1. writebuf = <<>> /\ Len(writebuf) # BUF_SIZE /\ phase = "put" /\ phase' = "flush"
  BY BufSizeAssumption DEF Shape, PutReply, Goto
<1>2. writebuf' = <<nput + 1>> /\ UNCHANGED written
  BY <1>1 DEF PutReply, Put
<1>3. Len(writebuf') = 1
  BY <1>2
<1>4. UNCHANGED <<sent, hungup, opened, nread, readbuf, rhead, rsize, peeked, taken>>
      /\ UNCHANGED <<client, outbox, nrequests, starts, lost>>
  BY DEF PutReply, Put, peerVars, readVars, Goto, clientVars
<1>5. TypeOK' /\ Position' = Position
  BY <1>4, PutType DEF Shape, PutReply, Position
<1>6. Holds(Position)'
  BY <1>4, <1>5 DEF Shape, Holds, NoWrap
<1>. QED BY <1>1, <1>2, <1>3, <1>4, <1>5, <1>6 DEF Shape, Inside

LEMMA FlushShape ==
  ASSUME Shape, FlushReply
  PROVE  /\ Shape' /\ Position' = Position /\ UNCHANGED <<sent, nread, rsize>>
         /\ nreplies \in Nat /\ nreplies' \in Nat /\ nreplies' <= nreplies + 1
<1>1. phase = "flush" /\ phase' = "close" /\ writebuf' = <<>>
  BY DEF FlushReply, Flush, Goto
<1>2. UNCHANGED <<sent, hungup, opened, nread, readbuf, rhead, rsize, peeked, taken>>
      /\ UNCHANGED <<client, outbox, nrequests, starts, lost>>
  BY DEF FlushReply, Flush, peerVars, readVars, Goto, clientVars
<1>3. TypeOK' /\ Position' = Position
  BY <1>2, FlushType DEF Shape, FlushReply, Position
<1>4. Holds(Position)'
  BY <1>2, <1>3 DEF Shape, Holds, NoWrap
<1>5. Shape'
  BY <1>1, <1>2, <1>3, <1>4 DEF Shape, Inside
<1>6. nreplies \in Nat /\ nreplies' \in Nat /\ nreplies' <= nreplies + 1
  <2>1. PICK k \in WriteAccepts : written' = written \o SubSeq(writebuf, 1, k)
    BY DEF FlushReply, Flush
  <2>2. written \in Seq(Nat) /\ writebuf \in Seq(Nat) /\ Len(writebuf) = 1
    BY <1>1 DEF Shape, TypeOK
  <2>3. k \in 0 .. 1
    BY <2>1, <2>2 DEF WriteAccepts
  <2>4. SubSeq(writebuf, 1, k) \in Seq(Nat) /\ Len(SubSeq(writebuf, 1, k)) = k
    BY <2>2, <2>3
  <2>. QED BY <2>1, <2>2, <2>3, <2>4, ConcatProperties DEF nreplies
<1>. QED BY <1>2, <1>3, <1>5, <1>6

LEMMA StutterShape == ASSUME Shape, UNCHANGED sessionVars PROVE Shape'
  BY DEF sessionVars, vars, peerVars, readVars, writeVars, clientVars,
         Shape, TypeOK, Slot, Position, Holds, NoWrap

-----------------------------------------------------------------------------
(* What a step of the server does to the position in the sent bytes, without
   the ring: it rests, takes a byte, sees the next one or the end of input, or
   drops what was read ahead. *)

Keeps == UNCHANGED <<sent, hungup, client, outbox, nrequests, starts>>

Moves(p, q, n) ==
  /\ phase = p /\ phase' = q
  /\ Position' = Position + n
  /\ Keeps /\ UNCHANGED <<lost, written>>

Reads(B) == Position + 1 <= nread' /\ sent[Position + 1] \in B

Takes(p, q, b) == Moves(p, q, 1) /\ Reads({b})
Sees(p, q, B)  == Moves(p, q, 0) /\ Reads(B)
Ends(p, q)     == Moves(p, q, 0) /\ hungup /\ Position = Len(sent)

Drops(p, q) ==
  /\ phase = p /\ phase' = q
  /\ Position' = nread
  /\ lost' = lost \o Remains /\ Len(lost') = Len(lost) + rsize
  /\ Keeps /\ UNCHANGED <<nread, written>>

ServerMoves ==
  \/ Moves("idle", "blanks", 0)
  \/ Takes("blanks", "blanks", Space)
  \/ Sees("blanks", "begin", Byte \ {Space}) \/ Ends("blanks", "begin")
  \/ Sees("begin", "value", Byte \ {NUL})
  \/ Sees("begin", "eof", {NUL}) \/ Ends("begin", "eof")
  \/ Takes("value", "object", LBrace)
  \/ Takes("value", "number", Digit)
  \/ Sees("value", "parsed", Byte \ {LBrace, Digit}) \/ Ends("value", "parsed")
  \/ Takes("object", "object", Space)
  \/ Takes("object", "parsed", RBrace)
  \/ Sees("object", "parsed", Byte \ {Space, RBrace}) \/ Ends("object", "parsed")
  \/ Takes("number", "number", Digit)
  \/ Sees("number", "parsed", Byte \ {Digit}) \/ Ends("number", "parsed")
  \/ Drops("parsed", "answer") \/ Drops("eof", "stopped")
  \/ Moves("answer", "put", 0)
     /\ (client.socket => Position + 1 <= nread' \/ (hungup /\ Position = Len(sent)))
  \/ Moves("put", "flush", 0) /\ UNCHANGED nread
  \/ /\ phase = "flush" /\ phase' = "close"
     /\ Position' = Position
     /\ Keeps /\ UNCHANGED <<lost, nread>>
     /\ nreplies' <= nreplies + 1
  \/ Drops("close", "idle")

LEMMA Ring ==
  \A p, n \in Int, r \in Nat :
    p = n - r => p <= n /\ (r > 0 => p + 1 <= n) /\ (r = 0 => p = n)
  OBVIOUS

LEMMA PeekMoves ==
  ASSUME ~ ReadErrors, Shape, Peek, NEW q, phase = q, q # "flush",
         NEW p \in Inside, p # "flush", Goto(p)
  PROVE  /\ Shape'
         /\ \/ Sees(q, p, {peeked'})
            \/ peeked' = NUL /\ Ends(q, p)
<1>1. /\ Shape' /\ Position' = Position
      /\ rsize' > 0 => peeked' = sent[Position + 1] /\ Position + 1 <= Len(sent)
      /\ rsize' = 0 => peeked' = NUL
      /\ rsize' = 0 => hungup /\ nread' = Len(sent)
  BY PeekShape
<1>2. Keeps /\ UNCHANGED <<lost, written>> /\ phase' = p
  BY DEF Peek, peerVars, writeVars, Goto, clientVars, Keeps
<1>3. rsize' \in Nat /\ Position' = nread' - rsize' /\ nread' \in Int /\ Position \in Int
  BY <1>1, BufSizeAssumption DEF Shape, TypeOK, Position
<1>4. Position = nread' - rsize'
  BY <1>1, <1>3, Zenon
<1>0. Moves(q, p, 0)
  BY <1>1, <1>2, <1>3 DEF Moves
<1>5. CASE rsize' > 0
  <2>1. Position + 1 <= nread'
    BY <1>3, <1>4, <1>5, Ring, Zenon
  <2>2. Sees(q, p, {peeked'})
    BY <1>0, <1>1, <1>5, <2>1, Zenon DEF Sees, Reads
  <2>. QED BY <1>1, <2>2
<1>6. CASE rsize' = 0
  <2>1. Position = Len(sent)
    <3>1. Position = nread'
      BY <1>3, <1>4, <1>6, Ring, Zenon
    <3>. QED BY <1>1, <1>6, <3>1, Zenon
  <2>2. peeked' = NUL /\ Ends(q, p)
    BY <1>0, <1>1, <1>6, <2>1, Zenon DEF Ends
  <2>. QED BY <1>1, <2>2
<1>. QED BY <1>3, <1>5, <1>6

LEMMA TakeMoves ==
  ASSUME Shape, Take, NEW q, phase = q, q # "flush", peeked' # NUL,
         NEW p \in Inside, p # "flush", Goto(p)
  PROVE  Shape' /\ Takes(q, p, peeked')
<1>1. Shape' /\ Position' = Position + 1 /\ peeked' = sent[Position + 1]
  BY TakeShape
<1>2. Keeps /\ UNCHANGED <<lost, written>> /\ phase' = p
  BY DEF Take, peerVars, writeVars, Goto, clientVars, Keeps
<1>3. rsize' \in Nat /\ Position' = nread' - rsize' /\ nread' \in Int
  BY <1>1, BufSizeAssumption DEF Shape, TypeOK, Position
<1>4. Position + 1 <= nread'
  <2>1. Position \in Int
    BY DEF Shape
  <2>2. Position + 1 \in Int
    BY <2>1
  <2>3. Position + 1 = nread' - rsize'
    BY <1>1, <1>3, Zenon
  <2>. QED BY <1>3, <2>2, <2>3, Ring, Zenon
<1>5. Reads({peeked'})
  BY <1>1, <1>4, Zenon DEF Reads
<1>6. Moves(q, p, 1)
  BY <1>1, <1>2, Zenon DEF Moves
<1>. QED BY <1>1, <1>5, <1>6, Zenon DEF Takes

LEMMA DropMoves ==
  ASSUME Shape, Destroy, NEW q, phase = q, NEW p, p \notin Inside, p # "flush", phase' = p
  PROVE  Shape' /\ Drops(q, p)
<1>1. Shape' /\ Position' = nread /\ lost' = lost \o Remains /\ Len(lost') = Len(lost) + rsize
  BY DestroyShape
<1>2. Keeps /\ UNCHANGED <<nread, written>>
  BY DEF Destroy, peerVars, clientVars, Keeps
<1>. QED BY <1>1, <1>2 DEF Drops

(* The bytes have different names, and all but NUL can be seen. *)
LEMMA Names ==
  /\ {LBrace, RBrace, Digit, Space, NUL} \subseteq Byte
  /\ Space # NUL /\ LBrace # NUL /\ RBrace # NUL /\ Digit # NUL
  BY ByteNames

LEMMA ReadMoves ==
  ASSUME ~ ReadErrors, Shape,
         SkipBlanks \/ BeginValue \/ Value \/ Object \/ Number
  PROVE  Shape' /\ ServerMoves
<1>0. {"blanks", "begin", "value", "object", "number", "parsed", "eof"} \subseteq Inside \ {"flush"}
  BY DEF Inside
<1>1. Shape' => peeked' \in Byte
  BY DEF Shape, TypeOK
<1>2. CASE SkipBlanks
  <2>1. CASE Take /\ peeked' = Space /\ Goto("blanks")
    <3>1. Shape' /\ Takes("blanks", "blanks", peeked')
      BY <1>0, <1>2, <2>1, Names, TakeMoves DEF SkipBlanks
    <3>. QED BY <2>1, <3>1 DEF ServerMoves
  <2>2. CASE Peek /\ peeked' # Space /\ Goto("begin")
    <3>1. Shape' /\ (Sees("blanks", "begin", {peeked'}) \/ Ends("blanks", "begin"))
      BY <1>0, <1>2, <2>2, PeekMoves DEF SkipBlanks
    <3>2. CASE Sees("blanks", "begin", {peeked'})
      <4>1. Sees("blanks", "begin", Byte \ {Space})
        BY <1>1, <2>2, <3>1, <3>2 DEF Sees, Reads
      <4>. QED BY <3>1, <4>1 DEF ServerMoves
    <3>. QED BY <3>1, <3>2 DEF ServerMoves
  <2>. QED BY <1>2, <2>1, <2>2 DEF SkipBlanks
<1>3. CASE BeginValue
  <2>1. CASE peeked' = NUL /\ Goto("eof")
    <3>1. Shape' /\ (Sees("begin", "eof", {peeked'}) \/ Ends("begin", "eof"))
      BY <1>0, <1>3, <2>1, PeekMoves DEF BeginValue
    <3>. QED BY <2>1, <3>1 DEF ServerMoves
  <2>2. CASE peeked' # NUL /\ Goto("value")
    <3>1. Shape' /\ Sees("begin", "value", {peeked'})
      BY <1>0, <1>3, <2>2, PeekMoves DEF BeginValue
    <3>2. Sees("begin", "value", Byte \ {NUL})
      BY <1>1, <2>2, <3>1 DEF Sees, Reads
    <3>. QED BY <3>1, <3>2 DEF ServerMoves
  <2>. QED BY <1>3, <2>1, <2>2 DEF BeginValue
<1>4. CASE Value
  <2>1. CASE Take /\ peeked' = LBrace /\ Goto("object")
    <3>1. Shape' /\ Takes("value", "object", peeked')
      BY <1>0, <1>4, <2>1, Names, TakeMoves DEF Value
    <3>. QED BY <2>1, <3>1 DEF ServerMoves
  <2>2. CASE Take /\ peeked' = Digit /\ Goto("number")
    <3>1. Shape' /\ Takes("value", "number", peeked')
      BY <1>0, <1>4, <2>2, Names, TakeMoves DEF Value
    <3>. QED BY <2>2, <3>1 DEF ServerMoves
  <2>3. CASE Peek /\ peeked' \notin {LBrace, Digit} /\ Goto("parsed")
    <3>1. Shape' /\ (Sees("value", "parsed", {peeked'}) \/ Ends("value", "parsed"))
      BY <1>0, <1>4, <2>3, PeekMoves DEF Value
    <3>2. CASE Sees("value", "parsed", {peeked'})
      <4>1. Sees("value", "parsed", Byte \ {LBrace, Digit})
        BY <1>1, <2>3, <3>1, <3>2 DEF Sees, Reads
      <4>. QED BY <3>1, <4>1 DEF ServerMoves
    <3>. QED BY <3>1, <3>2 DEF ServerMoves
  <2>. QED BY <1>4, <2>1, <2>2, <2>3 DEF Value
<1>5. CASE Object
  <2>1. CASE Take /\ peeked' = Space /\ Goto("object")
    <3>1. Shape' /\ Takes("object", "object", peeked')
      BY <1>0, <1>5, <2>1, Names, TakeMoves DEF Object
    <3>. QED BY <2>1, <3>1 DEF ServerMoves
  <2>2. CASE Take /\ peeked' = RBrace /\ Goto("parsed")
    <3>1. Shape' /\ Takes("object", "parsed", peeked')
      BY <1>0, <1>5, <2>2, Names, TakeMoves DEF Object
    <3>. QED BY <2>2, <3>1 DEF ServerMoves
  <2>3. CASE Peek /\ peeked' \notin {Space, RBrace} /\ Goto("parsed")
    <3>1. Shape' /\ (Sees("object", "parsed", {peeked'}) \/ Ends("object", "parsed"))
      BY <1>0, <1>5, <2>3, PeekMoves DEF Object
    <3>2. CASE Sees("object", "parsed", {peeked'})
      <4>1. Sees("object", "parsed", Byte \ {Space, RBrace})
        BY <1>1, <2>3, <3>1, <3>2 DEF Sees, Reads
      <4>. QED BY <3>1, <4>1 DEF ServerMoves
    <3>. QED BY <3>1, <3>2 DEF ServerMoves
  <2>. QED BY <1>5, <2>1, <2>2, <2>3 DEF Object
<1>6. CASE Number
  <2>1. CASE Take /\ peeked' = Digit /\ Goto("number")
    <3>1. Shape' /\ Takes("number", "number", peeked')
      BY <1>0, <1>6, <2>1, Names, TakeMoves DEF Number
    <3>. QED BY <2>1, <3>1 DEF ServerMoves
  <2>2. CASE Peek /\ peeked' # Digit /\ Goto("parsed")
    <3>1. Shape' /\ (Sees("number", "parsed", {peeked'}) \/ Ends("number", "parsed"))
      BY <1>0, <1>6, <2>2, PeekMoves DEF Number
    <3>2. CASE Sees("number", "parsed", {peeked'})
      <4>1. Sees("number", "parsed", Byte \ {Digit})
        BY <1>1, <2>2, <3>1, <3>2 DEF Sees, Reads
      <4>. QED BY <3>1, <4>1 DEF ServerMoves
    <3>. QED BY <3>1, <3>2 DEF ServerMoves
  <2>. QED BY <1>6, <2>1, <2>2 DEF Number
<1>. QED BY <1>2, <1>3, <1>4, <1>5, <1>6

(* The rest of the server: opening, returning, and the reply. *)
LEMMA OpenMoves ==
  ASSUME ~ ReadErrors, Shape, OpenRead \/ OpenWrite PROVE Shape' /\ ServerMoves
<1>1. ASSUME Construct, NEW p \in Inside, p # "flush", Goto(p), NEW q, phase = q, q \notin Inside
      PROVE  /\ Shape' /\ Moves(q, p, 0)
             /\ Position + 1 <= nread' \/ (hungup /\ Position = Len(sent))
  <2>1. /\ Shape' /\ Position' = Position
        /\ rsize' > 0 \/ (hungup /\ nread' = Len(sent))
    BY <1>1, ConstructShape
  <2>2. Keeps /\ UNCHANGED <<lost, written>> /\ phase' = p
    BY <1>1 DEF Construct, peerVars, writeVars, Goto, clientVars, Keeps
  <2>3. rsize' \in Nat /\ Position' = nread' - rsize' /\ nread' \in Int /\ Position \in Int
    BY <2>1, BufSizeAssumption DEF Shape, TypeOK, Position
  <2>4. Position = nread' - rsize'
    BY <2>1, <2>3, Zenon
  <2>5. Moves(q, p, 0)
    BY <1>1, <2>1, <2>2, <2>3 DEF Moves
  <2>6. CASE rsize' > 0
    <3>1. Position + 1 <= nread'
      BY <2>3, <2>4, <2>6, Ring, Zenon
    <3>. QED BY <2>1, <2>3, <2>5, <3>1
  <2>7. CASE rsize' = 0
    <3>1. Position = nread'
      BY <2>3, <2>4, <2>7, Ring, Zenon
    <3>2. hungup /\ nread' = Len(sent)
      BY <2>1, <2>7
    <3>. QED BY <2>1, <2>5, <3>1, <3>2, Zenon
  <2>. QED BY <2>3, <2>6, <2>7
<1>2. CASE OpenRead
  <2>1. "blanks" \in Inside /\ "idle" \notin Inside
    BY DEF Inside
  <2>2. Shape' /\ Moves("idle", "blanks", 0)
    BY <1>1, <1>2, <2>1 DEF OpenRead
  <2>. QED BY <2>2 DEF ServerMoves
<1>3. CASE OpenWrite
  <2>1. "put" \in Inside /\ "answer" \notin Inside /\ phase = "answer" /\ Goto("put")
    BY <1>3 DEF Inside, OpenWrite
  <2>2. CASE client.socket /\ Construct
    <3>1. /\ Shape' /\ Moves("answer", "put", 0)
          /\ Position + 1 <= nread' \/ (hungup /\ Position = Len(sent))
      BY <1>1, <2>1, <2>2
    <3>. QED BY <3>1 DEF ServerMoves
  <2>3. CASE ~ client.socket /\ opened' = TRUE /\ UNCHANGED <<peerVars, readVars, writeVars>>
    <3>1. Shape' /\ Position' = Position
      BY <2>1, <2>3, OpenDryShape
    <3>2. Keeps /\ UNCHANGED <<lost, written>> /\ phase' = "put" /\ Position \in Nat
      BY <2>1, <2>3 DEF peerVars, writeVars, Goto, clientVars, Keeps, Shape
    <3>3. Moves("answer", "put", 0)
      BY <2>1, <3>1, <3>2 DEF Moves
    <3>. QED BY <2>3, <3>1, <3>3 DEF ServerMoves
  <2>. QED BY <1>3, <2>2, <2>3 DEF OpenWrite
<1>. QED BY <1>2, <1>3

LEMMA ReplyMoves ==
  ASSUME Shape, ReturnRead \/ PutReply \/ FlushReply \/ ReturnWrite
  PROVE  Shape' /\ ServerMoves
<1>0. {"answer", "stopped", "idle"} \cap Inside = {}
  BY DEF Inside
<1>1. CASE ReturnRead
  <2>1. CASE phase = "parsed" /\ Destroy /\ phase' = "answer"
    BY <1>0, <2>1, DropMoves DEF ServerMoves
  <2>2. CASE phase = "eof" /\ Destroy /\ phase' = "stopped"
    BY <1>0, <2>2, DropMoves DEF ServerMoves
  <2>. QED BY <1>1, <2>1, <2>2 DEF ReturnRead
<1>2. CASE ReturnWrite
  BY <1>0, <1>2, DropMoves DEF ReturnWrite, ServerMoves
<1>3. CASE PutReply
  <2>1. Shape' /\ Position' = Position /\ UNCHANGED <<nread, written>> /\ Position \in Nat
    BY <1>3, PutShape DEF Shape
  <2>2. Keeps /\ UNCHANGED lost /\ phase = "put" /\ phase' = "flush"
    BY <1>3 DEF PutReply, Put, peerVars, Goto, clientVars, Keeps
  <2>3. Moves("put", "flush", 0)
    BY <2>1, <2>2 DEF Moves
  <2>. QED BY <2>1, <2>3 DEF ServerMoves
<1>4. CASE FlushReply
  <2>1. Shape' /\ Position' = Position /\ UNCHANGED nread /\ nreplies' <= nreplies + 1
    BY <1>4, FlushShape
  <2>2. Keeps /\ UNCHANGED lost /\ phase = "flush" /\ phase' = "close"
    BY <1>4 DEF FlushReply, Flush, peerVars, Goto, clientVars, Keeps
  <2>. QED BY <2>1, <2>2 DEF ServerMoves
<1>. QED BY <1>1, <1>2, <1>3, <1>4

LEMMA ServerStep == ASSUME ~ ReadErrors, Shape, Server PROVE Shape' /\ ServerMoves
  BY ReadMoves, OpenMoves, ReplyMoves DEF Server

LEMMA ClientStep ==
  ASSUME Shape, Client \/ UNCHANGED sessionVars PROVE Shape'
  BY BeginShape, SendShape, LeaveShape, StutterShape DEF Client

(* A client changes nothing of the server's. *)
LEMMA ClientKeeps ==
  ASSUME Shape, Client \/ UNCHANGED sessionVars
  PROVE  /\ UNCHANGED <<nread, rsize, phase, lost, written, client>>
         /\ hungup => hungup'
<1>1. CASE \E r \in client.requests : Begin(r)
  BY <1>1 DEF Begin, vars, peerVars, readVars, writeVars
<1>2. CASE SendNext
  BY <1>2 DEF SendNext, Send, readVars, writeVars
<1>3. CASE Leave
  BY <1>3 DEF Leave, HangUp, readVars, writeVars, clientVars
<1>4. CASE UNCHANGED sessionVars
  BY <1>4 DEF sessionVars, vars, peerVars, readVars, writeVars, clientVars
<1>. QED BY <1>1, <1>2, <1>3, <1>4 DEF Client

-----------------------------------------------------------------------------
(* On a socket a reply is only begun when the constructor of its stream has
   read something, and what it read is lost when the stream is destroyed. *)
CostInv ==
  client.socket /\ ~ hungup =>
    /\ phase \in {"put", "flush", "close"} => Position + 1 <= nread
    /\ phase # "close" => nreplies <= Len(lost)
    /\ phase = "close" => nreplies <= Len(lost) + 1

LEMMA NextReply == \A n, m, l \in Nat : m <= n + 1 /\ n <= l => m <= l + 1
  OBVIOUS

LEMMA CostInit == ASSUME SessionInit PROVE CostInv
<1>1. phase = "idle" /\ written = <<>> /\ lost = <<>>
  BY DEF SessionInit, Init
<1>. QED BY <1>1 DEF CostInv, nreplies

LEMMA CostStep ==
  ASSUME ~ ReadErrors, Shape, CostInv, [SessionNext]_sessionVars PROVE CostInv'
<1>1. CASE Client \/ UNCHANGED sessionVars
  <2>1. UNCHANGED <<nread, rsize, phase, lost, written, client>> /\ (hungup => hungup')
    BY <1>1, ClientKeeps
  <2>2. Position' = Position
    BY <2>1 DEF Position
  <2>. QED BY <2>1, <2>2 DEF CostInv, nreplies
<1>2. CASE Server
  <2>1. ServerMoves
    BY <1>2, ServerStep
  <2>2. /\ Position \in Nat /\ nread \in Nat /\ rsize \in Nat /\ nread = Position + rsize
        /\ nreplies \in Nat /\ Len(lost) \in Nat
    BY Counts
  <2> SUFFICES ASSUME client.socket, ~ hungup, UNCHANGED <<client, hungup>> PROVE CostInv'
    BY <2>1 DEF ServerMoves, CostInv, Takes, Sees, Ends, Moves, Drops, Keeps
  <2>3. ASSUME NEW p, NEW q, NEW n, Moves(p, q, n), p \notin {"flush", "close"},
               q \notin {"put", "flush", "close"}
        PROVE  CostInv'
    BY <2>3 DEF Moves, CostInv, nreplies
  <2>4. CASE Moves("answer", "put", 0)
             /\ (client.socket => Position + 1 <= nread' \/ (hungup /\ Position = Len(sent)))
    BY <2>2, <2>4 DEF Moves, CostInv, nreplies
  <2>5. CASE Moves("put", "flush", 0) /\ UNCHANGED nread
    BY <2>2, <2>5 DEF Moves, CostInv, nreplies
  <2>6. CASE phase = "flush" /\ phase' = "close" /\ Position' = Position
             /\ UNCHANGED <<lost, nread>> /\ nreplies' <= nreplies + 1
    <3>1. nreplies <= Len(lost) /\ Position + 1 <= nread
      BY <2>6 DEF CostInv
    <3>2. nreplies' \in Nat
      BY <1>2, ServerStep DEF Shape, TypeOK, nreplies
    <3>3. nreplies' <= Len(lost) + 1
      BY <2>2, <2>6, <3>1, <3>2, NextReply, Zenon
    <3>. QED BY <2>6, <3>1, <3>3 DEF CostInv
  <2>7. CASE \E q \in {"answer", "stopped"}, p \in {"parsed", "eof"} : Drops(p, q)
    BY <2>2, <2>7 DEF Drops, CostInv, nreplies
  <2>8. CASE Drops("close", "idle")
    BY <2>2, <2>8 DEF Drops, CostInv, nreplies
  <2>. QED
    BY <2>1, <2>3, <2>4, <2>5, <2>6, <2>7, <2>8 DEF ServerMoves, Takes, Sees, Ends
<1>. QED BY <1>1, <1>2 DEF SessionNext

LEMMA SessionShape == ASSUME ~ ReadErrors PROVE SessionSpec => []Shape
<1>1. Shape /\ [SessionNext]_sessionVars => Shape'
  BY ServerStep, ClientStep DEF SessionNext
<1>. QED BY <1>1, ShapeInit, PTL DEF SessionSpec

(* Until it hangs up, every reply has cost a client on a socket at least one
   byte of its input, for any requests and any buffer. *)
THEOREM RepliesCost == ASSUME ~ ReadErrors PROVE SessionSpec => []ReplyCostsInput
<1>1. Shape /\ CostInv => ReplyCostsInput
  <2> SUFFICES ASSUME Shape, CostInv PROVE ReplyCostsInput
    OBVIOUS
  <2>1. /\ Position \in Nat /\ nread \in Nat /\ rsize \in Nat /\ nread = Position + rsize
        /\ nreplies \in Nat /\ Len(lost) \in Nat
    BY Counts
  <2>. QED BY <2>1 DEF CostInv, ReplyCostsInput
<1>2. Shape /\ CostInv /\ [SessionNext]_sessionVars => CostInv'
  BY CostStep
<1>. QED BY <1>1, <1>2, CostInit, SessionShape, PTL DEF SessionSpec

-----------------------------------------------------------------------------
(* Where a position is in a stream T of requests that begin at the places ss.
   These definitions and lemmas are about sequences alone. *)

Blank(T, a, b)  == \A j \in a .. b : T[j] = Space
StartsAt(ss, n) == \E i \in 1 .. Len(ss) : ss[i] = n

(* Behind p come only blanks up to the end or to the beginning of a request. *)
Between(T, ss, p) ==
  \E e \in p .. Len(T) : Blank(T, p + 1, e) /\ (e = Len(T) \/ StartsAt(ss, e + 1))

(* Behind p come the rest of an object, the rest of a number, a document. *)
InObject(T, ss, p) ==
  \E m \in p + 1 .. Len(T) :
    T[m] = RBrace /\ Blank(T, p + 1, m - 1) /\ Between(T, ss, m)
InNumber(T, ss, p) ==
  \E m \in p + 1 .. Len(T) :
    T[m] = Space /\ (\A j \in p + 1 .. m - 1 : T[j] = Digit) /\ Between(T, ss, m)
Document(T, ss, p) ==
  \E m \in p + 1 .. Len(T) :
    /\ Blank(T, p + 1, m - 1)
    /\ \/ T[m] = LBrace /\ InObject(T, ss, m)
       \/ T[m] = Digit /\ InNumber(T, ss, m)

(* ... the first document of a request of which only blanks are behind. *)
AtDocument(T, ss, p) ==
  /\ \E i \in 1 .. Len(ss) : ss[i] <= p + 1 /\ Blank(T, ss[i], p)
  /\ Document(T, ss, p)

Requests(T, ss) ==
  \A i \in 1 .. Len(ss) : ss[i] \in 1 .. Len(T) /\ Document(T, ss, ss[i] - 1)

Done(T, p)     == Blank(T, p + 1, Len(T))
Begun(ss, p)   == \A i \in 1 .. Len(ss) : ss[i] <= p
Earlier(ss, p) == \A i \in 1 .. Len(ss) : i # Len(ss) => ss[i] <= p

(* One byte ahead. *)

LEMMA BlankNext ==
  ASSUME NEW T \in Seq(Byte), NEW ss, Requests(T, ss), NEW p \in Nat,
         p + 1 <= Len(T), T[p + 1] = Space
  PROVE  /\ Document(T, ss, p) => Document(T, ss, p + 1)
         /\ AtDocument(T, ss, p) => AtDocument(T, ss, p + 1)
         /\ Between(T, ss, p) =>
              \/ Between(T, ss, p + 1)
              \/ StartsAt(ss, p + 1) /\ AtDocument(T, ss, p + 1)
<1>1. Len(T) \in Nat
  OBVIOUS
<1>2. ASSUME Document(T, ss, p) PROVE Document(T, ss, p + 1)
  <2>1. PICK m \in p + 1 .. Len(T) :
          /\ Blank(T, p + 1, m - 1)
          /\ \/ T[m] = LBrace /\ InObject(T, ss, m)
             \/ T[m] = Digit /\ InNumber(T, ss, m)
    BY <1>2 DEF Document
  <2>2. m # p + 1
    BY <2>1, ByteNames
  <2>3. m \in (p + 1) + 1 .. Len(T) /\ Blank(T, (p + 1) + 1, m - 1)
    BY <1>1, <2>1, <2>2 DEF Blank
  <2>. QED BY <2>1, <2>3 DEF Document
<1>3. ASSUME NEW i \in 1 .. Len(ss), ss[i] <= p + 1, ss[i] \in Nat, Blank(T, ss[i], p)
      PROVE  ss[i] <= (p + 1) + 1 /\ Blank(T, ss[i], p + 1)
  <2>1. ss[i] <= (p + 1) + 1
    BY <1>3
  <2>2. ASSUME NEW j \in ss[i] .. p + 1 PROVE T[j] = Space
    BY <1>3, <2>2 DEF Blank
  <2>. QED BY <2>1, <2>2 DEF Blank
<1>4. ASSUME AtDocument(T, ss, p) PROVE AtDocument(T, ss, p + 1)
  <2>1. PICK i \in 1 .. Len(ss) : ss[i] <= p + 1 /\ Blank(T, ss[i], p)
    BY <1>4 DEF AtDocument
  <2>2. ss[i] \in Nat
    BY <1>1 DEF Requests
  <2>. QED BY <1>2, <1>3, <1>4, <2>1, <2>2 DEF AtDocument
<1>5. ASSUME Between(T, ss, p), ~ Between(T, ss, p + 1)
      PROVE  StartsAt(ss, p + 1) /\ AtDocument(T, ss, p + 1)
  <2>1. PICK e \in p .. Len(T) : Blank(T, p + 1, e) /\ (e = Len(T) \/ StartsAt(ss, e + 1))
    BY <1>5 DEF Between
  <2>2. e = p
    <3> SUFFICES ASSUME e # p PROVE FALSE
      OBVIOUS
    <3>1. e \in p + 1 .. Len(T) /\ Blank(T, (p + 1) + 1, e)
      BY <1>1 , <2>1 DEF Blank
    <3>. QED BY <1>5, <2>1, <3>1 DEF Between
  <2>3. StartsAt(ss, p + 1)
    BY <1>1, <2>1, <2>2
  <2>4. PICK i \in 1 .. Len(ss) : ss[i] = p + 1
    BY <2>3 DEF StartsAt
  <2>5. Document(T, ss, p)
    BY <2>4 DEF Requests
  <2>6. AtDocument(T, ss, p)
    BY <2>4, <2>5 DEF AtDocument, Blank
  <2>. QED BY <1>4, <2>3, <2>6
<1>. QED BY <1>2, <1>4, <1>5

LEMMA DocumentNext ==
  ASSUME NEW T \in Seq(Byte), NEW ss, Requests(T, ss), NEW p \in Nat,
         p + 1 <= Len(T), T[p + 1] # Space
  PROVE  /\ Between(T, ss, p) => StartsAt(ss, p + 1) /\ AtDocument(T, ss, p)
         /\ Document(T, ss, p) =>
              \/ T[p + 1] = LBrace /\ InObject(T, ss, p + 1)
              \/ T[p + 1] = Digit /\ InNumber(T, ss, p + 1)
<1>1. Len(T) \in Nat
  OBVIOUS
<1>2. ASSUME Between(T, ss, p) PROVE StartsAt(ss, p + 1) /\ AtDocument(T, ss, p)
  <2>1. PICK e \in p .. Len(T) : Blank(T, p + 1, e) /\ (e = Len(T) \/ StartsAt(ss, e + 1))
    BY <1>2 DEF Between
  <2>2. e = p
    BY <1>1, <2>1 DEF Blank
  <2>3. StartsAt(ss, p + 1)
    BY <1>1, <2>1, <2>2
  <2>4. PICK i \in 1 .. Len(ss) : ss[i] = p + 1
    BY <2>3 DEF StartsAt
  <2>5. Document(T, ss, p)
    BY <2>4 DEF Requests
  <2>. QED BY <2>3, <2>4, <2>5 DEF AtDocument, Blank
<1>3. ASSUME Document(T, ss, p)
      PROVE  \/ T[p + 1] = LBrace /\ InObject(T, ss, p + 1)
             \/ T[p + 1] = Digit /\ InNumber(T, ss, p + 1)
  <2>1. PICK m \in p + 1 .. Len(T) :
          /\ Blank(T, p + 1, m - 1)
          /\ \/ T[m] = LBrace /\ InObject(T, ss, m)
             \/ T[m] = Digit /\ InNumber(T, ss, m)
    BY <1>3 DEF Document
  <2>2. m = p + 1
    BY <1>1, <2>1 DEF Blank
  <2>. QED BY <2>1, <2>2
<1>. QED BY <1>2, <1>3

LEMMA ObjectNext ==
  ASSUME NEW T \in Seq(Byte), NEW ss, NEW p \in Nat, InObject(T, ss, p)
  PROVE  /\ p + 1 <= Len(T)
         /\ \/ T[p + 1] = Space /\ InObject(T, ss, p + 1)
            \/ T[p + 1] = RBrace /\ Between(T, ss, p + 1)
<1>1. PICK m \in p + 1 .. Len(T) :
        T[m] = RBrace /\ Blank(T, p + 1, m - 1) /\ Between(T, ss, m)
  BY DEF InObject
<1>2. CASE m = p + 1
  BY <1>1, <1>2
<1>3. CASE m # p + 1
  <2>1. m \in (p + 1) + 1 .. Len(T) /\ T[p + 1] = Space /\ Blank(T, (p + 1) + 1, m - 1)
    BY <1>1, <1>3 DEF Blank
  <2>. QED BY <1>1, <2>1 DEF InObject
<1>. QED BY <1>2, <1>3

LEMMA NumberNext ==
  ASSUME NEW T \in Seq(Byte), NEW ss, NEW p \in Nat, InNumber(T, ss, p)
  PROVE  /\ p + 1 <= Len(T)
         /\ \/ T[p + 1] = Digit /\ InNumber(T, ss, p + 1)
            \/ T[p + 1] = Space /\ Between(T, ss, p)
<1>1. PICK m \in p + 1 .. Len(T) :
        T[m] = Space /\ (\A j \in p + 1 .. m - 1 : T[j] = Digit) /\ Between(T, ss, m)
  BY DEF InNumber
<1>2. CASE m = p + 1
  <2>1. PICK e \in m .. Len(T) : Blank(T, m + 1, e) /\ (e = Len(T) \/ StartsAt(ss, e + 1))
    BY <1>1 DEF Between
  <2>2. e \in p .. Len(T) /\ Blank(T, p + 1, e)
    BY <1>1, <1>2, <2>1 DEF Blank
  <2>3. Between(T, ss, p)
    BY <2>1, <2>2 DEF Between
  <2>. QED BY <1>1, <1>2, <2>3
<1>3. CASE m # p + 1
  <2>1. /\ m \in (p + 1) + 1 .. Len(T) /\ T[p + 1] = Digit
        /\ \A j \in (p + 1) + 1 .. m - 1 : T[j] = Digit
    BY <1>1, <1>3
  <2>. QED BY <1>1, <2>1 DEF InNumber
<1>. QED BY <1>2, <1>3

(* Requests that have all begun and blanks to the end. *)
LEMMA DoneFacts ==
  ASSUME NEW T \in Seq(Byte), NEW ss, NEW p \in Nat, p <= Len(T)
  PROVE  /\ Between(T, ss, p) /\ Begun(ss, p) => Done(T, p)
         /\ Done(T, p) => Between(T, ss, p) /\ ~ Document(T, ss, p)
         /\ \A q \in p .. Len(T) : Done(T, p) => Done(T, q) /\ Blank(T, p + 1, q)
<1>1. Len(T) \in Nat
  OBVIOUS
<1>2. ASSUME Between(T, ss, p), Begun(ss, p) PROVE Done(T, p)
  <2>1. PICK e \in p .. Len(T) : Blank(T, p + 1, e) /\ (e = Len(T) \/ StartsAt(ss, e + 1))
    BY <1>2 DEF Between
  <2>2. ~ StartsAt(ss, e + 1)
    BY <1>1, <1>2, <2>1 DEF StartsAt, Begun
  <2>. QED BY <2>1, <2>2 DEF Done
<1>3. ASSUME Done(T, p) PROVE Between(T, ss, p) /\ ~ Document(T, ss, p)
  <2>1. Between(T, ss, p)
    BY <1>1, <1>3 DEF Done, Between
  <2>2. ASSUME NEW m \in p + 1 .. Len(T) PROVE T[m] # LBrace /\ T[m] # Digit
    BY <1>3, ByteNames DEF Done, Blank
  <2>. QED BY <2>1, <2>2 DEF Document
<1>4. ASSUME NEW q \in p .. Len(T), Done(T, p) PROVE Done(T, q) /\ Blank(T, p + 1, q)
  BY <1>1, <1>4 DEF Done, Blank
<1>. QED BY <1>2, <1>3, <1>4

LEMMA LastBegins ==
  ASSUME NEW ss \in Seq(Nat \ {0}), NEW p \in Nat, Earlier(ss, p), StartsAt(ss, p + 1)
  PROVE  Begun(ss, p + 1)
<1>1. PICK i \in 1 .. Len(ss) : ss[i] = p + 1
  BY DEF StartsAt
<1>2. i = Len(ss)
  BY <1>1 DEF Earlier
<1>3. ASSUME NEW j \in 1 .. Len(ss) PROVE ss[j] <= p + 1
  <2>1. ss[j] \in Nat
    OBVIOUS
  <2>. QED BY <1>1, <1>2, <2>1 DEF Earlier
<1>. QED BY <1>3 DEF Begun

(* The stream (U, vv) is (T, ss) with a request behind it. *)
Extends(T, ss, U, vv) ==
  /\ Len(T) <= Len(U)
  /\ \A j \in 1 .. Len(T) : U[j] = T[j]
  /\ \A n \in Nat : StartsAt(ss, n) => StartsAt(vv, n)
  /\ StartsAt(vv, Len(T) + 1)

LEMMA BetweenExtended ==
  ASSUME NEW T \in Seq(Byte), NEW ss, NEW U \in Seq(Byte), NEW vv, Extends(T, ss, U, vv),
         NEW p \in Nat, Between(T, ss, p)
  PROVE  Between(U, vv, p)
<1>1. PICK e \in p .. Len(T) : Blank(T, p + 1, e) /\ (e = Len(T) \/ StartsAt(ss, e + 1))
  BY DEF Between
<1>2. Len(T) \in Nat /\ Len(U) \in Nat /\ e \in p .. Len(U) /\ e + 1 \in Nat
  BY <1>1 DEF Extends
<1>3. Blank(U, p + 1, e)
  BY <1>1, <1>2 DEF Blank, Extends
<1>4. StartsAt(vv, e + 1)
  BY <1>1, <1>2 DEF Extends
<1>. QED BY <1>2, <1>3, <1>4 DEF Between

LEMMA ObjectExtended ==
  ASSUME NEW T \in Seq(Byte), NEW ss, NEW U \in Seq(Byte), NEW vv, Extends(T, ss, U, vv),
         NEW p \in Nat, InObject(T, ss, p)
  PROVE  InObject(U, vv, p)
<1>1. PICK m \in p + 1 .. Len(T) :
        T[m] = RBrace /\ Blank(T, p + 1, m - 1) /\ Between(T, ss, m)
  BY DEF InObject
<1>2. Between(U, vv, m) /\ Len(T) \in Nat /\ Len(U) \in Nat
  BY <1>1, BetweenExtended
<1>3. m \in p + 1 .. Len(U) /\ U[m] = RBrace /\ Blank(U, p + 1, m - 1)
  BY <1>1, <1>2 DEF Blank, Extends
<1>. QED BY <1>2, <1>3 DEF InObject

LEMMA NumberExtended ==
  ASSUME NEW T \in Seq(Byte), NEW ss, NEW U \in Seq(Byte), NEW vv, Extends(T, ss, U, vv),
         NEW p \in Nat, InNumber(T, ss, p)
  PROVE  InNumber(U, vv, p)
<1>1. PICK m \in p + 1 .. Len(T) :
        T[m] = Space /\ (\A j \in p + 1 .. m - 1 : T[j] = Digit) /\ Between(T, ss, m)
  BY DEF InNumber
<1>2. Between(U, vv, m) /\ Len(T) \in Nat /\ Len(U) \in Nat
  BY <1>1, BetweenExtended
<1>3. m \in p + 1 .. Len(U) /\ U[m] = Space /\ \A j \in p + 1 .. m - 1 : U[j] = Digit
  BY <1>1, <1>2 DEF Extends
<1>. QED BY <1>2, <1>3 DEF InNumber

LEMMA DocumentExtended ==
  ASSUME NEW T \in Seq(Byte), NEW ss, NEW U \in Seq(Byte), NEW vv, Extends(T, ss, U, vv),
         NEW p \in Nat, Document(T, ss, p)
  PROVE  Document(U, vv, p)
<1>1. PICK m \in p + 1 .. Len(T) :
        /\ Blank(T, p + 1, m - 1)
        /\ \/ T[m] = LBrace /\ InObject(T, ss, m)
           \/ T[m] = Digit /\ InNumber(T, ss, m)
  BY DEF Document
<1>2. Len(T) \in Nat /\ Len(U) \in Nat /\ m \in Nat
  OBVIOUS
<1>3. m \in p + 1 .. Len(U) /\ U[m] = T[m] /\ Blank(U, p + 1, m - 1)
  BY <1>1, <1>2 DEF Blank, Extends
<1>4. (InObject(T, ss, m) => InObject(U, vv, m)) /\ (InNumber(T, ss, m) => InNumber(U, vv, m))
  BY <1>2, ObjectExtended, NumberExtended
<1>. QED BY <1>1, <1>3, <1>4 DEF Document

(* A request that is one document is that document behind any stream. *)
LEMMA NewDocument ==
  ASSUME NEW T \in Seq(Byte), NEW r \in Seq(Byte), OneDocument(r), NEW vv
  PROVE  Len(r) >= 1 /\ Document(T \o r, vv, Len(T))
<1> DEFINE U == T \o r
<1> DEFINE l == Len(T)
<1>1. /\ U \in Seq(Byte) /\ Len(U) = l + Len(r) /\ l \in Nat /\ Len(r) \in Nat
      /\ \A j \in 1 .. Len(r) : U[l + j] = r[j]
  OBVIOUS
<1>2. PICK m \in 1 .. Len(r) :
        /\ \A j \in 1 .. m - 1 : r[j] = Space
        /\ \E n \in m + 1 .. Len(r) :
             \/ /\ r[m] = LBrace /\ r[n] = RBrace
                /\ \A j \in m + 1 .. Len(r) : j # n => r[j] = Space
             \/ /\ r[m] = Digit
                /\ \A j \in m + 1 .. n - 1 : r[j] = Digit
                /\ \A j \in n .. Len(r) : r[j] = Space
  BY DEF OneDocument
<1>3. PICK n \in m + 1 .. Len(r) :
        \/ /\ r[m] = LBrace /\ r[n] = RBrace
           /\ \A j \in m + 1 .. Len(r) : j # n => r[j] = Space
        \/ /\ r[m] = Digit
           /\ \A j \in m + 1 .. n - 1 : r[j] = Digit
           /\ \A j \in n .. Len(r) : r[j] = Space
  BY <1>2
<1> HIDE DEF U, l
<1>4. ASSUME NEW j \in l + 1 .. l + Len(r) PROVE j - l \in 1 .. Len(r) /\ U[j] = r[j - l]
  <2>1. j - l \in 1 .. Len(r) /\ l + (j - l) = j
    BY <1>1
  <2>. QED BY <1>1, <2>1
<1>5. /\ l + m \in l + 1 .. Len(U) /\ U[l + m] = r[m]
      /\ l + n \in (l + m) + 1 .. Len(U) /\ U[l + n] = r[n]
      /\ m \in Nat /\ n \in Nat
  BY <1>1
<1>6. Blank(U, l + 1, (l + m) - 1)
  <2>1. ASSUME NEW j \in l + 1 .. (l + m) - 1 PROVE U[j] = Space
    <3>1. j \in l + 1 .. l + Len(r) /\ j - l \in 1 .. m - 1
      BY <1>1, <1>5
    <3>. QED BY <1>2, <1>4, <3>1
  <2>. QED BY <2>1 DEF Blank
<1>7. ASSUME \A j \in n + 1 .. Len(r) : r[j] = Space PROVE Between(U, vv, l + n)
  <2>1. Blank(U, (l + n) + 1, Len(U))
    <3>1. ASSUME NEW j \in (l + n) + 1 .. Len(U) PROVE U[j] = Space
      <4>1. j \in l + 1 .. l + Len(r) /\ j - l \in n + 1 .. Len(r)
        BY <1>1, <1>5
      <4>. QED BY <1>4, <1>7, <4>1
    <3>. QED BY <3>1 DEF Blank
  <2>. QED BY <1>1, <1>5, <2>1 DEF Between
<1>8. ASSUME r[m] = LBrace, r[n] = RBrace,
             \A j \in m + 1 .. Len(r) : j # n => r[j] = Space
      PROVE  Document(U, vv, l)
  <2>1. Blank(U, (l + m) + 1, (l + n) - 1)
    <3>1. ASSUME NEW j \in (l + m) + 1 .. (l + n) - 1 PROVE U[j] = Space
      <4>1. j \in l + 1 .. l + Len(r) /\ j - l \in m + 1 .. Len(r) /\ j - l # n
        BY <1>1, <1>5
      <4>. QED BY <1>4, <1>8, <4>1
    <3>. QED BY <3>1 DEF Blank
  <2>2. Between(U, vv, l + n)
    <3>1. ASSUME NEW j \in n + 1 .. Len(r) PROVE r[j] = Space
      <4>1. j \in m + 1 .. Len(r) /\ j # n
        <5>1. m \in Nat /\ n \in Nat /\ m + 1 <= n /\ Len(r) \in Nat
          BY <1>1, <1>5
        <5>. QED BY <5>1
      <4>. QED BY <1>8, <4>1
    <3>. QED BY <1>7, <3>1
  <2>3. InObject(U, vv, l + m)
    BY <1>5, <1>8, <2>1, <2>2 DEF InObject
  <2>4. U[l + m] = LBrace /\ l + m \in l + 1 .. Len(U)
    BY <1>5, <1>8
  <2>. QED BY <1>6, <2>3, <2>4 DEF Document
<1>9. ASSUME r[m] = Digit, \A j \in m + 1 .. n - 1 : r[j] = Digit,
             \A j \in n .. Len(r) : r[j] = Space
      PROVE  Document(U, vv, l)
  <2>1. \A j \in (l + m) + 1 .. (l + n) - 1 : U[j] = Digit
    <3>1. ASSUME NEW j \in (l + m) + 1 .. (l + n) - 1 PROVE U[j] = Digit
      <4>1. j \in l + 1 .. l + Len(r) /\ j - l \in m + 1 .. n - 1
        BY <1>1, <1>5
      <4>. QED BY <1>4, <1>9, <4>1
    <3>. QED BY <3>1
  <2>2. Between(U, vv, l + n) /\ r[n] = Space
    BY <1>1, <1>7, <1>9
  <2>3. InNumber(U, vv, l + m)
    BY <1>5, <1>9, <2>1, <2>2 DEF InNumber
  <2>4. U[l + m] = Digit
    BY <1>5, <1>9
  <2>. QED BY <1>5, <1>6, <2>3, <2>4 DEF Document
<1>10. Document(U, vv, l) /\ Len(r) >= 1
  <2>1. Len(r) >= 1
    BY <1>1
  <2>. QED BY <1>3, <1>8, <1>9, <2>1
<1>. QED BY <1>10 DEF U, l

LEMMA RequestExtends ==
  ASSUME NEW T \in Seq(Byte), NEW r \in Seq(Byte), OneDocument(r),
         NEW ss \in Seq(Nat \ {0}), Requests(T, ss)
  PROVE  /\ Extends(T, ss, T \o r, Append(ss, Len(T) + 1))
         /\ Requests(T \o r, Append(ss, Len(T) + 1))
<1> DEFINE U == T \o r
<1> DEFINE vv == Append(ss, Len(T) + 1)
<1>1. /\ U \in Seq(Byte) /\ Len(U) = Len(T) + Len(r) /\ Len(T) \in Nat /\ Len(r) \in Nat
      /\ \A j \in 1 .. Len(T) : U[j] = T[j]
  OBVIOUS
<1>2. /\ vv \in Seq(Nat \ {0}) /\ Len(vv) = Len(ss) + 1 /\ vv[Len(ss) + 1] = Len(T) + 1
      /\ \A i \in 1 .. Len(ss) : vv[i] = ss[i]
      /\ Len(ss) \in Nat
  OBVIOUS
<1>3. Len(r) >= 1 /\ Document(U, vv, Len(T))
  BY NewDocument
<1> HIDE DEF U, vv
<1>4. Extends(T, ss, U, vv)
  <2>1. StartsAt(vv, Len(T) + 1)
    BY <1>2 DEF StartsAt
  <2>2. ASSUME NEW n \in Nat, StartsAt(ss, n) PROVE StartsAt(vv, n)
    <3>1. PICK i \in 1 .. Len(ss) : ss[i] = n
      BY <2>2 DEF StartsAt
    <3>2. i \in 1 .. Len(vv) /\ vv[i] = n
      BY <1>2, <3>1
    <3>. QED BY <3>2 DEF StartsAt
  <2>. QED BY <1>1, <2>1, <2>2 DEF Extends
<1>5. ASSUME NEW i \in 1 .. Len(vv) PROVE vv[i] \in 1 .. Len(U) /\ Document(U, vv, vv[i] - 1)
  <2>1. CASE i = Len(ss) + 1
    BY <1>1, <1>2, <1>3, <2>1
  <2>2. CASE i # Len(ss) + 1
    <3>1. i \in 1 .. Len(ss) /\ vv[i] = ss[i]
      BY <1>2, <2>2
    <3>2. ss[i] \in 1 .. Len(T) /\ Document(T, ss, ss[i] - 1)
      BY <3>1 DEF Requests
    <3>3. ss[i] - 1 \in Nat
      BY <1>1, <3>2
    <3>4. Document(U, vv, ss[i] - 1)
      BY <1>1, <1>4, <3>2, <3>3, DocumentExtended
    <3>. QED BY <1>1, <3>1, <3>2, <3>4
  <2>. QED BY <2>1, <2>2
<1>. QED BY <1>4, <1>5 DEF Requests, U, vv

-----------------------------------------------------------------------------
(* Where the server is in the stream, by its phase.  At the end the client
   has hung up (h). *)

At(T, p, B) == p + 1 <= Len(T) /\ T[p + 1] \in B

SyncAt(ph, T, ss, p, h) ==
  /\ ph \in {"idle", "blanks", "begin", "value"} => Between(T, ss, p) \/ AtDocument(T, ss, p)
  /\ ph = "begin"  => At(T, p, Byte \ {Space}) \/ (h /\ p = Len(T))
  /\ ph = "value"  => At(T, p, Byte \ {Space})
  /\ ph = "object" => InObject(T, ss, p)
  /\ ph = "number" => InNumber(T, ss, p)
  /\ ph \in {"parsed", "answer", "put", "flush", "close"} => Between(T, ss, p)
  /\ ph = "eof" => h /\ p = Len(T)

(* For a client that waits: no request is ahead of the one that is read, and
   a is the number of replies. *)
Waiting(T, ss, p) ==
  \/ Between(T, ss, p) /\ Earlier(ss, p)
  \/ AtDocument(T, ss, p) /\ Begun(ss, p + 1)

WaitAt(ph, T, ss, p, n, a) ==
  /\ a <= Len(ss)
  /\ a = Len(ss) => Done(T, p) /\ Begun(ss, p)
  /\ ph \in {"idle", "blanks", "begin", "value"} => Waiting(T, ss, p)
  /\ ph \in {"object", "number", "parsed", "answer", "put", "flush"} => Begun(ss, p)
  /\ ph \in {"value", "object", "number", "parsed", "answer", "put", "flush"} => a + 1 <= Len(ss)
  /\ ph \in {"parsed", "answer", "put", "flush"} => Done(T, p)
  /\ ph = "close" => Blank(T, p + 1, n) /\ Between(T, ss, n) /\ Earlier(ss, p)

LEMMA SyncRead ==
  ASSUME NEW T \in Seq(Byte), NEW ss, Requests(T, ss), NEW p \in Nat, p <= Len(T), NEW h
  PROVE  /\ SyncAt("blanks", T, ss, p, h) =>
              /\ At(T, p, {Space}) => SyncAt("blanks", T, ss, p + 1, h)
              /\ At(T, p, Byte \ {Space}) \/ (h /\ p = Len(T)) => SyncAt("begin", T, ss, p, h)
         /\ SyncAt("begin", T, ss, p, h) =>
              /\ At(T, p, Byte \ {NUL}) => SyncAt("value", T, ss, p, h)
              /\ ~ At(T, p, {NUL})
         /\ SyncAt("value", T, ss, p, h) =>
              /\ AtDocument(T, ss, p) /\ p # Len(T) /\ ~ At(T, p, Byte \ {LBrace, Digit})
              /\ At(T, p, {LBrace}) => SyncAt("object", T, ss, p + 1, h)
              /\ At(T, p, {Digit}) => SyncAt("number", T, ss, p + 1, h)
         /\ SyncAt("object", T, ss, p, h) =>
              /\ p # Len(T) /\ ~ At(T, p, Byte \ {Space, RBrace})
              /\ At(T, p, {Space}) => SyncAt("object", T, ss, p + 1, h)
              /\ At(T, p, {RBrace}) => SyncAt("parsed", T, ss, p + 1, h)
         /\ SyncAt("number", T, ss, p, h) =>
              /\ p # Len(T)
              /\ At(T, p, {Digit}) => SyncAt("number", T, ss, p + 1, h)
              /\ At(T, p, Byte \ {Digit}) => SyncAt("parsed", T, ss, p, h)
<1>0. Len(T) \in Nat
  OBVIOUS
<1>1. ASSUME SyncAt("blanks", T, ss, p, h), At(T, p, {Space})
      PROVE  SyncAt("blanks", T, ss, p + 1, h)
  BY <1>1, BlankNext DEF SyncAt, At
<1>2. ASSUME SyncAt("blanks", T, ss, p, h), At(T, p, Byte \ {Space}) \/ (h /\ p = Len(T))
      PROVE  SyncAt("begin", T, ss, p, h)
  BY <1>2 DEF SyncAt
<1>3. ASSUME Between(T, ss, p) \/ AtDocument(T, ss, p), At(T, p, Byte \ {Space})
      PROVE  /\ AtDocument(T, ss, p)
             /\ \/ T[p + 1] = LBrace /\ InObject(T, ss, p + 1)
                \/ T[p + 1] = Digit /\ InNumber(T, ss, p + 1)
  <2>1. p + 1 <= Len(T) /\ T[p + 1] # Space
    BY <1>3 DEF At
  <2>2. AtDocument(T, ss, p)
    BY <1>3, <2>1, DocumentNext
  <2>. QED BY <2>1, <2>2, DocumentNext DEF AtDocument
<1>4. ASSUME SyncAt("begin", T, ss, p, h), At(T, p, Byte \ {NUL})
      PROVE  SyncAt("value", T, ss, p, h)
  BY <1>0, <1>4 DEF SyncAt, At
<1>5. ASSUME SyncAt("begin", T, ss, p, h) PROVE ~ At(T, p, {NUL})
  <2> SUFFICES ASSUME At(T, p, {NUL}) PROVE FALSE
    OBVIOUS
  <2>1. At(T, p, Byte \ {Space}) /\ T[p + 1] = NUL
    BY Names DEF At
  <2>2. Between(T, ss, p) \/ AtDocument(T, ss, p)
    BY <1>5 DEF SyncAt
  <2>. QED BY <1>3, <2>1, <2>2, Names
<1>6. ASSUME SyncAt("value", T, ss, p, h)
      PROVE  /\ AtDocument(T, ss, p) /\ p # Len(T) /\ ~ At(T, p, Byte \ {LBrace, Digit})
             /\ At(T, p, {LBrace}) => SyncAt("object", T, ss, p + 1, h)
             /\ At(T, p, {Digit}) => SyncAt("number", T, ss, p + 1, h)
  <2>1. /\ AtDocument(T, ss, p) /\ At(T, p, Byte \ {Space})
        /\ \/ T[p + 1] = LBrace /\ InObject(T, ss, p + 1)
           \/ T[p + 1] = Digit /\ InNumber(T, ss, p + 1)
    BY <1>3, <1>6 DEF SyncAt
  <2>. QED BY <1>0, <2>1, ByteNames DEF SyncAt, At
<1>7. ASSUME SyncAt("object", T, ss, p, h)
      PROVE  /\ p # Len(T) /\ ~ At(T, p, Byte \ {Space, RBrace})
             /\ At(T, p, {Space}) => SyncAt("object", T, ss, p + 1, h)
             /\ At(T, p, {RBrace}) => SyncAt("parsed", T, ss, p + 1, h)
  <2>1. /\ p + 1 <= Len(T)
        /\ \/ T[p + 1] = Space /\ InObject(T, ss, p + 1)
           \/ T[p + 1] = RBrace /\ Between(T, ss, p + 1)
    BY <1>7, ObjectNext DEF SyncAt
  <2>. QED BY <1>0, <2>1, ByteNames DEF SyncAt, At
<1>8. ASSUME SyncAt("number", T, ss, p, h)
      PROVE  /\ p # Len(T)
             /\ At(T, p, {Digit}) => SyncAt("number", T, ss, p + 1, h)
             /\ At(T, p, Byte \ {Digit}) => SyncAt("parsed", T, ss, p, h)
  <2>1. /\ p + 1 <= Len(T)
        /\ \/ T[p + 1] = Digit /\ InNumber(T, ss, p + 1)
           \/ T[p + 1] = Space /\ Between(T, ss, p)
    BY <1>8, NumberNext DEF SyncAt
  <2>. QED BY <1>0, <2>1, ByteNames DEF SyncAt, At
<1>. QED BY <1>1, <1>2, <1>4, <1>5, <1>6, <1>7, <1>8

LEMMA Further ==
  ASSUME NEW T \in Seq(Byte), NEW ss \in Seq(Nat \ {0}),
         NEW p \in Nat, NEW q \in Nat, p <= q, q <= Len(T)
  PROVE  /\ Done(T, p) => Done(T, q) /\ Blank(T, p + 1, q)
         /\ Begun(ss, p) => Begun(ss, q) /\ Earlier(ss, q) /\ Earlier(ss, p)
         /\ Earlier(ss, p) => Earlier(ss, q)
<1>1. q \in p .. Len(T)
  OBVIOUS
<1>2. \A i \in 1 .. Len(ss) : ss[i] \in Nat
  OBVIOUS
<1>3. \A i \in 1 .. Len(ss) : ss[i] <= p => ss[i] <= q
  BY <1>2
<1>4. Done(T, p) => Done(T, q) /\ Blank(T, p + 1, q)
  <2>1. \A j \in p + 1 .. q : j \in p + 1 .. Len(T)
    BY <1>1
  <2>2. \A j \in q + 1 .. Len(T) : j \in p + 1 .. Len(T)
    BY <1>1
  <2>. QED BY <2>1, <2>2 DEF Done, Blank
<1>5. Begun(ss, p) => Begun(ss, q) /\ Earlier(ss, q) /\ Earlier(ss, p)
  BY <1>3 DEF Begun, Earlier
<1>6. Earlier(ss, p) => Earlier(ss, q)
  BY <1>3 DEF Earlier
<1>. QED BY <1>4, <1>5, <1>6

LEMMA WaitRead ==
  ASSUME NEW T \in Seq(Byte), NEW ss \in Seq(Nat \ {0}), Requests(T, ss),
         NEW p \in Nat, p <= Len(T), NEW n, NEW m, NEW h, NEW a \in Nat
  PROVE  /\ WaitAt("idle", T, ss, p, n, a) => WaitAt("blanks", T, ss, p, m, a)
         /\ WaitAt("blanks", T, ss, p, n, a) =>
              /\ At(T, p, {Space}) => WaitAt("blanks", T, ss, p + 1, m, a)
              /\ WaitAt("begin", T, ss, p, m, a)
         /\ WaitAt("begin", T, ss, p, n, a) =>
              /\ SyncAt("value", T, ss, p, h) => WaitAt("value", T, ss, p, m, a)
              /\ WaitAt("eof", T, ss, p, m, a)
         /\ WaitAt("value", T, ss, p, n, a) /\ SyncAt("value", T, ss, p, h) =>
              WaitAt("object", T, ss, p + 1, m, a) /\ WaitAt("number", T, ss, p + 1, m, a)
         /\ WaitAt("object", T, ss, p, n, a) /\ p + 1 <= Len(T) =>
              /\ WaitAt("object", T, ss, p + 1, m, a)
              /\ SyncAt("parsed", T, ss, p + 1, h) => WaitAt("parsed", T, ss, p + 1, m, a)
         /\ WaitAt("number", T, ss, p, n, a) =>
              /\ p + 1 <= Len(T) => WaitAt("number", T, ss, p + 1, m, a)
              /\ SyncAt("parsed", T, ss, p, h) => WaitAt("parsed", T, ss, p, m, a)
<1>0. Len(T) \in Nat /\ Len(ss) \in Nat /\ p + 1 \in Nat
  OBVIOUS
<1>1. p + 1 <= Len(T) =>
        /\ Done(T, p) => Done(T, p + 1)
        /\ Begun(ss, p) => Begun(ss, p + 1)
        /\ Earlier(ss, p) => Earlier(ss, p + 1)
  BY <1>0, Further
<1>2. WaitAt("idle", T, ss, p, n, a) => WaitAt("blanks", T, ss, p, m, a)
  BY DEF WaitAt
<1>3. ASSUME WaitAt("blanks", T, ss, p, n, a), At(T, p, {Space})
      PROVE  WaitAt("blanks", T, ss, p + 1, m, a)
  <2>1. p + 1 <= Len(T) /\ T[p + 1] = Space /\ Waiting(T, ss, p)
    BY <1>3 DEF At, WaitAt
  <2>2. ASSUME Between(T, ss, p), Earlier(ss, p) PROVE Waiting(T, ss, p + 1)
    <3>1. CASE Between(T, ss, p + 1)
      BY <1>1, <2>1, <2>2, <3>1 DEF Waiting
    <3>2. CASE StartsAt(ss, p + 1) /\ AtDocument(T, ss, p + 1)
      <4>1. Begun(ss, p + 1)
        BY <2>2, <3>2, LastBegins
      <4>2. Begun(ss, (p + 1) + 1)
        <5>1. \A i \in 1 .. Len(ss) : ss[i] \in Nat
          OBVIOUS
        <5>. QED BY <4>1, <5>1 DEF Begun
      <4>. QED BY <3>2, <4>2 DEF Waiting
    <3>. QED BY <2>1, <2>2, <3>1, <3>2, BlankNext
  <2>3. ASSUME AtDocument(T, ss, p), Begun(ss, p + 1) PROVE Waiting(T, ss, p + 1)
    <3>1. AtDocument(T, ss, p + 1)
      BY <2>1, <2>3, BlankNext
    <3>2. Begun(ss, (p + 1) + 1)
      <4>1. \A i \in 1 .. Len(ss) : ss[i] \in Nat
        OBVIOUS
      <4>. QED BY <2>3, <4>1 DEF Begun
    <3>. QED BY <3>1, <3>2 DEF Waiting
  <2>4. Waiting(T, ss, p + 1)
    BY <2>1, <2>2, <2>3 DEF Waiting
  <2>. QED BY <1>1, <1>3, <2>1, <2>4 DEF WaitAt
<1>4. WaitAt("blanks", T, ss, p, n, a) => WaitAt("begin", T, ss, p, m, a)
  BY DEF WaitAt
<1>5. ASSUME WaitAt("begin", T, ss, p, n, a), SyncAt("value", T, ss, p, h)
      PROVE  WaitAt("value", T, ss, p, m, a)
  <2>1. p + 1 <= Len(T) /\ T[p + 1] # Space
    BY <1>5 DEF SyncAt, At
  <2>2. ~ Done(T, p)
    BY <1>0, <2>1 DEF Done, Blank
  <2>3. a + 1 <= Len(ss)
    BY <1>0, <1>5, <2>2 DEF WaitAt
  <2>. QED BY <1>5, <2>3 DEF WaitAt
<1>6. WaitAt("begin", T, ss, p, n, a) => WaitAt("eof", T, ss, p, m, a)
  BY DEF WaitAt
<1>7. ASSUME WaitAt("value", T, ss, p, n, a), SyncAt("value", T, ss, p, h)
      PROVE  WaitAt("object", T, ss, p + 1, m, a) /\ WaitAt("number", T, ss, p + 1, m, a)
  <2>1. p + 1 <= Len(T) /\ T[p + 1] # Space /\ Waiting(T, ss, p)
    BY <1>7 DEF SyncAt, At, WaitAt
  <2>2. Begun(ss, p + 1)
    <3>1. ASSUME Between(T, ss, p), Earlier(ss, p) PROVE Begun(ss, p + 1)
      BY <2>1, <3>1, DocumentNext, LastBegins
    <3>. QED BY <2>1, <3>1 DEF Waiting
  <2>. QED BY <1>0, <1>7, <2>2 DEF WaitAt
<1>8. ASSUME WaitAt("object", T, ss, p, n, a), p + 1 <= Len(T)
      PROVE  /\ WaitAt("object", T, ss, p + 1, m, a)
             /\ SyncAt("parsed", T, ss, p + 1, h) => WaitAt("parsed", T, ss, p + 1, m, a)
  <2>1. Begun(ss, p + 1) /\ a + 1 <= Len(ss) /\ a # Len(ss)
    BY <1>0, <1>1, <1>8 DEF WaitAt
  <2>2. SyncAt("parsed", T, ss, p + 1, h) => Done(T, p + 1)
    BY <1>0, <1>8, <2>1, DoneFacts DEF SyncAt
  <2>. QED BY <1>8, <2>1, <2>2 DEF WaitAt
<1>9. ASSUME WaitAt("number", T, ss, p, n, a)
      PROVE  /\ p + 1 <= Len(T) => WaitAt("number", T, ss, p + 1, m, a)
             /\ SyncAt("parsed", T, ss, p, h) => WaitAt("parsed", T, ss, p, m, a)
  <2>1. Begun(ss, p) /\ a + 1 <= Len(ss) /\ a # Len(ss)
    BY <1>0, <1>9 DEF WaitAt
  <2>2. SyncAt("parsed", T, ss, p, h) => Done(T, p)
    BY <1>0, <2>1, DoneFacts DEF SyncAt
  <2>. QED BY <1>1, <1>9, <2>1, <2>2 DEF WaitAt
<1>. QED BY <1>2, <1>3, <1>4, <1>5, <1>6, <1>7, <1>8, <1>9

(* From the end of a document to the next call, with n bytes read. *)
LEMMA WaitAnswer ==
  ASSUME NEW T \in Seq(Byte), NEW ss \in Seq(Nat \ {0}),
         NEW p \in Nat, NEW n \in Nat, p <= n, n <= Len(T), NEW m, NEW a \in Nat
  PROVE  /\ WaitAt("parsed", T, ss, p, n, a) =>
              /\ WaitAt("answer", T, ss, n, n, a)
              /\ Blank(T, p + 1, n) /\ Between(T, ss, n)
         /\ WaitAt("answer", T, ss, p, n, a) => WaitAt("put", T, ss, p, m, a)
         /\ WaitAt("put", T, ss, p, n, a) => WaitAt("flush", T, ss, p, m, a)
         /\ WaitAt("flush", T, ss, p, n, a) =>
              \A b \in Nat : b <= a + 1 => WaitAt("close", T, ss, p, n, b)
         /\ WaitAt("close", T, ss, p, n, a) =>
              /\ WaitAt("idle", T, ss, n, n, a)
              /\ Blank(T, p + 1, n) /\ Between(T, ss, n)
         /\ WaitAt("eof", T, ss, p, n, a) => WaitAt("stopped", T, ss, p, m, a)
<1>0. Len(T) \in Nat /\ Len(ss) \in Nat
  OBVIOUS
<1>1. /\ Done(T, p) => Done(T, n) /\ Blank(T, p + 1, n)
      /\ Begun(ss, p) => Begun(ss, n) /\ Earlier(ss, n) /\ Earlier(ss, p)
      /\ Earlier(ss, p) => Earlier(ss, n)
      /\ Done(T, n) => Between(T, ss, n)
  BY Further, DoneFacts
<1>2. ASSUME WaitAt("parsed", T, ss, p, n, a)
      PROVE  WaitAt("answer", T, ss, n, n, a) /\ Blank(T, p + 1, n) /\ Between(T, ss, n)
  <2>1. Done(T, p) /\ Begun(ss, p) /\ a + 1 <= Len(ss)
    BY <1>2 DEF WaitAt
  <2>. QED BY <1>0, <1>1, <2>1 DEF WaitAt
<1>3. WaitAt("answer", T, ss, p, n, a) => WaitAt("put", T, ss, p, m, a)
  BY DEF WaitAt
<1>4. WaitAt("put", T, ss, p, n, a) => WaitAt("flush", T, ss, p, m, a)
  BY DEF WaitAt
<1>5. ASSUME WaitAt("flush", T, ss, p, n, a), NEW b \in Nat, b <= a + 1
      PROVE  WaitAt("close", T, ss, p, n, b)
  <2>1. Done(T, p) /\ Begun(ss, p) /\ b <= Len(ss)
    BY <1>0, <1>5 DEF WaitAt
  <2>. QED BY <1>1, <2>1 DEF WaitAt
<1>6. ASSUME WaitAt("close", T, ss, p, n, a)
      PROVE  WaitAt("idle", T, ss, n, n, a) /\ Blank(T, p + 1, n) /\ Between(T, ss, n)
  BY <1>1, <1>6 DEF WaitAt, Waiting
<1>7. WaitAt("eof", T, ss, p, n, a) => WaitAt("stopped", T, ss, p, m, a)
  BY DEF WaitAt
<1>. QED BY <1>2, <1>3, <1>4, <1>5, <1>6, <1>7

LEMMA AtDocumentExtended ==
  ASSUME NEW T \in Seq(Byte), NEW ss, Requests(T, ss), NEW U \in Seq(Byte), NEW vv,
         Extends(T, ss, U, vv), NEW p \in Nat, AtDocument(T, ss, p)
  PROVE  AtDocument(U, vv, p)
<1>1. PICK i \in 1 .. Len(ss) : ss[i] <= p + 1 /\ Blank(T, ss[i], p)
  BY DEF AtDocument
<1>2. ss[i] \in 1 .. Len(T) /\ Len(T) \in Nat
  BY DEF Requests
<1>3. p + 1 <= Len(T)
  BY <1>2 DEF AtDocument, Document
<1>4. PICK j \in 1 .. Len(vv) : vv[j] = ss[i]
  <2>1. StartsAt(ss, ss[i]) /\ ss[i] \in Nat
    BY <1>2 DEF StartsAt
  <2>2. StartsAt(vv, ss[i])
    BY <2>1 DEF Extends
  <2>. QED BY <2>2 DEF StartsAt
<1>5. Blank(U, ss[i], p)
  <2>1. \A l \in ss[i] .. p : l \in 1 .. Len(T)
    BY <1>2, <1>3
  <2>. QED BY <1>1, <2>1 DEF Blank, Extends
<1>6. Document(U, vv, p)
  BY DocumentExtended DEF AtDocument
<1>. QED BY <1>1, <1>4, <1>5, <1>6 DEF AtDocument

(* A new request, of a client whose last one is answered if it waits. *)
LEMMA SyncBegin ==
  ASSUME NEW T \in Seq(Byte), NEW ss, Requests(T, ss), NEW U \in Seq(Byte), NEW vv,
         Extends(T, ss, U, vv), NEW p \in Nat, NEW ph, SyncAt(ph, T, ss, p, FALSE)
  PROVE  SyncAt(ph, U, vv, p, FALSE)
<1>0. Len(T) \in Nat /\ Len(U) \in Nat
  OBVIOUS
<1>1. /\ Between(T, ss, p) => Between(U, vv, p)
      /\ InObject(T, ss, p) => InObject(U, vv, p)
      /\ InNumber(T, ss, p) => InNumber(U, vv, p)
  BY BetweenExtended, ObjectExtended, NumberExtended
<1>2. At(T, p, Byte \ {Space}) => At(U, p, Byte \ {Space})
  BY <1>0 DEF At, Extends
<1>3. ASSUME AtDocument(T, ss, p) PROVE AtDocument(U, vv, p)
  BY <1>3, AtDocumentExtended
<1>. QED BY <1>1, <1>2, <1>3 DEF SyncAt

LEMMA WaitBegin ==
  ASSUME NEW T \in Seq(Byte), NEW ss \in Seq(Nat \ {0}), NEW s \in Nat \ {0},
         NEW U \in Seq(Byte), Extends(T, ss, U, Append(ss, s)),
         NEW p \in Nat, NEW n \in Nat, p <= n, n <= Len(T),
         NEW ph, WaitAt(ph, T, ss, p, n, Len(ss))
  PROVE  WaitAt(ph, U, Append(ss, s), p, n, Len(ss))
<1>1. PICK vv \in Seq(Nat \ {0}) : vv = Append(ss, s)
  <2>1. Append(ss, s) \in Seq(Nat \ {0})
    BY AppendProperties, Zenon
  <2>. QED BY <2>1
<1>2. /\ Len(vv) = Len(ss) + 1 /\ Len(ss) \in Nat /\ Len(T) \in Nat /\ Len(U) \in Nat
      /\ \A i \in 1 .. Len(ss) : vv[i] = ss[i]
  BY <1>1
<1>3. Done(T, p) /\ Begun(ss, p) /\ ~ (Len(ss) + 1 <= Len(ss))
  BY <1>2 DEF WaitAt
<1>4. Earlier(vv, p)
  <2>1. ASSUME NEW i \in 1 .. Len(vv), i # Len(vv) PROVE vv[i] <= p
    <3>1. i \in 1 .. Len(ss)
      BY <1>2, <2>1
    <3>. QED BY <1>2, <1>3, <3>1 DEF Begun
  <2>. QED BY <2>1 DEF Earlier
<1>5. /\ Between(T, ss, p) => Between(U, vv, p)
      /\ Between(T, ss, n) => Between(U, vv, n)
  BY <1>1, BetweenExtended
<1>6. Waiting(T, ss, p) => Waiting(U, vv, p)
  <2>1. ~ Document(T, ss, p)
    BY <1>2, <1>3, DoneFacts
  <2>. QED BY <1>4, <1>5, <2>1 DEF Waiting, AtDocument
<1>7. Blank(T, p + 1, n) => Blank(U, p + 1, n)
  <2>1. \A j \in p + 1 .. n : j \in 1 .. Len(T)
    BY <1>2
  <2>. QED BY <2>1 DEF Blank, Extends
<1>8. Len(ss) <= Len(vv) /\ Len(ss) # Len(vv)
  BY <1>2
<1>9. WaitAt(ph, U, vv, p, n, Len(ss))
  BY <1>3, <1>4, <1>5, <1>6, <1>7, <1>8 DEF WaitAt
<1>. QED BY <1>1, <1>9

-----------------------------------------------------------------------------
(* The invariants of a session.  The stream is what the client has sent and
   what it has begun to send. *)

Stream == sent \o outbox

DocInv == Requests(Stream, starts)

SyncInv ==
  client.waits \/ lost = <<>> => SyncAt(phase, Stream, starts, Position, hungup)

WaitInv ==
  client.waits =>
    /\ \A i \in 1 .. Len(lost) : lost[i] = Space
    /\ WaitAt(phase, Stream, starts, Position, nread, nreplies)

LEMMA StreamFacts ==
  ASSUME Shape
  PROVE  /\ Stream \in Seq(Byte) /\ starts \in Seq(Nat \ {0})
         /\ Position \in Nat /\ nread \in Nat /\ nreplies \in Nat /\ rsize \in Nat
         /\ nread = Position + rsize /\ Position <= nread /\ nread <= Len(sent)
         /\ Len(sent) <= Len(Stream) /\ Len(Stream) \in Nat /\ Len(sent) \in Nat
         /\ \A j \in 1 .. Len(sent) : Stream[j] = sent[j]
         /\ outbox = <<>> => Len(Stream) = Len(sent) /\ Stream = sent
         /\ hungup => outbox = <<>>
<1>1. /\ sent \in Seq(Byte) /\ outbox \in Seq(Byte) /\ starts \in Seq(Nat \ {0})
      /\ Position \in Nat /\ (hungup => outbox = <<>>) /\ nreplies \in Nat
  BY DEF Shape, TypeOK, nreplies
<1>2. nread \in Nat /\ rsize \in Nat /\ nread = Position + rsize /\ nread <= Len(sent)
  BY BufSizeAssumption DEF Shape, TypeOK, Holds
<1>3. /\ Stream \in Seq(Byte) /\ Len(Stream) = Len(sent) + Len(outbox)
      /\ \A j \in 1 .. Len(sent) : Stream[j] = sent[j]
  BY <1>1 DEF Stream
<1>4. Len(sent) \in Nat /\ Len(outbox) \in Nat
  BY <1>1
<1>5. outbox = <<>> => Stream = sent /\ Len(outbox) = 0
  BY <1>1 DEF Stream
<1>. QED BY <1>1, <1>2, <1>3, <1>4, <1>5

LEMMA InvInit == ASSUME SessionInit PROVE DocInv /\ SyncInv /\ WaitInv
<1>1. /\ phase = "idle" /\ starts = <<>> /\ lost = <<>> /\ written = <<>> /\ nread = 0
      /\ sent = <<>> /\ outbox = <<>> /\ rsize = 0
  BY DEF SessionInit, Init, StreamInit
<1>2. Stream = <<>> /\ Position = 0 /\ Len(Stream) = 0 /\ Len(starts) = 0 /\ Len(lost) = 0 /\ nreplies = 0
  BY <1>1 DEF Stream, Position, nreplies
<1>3. Between(Stream, starts, Position) /\ Earlier(starts, Position) /\ Done(Stream, Position)
      /\ Begun(starts, Position)
  BY <1>2 DEF Between, Blank, Earlier, Begun, Done
<1>4. DocInv
  BY <1>2 DEF DocInv, Requests
<1>5. SyncInv
  BY <1>1, <1>3 DEF SyncInv, SyncAt
<1>6. WaitInv
  BY <1>1, <1>2, <1>3 DEF WaitInv, WaitAt, Waiting
<1>. QED BY <1>4, <1>5, <1>6

(* A client that sends or leaves changes neither stream nor requests. *)
LEMMA StreamKept ==
  ASSUME Shape, SendNext \/ Leave \/ UNCHANGED sessionVars
  PROVE  Stream' = Stream /\ UNCHANGED starts
<1>1. CASE SendNext
  <2>1. /\ sent \in Seq(Byte) /\ outbox \in Seq(Byte) /\ outbox # <<>>
        /\ sent' = Append(sent, Head(outbox)) /\ outbox' = Tail(outbox) /\ UNCHANGED starts
    BY <1>1 DEF Shape, TypeOK, SendNext, Send
  <2>2. Append(sent, Head(outbox)) \o Tail(outbox) = sent \o outbox
    <3>1. Head(outbox) \in Byte /\ Tail(outbox) \in Seq(Byte) /\ Len(Tail(outbox)) = Len(outbox) - 1
          /\ Len(outbox) >= 1 /\ Head(outbox) = outbox[1]
          /\ \A i \in 1 .. Len(outbox) - 1 : Tail(outbox)[i] = outbox[i + 1]
      BY <2>1
    <3>. QED BY <2>1, <3>1
  <2>. QED BY <2>1, <2>2 DEF Stream
<1>2. CASE Leave
  BY <1>2 DEF Leave, HangUp, clientVars, Stream
<1>3. CASE UNCHANGED sessionVars
  BY <1>3 DEF sessionVars, vars, peerVars, clientVars, Stream
<1>. QED BY <1>1, <1>2, <1>3

LEMMA InvKept ==
  ASSUME Shape, DocInv, SyncInv, WaitInv, SendNext \/ Leave \/ UNCHANGED sessionVars
  PROVE  DocInv' /\ SyncInv' /\ WaitInv'
<1>1. Stream' = Stream /\ UNCHANGED starts
  BY StreamKept
<1>2. UNCHANGED <<nread, rsize, phase, lost, written, client>> /\ (hungup => hungup')
  BY ClientKeeps DEF Client
<1>3. Position' = Position /\ nreplies' = nreplies
  BY <1>2 DEF Position, nreplies
<1>4. DocInv'
  BY <1>1 DEF DocInv
<1>5. WaitInv'
  BY <1>1, <1>2, <1>3 DEF WaitInv
<1>6. SyncInv'
  BY <1>1, <1>2, <1>3 DEF SyncInv, SyncAt
<1>. QED BY <1>4, <1>5, <1>6

LEMMA InvBegin ==
  ASSUME Documents, Shape, DocInv, SyncInv, WaitInv, NEW r \in client.requests, Begin(r)
  PROVE  DocInv' /\ SyncInv' /\ WaitInv'
<1>1. /\ r \in Seq(Byte) /\ OneDocument(r)
      /\ outbox = <<>> /\ ~ hungup /\ outbox' = r /\ starts' = Append(starts, Len(sent) + 1)
      /\ UNCHANGED <<sent, hungup, nread, rsize, phase, lost, written, client>>
      /\ client.waits => nreplies = Len(starts)
  BY ClientType DEF Shape, Begin, Documents, vars, peerVars, readVars, writeVars
<1>2. PICK T \in Seq(Byte), ss \in Seq(Nat \ {0}), p \in Nat, n \in Nat :
        /\ T = Stream /\ T = sent /\ ss = starts /\ p = Position /\ n = nread
        /\ p <= n /\ n <= Len(T)
  BY <1>1, StreamFacts
<1>3. /\ Stream' = T \o r /\ starts' = Append(ss, Len(T) + 1) /\ Position' = p
      /\ nreplies' = nreplies /\ nread' = n
  BY <1>1, <1>2 DEF Stream, Position, nreplies
<1>4. /\ Extends(T, ss, T \o r, Append(ss, Len(T) + 1))
      /\ Requests(T \o r, Append(ss, Len(T) + 1))
      /\ T \o r \in Seq(Byte) /\ Len(T) + 1 \in Nat \ {0}
      /\ Requests(T, ss)
  <2>1. Requests(T, ss)
    BY <1>2 DEF DocInv
  <2>2. T \o r \in Seq(Byte) /\ Len(T) + 1 \in Nat \ {0}
    BY <1>1
  <2>. QED BY <1>1, <2>1, <2>2, RequestExtends
<1>5. DocInv'
  BY <1>3, <1>4, Zenon DEF DocInv
<1>6. SyncInv'
  <2>1. SyncAt(phase, T, ss, p, hungup) => SyncAt(phase, T, ss, p, FALSE)
    BY <1>1 DEF SyncAt
  <2>2. SyncAt(phase, T, ss, p, FALSE) => SyncAt(phase, T \o r, Append(ss, Len(T) + 1), p, FALSE)
    BY <1>4, SyncBegin
  <2>3. SyncAt(phase, T \o r, Append(ss, Len(T) + 1), p, FALSE)
        => SyncAt(phase, T \o r, Append(ss, Len(T) + 1), p, hungup)
    BY DEF SyncAt
  <2>. QED BY <1>1, <1>2, <1>3, <2>1, <2>2, <2>3, Zenon DEF SyncInv
<1>7. WaitInv'
  <2> SUFFICES ASSUME client.waits PROVE WaitInv'
    BY <1>1 DEF WaitInv
  <2>1. WaitAt(phase, T, ss, p, n, Len(ss)) /\ \A i \in 1 .. Len(lost) : lost[i] = Space
    BY <1>1, <1>2, Zenon DEF WaitInv
  <2>2. WaitAt(phase, T \o r, Append(ss, Len(T) + 1), p, n, Len(ss))
    BY <1>2, <1>4, <2>1, WaitBegin
  <2>3. nreplies' = Len(ss)
    BY <1>1, <1>2, <1>3
  <2>. QED BY <1>1, <1>3, <2>1, <2>2, <2>3, Zenon DEF WaitInv
<1>. QED BY <1>5, <1>6, <1>7

(* What the server reads is in the stream, and at the end of input nothing is
   left of the stream. *)
LEMMA ReadsStream ==
  ASSUME Shape, Shape', Keeps
  PROVE  /\ \A B : Reads(B) => At(Stream, Position, B)
         /\ hungup /\ Position = Len(sent) => hungup /\ Position = Len(Stream)
         /\ Stream' = Stream /\ UNCHANGED <<starts, client, hungup>>
<1>1. UNCHANGED <<sent, outbox, hungup, client, starts>> /\ Stream' = Stream
  BY DEF Keeps, Stream
<1>2. ASSUME NEW B, Reads(B) PROVE At(Stream, Position, B)
  <2>1. nread' \in Nat /\ nread' <= Len(sent)
    BY <1>1 DEF Shape, TypeOK
  <2>2. PICK m \in Nat : m = nread' /\ m <= Len(sent) /\ Position + 1 <= m
    BY <1>2, <2>1 DEF Reads
  <2>3. Position + 1 \in 1 .. Len(sent) /\ Position + 1 <= Len(Stream)
    BY <2>2, StreamFacts
  <2>4. Stream[Position + 1] = sent[Position + 1]
    BY <2>3, StreamFacts
  <2>. QED BY <1>2, <2>3, <2>4 DEF At, Reads
<1>3. hungup /\ Position = Len(sent) => Position = Len(Stream)
  BY StreamFacts
<1>. QED BY <1>1, <1>2, <1>3

(* A move from phase f to phase g, d bytes ahead. *)
LEMMA InvMove ==
  ASSUME Shape, Shape', SyncInv, WaitInv, NEW f, NEW g, NEW d \in {0, 1}, Moves(f, g, d),
         SyncAt(f, Stream, starts, Position, hungup)
           => SyncAt(g, Stream, starts, Position + d, hungup),
         \A m \in Nat :
           SyncAt(f, Stream, starts, Position, hungup)
             /\ WaitAt(f, Stream, starts, Position, nread, nreplies)
             => WaitAt(g, Stream, starts, Position + d, m, nreplies)
  PROVE  SyncInv' /\ WaitInv'
<1>1. /\ phase = f /\ phase' = g /\ Position' = Position + d /\ Keeps
      /\ lost' = lost /\ nreplies' = nreplies
  BY DEF Moves, nreplies
<1>2. Stream' = Stream /\ UNCHANGED <<starts, client, hungup>> /\ nread' \in Nat
  <2>1. nread' \in Nat
    BY DEF Shape, TypeOK
  <2>. QED BY <1>1, <2>1, ReadsStream
<1>3. SyncInv'
  BY <1>1, <1>2, Zenon DEF SyncInv
<1>4. WaitInv'
  BY <1>1, <1>2, Zenon DEF SyncInv, WaitInv
<1>. QED BY <1>3, <1>4

LEMMA InvRead ==
  ASSUME ~ ReadErrors, Shape, DocInv, SyncInv, WaitInv,
         SkipBlanks \/ BeginValue \/ Value \/ Object \/ Number
  PROVE  SyncInv' /\ WaitInv'
<1> DEFINE T == Stream
<1> DEFINE p == Position
<1> DEFINE S(f, x) == SyncAt(f, Stream, starts, x, hungup)
<1> DEFINE W(f, x, m) == WaitAt(f, Stream, starts, x, m, nreplies)
<1>1. Shape' /\ ServerMoves
  BY ReadMoves
<1>2. /\ T \in Seq(Byte) /\ starts \in Seq(Nat \ {0}) /\ Requests(T, starts)
      /\ p \in Nat /\ p <= Len(T) /\ nreplies \in Nat
  BY StreamFacts DEF DocInv
<1>3. ASSUME NEW f, NEW g, NEW B, Sees(f, g, B)
      PROVE  Moves(f, g, 0) /\ At(T, p, B) /\ p + 0 = p
  BY <1>1, <1>2, <1>3, ReadsStream DEF Sees, Moves
<1>4. ASSUME NEW f, NEW g, NEW b, Takes(f, g, b)
      PROVE  Moves(f, g, 1) /\ At(T, p, {b}) /\ p + 1 <= Len(T)
  <2>1. Moves(f, g, 1) /\ At(T, p, {b})
    BY <1>1, <1>4, ReadsStream DEF Takes, Moves
  <2>. QED BY <2>1 DEF At
<1>5. ASSUME NEW f, NEW g, Ends(f, g)
      PROVE  Moves(f, g, 0) /\ hungup /\ p = Len(T) /\ p + 0 = p
  <2>1. Moves(f, g, 0) /\ hungup /\ p = Len(sent)
    BY <1>5 DEF Ends
  <2>2. Keeps
    BY <2>1 DEF Moves
  <2>. QED BY <1>1, <1>2, <2>1, <2>2, ReadsStream
<1>6. /\ S("blanks", p) =>
           /\ At(T, p, {Space}) => S("blanks", p + 1)
           /\ At(T, p, Byte \ {Space}) \/ (hungup /\ p = Len(T)) => S("begin", p)
      /\ S("begin", p) => /\ At(T, p, Byte \ {NUL}) => S("value", p)
                          /\ ~ At(T, p, {NUL})
      /\ S("value", p) => /\ p # Len(T) /\ ~ At(T, p, Byte \ {LBrace, Digit})
                          /\ At(T, p, {LBrace}) => S("object", p + 1)
                          /\ At(T, p, {Digit}) => S("number", p + 1)
      /\ S("object", p) => /\ p # Len(T) /\ ~ At(T, p, Byte \ {Space, RBrace})
                           /\ At(T, p, {Space}) => S("object", p + 1)
                           /\ At(T, p, {RBrace}) => S("parsed", p + 1)
      /\ S("number", p) => /\ p # Len(T)
                           /\ At(T, p, {Digit}) => S("number", p + 1)
                           /\ At(T, p, Byte \ {Digit}) => S("parsed", p)
  BY <1>2, SyncRead, Zenon
<1>7. hungup /\ p = Len(T) => S("eof", p)
  BY DEF SyncAt
<1>8. ASSUME NEW m \in Nat
      PROVE  /\ W("blanks", p, nread) =>
                  /\ At(T, p, {Space}) => W("blanks", p + 1, m)
                  /\ W("begin", p, m)
             /\ W("begin", p, nread) => /\ S("value", p) => W("value", p, m)
                                        /\ W("eof", p, m)
             /\ W("value", p, nread) /\ S("value", p) => W("object", p + 1, m) /\ W("number", p + 1, m)
             /\ W("object", p, nread) /\ p + 1 <= Len(T) =>
                  W("object", p + 1, m) /\ (S("parsed", p + 1) => W("parsed", p + 1, m))
             /\ W("number", p, nread) =>
                  /\ p + 1 <= Len(T) => W("number", p + 1, m)
                  /\ S("parsed", p) => W("parsed", p, m)
  BY <1>2, WaitRead, Zenon
<1>9. ASSUME NEW f, NEW g, NEW d \in {0, 1}, Moves(f, g, d),
             S(f, p) => S(g, p + d),
             \A m \in Nat : S(f, p) /\ W(f, p, nread) => W(g, p + d, m)
      PROVE  SyncInv' /\ WaitInv'
  BY <1>1, <1>9, InvMove
<1> HIDE DEF S, W, T, p
<1>10. CASE SkipBlanks
  <2>1. CASE Takes("blanks", "blanks", Space)
    BY <1>4, <1>6, <1>8, <1>9, <2>1
  <2>2. CASE Sees("blanks", "begin", Byte \ {Space})
    BY <1>3, <1>6, <1>8, <1>9, <2>2
  <2>3. CASE Ends("blanks", "begin")
    BY <1>5, <1>6, <1>8, <1>9, <2>3
  <2>. QED
    BY <1>1, <1>10, <2>1, <2>2, <2>3
    DEF SkipBlanks, ServerMoves, Takes, Sees, Ends, Moves, Drops
<1>11. CASE BeginValue
  <2>1. CASE Sees("begin", "value", Byte \ {NUL})
    BY <1>3, <1>6, <1>8, <1>9, <2>1
  <2>2. CASE Sees("begin", "eof", {NUL})
    BY <1>3, <1>6, <1>8, <1>9, <2>2
  <2>3. CASE Ends("begin", "eof")
    BY <1>5, <1>7, <1>8, <1>9, <2>3
  <2>. QED
    BY <1>1, <1>11, <2>1, <2>2, <2>3
    DEF BeginValue, ServerMoves, Takes, Sees, Ends, Moves, Drops
<1>12. CASE Value
  <2>1. CASE Takes("value", "object", LBrace)
    BY <1>4, <1>6, <1>8, <1>9, <2>1
  <2>2. CASE Takes("value", "number", Digit)
    BY <1>4, <1>6, <1>8, <1>9, <2>2
  <2>3. CASE Sees("value", "parsed", Byte \ {LBrace, Digit})
    BY <1>3, <1>6, <1>9, <2>3
  <2>4. CASE Ends("value", "parsed")
    BY <1>5, <1>6, <1>9, <2>4
  <2>. QED
    BY <1>1, <1>12, <2>1, <2>2, <2>3, <2>4
    DEF Value, ServerMoves, Takes, Sees, Ends, Moves, Drops
<1>13. CASE Object
  <2>1. CASE Takes("object", "object", Space)
    BY <1>4, <1>6, <1>8, <1>9, <2>1
  <2>2. CASE Takes("object", "parsed", RBrace)
    BY <1>4, <1>6, <1>8, <1>9, <2>2
  <2>3. CASE Sees("object", "parsed", Byte \ {Space, RBrace})
    BY <1>3, <1>6, <1>9, <2>3
  <2>4. CASE Ends("object", "parsed")
    BY <1>5, <1>6, <1>9, <2>4
  <2>. QED
    BY <1>1, <1>13, <2>1, <2>2, <2>3, <2>4
    DEF Object, ServerMoves, Takes, Sees, Ends, Moves, Drops
<1>14. CASE Number
  <2>1. CASE Takes("number", "number", Digit)
    BY <1>4, <1>6, <1>8, <1>9, <2>1
  <2>2. CASE Sees("number", "parsed", Byte \ {Digit})
    BY <1>3, <1>6, <1>8, <1>9, <2>2
  <2>3. CASE Ends("number", "parsed")
    BY <1>5, <1>6, <1>9, <2>3
  <2>. QED
    BY <1>1, <1>14, <2>1, <2>2, <2>3
    DEF Number, ServerMoves, Takes, Sees, Ends, Moves, Drops
<1>. QED BY <1>10, <1>11, <1>12, <1>13, <1>14

(* Opening a stream and replying leave the position; destroying a stream
   moves it over what was read ahead. *)
LEMMA InvReply ==
  ASSUME ~ ReadErrors, Shape, DocInv, SyncInv, WaitInv,
         OpenRead \/ OpenWrite \/ PutReply \/ FlushReply
  PROVE  SyncInv' /\ WaitInv'
<1> DEFINE S(f, x) == SyncAt(f, Stream, starts, x, hungup)
<1> DEFINE W(f, x, m, a) == WaitAt(f, Stream, starts, x, m, a)
<1>1. Shape' /\ ServerMoves
  BY OpenMoves, ReplyMoves
<1>2. /\ Stream \in Seq(Byte) /\ starts \in Seq(Nat \ {0}) /\ Requests(Stream, starts)
      /\ Position \in Nat /\ Position <= Len(Stream) /\ Position + 0 = Position
      /\ nread \in Nat /\ Position <= nread /\ nread <= Len(Stream) /\ nreplies \in Nat
  BY StreamFacts DEF DocInv
<1>3. /\ S("idle", Position) => S("blanks", Position)
      /\ S("answer", Position) => S("put", Position)
      /\ S("put", Position) => S("flush", Position)
      /\ S("flush", Position) => S("close", Position)
  BY DEF SyncAt
<1>4. ASSUME NEW m \in Nat
      PROVE  /\ W("idle", Position, nread, nreplies) => W("blanks", Position, m, nreplies)
             /\ W("answer", Position, nread, nreplies) => W("put", Position, m, nreplies)
             /\ W("put", Position, nread, nreplies) => W("flush", Position, m, nreplies)
  BY <1>2, WaitRead, WaitAnswer, Zenon
<1>5. ASSUME NEW f, NEW g, Moves(f, g, 0), S(f, Position) => S(g, Position),
             \A m \in Nat : W(f, Position, nread, nreplies) => W(g, Position, m, nreplies)
      PROVE  SyncInv' /\ WaitInv'
  BY <1>1, <1>2, <1>5, InvMove
<1> HIDE DEF S, W
<1>6. CASE OpenRead
  <2>1. Moves("idle", "blanks", 0)
    BY <1>1, <1>6 DEF OpenRead, ServerMoves, Takes, Sees, Ends, Moves, Drops
  <2>. QED BY <1>3, <1>4, <1>5, <2>1
<1>7. CASE OpenWrite
  <2>1. Moves("answer", "put", 0)
    BY <1>1, <1>7 DEF OpenWrite, ServerMoves, Takes, Sees, Ends, Moves, Drops
  <2>. QED BY <1>3, <1>4, <1>5, <2>1
<1>8. CASE PutReply
  <2>1. Moves("put", "flush", 0)
    BY <1>1, <1>8 DEF PutReply, ServerMoves, Takes, Sees, Ends, Moves, Drops
  <2>. QED BY <1>3, <1>4, <1>5, <2>1
<1>9. CASE FlushReply
  <2>1. /\ phase = "flush" /\ phase' = "close" /\ Position' = Position
        /\ Keeps /\ UNCHANGED <<lost, nread>> /\ nreplies' <= nreplies + 1
    BY <1>1, <1>9 DEF FlushReply, ServerMoves, Takes, Sees, Ends, Moves, Drops
  <2>2. Stream' = Stream /\ UNCHANGED <<starts, client, hungup>>
    BY <1>1, <2>1, ReadsStream
  <2>3. nreplies' \in Nat
    BY <1>1 DEF Shape, TypeOK, nreplies
  <2>4. W("flush", Position, nread, nreplies) => W("close", Position, nread, nreplies')
    BY <1>2, <2>1, <2>3, WaitAnswer, Zenon DEF W
  <2>5. SyncInv'
    BY <1>3, <2>1, <2>2, Zenon DEF SyncInv, S
  <2>6. WaitInv'
    BY <2>1, <2>2, <2>4, Zenon DEF WaitInv, W
  <2>. QED BY <2>5, <2>6
<1>. QED BY <1>6, <1>7, <1>8, <1>9

(* What a destroyed stream held lies between Position and nread. *)
LEMMA InvDrop ==
  ASSUME Shape, Shape', SyncInv, WaitInv, NEW f, NEW g, Drops(f, g),
         g \in {"answer", "idle", "stopped"},
         f \in {"parsed", "close", "eof"},
         SyncAt(f, Stream, starts, Position, hungup)
           => SyncAt(g, Stream, starts, Position, hungup),
         SyncAt(f, Stream, starts, Position, hungup)
           /\ WaitAt(f, Stream, starts, Position, nread, nreplies)
           => /\ WaitAt(g, Stream, starts, nread, nread, nreplies)
              /\ SyncAt(g, Stream, starts, nread, hungup)
              /\ Blank(Stream, Position + 1, nread)
  PROVE  SyncInv' /\ WaitInv'
<1>1. /\ phase = f /\ phase' = g /\ Position' = nread /\ nread' = nread /\ nreplies' = nreplies
      /\ lost' = lost \o Remains /\ Keeps
  BY DEF Drops, nreplies
<1>2. Stream' = Stream /\ UNCHANGED <<starts, client, hungup>>
  BY <1>1, ReadsStream
<1>3. /\ lost \in Seq(Byte) /\ Remains \in Seq(Byte) /\ Len(Remains) = rsize
      /\ \A i \in 1 .. rsize : /\ Remains[i] = Stream[Position + i]
                               /\ Position + i \in Position + 1 .. nread
  <2>1. PICK k \in Nat : k = Position
    BY DEF Shape
  <2>2. /\ Remains \in Seq(Byte) /\ Len(Remains) = rsize
        /\ \A i \in 1 .. rsize : Remains[i] = sent[k + i] /\ k + i \in 1 .. Len(sent)
    BY <2>1, RemainsSent DEF Shape
  <2>3. \A j \in 1 .. Len(sent) : Stream[j] = sent[j]
    BY StreamFacts
  <2>4. \A i \in 1 .. rsize : k + i \in k + 1 .. nread
    BY <2>1, StreamFacts
  <2>. QED BY <2>1, <2>2, <2>3, <2>4 DEF Shape
<1>4. WaitInv'
  <2> SUFFICES ASSUME client.waits PROVE WaitInv'
    BY <1>2 DEF WaitInv
  <2>1. /\ \A i \in 1 .. Len(lost) : lost[i] = Space
        /\ WaitAt(g, Stream, starts, nread, nread, nreplies)
        /\ Blank(Stream, Position + 1, nread)
    BY <1>1, Zenon DEF WaitInv, SyncInv
  <2>2. \A i \in 1 .. Len(Remains) : Remains[i] = Space
    BY <1>3, <2>1 DEF Blank
  <2>3. \A i \in 1 .. Len(lost \o Remains) : (lost \o Remains)[i] = Space
    BY <1>3, <2>1, <2>2
  <2>. QED BY <1>1, <1>2, <2>1, <2>3, Zenon DEF WaitInv
<1>5. SyncInv'
  <2>1. CASE client.waits
    <3>1. SyncAt(g, Stream, starts, nread, hungup)
      BY <1>1, <2>1, Zenon DEF WaitInv, SyncInv
    <3>. QED BY <1>1, <1>2, <3>1, Zenon DEF SyncInv
  <2>2. CASE ~ client.waits
    <3> SUFFICES ASSUME lost \o Remains = <<>> PROVE SyncInv'
      BY <1>1, <1>2, <2>2, Zenon DEF SyncInv
    <3>1. Len(lost) + Len(Remains) = 0
      BY <1>3
    <3>2. lost = <<>> /\ rsize = 0
      BY <1>3, <3>1
    <3>3. nread = Position
      BY <3>2, StreamFacts
    <3>4. SyncAt(g, Stream, starts, Position, hungup)
      BY <1>1, <3>2, Zenon DEF SyncInv
    <3>. QED BY <1>1, <1>2, <3>3, <3>4, Zenon DEF SyncInv
  <2>. QED BY <2>1, <2>2
<1>. QED BY <1>4, <1>5

LEMMA InvReturn ==
  ASSUME Shape, SyncInv, WaitInv, ReturnRead \/ ReturnWrite
  PROVE  SyncInv' /\ WaitInv'
<1> DEFINE S(f, x) == SyncAt(f, Stream, starts, x, hungup)
<1> DEFINE W(f, x) == WaitAt(f, Stream, starts, x, nread, nreplies)
<1>1. Shape' /\ ServerMoves
  BY ReplyMoves
<1>2. /\ Stream \in Seq(Byte) /\ starts \in Seq(Nat \ {0}) /\ Position \in Nat
      /\ nread \in Nat /\ Position <= nread /\ nread <= Len(Stream) /\ nreplies \in Nat
      /\ Len(Stream) \in Nat
  BY StreamFacts
<1>3. /\ S("parsed", Position) => S("answer", Position)
      /\ S("close", Position) => S("idle", Position)
      /\ \A x : S("stopped", x)
      /\ Between(Stream, starts, nread) => S("answer", nread) /\ S("idle", nread)
  BY DEF SyncAt
<1>4. /\ W("parsed", Position) => /\ W("answer", nread) /\ Blank(Stream, Position + 1, nread)
                                  /\ Between(Stream, starts, nread)
      /\ W("close", Position) => /\ W("idle", nread) /\ Blank(Stream, Position + 1, nread)
                                 /\ Between(Stream, starts, nread)
      /\ W("eof", Position) => W("stopped", Position)
  BY <1>2, WaitAnswer, Zenon
<1>5. S("eof", Position) => nread = Position /\ Blank(Stream, Position + 1, nread)
  BY <1>2 DEF SyncAt, Blank
<1>6. ASSUME NEW f, NEW g, Drops(f, g),
             g \in {"answer", "idle", "stopped"}, f \in {"parsed", "close", "eof"},
             S(f, Position) => S(g, Position),
             S(f, Position) /\ W(f, Position)
               => W(g, nread) /\ S(g, nread) /\ Blank(Stream, Position + 1, nread)
      PROVE  SyncInv' /\ WaitInv'
  BY <1>1, <1>6, InvDrop
<1> HIDE DEF S, W
<1>7. CASE Drops("parsed", "answer")
  BY <1>3, <1>4, <1>6, <1>7
<1>8. CASE Drops("close", "idle")
  BY <1>3, <1>4, <1>6, <1>8
<1>9. CASE Drops("eof", "stopped")
  BY <1>3, <1>4, <1>5, <1>6, <1>9
<1>. QED
  BY <1>1, <1>7, <1>8, <1>9
  DEF ReturnRead, ReturnWrite, ServerMoves, Takes, Sees, Ends, Moves, Drops

SessionInv == Shape /\ DocInv /\ SyncInv /\ WaitInv

LEMMA SessionStep ==
  ASSUME ~ ReadErrors, Documents, SessionInv, [SessionNext]_sessionVars PROVE SessionInv'
<1>1. Shape /\ DocInv /\ SyncInv /\ WaitInv
  BY DEF SessionInv
<1>2. Shape'
  BY <1>1, ServerStep, ClientStep DEF SessionNext
<1>3. CASE Server
  <2>1. SyncInv' /\ WaitInv'
    BY <1>1, <1>3, InvRead, InvReply, InvReturn DEF Server
  <2>2. Keeps
    BY <1>1, <1>3, ServerStep DEF ServerMoves, Takes, Sees, Ends, Moves, Drops
  <2>3. DocInv'
    BY <1>1, <2>2 DEF DocInv, Keeps, Stream
  <2>. QED BY <1>2, <2>1, <2>3 DEF SessionInv
<1>4. CASE \E r \in client.requests : Begin(r)
  BY <1>1, <1>2, <1>4, InvBegin DEF SessionInv
<1>5. CASE SendNext \/ Leave \/ UNCHANGED sessionVars
  BY <1>1, <1>2, <1>5, InvKept DEF SessionInv
<1>. QED BY <1>3, <1>4, <1>5 DEF SessionNext, Client

LEMMA SessionInvariant == ASSUME ~ ReadErrors, Documents PROVE SessionSpec => []SessionInv
<1>1. SessionInit => SessionInv
  BY ShapeInit, InvInit DEF SessionInv
<1>2. SessionInv /\ [SessionNext]_sessionVars => SessionInv'
  BY SessionStep
<1>. QED BY <1>1, <1>2, PTL DEF SessionSpec

(* A client that waits loses nothing but blanks with the streams, if its
   requests are documents and read(2) does not fail. *)
THEOREM BlanksLost == ASSUME ~ ReadErrors, Documents PROVE SessionSpec => []OnlyBlanksLost
<1>1. SessionInv => OnlyBlanksLost
  BY DEF SessionInv, WaitInv, OnlyBlanksLost
<1>. QED BY <1>1, SessionInvariant, PTL

(* Nor does it get a reply it has not asked for, or one in front of the end of
   its request. *)
THEOREM InStepWithReplies ==
  ASSUME ~ ReadErrors, Documents PROVE SessionSpec => []RepliesInStep
<1>1. SessionInv => RepliesInStep
  <2> SUFFICES ASSUME SessionInv, client.waits
               PROVE  /\ nreplies <= nrequests
                      /\ nreplies = nrequests => \A i \in 1 .. Len(outbox) : outbox[i] = Space
    BY DEF RepliesInStep
  <2>1. Shape /\ nrequests = Len(starts)
    BY DEF SessionInv, Shape
  <2>2. /\ nreplies <= nrequests
        /\ nreplies = nrequests => Done(Stream, Position)
    BY <2>1 DEF SessionInv, WaitInv, WaitAt
  <2>3. ASSUME Done(Stream, Position), NEW i \in 1 .. Len(outbox) PROVE outbox[i] = Space
    <3>1. sent \in Seq(Byte) /\ outbox \in Seq(Byte)
      BY <2>1 DEF Shape, TypeOK
    <3>2. Len(sent) + i \in Len(sent) + 1 .. Len(Stream) /\ Stream[Len(sent) + i] = outbox[i]
      BY <3>1 DEF Stream
    <3>3. Len(sent) + i \in Position + 1 .. Len(Stream)
      BY <2>1, <3>2, StreamFacts
    <3>. QED BY <2>3, <3>2, <3>3 DEF Done, Blank
  <2>. QED BY <2>2, <2>3
<1>. QED BY <1>1, SessionInvariant, PTL

(* As long as nothing was lost every document is parsed from the first byte
   of a request. *)
THEOREM Synchronised == ASSUME ~ ReadErrors, Documents PROVE SessionSpec => InSync
<1>1. SessionInv /\ phase = "value" /\ lost = <<>> =>
        \E i \in 1 .. Len(starts) :
          /\ starts[i] <= Len(taken) + 1
          /\ \A j \in starts[i] .. Len(taken) : sent[j] = Space
  <2> SUFFICES ASSUME SessionInv, phase = "value", lost = <<>>
               PROVE  \E i \in 1 .. Len(starts) :
                        /\ starts[i] <= Len(taken) + 1
                        /\ \A j \in starts[i] .. Len(taken) : sent[j] = Space
    OBVIOUS
  <2>1. /\ Shape /\ Requests(Stream, starts)
        /\ SyncAt("value", Stream, starts, Position, hungup)
    BY DEF SessionInv, DocInv, SyncInv
  <2>2. AtDocument(Stream, starts, Position)
    <3>1. Stream \in Seq(Byte) /\ Position \in Nat /\ Position <= Len(Stream)
      BY <2>1, StreamFacts
    <3>. QED BY <2>1, <3>1, SyncRead, Zenon
  <2>3. Position = Len(taken)
    <3>1. Position = Len(taken) + 0 /\ taken \in Seq(Byte)
      BY <2>1 DEF Shape, TypeOK
    <3>. QED BY <3>1
  <2>4. PICK i \in 1 .. Len(starts) :
          starts[i] <= Position + 1 /\ Blank(Stream, starts[i], Position)
    BY <2>2 DEF AtDocument
  <2>5. starts[i] \in 1 .. Len(Stream)
    BY <2>1 DEF Requests
  <2>6. ASSUME NEW j \in starts[i] .. Position PROVE sent[j] = Space
    <3>1. j \in 1 .. Len(sent)
      <4>1. /\ Position \in Nat /\ Position <= Len(sent) /\ Len(sent) \in Nat
            /\ Len(Stream) \in Nat
        BY <2>1, StreamFacts
      <4>. QED BY <2>5, <4>1
    <3>2. Stream[j] = sent[j]
      BY <2>1, <3>1, StreamFacts
    <3>. QED BY <2>4, <3>2 DEF Blank
  <2>. QED BY <2>3, <2>4, <2>6
<1>2. SessionInv /\ [SessionNext]_sessionVars
      => (phase = "value" /\ phase' # "value" /\ lost = <<>> =>
            \E i \in 1 .. Len(starts) :
              /\ starts[i] <= Len(taken) + 1
              /\ \A j \in starts[i] .. Len(taken) : sent[j] = Space)
  BY <1>1
<1>. QED BY <1>2, SessionInvariant, PTL DEF SessionSpec, InSync

-----------------------------------------------------------------------------
(* A client that waits, with tight requests, on a socket: its first request is
   read to its last byte, and the writing stream finds nothing to read. *)

Muted ==
  client.socket /\ client.waits /\ (\A r \in client.requests : Tight(r)) /\ ~ hungup

MuteInv ==
  Muted =>
    /\ nreplies = 0 /\ phase \notin {"put", "flush", "close"}
    /\ nrequests = 0 => Stream = <<>>
    /\ nrequests # 0 => nrequests = 1 /\ Tight(Stream)
    /\ phase \in {"parsed", "answer"} => nread = Len(Stream)

LEMMA TightEnd ==
  ASSUME NEW T \in Seq(Byte), Tight(T), NEW x \in Nat, Done(T, x)
  PROVE  x + 1 <= Len(T) => x + 1 = Len(T) /\ T[x] = Digit
<1> SUFFICES ASSUME x + 1 <= Len(T) PROVE x + 1 = Len(T) /\ T[x] = Digit
  OBVIOUS
<1>1. Len(T) \in x + 1 .. Len(T) /\ Len(T) \in Nat
  OBVIOUS
<1>2. T[Len(T)] = Space
  BY <1>1 DEF Done, Blank
<1>3. T[Len(T) - 1] = Digit
  BY <1>2 DEF Tight
<1>4. Len(T) - 1 \notin x + 1 .. Len(T)
  BY <1>3, ByteNames DEF Done, Blank
<1>5. x = Len(T) - 1
  BY <1>1, <1>4
<1>. QED BY <1>1, <1>3, <1>5

LEMMA MuteInit == ASSUME SessionInit PROVE MuteInv
<1>1. /\ phase = "idle" /\ written = <<>> /\ nrequests = 0 /\ sent = <<>> /\ outbox = <<>>
  BY DEF SessionInit, Init
<1>2. nreplies = 0 /\ Stream = <<>>
  BY <1>1 DEF nreplies, Stream
<1>. QED BY <1>1, <1>2 DEF MuteInv

(* A document that is parsed was the only one, and all of it has been read. *)
LEMMA MuteParsed ==
  ASSUME SessionInv', Shape, Keeps, Muted', MuteInv, Muted, phase' = "parsed",
         \/ Takes("object", "parsed", RBrace)
         \/ Sees("number", "parsed", Byte \ {Digit})
  PROVE  nread' = Len(Stream)
<1>1. Shape' /\ Stream' = Stream /\ client' = client /\ starts' = starts /\ nrequests = Len(starts)
  BY DEF SessionInv, Keeps, Stream, Shape
<1>2. Done(Stream, Position') /\ nreplies' + 1 <= Len(starts)
  <2>1. client'.waits
    BY DEF Muted
  <2>. QED BY <1>1, <2>1 DEF SessionInv, WaitInv, WaitAt
<1>3. Stream \in Seq(Byte) /\ Len(Stream) \in Nat /\ Position \in Nat
  BY StreamFacts
<1>4. Tight(Stream)
  <2>1. nreplies' \in Nat
    BY <1>1 DEF Shape, TypeOK, nreplies
  <2>2. nrequests # 0
    BY <1>1, <1>2, <2>1
  <2>. QED BY <2>2 DEF MuteInv
<1>5. PICK m \in Nat : m = nread' /\ m <= Len(Stream)
  <2>1. nread' \in Nat /\ nread' <= Len(sent)
    BY <1>1 DEF Shape, TypeOK, Keeps
  <2>2. Len(sent) <= Len(Stream) /\ Len(sent) \in Nat
    BY StreamFacts
  <2>. QED BY <1>3, <2>1, <2>2
<1>6. CASE Takes("object", "parsed", RBrace)
  <2>1. Position' = Position + 1 /\ At(Stream, Position, {RBrace}) /\ Position + 1 <= m
    BY <1>1, <1>5, <1>6, ReadsStream DEF Takes, Moves, Reads
  <2>2. Done(Stream, Position + 1) /\ Stream[Position + 1] # Digit /\ Position + 1 <= Len(Stream)
    BY <1>2, <2>1, ByteNames DEF At
  <2>3. ~ ((Position + 1) + 1 <= Len(Stream))
    BY <1>3, <1>4, <2>2, TightEnd
  <2>. QED BY <1>3, <1>5, <2>1, <2>2, <2>3
<1>7. CASE Sees("number", "parsed", Byte \ {Digit})
  <2>1. Position' = Position /\ At(Stream, Position, Byte \ {Digit}) /\ Position + 1 <= m
    BY <1>1, <1>3, <1>5, <1>7, ReadsStream DEF Sees, Moves, Reads
  <2>2. Position + 1 = Len(Stream)
    BY <1>2, <1>3, <1>4, <2>1, TightEnd DEF At
  <2>. QED BY <1>3, <1>5, <2>1, <2>2
<1>. QED BY <1>6, <1>7

LEMMA MuteServer ==
  ASSUME ~ ReadErrors, SessionInv, SessionInv', MuteInv, Server, Muted' PROVE MuteInv'
<1>1. Shape /\ Shape' /\ ServerMoves /\ DocInv
  BY ServerStep DEF SessionInv
<1>2. Keeps
  BY <1>1 DEF ServerMoves, Takes, Sees, Ends, Moves, Drops
<1>3. Stream' = Stream /\ UNCHANGED <<client, hungup, starts, nrequests>>
  BY <1>2 DEF Keeps, Stream
<1>4. /\ Muted /\ nreplies = 0 /\ phase \notin {"put", "flush", "close"}
      /\ nrequests = 0 => Stream = <<>>
      /\ nrequests # 0 => nrequests = 1 /\ Tight(Stream)
      /\ phase \in {"parsed", "answer"} => nread = Len(Stream)
  BY <1>3 DEF Muted, MuteInv
<1>5. ASSUME nreplies' = nreplies, phase' \notin {"put", "flush", "close"},
             phase' \in {"parsed", "answer"} => nread' = Len(Stream)
      PROVE  MuteInv'
  BY <1>3, <1>4, <1>5 DEF MuteInv
<1>6. ASSUME NEW f, NEW g, NEW d, Moves(f, g, d), g \notin {"put", "flush", "close", "parsed", "answer"}
      PROVE  MuteInv'
  BY <1>5, <1>6 DEF Moves, nreplies
<1>7. ASSUME \/ Takes("object", "parsed", RBrace)
             \/ Sees("number", "parsed", Byte \ {Digit})
      PROVE  MuteInv'
  <2>1. phase' = "parsed" /\ nreplies' = nreplies
    BY <1>7 DEF Takes, Sees, Moves, nreplies
  <2>2. nread' = Len(Stream)
    BY <1>1, <1>2, <1>4, <1>7, <2>1, MuteParsed
  <2>. QED BY <1>5, <2>1, <2>2
<1>8. SyncAt(phase, Stream, starts, Position, hungup)
  BY <1>4 DEF SessionInv, SyncInv, Muted
<1>9. ASSUME \/ Sees("value", "parsed", Byte \ {LBrace, Digit})
             \/ Sees("object", "parsed", Byte \ {Space, RBrace})
      PROVE  FALSE
  <2>1. \/ phase = "value" /\ At(Stream, Position, Byte \ {LBrace, Digit})
        \/ phase = "object" /\ At(Stream, Position, Byte \ {Space, RBrace})
    BY <1>1, <1>2, <1>9, ReadsStream DEF Sees, Moves
  <2>2. Stream \in Seq(Byte) /\ Position \in Nat /\ Position <= Len(Stream) /\ Requests(Stream, starts)
    BY <1>1, StreamFacts DEF DocInv
  <2>. QED BY <1>8, <2>1, <2>2, SyncRead, Zenon
<1>10. ASSUME NEW f, NEW g, Ends(f, g) PROVE FALSE
  BY <1>4, <1>10 DEF Ends, Muted
<1>11. ASSUME Drops("parsed", "answer") PROVE MuteInv'
  BY <1>4, <1>5, <1>11 DEF Drops, nreplies
<1>12. ASSUME Drops("eof", "stopped") PROVE MuteInv'
  BY <1>5, <1>12 DEF Drops, nreplies
<1>13. ASSUME phase = "answer", Position + 1 <= nread' \/ (hungup /\ Position = Len(sent))
       PROVE  FALSE
  <2>1. Position = Len(Stream)
    <3>1. ~ opened
      BY <1>1, <1>13 DEF Shape, Inside
    <3>2. rsize = 0
      BY <1>1, <3>1 DEF Shape, Holds
    <3>. QED BY <1>1, <1>4, <1>13, <3>2, StreamFacts
  <2>2. PICK m \in Nat : m = nread' /\ m <= Len(sent)
    BY <1>1, <1>2 DEF Shape, TypeOK, Keeps
  <2>3. Position + 1 <= m
    BY <1>4, <1>13, <2>2 DEF Muted
  <2>. QED BY <1>1, <2>1, <2>2, <2>3, StreamFacts
<1>14. ASSUME Moves("answer", "put", 0),
              client.socket => Position + 1 <= nread' \/ (hungup /\ Position = Len(sent))
       PROVE  FALSE
  BY <1>4, <1>13, <1>14 DEF Moves, Muted
<1>15. phase \notin {"put", "flush", "close"}
  BY <1>4
<1>. QED
  BY <1>1, <1>6, <1>7, <1>9, <1>10, <1>11, <1>12, <1>14, <1>15
  DEF ServerMoves, Takes, Sees, Moves, Drops

LEMMA MuteClient ==
  ASSUME SessionInv, MuteInv, Client \/ UNCHANGED sessionVars, Muted' PROVE MuteInv'
<1>1. Shape /\ WaitInv
  BY DEF SessionInv
<1>2. UNCHANGED <<nread, rsize, phase, lost, written, client>> /\ (hungup => hungup')
  BY <1>1, ClientKeeps
<1>3. /\ Muted /\ nreplies = 0 /\ phase \notin {"put", "flush", "close"}
      /\ nrequests = 0 => Stream = <<>>
      /\ nrequests # 0 => nrequests = 1 /\ Tight(Stream)
      /\ phase \in {"parsed", "answer"} => nread = Len(Stream)
      /\ nreplies' = nreplies
  BY <1>2 DEF Muted, MuteInv, nreplies
<1>4. CASE SendNext \/ Leave \/ UNCHANGED sessionVars
  <2>1. Stream' = Stream /\ UNCHANGED <<starts, nrequests>>
    BY <1>1, <1>4, StreamKept
    DEF SendNext, Leave, sessionVars, clientVars
  <2>. QED BY <1>2, <1>3, <2>1 DEF MuteInv
<1>5. ASSUME NEW r \in client.requests, Begin(r) PROVE MuteInv'
  <2>1. nrequests = 0 /\ nrequests' = 1 /\ outbox' = r /\ sent' = sent /\ client.waits
    BY <1>3, <1>5 DEF Begin, Muted, vars, peerVars
  <2>2. sent = <<>> /\ Tight(r) /\ r \in Seq(Byte)
    <3>1. Len(Stream) = 0 /\ sent \in Seq(Byte)
      BY <1>1, <1>3, <2>1 DEF Shape, TypeOK
    <3>2. Len(sent) = 0
      BY <1>1, <3>1, StreamFacts
    <3>. QED BY <1>1, <1>3, <3>1, <3>2, ClientType DEF Muted, Shape
  <2>3. Stream' = r
    BY <2>1, <2>2 DEF Stream
  <2>4. Len(starts) = 0
    BY <1>1, <2>1 DEF Shape
  <2>5. phase \notin {"parsed", "answer"}
    BY <1>1, <1>3, <2>1, <2>4 DEF WaitInv, WaitAt
  <2>. QED BY <1>2, <1>3, <2>1, <2>2, <2>3, <2>5 DEF MuteInv
<1>. QED BY <1>4, <1>5 DEF Client

(* A client that waits, on a socket, whose requests end with their document
   sees no reply before it hangs up. *)
THEOREM Mute == ASSUME ~ ReadErrors, Documents PROVE SessionSpec => []MuteUntilHangUp
<1>1. MuteInv => MuteUntilHangUp
  BY DEF MuteInv, Muted, MuteUntilHangUp
<1>2. SessionInv /\ SessionInv' /\ MuteInv /\ [SessionNext]_sessionVars => MuteInv'
  BY MuteServer, MuteClient DEF SessionNext, MuteInv
<1>. QED BY <1>1, <1>2, MuteInit, SessionInvariant, PTL DEF SessionSpec

=============================================================================
