--------------------------- MODULE FDStreamProofs ---------------------------
(***************************************************************************)
(* Proofs that FDStream delivers exact byte channels, for every BUF_SIZE,  *)
(* every alphabet and every number of bytes.                               *)
(***************************************************************************)
EXTENDS FDStream, SequenceTheorems, TLAPS

(* The ring index stays put below BUF_SIZE and wraps to 0 at BUF_SIZE. *)
LEMMA ModSlot ==
  ASSUME NEW x \in Slot
  PROVE  /\ x % BUF_SIZE = x
         /\ (x + 1) % BUF_SIZE = IF x + 1 = BUF_SIZE THEN 0 ELSE x + 1
  BY BufSizeAssumption DEF Slot

(* The ring holds the sent bytes behind the first k. *)
Holds(k) ==
  /\ NoWrap
  /\ ~ opened => rsize = 0
  /\ nread = k + rsize
  /\ \A i \in 0 .. rsize - 1 : readbuf[rhead + i] = sent[k + i + 1]

(* A record p is a read half that continues the current one: its buffer
   holds the sent bytes from k+1 up to p.nread and c is the first of them,
   or NUL when there is none. *)
Continues(p, k) ==
  /\ p.buf \in [Slot -> Byte \cup {Uninit}]
  /\ p.size \in Nat /\ rhead + p.size <= BUF_SIZE
  /\ p.nread \in 0 .. Len(sent) /\ p.nread = k + p.size
  /\ \A i \in 0 .. p.size - 1 : p.buf[rhead + i] = sent[k + i + 1]
  /\ p.c \in Byte
  /\ p.size > 0 => p.c = sent[k + 1]
  /\ p.size = 0 => p.c = NUL
  /\ p.size = 0 /\ ~ ReadErrors => hungup /\ p.nread = Len(sent)

(* An empty ring is refilled from rhead to at most the end of the array, and
   the call never asks for zero bytes. *)
LEMMA EmptyRing ==
  ASSUME TypeOK, rsize = 0
  PROVE  readstart = rhead /\ readlength = BUF_SIZE - rhead /\ readlength > 0
<1>1. rhead \in Slot /\ rhead + rsize = rhead
  BY DEF TypeOK, Slot
<1>2. readstart = rhead
  BY <1>1, ModSlot DEF readstart
<1>. QED
  BY <1>1, <1>2, BufSizeAssumption DEF readlength, Slot

(* Whatever read(2) returns, fillreadbuf on an empty ring continues it. *)
LEMMA FillContinues ==
  ASSUME TypeOK, NEW k \in Nat, Holds(k), rsize = 0, NEW n \in ReadReturns
  PROVE  Continues(Filled(n), k)
<1>1. n \in Int /\ n <= readlength /\ nread + n <= Len(sent)
  BY EmptyRing, BufSizeAssumption DEF ReadReturns, TypeOK, Slot
<1>2. CASE n <= 0
  <2>1. Filled(n) = [buf |-> readbuf, size |-> rsize, nread |-> nread, c |-> NUL]
    BY <1>2 DEF Filled
  <2>2. ReadErrors \/ (hungup /\ nread = Len(sent))
    BY <1>2, EmptyRing DEF ReadReturns, TypeOK
  <2>. QED
    BY <2>1, <2>2, ByteAssumption, BufSizeAssumption
    DEF Continues, TypeOK, Holds, NoWrap, Slot
<1>3. CASE n > 0
  <2> DEFINE buf == [i \in Slot |-> IF i \in readstart .. readstart + n - 1
                                    THEN sent[nread + 1 + (i - readstart)]
                                    ELSE readbuf[i]]
  <2>1. Filled(n) = [buf |-> buf, size |-> rsize + n, nread |-> nread + n,
                     c |-> buf[rhead]]
    BY <1>1, <1>3 DEF Filled
  <2>2. \A i \in 0 .. n - 1 : rhead + i \in Slot
    BY <1>1, EmptyRing, BufSizeAssumption DEF TypeOK, Slot
  <2>3. ASSUME NEW j \in 0 .. n - 1
        PROVE  buf[rhead + j] = sent[nread + 1 + j]
    <3>1. rhead \in Nat /\ nread \in Nat /\ readstart = rhead
      BY EmptyRing, BufSizeAssumption DEF TypeOK, Slot
    <3>2. rhead + j \in readstart .. readstart + n - 1
      BY <1>1, <3>1
    <3>3. buf[rhead + j] = sent[nread + 1 + ((rhead + j) - readstart)]
      BY <2>2, <3>2, Zenon
    <3>4. nread + 1 + ((rhead + j) - readstart) = nread + 1 + j
      BY <3>1
    <3>. QED BY <3>3, <3>4
  <2>4. \A i \in 1 .. Len(sent) : sent[i] \in Byte
    BY DEF TypeOK
  <2>5. buf \in [Slot -> Byte \cup {Uninit}]
    BY <1>1, <2>4, EmptyRing DEF TypeOK, Slot
  <2>6. nread = k
    BY DEF Holds, TypeOK
  <2>7. buf[rhead + 0] = sent[nread + 1 + 0]
    <3>1. 0 \in 0 .. n - 1
      BY <1>1, <1>3
    <3>. QED BY <2>3, <3>1
  <2>8. buf[rhead] = sent[nread + 1] /\ nread + 1 \in 1 .. Len(sent)
    BY <1>1, <1>3, <2>7 DEF TypeOK, Slot
  <2> HIDE DEF buf
  <2>9. /\ rhead \in Nat /\ n \in Nat /\ n # 0 /\ rhead + n <= BUF_SIZE
        /\ nread \in Nat /\ nread + n <= Len(sent) /\ Len(sent) \in Nat
    BY <1>1, <1>3, EmptyRing, BufSizeAssumption DEF TypeOK, Slot
  <2>10. \A i \in 0 .. n - 1 : buf[rhead + i] = sent[k + i + 1]
    <3> SUFFICES ASSUME NEW i \in 0 .. n - 1
                 PROVE  buf[rhead + i] = sent[k + i + 1]
      OBVIOUS
    <3>1. nread + 1 + i = k + i + 1
      BY <2>6, <2>9
    <3>. QED BY <2>3, <3>1
  <2>11. buf[rhead] \in Byte
    BY <2>4, <2>8
  <2> DEFINE p == Filled(n)
  <2>12. p.buf = buf /\ p.size = n /\ p.nread = nread + n /\ p.c = buf[rhead]
    BY <2>1, <2>9
  <2> HIDE DEF p
  <2>13. p.nread \in 0 .. Len(sent) /\ p.nread = k + p.size
    BY <2>6, <2>9, <2>12
  <2>14. Continues(p, k)
    BY <2>5, <2>6, <2>8, <2>9, <2>10, <2>11, <2>12, <2>13 DEF Continues
  <2>. QED BY <2>14 DEF p
<1>. QED BY <1>1, <1>2, <1>3

(* So does every outcome of Peek. *)
LEMMA PeekContinues ==
  ASSUME TypeOK, NEW k \in Nat, Holds(k), NEW p \in PeekOutcomes
  PROVE  Continues(p, k)
<1>1. CASE rsize > 0
  <2>1. p = [buf |-> readbuf, size |-> rsize, nread |-> nread,
             c |-> readbuf[rhead]]
    BY <1>1 DEF PeekOutcomes
  <2>2. readbuf[rhead + 0] = sent[k + 0 + 1]
    BY <1>1 DEF Holds, TypeOK
  <2>3. readbuf[rhead] = sent[k + 1] /\ k + 1 \in 1 .. Len(sent)
    BY <1>1, <2>2 DEF Holds, TypeOK, Slot
  <2>4. readbuf[rhead] \in Byte
    BY <2>3 DEF TypeOK
  <2>. QED
    BY <1>1, <2>1, <2>3, <2>4 DEF Continues, TypeOK, Holds, NoWrap
<1>2. CASE rsize = 0
  BY <1>2, FillContinues DEF PeekOutcomes
<1>. QED BY <1>1, <1>2 DEF TypeOK

-----------------------------------------------------------------------------
(* What each operation keeps of the shape and of the ring. *)

(* Sending a byte leaves the ring alone and the sent prefix as it was. *)
LEMMA SendHolds ==
  ASSUME TypeOK, NEW k \in Nat, Holds(k), NEW b \in Byte, Send(b)
  PROVE  /\ TypeOK' /\ Holds(k)'
         /\ Len(sent') = Len(sent) + 1 /\ \A i \in 1 .. Len(sent) : sent'[i] = sent[i]
<1>1. sent' \in Seq(Byte) /\ Len(sent') = Len(sent) + 1
  BY DEF TypeOK, Send
<1>2. \A i \in 1 .. Len(sent) : sent'[i] = sent[i]
  BY DEF TypeOK, Send
<1>3. TypeOK'
  BY <1>1 DEF TypeOK, Send, readVars, writeVars, Slot
<1>4. UNCHANGED <<opened, nread, rhead, rsize, readbuf, taken>>
  BY DEF Send, readVars
<1>5. nread \in Nat /\ rsize \in Nat /\ nread <= Len(sent)
  BY BufSizeAssumption DEF TypeOK
<1>6. \A i \in 0 .. rsize - 1 : readbuf[rhead + i] = sent'[k + i + 1]
  <2> SUFFICES ASSUME NEW i \in 0 .. rsize - 1
               PROVE  readbuf[rhead + i] = sent'[k + i + 1]
    OBVIOUS
  <2>1. k + i + 1 \in 1 .. Len(sent)
    BY <1>5 DEF Holds
  <2>. QED BY <1>2, <2>1 DEF Holds
<1>7. Holds(k)'
  BY <1>4, <1>6 DEF Holds, NoWrap
<1>. QED BY <1>1, <1>2, <1>3, <1>7

LEMMA ConstructHolds ==
  ASSUME TypeOK, NEW k \in Nat, Holds(k), Construct
  PROVE  /\ TypeOK' /\ Holds(k)'
         /\ ~ ReadErrors => rsize' > 0 \/ (hungup /\ nread' = Len(sent))
<1>1. PICK n \in ReadReturns : /\ readbuf' = Filled(n).buf
                               /\ rsize' = Filled(n).size
                               /\ nread' = Filled(n).nread
  BY DEF Construct
<1>2. Continues(Filled(n), k)
  BY FillContinues DEF Holds, Construct
<1>3. TypeOK'
  BY <1>1, <1>2, BufSizeAssumption
  DEF Construct, Continues, TypeOK, Slot, peerVars, writeVars
<1>4. Holds(k)'
  BY <1>1, <1>2
  DEF Construct, Continues, TypeOK, Holds, NoWrap, peerVars, writeVars
<1>5. ~ ReadErrors => rsize' > 0 \/ (hungup /\ nread' = Len(sent))
  BY <1>1, <1>2 DEF Continues
<1>. QED BY <1>3, <1>4, <1>5

LEMMA PeekHolds ==
  ASSUME TypeOK, NEW k \in Nat, Holds(k), Peek
  PROVE  /\ TypeOK' /\ Holds(k)'
         /\ rsize' > 0 => peeked' = sent[k + 1]
         /\ rsize' = 0 => peeked' = NUL
         /\ rsize' = 0 /\ ~ ReadErrors => hungup /\ nread' = Len(sent)
<1>1. PICK p \in PeekOutcomes : /\ readbuf' = p.buf
                                /\ rsize' = p.size
                                /\ nread' = p.nread
                                /\ peeked' = p.c
  BY DEF Peek
<1>2. Continues(p, k)
  BY PeekContinues
<1>3. TypeOK'
  BY <1>1, <1>2, BufSizeAssumption
  DEF Peek, Continues, TypeOK, Slot, peerVars, writeVars
<1>4. Holds(k)'
  BY <1>1, <1>2
  DEF Peek, Continues, TypeOK, Holds, NoWrap, peerVars, writeVars
<1>5. /\ rsize' > 0 => peeked' = sent[k + 1]
      /\ rsize' = 0 => peeked' = NUL
      /\ rsize' = 0 /\ ~ ReadErrors => hungup /\ nread' = Len(sent)
  BY <1>1, <1>2 DEF Continues
<1>. QED BY <1>3, <1>4, <1>5

(* Take moves the oldest buffered byte to the end of taken; rhead wraps only
   when the ring has become empty. *)
LEMMA TakeHolds ==
  ASSUME TypeOK, NEW k \in Nat, Holds(k), Take
  PROVE  /\ TypeOK'
         /\ \/ /\ Holds(k + 1)' /\ k + 1 <= Len(sent)
               /\ peeked' = sent[k + 1] /\ peeked' # NUL
               /\ taken' = Append(taken, sent[k + 1])
            \/ /\ Holds(k)' /\ peeked' = NUL /\ UNCHANGED taken
<1>1. PICK p \in PeekOutcomes :
        /\ readbuf' = p.buf /\ nread' = p.nread /\ peeked' = p.c
        /\ \/ /\ p.c # NUL
              /\ rhead' = (rhead + 1) % BUF_SIZE
              /\ rsize' = p.size - 1
              /\ taken' = Append(taken, p.c)
           \/ /\ p.c = NUL
              /\ rsize' = p.size
              /\ UNCHANGED <<rhead, taken>>
  BY DEF Take
<1>2. Continues(p, k)
  BY PeekContinues
<1>3. UNCHANGED <<peerVars, opened, writeVars>>
  BY DEF Take
<1>4. CASE p.c = NUL
  <2>1. TypeOK'
    BY <1>1, <1>2, <1>3, <1>4, BufSizeAssumption
    DEF Continues, TypeOK, Slot, peerVars, writeVars
  <2>2. Holds(k)'
    BY <1>1, <1>2, <1>3, <1>4
    DEF Take, Continues, TypeOK, Holds, NoWrap, peerVars, writeVars
  <2>. QED BY <1>1, <1>4, <2>1, <2>2
<1>5. CASE p.c # NUL
  <2>1. p.size \in Nat /\ p.size > 0 /\ p.c = sent[k + 1] /\ k + 1 <= Len(sent)
    BY <1>2, <1>5 DEF Continues, TypeOK
  <2>2. taken' = Append(taken, p.c) /\ rsize' = p.size - 1
    BY <1>1, <1>5
  <2>3. taken' \in Seq(Byte)
    BY <1>2, <2>2 DEF Continues, TypeOK
  <2>4. rhead' = IF rhead + 1 = BUF_SIZE THEN 0 ELSE rhead + 1
    BY <1>1, <1>5, ModSlot DEF TypeOK
  <2>5. rhead' \in Slot
    BY <2>4, BufSizeAssumption DEF TypeOK, Slot
  <2>6. rhead' + rsize' <= BUF_SIZE /\ (rsize' > 0 => rhead' = rhead + 1)
    <3>1. rhead \in Nat /\ BUF_SIZE \in Nat /\ rhead + p.size <= BUF_SIZE
      BY <1>2, BufSizeAssumption DEF Continues, TypeOK, Slot
    <3>. QED BY <2>1, <2>2, <2>4, <3>1
  <2>7. TypeOK'
    <3>1. rsize' \in 0 .. BUF_SIZE
      BY <2>1, <2>2, <2>5, <2>6, BufSizeAssumption DEF Slot
    <3>2. readbuf' \in [Slot -> Byte \cup {Uninit}] /\ nread' \in 0 .. Len(sent)
          /\ peeked' \in Byte
      BY <1>1, <1>2 DEF Continues
    <3>. QED
      BY <1>3, <2>3, <2>5, <3>1, <3>2 DEF TypeOK, peerVars, writeVars, Slot
  <2>8. \A i \in 0 .. rsize' - 1 : readbuf'[rhead' + i] = sent'[k + 1 + i + 1]
    <3> SUFFICES ASSUME NEW i \in 0 .. rsize' - 1
                 PROVE  readbuf'[rhead' + i] = sent'[k + 1 + i + 1]
      OBVIOUS
    <3>1. i + 1 \in 0 .. p.size - 1 /\ rhead' = rhead + 1
      BY <2>1, <2>2, <2>6
    <3>2. p.buf[rhead + (i + 1)] = sent[k + (i + 1) + 1]
      BY <1>2, <3>1 DEF Continues
    <3>3. rhead' + i = rhead + (i + 1) /\ k + 1 + i + 1 = k + (i + 1) + 1
      BY <3>1, BufSizeAssumption DEF TypeOK, Slot
    <3>. QED BY <1>1, <1>3, <3>2, <3>3 DEF peerVars
  <2>9. Holds(k + 1)'
    <3>1. nread' = k + 1 + rsize'
      <4>1. nread' = k + p.size
        BY <1>1, <1>2 DEF Continues
      <4>2. k + p.size = k + 1 + (p.size - 1)
        BY <2>1
      <4>. QED BY <2>2, <4>1, <4>2
    <3>2. opened' = TRUE
      BY <1>3 DEF Take
    <3>. QED BY <2>6, <2>8, <3>1, <3>2 DEF Holds, NoWrap
  <2>. QED BY <1>1, <1>5, <2>1, <2>7, <2>9
<1>. QED BY <1>4, <1>5

(* What a flush hands to write(2) is a sequence of put bytes. *)
LEMMA FlushedBytes ==
  ASSUME TypeOK, NEW k \in WriteAccepts
  PROVE  written \o SubSeq(writebuf, 1, k) \in Seq(Nat)
  BY FaultAssumption DEF TypeOK, WriteAccepts

LEMMA FlushType == ASSUME TypeOK, Flush PROVE TypeOK'
  BY FlushedBytes, BufSizeAssumption
  DEF Flush, TypeOK, Slot, peerVars, readVars

LEMMA PutType == ASSUME TypeOK, Put PROVE TypeOK'
<1>1. written' \in Seq(Nat)
  BY FlushedBytes DEF Put, TypeOK
<1>2. writebuf' \in Seq(Nat) /\ Len(writebuf') <= BUF_SIZE
  <2>1. writebuf \in Seq(Nat) /\ Len(writebuf) <= BUF_SIZE /\ nput + 1 \in Nat
    BY DEF TypeOK
  <2>2. CASE writebuf' = <<nput + 1>>
    BY <2>1, <2>2, BufSizeAssumption
  <2>3. CASE Len(writebuf) # BUF_SIZE /\ writebuf' = Append(writebuf, nput + 1)
    BY <2>1, <2>3, BufSizeAssumption
  <2>. QED BY <2>2, <2>3 DEF Put
<1>. QED BY <1>1, <1>2 DEF Put, TypeOK, Slot, peerVars, readVars

LEMMA WriteHolds ==
  ASSUME NEW k \in Nat, Holds(k), Put \/ Flush PROVE Holds(k)'
  BY DEF Put, Flush, Holds, NoWrap, peerVars, readVars

-----------------------------------------------------------------------------
(* The inductive invariant: the shape of the variables and the content of
   the ring.  RingInv alone is not inductive, it needs rhead \in Slot. *)
IInv == TypeOK /\ RingInv

LEMMA RingHolds ==
  ASSUME IInv
  PROVE  Len(taken) \in Nat /\ Holds(Len(taken)) /\ Len(taken) <= Len(sent)
  BY BufSizeAssumption DEF IInv, RingInv, TypeOK, Holds

(* A step that takes nothing keeps the invariant if it keeps the ring. *)
LEMMA KeptInv ==
  ASSUME IInv, TypeOK', UNCHANGED taken, Holds(Len(taken))',
         \A i \in 1 .. Len(taken) : sent'[i] = sent[i]
  PROVE  IInv'
  BY DEF IInv, RingInv, Holds

LEMMA InitInv == ASSUME Init PROVE IInv
<1>1. readbuf \in [Slot -> Byte \cup {Uninit}]
  BY DEF Init, StreamInit
<1>2. rhead \in Slot /\ rsize = 0 /\ nread = 0 /\ BUF_SIZE \in Nat
  BY BufSizeAssumption DEF Init, StreamInit, Slot
<1>3. TypeOK
  BY <1>1, <1>2, ByteAssumption DEF Init, StreamInit, TypeOK
<1>4. RingInv
  BY <1>2 DEF Init, StreamInit, RingInv, NoWrap, Slot
<1>. QED BY <1>3, <1>4 DEF IInv

LEMMA TakeInv == ASSUME IInv, Take PROVE IInv'
<1>1. PICK k \in Nat : k = Len(taken)
  BY RingHolds
<1>2. Holds(k) /\ k <= Len(sent) /\ TypeOK /\ sent' = sent
  BY <1>1, RingHolds DEF IInv, Take, peerVars
<1>3. CASE Holds(k)' /\ UNCHANGED taken /\ TypeOK'
  <2>1. Holds(Len(taken))'
    BY <1>1, <1>3
  <2>. QED BY <1>2, <1>3, <2>1, KeptInv
<1>4. CASE TypeOK' /\ Holds(k + 1)' /\ k + 1 <= Len(sent) /\ taken' = Append(taken, sent[k + 1])
  <2>1. /\ Len(taken') = k + 1 /\ taken'[k + 1] = sent[k + 1]
        /\ \A i \in 1 .. k : taken'[i] = sent[i]
    <3>1. sent[k + 1] \in Byte /\ taken \in Seq(Byte)
      BY <1>1, <1>2, <1>4 DEF TypeOK
    <3>. QED BY <1>1, <1>4, <3>1 DEF IInv, RingInv
  <2>2. \A i \in 1 .. Len(taken') : taken'[i] = sent'[i]
    BY <1>1, <1>2, <2>1
  <2>. QED BY <1>4, <2>1, <2>2 DEF IInv, RingInv, Holds
<1>. QED BY <1>1, <1>2, <1>3, <1>4, TakeHolds

LEMMA NextInv == IInv /\ [Next]_vars => IInv'
<1> SUFFICES ASSUME IInv, [Next]_vars PROVE IInv'
  OBVIOUS
<1>0. PICK k \in Nat : k = Len(taken)
  BY RingHolds
<1>1. CASE HangUp
  BY <1>1 DEF HangUp, IInv, TypeOK, RingInv, NoWrap, Slot, readVars, writeVars
<1>2. CASE UNCHANGED vars
  BY <1>2 DEF vars, peerVars, readVars, writeVars, IInv, TypeOK, RingInv, NoWrap, Slot
<1>3. Holds(k) /\ k <= Len(sent) /\ TypeOK
  BY <1>0, RingHolds DEF IInv
<1>4. CASE \E b \in Byte : Send(b)
  <2>1. /\ TypeOK' /\ Holds(k)' /\ \A i \in 1 .. Len(sent) : sent'[i] = sent[i]
        /\ taken' = taken
    BY <1>3, <1>4, SendHolds DEF Send, readVars
  <2>2. Holds(Len(taken))' /\ \A i \in 1 .. Len(taken) : sent'[i] = sent[i]
    BY <1>0, <1>3, <2>1 DEF TypeOK
  <2>. QED BY <2>1, <2>2, KeptInv
<1>5. CASE Construct \/ Peek \/ Put \/ Flush
  <2>1. TypeOK' /\ Holds(k)'
    BY <1>3, <1>5, ConstructHolds, PeekHolds, PutType, FlushType, WriteHolds
  <2>2. taken' = taken /\ sent' = sent
    BY <1>5 DEF Construct, Peek, Put, Flush, peerVars, readVars
  <2>3. Holds(Len(taken))'
    BY <1>0, <2>1, <2>2
  <2>. QED BY <2>1, <2>2, <2>3, KeptInv
<1>. QED
  BY <1>1, <1>2, <1>4, <1>5, TakeInv DEF Next

(* Every state of FDStream has well-shaped variables: no index leaves its
   array, for any size of the buffers. *)
THEOREM TypeCorrect == Spec => []TypeOK
<1>1. IInv => TypeOK
  BY DEF IInv
<1>. QED BY <1>1, InitInv, NextInv, PTL DEF Spec

(* The ring always holds exactly the bytes read and not yet taken, and they
   never wrap around the end of the array. *)
THEOREM RingCorrect == Spec => []RingInv
<1>1. IInv => RingInv
  BY DEF IInv
<1>. QED BY <1>1, InitInv, NextInv, PTL DEF Spec

-----------------------------------------------------------------------------
(* What Peek and Take conclude from the first buffered byte. *)

(* With a NUL at the head every outcome of Peek is that NUL. *)
LEMMA PeekAtNul ==
  ASSUME AtNul, NEW p \in PeekOutcomes
  PROVE  p = [buf |-> readbuf, size |-> rsize, nread |-> nread, c |-> NUL]
  BY DEF AtNul, PeekOutcomes

LEMMA WallStep ==
  ASSUME IInv, [Next]_vars, AtNul PROVE AtNul' /\ taken' = taken
<1>1. CASE UNCHANGED <<readbuf, rhead, rsize, taken>>
  BY <1>1 DEF AtNul
<1>2. CASE Construct
  BY <1>2 DEF Construct, IInv, RingInv, TypeOK, AtNul
<1>3. CASE Peek
  BY <1>3, PeekAtNul DEF Peek, AtNul
<1>4. CASE Take
  BY <1>4, PeekAtNul DEF Take, AtNul
<1>. QED
  BY <1>1, <1>2, <1>3, <1>4
  DEF Next, Send, HangUp, Put, Flush, readVars, vars

(* A NUL byte is never stepped over, for any buffer size, any faults of
   read(2) and any number of bytes behind it. *)
THEOREM NulWall == Spec => NulIsAWall
<1>1. IInv /\ [Next]_vars => (AtNul => AtNul' /\ taken' = taken)
  BY WallStep
<1>. QED BY <1>1, InitInv, NextInv, PTL DEF Spec, NulIsAWall

LEMMA EndStep ==
  ASSUME ~ ReadErrors, IInv, Peek \/ Take, peeked' = NUL
  PROVE  (AtNul \/ AtEnd)'
<1> DEFINE k == Len(taken)
<1>1. PICK p \in PeekOutcomes :
        /\ readbuf' = p.buf /\ nread' = p.nread /\ p.c = NUL
        /\ rsize' = p.size /\ rhead' = rhead
  BY DEF Peek, Take
<1>2. Continues(p, k) /\ sent' = sent /\ hungup' = hungup
  <2>1. k \in Nat /\ Holds(k) /\ TypeOK
    BY RingHolds DEF IInv
  <2>. QED BY <2>1, PeekContinues DEF Peek, Take, peerVars
<1>3. CASE p.size = 0
  BY <1>1, <1>2, <1>3 DEF Continues, AtEnd
<1>4. CASE p.size > 0
  <2>1. p.buf[rhead + 0] = sent[k + 0 + 1]
    BY <1>2, <1>4 DEF Continues
  <2>2. p.buf[rhead] = sent[k + 1]
    BY <2>1, BufSizeAssumption DEF IInv, TypeOK, Slot
  <2>3. p.buf[rhead] = NUL
    BY <1>1, <1>2, <1>4, <2>2 DEF Continues
  <2>. QED BY <1>1, <1>4, <2>3 DEF AtNul
<1>. QED BY <1>2, <1>3, <1>4 DEF Continues

(* Unless read(2) fails, the end of the input is reported only at a NUL byte
   or when the peer has hung up and nothing is left: for no buffer size does
   a refill ask read(2) for zero bytes. *)
THEOREM NoEarlyEnd == ASSUME ~ ReadErrors PROVE Spec => NoFalseEnd
<1>1. IInv /\ [Next]_vars
      => ((Peek \/ Take) /\ peeked' = NUL => (AtNul \/ AtEnd)')
  BY EndStep
<1>. QED BY <1>1, InitInv, NextInv, PTL DEF Spec, NoFalseEnd

-----------------------------------------------------------------------------
(* The refinement of the input channel. *)

(* Pointwise agreement up to the length of s makes s a prefix of t. *)
LEMMA PrefixIntro ==
  ASSUME NEW S, NEW s \in Seq(S), NEW t \in Seq(S), Len(s) <= Len(t),
         \A i \in 1 .. Len(s) : s[i] = t[i]
  PROVE  In!IsPrefix(s, t) /\ Out!IsPrefix(s, t)
<1>1. SubSeq(s, 1, Len(s)) = [i \in 1 .. Len(s) |-> s[i]]
  OBVIOUS
<1>2. SubSeq(t, 1, Len(s)) = [i \in 1 .. Len(s) |-> t[i]]
  OBVIOUS
<1>3. SubSeq(s, 1, Len(s)) = SubSeq(t, 1, Len(s))
  BY <1>1, <1>2
<1>. QED BY <1>3 DEF In!IsPrefix, Out!IsPrefix

(* A history grows by at most one byte in a step of FDStream. *)
LEMMA Grows ==
  ASSUME NEW S, NEW s \in Seq(S), NEW t, t = s \/ \E b \in S : t = Append(s, b)
  PROVE  In!IsPrefix(s, t)
<1>1. t \in Seq(S) /\ Len(s) <= Len(t) /\ \A i \in 1 .. Len(s) : s[i] = t[i]
  OBVIOUS
<1>. QED BY <1>1, PrefixIntro

LEMMA InStep == ASSUME IInv, IInv', [Next]_vars PROVE [In!Next]_<<sent, taken>>
<1>1. sent' = sent \/ \E b \in Byte : sent' = Append(sent, b)
  BY DEF Next, vars, peerVars, Send, HangUp, Construct, Peek, Take, Put, Flush
<1>2. taken' = taken \/ \E b \in Byte : taken' = Append(taken, b)
  <2>1. CASE Take
    BY <2>1 DEF Take, IInv, TypeOK
  <2>2. CASE ~ Take
    BY <2>2 DEF Next, vars, readVars, Send, HangUp, Construct, Peek, Put, Flush
  <2>. QED BY <2>1, <2>2
<1>3. In!IsPrefix(sent, sent') /\ In!IsPrefix(taken, taken')
  BY <1>1, <1>2, Grows DEF IInv, TypeOK
<1>4. Len(taken') <= Len(sent') /\ \A i \in 1 .. Len(taken') : taken'[i] = sent'[i]
  BY BufSizeAssumption, SMTT(20) DEF IInv, TypeOK, RingInv
<1>5. In!IsPrefix(taken', sent')
  BY <1>4, PrefixIntro DEF IInv, TypeOK
<1>. QED BY <1>3, <1>5 DEF In!Next

(* The read half implements an exact byte channel, whatever read(2) does:
   what the parser takes is what the peer sent, in order and without a gap. *)
THEOREM InRefines == Spec => InChannel
<1>1. Init => In!Init
  BY DEF Init, In!Init
<1>2. IInv /\ IInv' /\ [Next]_vars => [In!Next]_<<sent, taken>>
  BY InStep
<1>. QED
  BY <1>1, <1>2, InitInv, NextInv, PTL DEF Spec, InChannel, In!Spec

-----------------------------------------------------------------------------
(* The output.  The bytes put are numbered, so what the write half holds can
   be named: writebuf is the last Len(writebuf) of them, written a selection
   of those before, or all of those before if write(2) is never short. *)

Unflushed == nput - Len(writebuf)

OutInv ==
  /\ Unflushed \in Nat
  /\ \A j \in 1 .. Len(writebuf) : writebuf[j] = Unflushed + j
  /\ \A i \in 1 .. Len(written) : written[i] <= Unflushed
  /\ \A i, j \in 1 .. Len(written) : i < j => written[i] < written[j]
  /\ ~ ShortWrites =>
       Len(written) = Unflushed /\ \A i \in 1 .. Len(written) : written[i] = i

(* A flush of the first k bytes of writebuf keeps the order, and is complete
   when k is all of them. *)
LEMMA FlushOut ==
  ASSUME TypeOK, OutInv, NEW k \in WriteAccepts,
         NEW w, w = written \o SubSeq(writebuf, 1, k)
  PROVE  /\ w \in Seq(Nat)
         /\ \A i \in 1 .. Len(w) : w[i] <= nput
         /\ \A i, j \in 1 .. Len(w) : i < j => w[i] < w[j]
         /\ ~ ShortWrites => Len(w) = nput /\ \A i \in 1 .. Len(w) : w[i] = i
<1>1. k \in 0 .. Len(writebuf) /\ (~ ShortWrites => k = Len(writebuf))
  BY FaultAssumption DEF WriteAccepts, TypeOK
<1>2. SubSeq(writebuf, 1, k) \in Seq(Nat) /\ Len(SubSeq(writebuf, 1, k)) = k
      /\ \A j \in 1 .. k : SubSeq(writebuf, 1, k)[j] = Unflushed + j
  BY <1>1 DEF TypeOK, OutInv
<1>3. /\ w \in Seq(Nat) /\ Len(w) = Len(written) + k
      /\ \A i \in 1 .. Len(written) : w[i] = written[i]
      /\ \A i \in Len(written) + 1 .. Len(w) : w[i] = Unflushed + (i - Len(written))
  BY <1>2 DEF TypeOK
<1>4. /\ nput \in Nat /\ Unflushed \in Nat /\ nput = Unflushed + Len(writebuf)
      /\ Len(written) \in Nat /\ Len(writebuf) \in Nat
      /\ \A i \in 1 .. Len(written) : written[i] \in Nat
  BY SMTT(20) DEF TypeOK, OutInv, Unflushed
<1>5. \A i \in 1 .. Len(w) : w[i] <= nput
  BY <1>1, <1>3, <1>4 DEF OutInv
<1>6. \A i, j \in 1 .. Len(w) : i < j => w[i] < w[j]
  BY <1>1, <1>3, <1>4, SMTT(20) DEF OutInv
<1>7. ASSUME ~ ShortWrites
      PROVE  Len(w) = nput /\ \A i \in 1 .. Len(w) : w[i] = i
  <2>1. k = Len(writebuf) /\ Len(written) = Unflushed
        /\ \A i \in 1 .. Len(written) : written[i] = i
    BY <1>1, <1>7 DEF OutInv
  <2>. QED BY <1>3, <1>4, <2>1
<1>. QED BY <1>3, <1>5, <1>6, <1>7

LEMMA OutInit == ASSUME Init PROVE OutInv
<1>1. writebuf = <<>> /\ written = <<>>
  BY DEF Init, StreamInit
<1>2. Len(writebuf) = 0 /\ Len(written) = 0
  BY <1>1
<1>3. nput = 0
  BY DEF Init
<1>4. Unflushed = 0
  BY <1>2, <1>3 DEF Unflushed
<1>. QED BY <1>2, <1>4 DEF OutInv

LEMMA OutStep == ASSUME IInv, OutInv, [Next]_vars PROVE OutInv'
<1>1. CASE UNCHANGED writeVars
  BY <1>1 DEF writeVars, OutInv, Unflushed
<1>2. CASE Flush
  <2>1. PICK k \in WriteAccepts : written' = written \o SubSeq(writebuf, 1, k)
    BY <1>2 DEF Flush
  <2>2. writebuf' = <<>> /\ nput' = nput /\ nput \in Nat
    BY <1>2 DEF Flush, IInv, TypeOK
  <2>3. Unflushed' = nput /\ Len(writebuf') = 0
    BY <2>2 DEF Unflushed
  <2>4. /\ \A i \in 1 .. Len(written') : written'[i] <= nput
        /\ \A i, j \in 1 .. Len(written') : i < j => written'[i] < written'[j]
        /\ ~ ShortWrites => /\ Len(written') = nput
                            /\ \A i \in 1 .. Len(written') : written'[i] = i
    BY <2>1, FlushOut DEF IInv
  <2>. QED BY <2>2, <2>3, <2>4 DEF OutInv
<1>3. CASE Put
  <2>1. nput' = nput + 1 /\ nput \in Nat
    BY <1>3 DEF Put, IInv, TypeOK
  <2>2. CASE Len(writebuf) = BUF_SIZE
    <3>1. PICK k \in WriteAccepts : written' = written \o SubSeq(writebuf, 1, k)
      BY <1>3, <2>2 DEF Put
    <3>2. writebuf' = <<nput + 1>>
      BY <1>3, <2>2 DEF Put
    <3>3. Unflushed' = nput /\ Len(writebuf') = 1 /\ writebuf'[1] = nput + 1
      BY <2>1, <3>2 DEF Unflushed
    <3>4. /\ \A i \in 1 .. Len(written') : written'[i] <= nput
          /\ \A i, j \in 1 .. Len(written') : i < j => written'[i] < written'[j]
          /\ ~ ShortWrites => /\ Len(written') = nput
                              /\ \A i \in 1 .. Len(written') : written'[i] = i
      BY <3>1, FlushOut DEF IInv
    <3>. QED BY <2>1, <3>3, <3>4 DEF OutInv
  <2>3. CASE Len(writebuf) # BUF_SIZE
    <3>1. writebuf' = Append(writebuf, nput + 1) /\ written' = written
      BY <1>3, <2>3 DEF Put
    <3>2. /\ Len(writebuf') = Len(writebuf) + 1 /\ Len(writebuf) \in Nat
          /\ writebuf'[Len(writebuf')] = nput + 1
          /\ \A j \in 1 .. Len(writebuf) : writebuf'[j] = writebuf[j]
      BY <3>1 DEF IInv, TypeOK
    <3>3. Unflushed' = Unflushed
      BY <2>1, <3>2 DEF Unflushed
    <3>4. \A j \in 1 .. Len(writebuf') : writebuf'[j] = Unflushed' + j
      <4>1. Unflushed + Len(writebuf') = nput + 1 /\ Unflushed \in Nat
        BY <2>1, <3>2 DEF OutInv, Unflushed
      <4>2. \A j \in 1 .. Len(writebuf) : writebuf'[j] = Unflushed + j
        BY <3>2 DEF OutInv
      <4>3. \A j \in 1 .. Len(writebuf') : j \in 1 .. Len(writebuf) \/ j = Len(writebuf')
        BY <3>2
      <4>. QED BY <3>2, <3>3, <4>1, <4>2, <4>3
    <3>. QED BY <3>1, <3>3, <3>4 DEF OutInv
  <2>. QED BY <2>2, <2>3
<1>. QED
  BY <1>1, <1>2, <1>3
  DEF Next, vars, writeVars, Send, HangUp, Construct, Peek, Take

LEMMA OutInvariant == Spec => [](IInv /\ OutInv)
<1>1. Init => IInv /\ OutInv
  BY InitInv, OutInit
<1>2. IInv /\ OutInv /\ [Next]_vars => (IInv /\ OutInv)'
  BY NextInv, OutStep
<1>. QED BY <1>1, <1>2, PTL DEF Spec

(* Even if every write(2) is short, no byte is written twice, out of order or
   before it was put. *)
THEOREM OutOrdered == Spec => []OutputOrdered
<1>1. IInv /\ OutInv => OutputOrdered
  <2> SUFFICES ASSUME IInv, OutInv,
                      NEW i \in 1 .. Len(written), NEW j \in 1 .. Len(writebuf)
               PROVE  written[i] < writebuf[j]
    BY DEF OutInv, OutputOrdered
  <2>1. written[i] \in Nat /\ Unflushed \in Nat /\ j \in Nat \ {0}
    BY SMTT(20) DEF IInv, TypeOK, OutInv
  <2>2. written[i] <= Unflushed /\ writebuf[j] = Unflushed + j
    BY DEF OutInv
  <2>. QED BY <2>1, <2>2
<1>. QED BY <1>1, OutInvariant, PTL

(* The bytes put so far, as Out sees them. *)
PutBytes == [k \in 1 .. nput |-> k]

LEMMA Iota ==
  ASSUME NEW m \in Nat, NEW s, s = [k \in 1 .. m |-> k]
  PROVE  s \in Seq(Nat) /\ Len(s) = m /\ \A k \in 1 .. m : s[k] = k
<1>1. \A k \in 1 .. m : k \in Nat
  OBVIOUS
<1>. QED BY <1>1

LEMMA OutChannelStep ==
  ASSUME ~ ShortWrites, IInv, OutInv, IInv', OutInv', [Next]_vars
  PROVE  [Out!Next]_<<PutBytes, written>>
<1>1. nput \in Nat /\ nput' \in Nat /\ nput <= nput'
  BY DEF IInv, TypeOK, Next, vars, writeVars,
         Send, HangUp, Construct, Peek, Take, Put, Flush
<1>2. /\ PutBytes \in Seq(Nat) /\ Len(PutBytes) = nput
      /\ \A k \in 1 .. nput : PutBytes[k] = k
  BY <1>1, Iota DEF PutBytes
<1>3. /\ PutBytes' \in Seq(Nat) /\ Len(PutBytes') = nput'
      /\ \A k \in 1 .. nput' : PutBytes'[k] = k
  BY <1>1, Iota DEF PutBytes
<1>4. Out!IsPrefix(PutBytes, PutBytes')
  BY <1>1, <1>2, <1>3, PrefixIntro
<1>5. /\ written \in Seq(Nat) /\ Len(written) <= nput
      /\ \A i \in 1 .. Len(written) : written[i] = i
  <2>1. Len(written) = Unflushed /\ \A i \in 1 .. Len(written) : written[i] = i
    BY DEF OutInv
  <2>. QED BY <2>1 DEF IInv, TypeOK, Unflushed
<1>6. /\ written' \in Seq(Nat) /\ Len(written') <= nput'
      /\ \A i \in 1 .. Len(written') : written'[i] = i
  <2>1. Len(written') = Unflushed' /\ \A i \in 1 .. Len(written') : written'[i] = i
    BY DEF OutInv
  <2>2. Unflushed' = nput' - Len(writebuf')
    BY DEF Unflushed
  <2>. QED BY <2>1, <2>2 DEF IInv, TypeOK
<1>7. Len(written) <= Len(written')
  <2>1. CASE written' = written
    BY <1>5, <2>1
  <2>2. ASSUME NEW k \in WriteAccepts, written' = written \o SubSeq(writebuf, 1, k)
        PROVE  Len(written) <= Len(written')
    <3>1. SubSeq(writebuf, 1, k) \in Seq(Nat)
      BY FaultAssumption, SMTT(20) DEF WriteAccepts, IInv, TypeOK
    <3>. QED BY <1>5, <2>2, <3>1
  <2>. QED
    BY <2>1, <2>2 DEF Next, vars, writeVars,
       Send, HangUp, Construct, Peek, Take, Put, Flush
<1>8. Out!IsPrefix(written, written')
  BY <1>5, <1>6, <1>7, PrefixIntro, SMTT(20)
<1>9. Out!IsPrefix(written', PutBytes')
  BY <1>1, <1>3, <1>6, PrefixIntro
<1>. QED BY <1>4, <1>8, <1>9 DEF Out!Next, PutBytes

(* While write(2) accepts all it is offered, the write half implements an
   exact byte channel from Put to the descriptor. *)
THEOREM OutRefines == ASSUME ~ ShortWrites PROVE Spec => OutChannel
<1>1. Init => Out!Init
  BY DEF Init, Out!Init
<1>2. IInv /\ OutInv /\ IInv' /\ OutInv' /\ [Next]_vars
      => [Out!Next]_<<PutBytes, written>>
  BY OutChannelStep
<1>. QED
  BY <1>1, <1>2, OutInvariant, PTL DEF Spec, OutChannel, Out!Spec, PutBytes

=============================================================================
