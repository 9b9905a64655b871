------------------------------ MODULE FDStream ------------------------------
(***************************************************************************)
(* The class FDStream of plugin-c/json.cpp: the stream that the JSON hooks *)
(* give to rapidjson.  Its read half is an array used as a ring and        *)
(* refilled by read(2), its write half a buffer emptied by write(2).       *)
(*                                                                         *)
(* The kernel and the peer behind the descriptor are modelled too: the     *)
(* peer sends bytes one at a time and may hang up, read(2) returns any     *)
(* non-empty part of what is there and write(2) accepts what it likes.     *)
(* One behaviour is the life of one FDStream object.                       *)
(***************************************************************************)
EXTENDS Integers, Sequences

CONSTANTS
  BUF_SIZE,     \* size of readbuf and of writebuf (8192 in the code)
  Byte,         \* the bytes a peer may send
  NUL,          \* '\0', which Peek also returns when it has no byte
  Uninit,       \* content of a slot of readbuf that was never written
  ReadErrors,   \* may read(2) fail (EINTR, EAGAIN, ...)?
  ShortWrites,  \* may write(2) accept less than it is offered?
  MaxSent,      \* bound: bytes the peer sends
  MaxPut        \* bound: bytes the caller puts

ASSUME BufSizeAssumption == BUF_SIZE \in Nat \ {0}
ASSUME ByteAssumption == NUL \in Byte /\ Uninit \notin Byte
ASSUME FaultAssumption == ReadErrors \in BOOLEAN /\ ShortWrites \in BOOLEAN
ASSUME BoundAssumption == MaxSent \in Nat /\ MaxPut \in Nat

VARIABLES
  sent,      \* every byte the peer has sent on the descriptor
  nread,     \* how many of them read(2) has returned
  hungup,    \* the peer has closed its sending side
  opened,    \* the constructor has returned
  readbuf, rhead, rsize,
  peeked,    \* the character the last Peek or Take returned
  taken,     \* every byte Take has returned
  nput,      \* number of bytes put: the k-th byte put is the number k
  writebuf,  \* writebuf[0 .. wsize-1]; wsize is its length
  written    \* every byte write(2) has accepted

peerVars  == <<sent, hungup>>
readVars  == <<nread, readbuf, rhead, rsize, peeked, taken>>
writeVars == <<nput, writebuf, written>>
vars      == <<peerVars, opened, readVars, writeVars>>

Slot == 0 .. BUF_SIZE - 1

-----------------------------------------------------------------------------
(* The peer. *)

Send(b) == /\ Len(sent) < MaxSent
           /\ ~ hungup
           /\ sent' = Append(sent, b)
           /\ UNCHANGED <<hungup, opened, readVars, writeVars>>

HangUp == /\ ~ hungup
          /\ hungup' = TRUE
          /\ UNCHANGED <<sent, opened, readVars, writeVars>>

-----------------------------------------------------------------------------
(* fillreadbuf and the two operations rapidjson's reader calls. *)

readstart  == (rhead + rsize) % BUF_SIZE
(* Mutant: one slot is never filled, as in a ring without a counter. *)
SparingReadlength ==
  (IF readstart >= rhead THEN BUF_SIZE - 1 ELSE rhead) - readstart

readlength == (IF readstart >= rhead THEN BUF_SIZE ELSE rhead) - readstart

(* What read(fd, &readbuf[readstart], readlength) may return.  Nothing, when
   there is nothing to read and the peer has not hung up: the call blocks. *)
ReadReturns ==
  { n \in 1 .. readlength : nread + n <= Len(sent) }
    \cup { n \in {0} : readlength = 0 \/ (hungup /\ nread = Len(sent)) }
    \cup { n \in {-1} : ReadErrors }

(* The read half after fillreadbuf, when read(2) returned n; c is what Peek
   returns then. *)
Filled(n) ==
  IF n <= 0
  THEN [buf |-> readbuf, size |-> rsize, nread |-> nread, c |-> NUL]
  ELSE LET buf == [i \in Slot |-> IF i \in readstart .. readstart + n - 1
                                  THEN sent[nread + 1 + (i - readstart)]
                                  ELSE readbuf[i]]
       IN [buf |-> buf, size |-> rsize + n, nread |-> nread + n,
           c |-> buf[rhead]]

(* Mutant: Peek refills every time. *)
EagerPeekOutcomes == { Filled(n) : n \in ReadReturns }

(* Peek refills only when nothing is buffered. *)
PeekOutcomes ==
  IF rsize > 0
  THEN {[buf |-> readbuf, size |-> rsize, nread |-> nread,
         c |-> readbuf[rhead]]}
  ELSE { Filled(n) : n \in ReadReturns }

(* The constructor calls fillreadbuf and ignores what it returns. *)
Construct ==
  /\ ~ opened
  /\ opened' = TRUE
  /\ \E n \in ReadReturns :
       /\ readbuf' = Filled(n).buf
       /\ rsize' = Filled(n).size
       /\ nread' = Filled(n).nread
  /\ UNCHANGED <<peerVars, rhead, peeked, taken, writeVars>>

(* Mutant: Peek advances like Take. *)
GreedyPeek ==
  /\ opened
  /\ \E p \in PeekOutcomes :
       /\ readbuf' = p.buf /\ nread' = p.nread /\ peeked' = p.c
       /\ IF p.c = NUL THEN rsize' = p.size /\ UNCHANGED <<rhead, taken>>
          ELSE /\ rhead' = (rhead + 1) % BUF_SIZE /\ rsize' = p.size - 1
               /\ taken' = Append(taken, p.c)
  /\ UNCHANGED <<peerVars, opened, writeVars>>

(* Mutant: Peek does not refill. *)
BlindPeek ==
  /\ opened
  /\ peeked' = IF rsize > 0 THEN readbuf[rhead] ELSE NUL
  /\ UNCHANGED <<peerVars, opened, readbuf, rhead, rsize, nread, taken, writeVars>>

Peek ==
  /\ opened
  /\ \E p \in PeekOutcomes :
       /\ readbuf' = p.buf
       /\ rsize' = p.size
       /\ nread' = p.nread
       /\ peeked' = p.c
  /\ UNCHANGED <<peerVars, opened, rhead, taken, writeVars>>

(* Mutant: Take advances over '\0' too. *)
CarelessTake ==
  /\ opened
  /\ \E p \in PeekOutcomes :
       /\ readbuf' = p.buf /\ nread' = p.nread /\ peeked' = p.c
       /\ rhead' = (rhead + 1) % BUF_SIZE
       /\ rsize' = p.size - 1
       /\ taken' = Append(taken, p.c)
  /\ UNCHANGED <<peerVars, opened, writeVars>>

(* Take advances over what Peek returned, unless that is '\0'. *)
Take ==
  /\ opened
  /\ \E p \in PeekOutcomes :
       /\ readbuf' = p.buf
       /\ nread' = p.nread
       /\ peeked' = p.c
       /\ \/ /\ p.c # NUL
             /\ rhead' = (rhead + 1) % BUF_SIZE
             /\ rsize' = p.size - 1
             /\ taken' = Append(taken, p.c)
          \/ /\ p.c = NUL
             /\ rsize' = p.size
             /\ UNCHANGED <<rhead, taken>>
  /\ UNCHANGED <<peerVars, opened, writeVars>>

-----------------------------------------------------------------------------
(* Put and Flush, which rapidjson's writer calls. *)

(* How many bytes write(fd, writebuf, wsize) accepts; the result of the call
   is not looked at, so an error is the same as 0. *)
WriteAccepts == IF ShortWrites THEN 0 .. Len(writebuf) ELSE {Len(writebuf)}

(* Mutant: the buffer is not emptied. *)
RepeatingFlush ==
  /\ opened
  /\ \E k \in WriteAccepts : written' = written \o SubSeq(writebuf, 1, k)
  /\ UNCHANGED <<peerVars, opened, readVars, nput, writebuf>>

Flush ==
  /\ opened
  /\ \E k \in WriteAccepts : written' = written \o SubSeq(writebuf, 1, k)
  /\ writebuf' = <<>>
  /\ UNCHANGED <<peerVars, opened, readVars, nput>>

(* Mutants: a full buffer is started anew, or filled further. *)
DroppingPut ==
  /\ opened /\ nput < MaxPut /\ nput' = nput + 1
  /\ writebuf' = IF Len(writebuf) = BUF_SIZE THEN <<nput + 1>>
                 ELSE Append(writebuf, nput + 1)
  /\ UNCHANGED <<peerVars, opened, readVars, written>>

OverflowingPut ==
  /\ opened /\ nput < MaxPut /\ nput' = nput + 1
  /\ writebuf' = Append(writebuf, nput + 1)
  /\ UNCHANGED <<peerVars, opened, readVars, written>>

(* Put flushes first when the buffer is full. *)
Put ==
  /\ opened
  /\ nput < MaxPut
  /\ nput' = nput + 1
  /\ \/ /\ Len(writebuf) = BUF_SIZE
        /\ \E k \in WriteAccepts : written' = written \o SubSeq(writebuf, 1, k)
        /\ writebuf' = <<nput + 1>>
     \/ /\ Len(writebuf) # BUF_SIZE
        /\ writebuf' = Append(writebuf, nput + 1)
        /\ UNCHANGED written
  /\ UNCHANGED <<peerVars, opened, readVars>>

-----------------------------------------------------------------------------
StreamInit ==
  /\ opened = FALSE
  /\ readbuf = [i \in Slot |-> Uninit]
  /\ rhead = 0
  /\ rsize = 0
  /\ writebuf = <<>>

Init ==
  /\ StreamInit
  /\ sent = <<>> /\ nread = 0 /\ hungup = FALSE
  /\ peeked = NUL /\ taken = <<>>
  /\ nput = 0 /\ written = <<>>

Next == \/ \E b \in Byte : Send(b)
        \/ HangUp
        \/ Construct \/ Peek \/ Take
        \/ Put \/ Flush

Spec == Init /\ [][Next]_vars

(* The caller of the read half is a parser that wants its document: it goes
   on taking bytes. *)
FairSpec == Spec /\ WF_vars(Construct) /\ WF_vars(Take)

-----------------------------------------------------------------------------
(* Correctness. *)

(* Every variable keeps its shape; the indices stay inside the arrays. *)
TypeOK ==
  /\ sent \in Seq(Byte) /\ hungup \in BOOLEAN /\ opened \in BOOLEAN
  /\ nread \in 0 .. Len(sent)
  /\ readbuf \in [Slot -> Byte \cup {Uninit}]
  /\ rhead \in Slot
  /\ rsize \in 0 .. BUF_SIZE
  /\ peeked \in Byte
  /\ taken \in Seq(Byte)
  /\ nput \in Nat
  /\ writebuf \in Seq(Nat) /\ Len(writebuf) <= BUF_SIZE
  /\ written \in Seq(Nat)

(* The buffered bytes never wrap around the end of readbuf.  fillreadbuf
   computes two cases for the free space; since the buffer is refilled only
   when it is empty, the second one is never needed. *)
NoWrap == rhead + rsize <= BUF_SIZE

(* The ring holds exactly the bytes that were read and not yet taken, oldest
   at rhead, and the bytes before them are the ones Take has returned. *)
RingInv ==
  /\ NoWrap
  /\ ~ opened => rsize = 0
  /\ nread = Len(taken) + rsize
  /\ \A i \in 1 .. Len(taken) : taken[i] = sent[i]
  /\ \A i \in 0 .. rsize - 1 : readbuf[rhead + i] = sent[Len(taken) + i + 1]

AtNul == rsize > 0 /\ readbuf[rhead] = NUL

(* A NUL byte in the input is a wall: Take never steps over it, so whatever
   the peer sends behind it stays out of reach of this object. *)
NulIsAWall == [][AtNul => AtNul' /\ taken' = taken]_vars

AtEnd == hungup /\ nread = Len(sent)

(* While read(2) does not fail, '\0' is returned only in front of a NUL byte
   or when the peer has hung up and everything was read.  In particular the
   refill never asks read(2) for zero bytes, which would look like the end. *)
NoFalseEnd ==
  [][(Peek \/ Take) /\ peeked' = NUL => (AtNul \/ AtEnd)']_vars

(* What the caller takes is what the peer sent, in order, nothing lost,
   repeated or read from a slot that was never filled. *)
In == INSTANCE ByteChannel WITH got <- taken

InChannel == In!Spec

(* What reaches the descriptor is what was put, in order and complete up to
   the last flush, as long as write(2) accepts all it is offered. *)
Out == INSTANCE ByteChannel WITH sent <- [k \in 1 .. nput |-> k],
                                 got <- written

OutChannel == Out!Spec

(* Even when write(2) accepts less, nothing is written twice, out of order,
   or before it was put: bytes can only go missing. *)
OutputOrdered ==
  /\ \A i, j \in 1 .. Len(written) : i < j => written[i] < written[j]
  /\ \A i \in 1 .. Len(written), j \in 1 .. Len(writebuf) :
       written[i] < writebuf[j]

(* Every byte in front of the first NUL is taken in the end: no refill, at
   whatever position of the ring, stops the stream early. *)
AllTaken ==
  \A k \in 1 .. MaxSent :
    (Len(sent) >= k /\ \A i \in 1 .. k : sent[i] # NUL) ~> Len(taken) >= k

=============================================================================
