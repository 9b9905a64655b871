---------------------------- MODULE JsonSession ----------------------------
(***************************************************************************)
(* A server that reads requests with hook_JSON_read and answers each with  *)
(* hook_JSON_write, against a client on the other end.  Every call of a    *)
(* hook makes an FDStream of its own and destroys it on return.            *)
(*                                                                         *)
(* The client, the K program around the hooks and rapidjson's reader and   *)
(* writer are external.  A document is an object or a number; the reader   *)
(* is cut down to how it peeks and takes, and a reply is one byte.         *)
(***************************************************************************)
EXTENDS FDStream

CONSTANTS
  LBrace, RBrace, Digit, Space,   \* the other members of Byte
  MaxRequests,   \* bound: requests a client sends
  Clients        \* the clients there are

ASSUME ByteNames ==
  /\ Byte = {LBrace, RBrace, Digit, Space, NUL}
  /\ Space \notin {LBrace, RBrace, Digit, NUL} /\ NUL \notin {LBrace, RBrace, Digit}
  /\ Digit \notin {LBrace, RBrace} /\ LBrace # RBrace

(* A client sends requests, sequences of bytes.  It may wait for a reply before
   its next request, and it may be on a socket: then both hooks get the same
   descriptor. *)
ASSUME ClientsAssumption ==
  Clients \subseteq [waits : BOOLEAN, socket : BOOLEAN, requests : SUBSET Seq(Byte)]

(* A request that is one document: an object or a number, blanks around it and
   one that ends the number. *)
OneDocument(r) ==
  \E m \in 1 .. Len(r) :
    /\ \A j \in 1 .. m - 1 : r[j] = Space
    /\ \E n \in m + 1 .. Len(r) :
         \/ /\ r[m] = LBrace /\ r[n] = RBrace
            /\ \A j \in m + 1 .. Len(r) : j # n => r[j] = Space
         \/ /\ r[m] = Digit
            /\ \A j \in m + 1 .. n - 1 : r[j] = Digit
            /\ \A j \in n .. Len(r) : r[j] = Space

Documents == \A c \in Clients : \A r \in c.requests : OneDocument(r)

VARIABLES
  client,
  outbox,     \* what is left to send of the current request
  nrequests,  \* requests begun
  starts,     \* history: the position in sent where each request begins
  phase,      \* where the server is
  lost        \* history: the bytes an FDStream was destroyed with

clientVars  == <<client, outbox, nrequests, starts>>
sessionVars == <<vars, clientVars, phase, lost>>

nreplies == Len(written)

-----------------------------------------------------------------------------
(* The client. *)

Begin(r) ==
  /\ outbox = <<>> /\ ~ hungup
  /\ nrequests < MaxRequests
  /\ client.waits => nreplies = nrequests
  /\ outbox' = r
  /\ nrequests' = nrequests + 1
  /\ starts' = Append(starts, Len(sent) + 1)
  /\ UNCHANGED <<vars, client, phase, lost>>

SendNext ==
  /\ outbox # <<>>
  /\ Send(Head(outbox))
  /\ outbox' = Tail(outbox)
  /\ UNCHANGED <<client, nrequests, starts, phase, lost>>

(* A client stops between requests. *)
Leave == /\ outbox = <<>>
         /\ HangUp
         /\ UNCHANGED <<clientVars, phase, lost>>

-----------------------------------------------------------------------------
(* The server, inside hook_JSON_read. *)

Goto(p) == phase' = p /\ UNCHANGED <<clientVars, lost>>

OpenRead == phase = "idle" /\ Construct /\ Goto("blanks")

(* A character that is not wanted is peeked at and left there. *)
SkipBlanks ==
  /\ phase = "blanks"
  /\ \/ Take /\ peeked' = Space /\ Goto("blanks")
     \/ Peek /\ peeked' # Space /\ Goto("begin")

(* kParseErrorDocumentEmpty if the next Peek has nothing. *)
BeginValue ==
  /\ phase = "begin"
  /\ Peek
  /\ IF peeked' = NUL THEN Goto("eof") ELSE Goto("value")

Value ==
  /\ phase = "value"
  /\ \/ Take /\ peeked' = LBrace /\ Goto("object")
     \/ Take /\ peeked' = Digit /\ Goto("number")
     \/ Peek /\ peeked' \notin {LBrace, Digit} /\ Goto("parsed")

Object ==
  /\ phase = "object"
  /\ \/ Take /\ peeked' = Space /\ Goto("object")
     \/ Take /\ peeked' = RBrace /\ Goto("parsed")
     \/ Peek /\ peeked' \notin {Space, RBrace} /\ Goto("parsed")

(* Only the character behind a number shows that it has ended. *)
Number ==
  /\ phase = "number"
  /\ \/ Take /\ peeked' = Digit /\ Goto("number")
     \/ Peek /\ peeked' # Digit /\ Goto("parsed")

(* ~FDStream: what the ring still holds is gone. *)
Destroy ==
  /\ opened
  /\ opened' = FALSE
  /\ readbuf' = [i \in Slot |-> Uninit] /\ rhead' = 0 /\ rsize' = 0
  /\ writebuf' = <<>>
  /\ lost' = lost \o [i \in 1 .. rsize |-> readbuf[(rhead + i - 1) % BUF_SIZE]]
  /\ UNCHANGED <<peerVars, nread, peeked, taken, nput, written, clientVars>>

(* Mutant: the end of input is returned like any other error. *)
EndlessReturnRead == phase \in {"parsed", "eof"} /\ Destroy /\ phase' = "answer"

(* The hook returns; the program answers whatever is not the end of input. *)
ReturnRead == \/ phase = "parsed" /\ Destroy /\ phase' = "answer"
              \/ phase = "eof" /\ Destroy /\ phase' = "stopped"

-----------------------------------------------------------------------------
(* The server, inside hook_JSON_write.  The constructor reads from the
   descriptor it is to write to.  If that is not the requests' descriptor,
   read(2) has nothing for it. *)
GreedyOpenWrite == phase = "answer" /\ Construct /\ Goto("put")    \* mutant

(* Mutant: the constructor does not read. *)
LazyOpenWrite == /\ phase = "answer"
                 /\ opened' = TRUE
                 /\ UNCHANGED <<peerVars, readVars, writeVars>>
                 /\ Goto("put")

OpenWrite ==
  /\ phase = "answer"
  /\ \/ client.socket /\ Construct
     \/ /\ ~ client.socket
        /\ opened' = TRUE
        /\ UNCHANGED <<peerVars, readVars, writeVars>>
  /\ Goto("put")

(* rapidjson's writer flushes after the root of a document. *)
PutReply   == phase = "put" /\ Put /\ Goto("flush")
FlushReply == phase = "flush" /\ Flush /\ Goto("close")

ReturnWrite == phase = "close" /\ Destroy /\ phase' = "idle"

-----------------------------------------------------------------------------
SessionInit ==
  /\ Init
  /\ client \in Clients
  /\ outbox = <<>> /\ nrequests = 0 /\ starts = <<>>
  /\ phase = "idle" /\ lost = <<>>

Client == (\E r \in client.requests : Begin(r)) \/ SendNext \/ Leave

Server == \/ OpenRead \/ SkipBlanks \/ BeginValue \/ Value \/ Object \/ Number
          \/ ReturnRead
          \/ OpenWrite \/ PutReply \/ FlushReply \/ ReturnWrite

SessionNext == Client \/ Server

SessionSpec == SessionInit /\ [][SessionNext]_sessionVars

(* The server runs whenever it is not blocked in read(2), and a client sends
   the rest of a request it has begun. *)
FairSession == SessionSpec /\ WF_sessionVars(Server) /\ WF_sessionVars(SendNext)

-----------------------------------------------------------------------------
(* Correctness. *)

(* Destroying the read-ahead with the stream costs a client that waits nothing
   but the blanks behind its request. *)
OnlyBlanksLost == client.waits => \A i \in 1 .. Len(lost) : lost[i] = Space

(* A client that waits gets one reply for a request, and not before it has
   sent all of it up to the blanks behind it. *)
RepliesInStep ==
  client.waits =>
    /\ nreplies <= nrequests
    /\ nreplies = nrequests => \A i \in 1 .. Len(outbox) : outbox[i] = Space

(* ... and it does get the reply, unless it is on a socket. *)
Answered ==
  \A k \in 1 .. MaxRequests :
    (client.waits /\ ~ client.socket /\ nrequests = k /\ outbox = <<>>) ~> nreplies >= k

(* When the client hangs up, the server answers what it has and stops. *)
Stops == hungup ~> phase = "stopped"

(* With one descriptor for both directions the constructor of the writing
   stream takes input too, and that input is destroyed with it: until the
   client hangs up, every reply costs it at least one byte. *)
ReplyCostsInput ==
  client.socket /\ ~ hungup =>
    nreplies <= Len(lost) + (IF phase = "close" THEN rsize ELSE 0)

(* No blank is sent behind a document but the one that ends a number. *)
Tight(r) == r[Len(r)] # Space \/ r[Len(r) - 1] = Digit

(* Where a request ends with its document, a client that waits has no such
   byte to give.  It sees no reply before it hangs up: the server waits in
   the constructor for the client, and the client for the server. *)
MuteUntilHangUp ==
  client.socket /\ client.waits /\ (\A r \in client.requests : Tight(r)) /\ ~ hungup =>
    nreplies = 0

(* A client can only be misunderstood because of a lost byte: as long as the
   streams were destroyed empty, every document is parsed from its own first
   byte. *)
InSync ==
  [][phase = "value" /\ phase' # "value" /\ lost = <<>> =>
       \E i \in 1 .. Len(starts) :
         /\ starts[i] <= Len(taken) + 1
         /\ \A j \in starts[i] .. Len(taken) : sent[j] = Space]_sessionVars

=============================================================================
