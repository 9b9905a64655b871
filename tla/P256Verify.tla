---------------------------- MODULE P256Verify ----------------------------
(***************************************************************************)
(* hook_KRYPTO_p256verify of plugin-c/p256verify.cpp: calls one after   *)
(* the other, with every OpenSSL object they make.  OpenSSL is external.   *)
(* Any of its calls may fail for want of memory, besides those that fail   *)
(* because of the input.                                                   *)
(*                                                                         *)
(* The objects are named by the variables that point to them.  An object   *)
(* is live from its making until it is freed; freeing or using one that is *)
(* not live is recorded in misused.                                        *)
(***************************************************************************)
EXTENDS Integers, Sequences

CONSTANT MaxCalls    \* bound: calls of the hook

ASSUME MaxCallsAssumption == MaxCalls \in Nat

Object == {"pctx", "pkey", "sig", "bn_r", "bn_s", "sig_der", "vctx"}

VARIABLES
  input,     \* what is true of the argument
  pc,
  live, misused,
  owner,     \* sig has taken over bn_r and bn_s
  valid,     \* what EVP_PKEY_verify returned
  failed,    \* history: some OpenSSL call has failed
  outcome,   \* what the hook returned, at most one
  ncalls

vars == <<input, pc, live, misused, owner, valid, failed, outcome, ncalls>>

(* 160 bytes; their last 64 are a point; the first 96 are a hash and a
   signature of it. *)
Input == [sized : BOOLEAN, onCurve : BOOLEAN, signed : BOOLEAN]

-----------------------------------------------------------------------------
(* The heap. *)

Goto(p) == pc' = p

(* Make the objects xs and free the objects ys, having used the objects zs. *)
Heap(xs, ys, zs) == /\ live' = (live \cup xs) \ ys
                    /\ misused' = misused \cup ((ys \cup zs) \ (live \cup xs))

Use(zs) == Heap({}, {}, zs)

Failure == failed' = TRUE
NoFailure == UNCHANGED failed

Local == UNCHANGED <<input, owner, valid, outcome, ncalls>>

(* ECDSA_SIG_free frees what the signature owns. *)
SigParts == {"sig"} \cup (IF owner THEN {"bn_r", "bn_s"} ELSE {})

Return(r) == /\ outcome' = <<r>> /\ Goto("idle")
             /\ UNCHANGED <<input, owner, valid, failed, ncalls>>

-----------------------------------------------------------------------------
Call(in) ==
  /\ pc = "idle" /\ ncalls < MaxCalls
  /\ Goto("start")
  /\ input' = in /\ owner' = FALSE /\ valid' = FALSE /\ failed' = FALSE
  /\ outcome' = <<>> /\ ncalls' = ncalls + 1
  /\ UNCHANGED <<live, misused>>

CheckLength ==
  /\ pc = "start"
  /\ \/ ~ input.sized /\ Use({}) /\ Return("empty")
     \/ input.sized /\ Goto("ctx") /\ UNCHANGED <<live, misused, failed>> /\ Local

(* p256_pubkey_from_coords. *)

NewCtx ==
  /\ pc = "ctx" /\ Local
  /\ \/ Heap({"pctx"}, {}, {}) /\ NoFailure /\ Goto("fromdata_init")
     \/ Use({}) /\ Failure /\ Goto("no_pkey")

FromdataInit ==
  /\ pc = "fromdata_init" /\ Local
  /\ \/ Use({"pctx"}) /\ NoFailure /\ Goto("fromdata")
     \/ Heap({}, {"pctx"}, {"pctx"}) /\ Failure /\ Goto("no_pkey")

(* OpenSSL accepts the coordinates of a point of the curve only. *)
Fromdata ==
  /\ pc = "fromdata" /\ Local
  /\ \/ /\ input.onCurve
        /\ Heap({"pkey"}, {"pctx"}, {"pctx"}) /\ NoFailure /\ Goto("sig")
     \/ Heap({}, {"pctx"}, {"pctx"}) /\ Failure /\ Goto("no_pkey")

NoPkey == pc = "no_pkey" /\ Use({}) /\ Return("empty")

-----------------------------------------------------------------------------
(* p256_sig_to_der. *)

NewSig ==
  /\ pc = "sig" /\ Local
  /\ \/ Heap({"sig"}, {}, {}) /\ NoFailure /\ Goto("bn")
     \/ Use({}) /\ Failure /\ Goto("no_der")

(* Both conversions are made, whatever came of the first. *)
Bins ==
  /\ pc = "bn" /\ Local
  /\ \E made \in SUBSET {"bn_r", "bn_s"} :
       /\ Heap(made, {}, {})
       /\ failed' = (failed \/ made # {"bn_r", "bn_s"})
  /\ Goto("set0")

(* Mutants of Set0: ownership is forgotten on failure, or on success. *)
LeakySet0 ==
  /\ pc = "set0" /\ UNCHANGED <<input, valid, outcome, ncalls>>
  /\ \/ /\ {"bn_r", "bn_s"} \subseteq live
        /\ owner' = TRUE /\ Use({"sig", "bn_r", "bn_s"}) /\ NoFailure /\ Goto("i2d")
     \/ /\ Heap({}, SigParts, {})
        /\ Failure /\ Goto("no_der") /\ UNCHANGED owner

HungrySet0 ==
  /\ pc = "set0" /\ UNCHANGED <<input, valid, outcome, ncalls>>
  /\ \/ /\ {"bn_r", "bn_s"} \subseteq live
        /\ owner' = TRUE
        /\ Heap({}, {"bn_r", "bn_s"}, {"sig"}) /\ NoFailure /\ Goto("i2d")
     \/ /\ Heap({}, SigParts \cup (live \cap {"bn_r", "bn_s"}), {})
        /\ Failure /\ Goto("no_der") /\ UNCHANGED owner

(* On success the signature owns the two numbers; otherwise whichever of them
   was made is freed beside it. *)
Set0 ==
  /\ pc = "set0" /\ UNCHANGED <<input, valid, outcome, ncalls>>
  /\ \/ /\ {"bn_r", "bn_s"} \subseteq live
        /\ owner' = TRUE
        /\ Use({"sig", "bn_r", "bn_s"}) /\ NoFailure /\ Goto("i2d")
     \/ /\ Heap({}, SigParts \cup (live \cap {"bn_r", "bn_s"}), {})
        /\ Failure /\ Goto("no_der") /\ UNCHANGED owner

I2d ==
  /\ pc = "i2d" /\ Local
  /\ \/ Heap({"sig_der"}, SigParts, SigParts) /\ NoFailure /\ Goto("vctx")
     \/ Heap({}, SigParts, SigParts) /\ Failure /\ Goto("no_der")

NoDer == pc = "no_der" /\ Heap({}, {"pkey"}, {}) /\ Return("empty")

-----------------------------------------------------------------------------
(* p256_verify_prehash, and the end of the hook. *)

NewVctx ==
  /\ pc = "vctx" /\ UNCHANGED <<input, owner, outcome, ncalls>>
  /\ \/ Heap({"vctx"}, {}, {"pkey"}) /\ NoFailure /\ Goto("verify_init") /\ UNCHANGED valid
     \/ Use({"pkey"}) /\ Failure /\ Goto("finish") /\ valid' = FALSE

VerifyInit ==
  /\ pc = "verify_init" /\ UNCHANGED <<input, owner, outcome, ncalls>>
  /\ \/ Use({"vctx", "pkey"}) /\ NoFailure /\ Goto("verify") /\ UNCHANGED valid
     \/ /\ Heap({}, {"vctx"}, {"vctx", "pkey"})
        /\ Failure /\ Goto("finish") /\ valid' = FALSE

(* Mutant: the result is taken for a truth value, and a failure is negative. *)
TruthyVerify ==
  /\ pc = "verify" /\ UNCHANGED <<input, owner, outcome, ncalls>>
  /\ Heap({}, {"vctx"}, {"vctx", "pkey", "sig_der"})
  /\ Goto("finish")
  /\ \/ valid' = input.signed /\ NoFailure
     \/ valid' = TRUE /\ Failure

(* 1 for a good signature, 0 for a bad one, negative for a failure. *)
Verify ==
  /\ pc = "verify" /\ UNCHANGED <<input, owner, outcome, ncalls>>
  /\ Heap({}, {"vctx"}, {"vctx", "pkey", "sig_der"})
  /\ Goto("finish")
  /\ \E result \in {-1, 0, 1} :
       /\ result >= 0 => result = IF input.signed THEN 1 ELSE 0
       /\ valid' = (result = 1)
       /\ failed' = (failed \/ result < 0)

Finish ==
  /\ pc = "finish"
  /\ Heap({}, {"sig_der", "pkey"}, {})
  /\ Return(IF valid THEN "one" ELSE "empty")

-----------------------------------------------------------------------------
Init == /\ input \in Input /\ pc = "idle"
        /\ live = {} /\ misused = {} /\ owner = FALSE
        /\ valid = FALSE /\ failed = FALSE /\ outcome = <<>> /\ ncalls = 0

Next == \/ \E in \in Input : Call(in)
        \/ CheckLength
        \/ NewCtx \/ FromdataInit \/ Fromdata \/ NoPkey
        \/ NewSig \/ Bins \/ Set0 \/ I2d \/ NoDer
        \/ NewVctx \/ VerifyInit \/ Verify \/ Finish

Spec == Init /\ [][Next]_vars

-----------------------------------------------------------------------------
(* Correctness. *)

(* On none of the paths is an object freed twice or used when it is not there;
   the two numbers have two owners in turn. *)
NoMisuse == misused = {}

(* Whichever call fails, nothing is left when the hook returns. *)
NothingLeft == pc = "idle" => live = {}

(* The hook says yes to a signature only, whatever fails on the way; and no
   to a signature only if something failed. *)
Verdict ==
  /\ outcome = <<"one">> => input.sized /\ input.onCurve /\ input.signed
  /\ outcome = <<"empty">> =>
       failed \/ ~ (input.sized /\ input.onCurve /\ input.signed)

=============================================================================
