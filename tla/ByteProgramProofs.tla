------------------------- MODULE ByteProgramProofs -------------------------
(***************************************************************************)
(* What holds of a program that calls the hooks on byte strings, for every *)
(* number of calls: the ledger of OpenSSL objects and the verdict of       *)
(* p256verify, the two forms of a digest, and signing and recovering.      *)
(***************************************************************************)
EXTENDS ByteProgram, SequenceTheorems, TLAPS

-----------------------------------------------------------------------------
(* p256verify. *)

(* What is live is known from the place in the code ... *)
LiveHere ==
  /\ pc \in {"idle", "start", "ctx", "no_pkey"} => live = {}
  /\ pc \in {"fromdata_init", "fromdata"} => live = {"pctx"}
  /\ pc \in {"sig", "no_der"} => live = {"pkey"}
  /\ pc = "bn" => live = {"pkey", "sig"}
  /\ pc = "set0" => /\ {"pkey", "sig"} \subseteq live
                    /\ live \subseteq {"pkey", "sig", "bn_r", "bn_s"}
  /\ pc = "i2d" => live = {"pkey", "sig", "bn_r", "bn_s"}
  /\ pc \in {"vctx", "finish"} => live = {"pkey", "sig_der"}
  /\ pc \in {"verify_init", "verify"} => live = {"pkey", "sig_der", "vctx"}

(* ... and so is who owns the two numbers. *)
OwnerHere ==
  /\ pc \in {"sig", "bn", "set0"} => owner = FALSE
  /\ pc = "i2d" => owner = TRUE

Ledger == /\ misused = {}
          /\ LiveHere
          /\ pc \in {"start", "ctx", "fromdata_init", "fromdata"} => owner = FALSE
          /\ OwnerHere

(* What the checks on the way to a place have established. *)
Established ==
  /\ input \in Input /\ failed \in BOOLEAN /\ valid \in BOOLEAN
  /\ pc \notin {"idle", "start"} => input.sized
  /\ pc \in {"sig", "bn", "set0", "i2d", "no_der", "vctx", "verify_init",
             "verify", "finish"} => input.onCurve
  /\ pc = "no_pkey" => failed \/ ~ input.onCurve
  /\ pc = "no_der" => failed
  /\ pc = "set0" /\ ~ failed => {"bn_r", "bn_s"} \subseteq live
  /\ pc = "finish" => /\ valid => input.signed
                      /\ ~ valid => failed \/ ~ input.signed
  /\ pc # "idle" => outcome = <<>>

IInv == Ledger /\ Established /\ Verdict

LEMMA InitIInv == ProgramInit => IInv
<1> SUFFICES ASSUME Init PROVE IInv
  BY DEF ProgramInit
<1>1. Ledger
  BY DEF Init, Ledger, LiveHere, OwnerHere
<1>2. Established
  BY DEF Init, Established, Input
<1>3. Verdict
  BY DEF Init, Verdict
<1>. QED BY <1>1, <1>2, <1>3 DEF IInv

(* No step of a call disturbs the ledger. *)
LEMMA LedgerStep ==
  ASSUME IInv, Next
  PROVE  Ledger'
<1> USE DEF IInv, Ledger, LiveHere, OwnerHere, Goto, Heap, Use, Local, Return
<1>1. CASE \E in \in Input : Call(in)
  BY <1>1 DEF Call
<1>2. CASE CheckLength
  BY <1>2 DEF CheckLength
<1>3. CASE NewCtx
  BY <1>3 DEF NewCtx
<1>4. CASE FromdataInit
  BY <1>4 DEF FromdataInit
<1>5. CASE Fromdata
  BY <1>5 DEF Fromdata
<1>6. CASE NoPkey
  BY <1>6 DEF NoPkey
<1>7. CASE NewSig
  BY <1>7 DEF NewSig
<1>8. CASE Bins
  BY <1>8 DEF Bins
<1>9. CASE Set0
  BY <1>9 DEF Set0, SigParts
<1>10. CASE I2d
  BY <1>10 DEF I2d, SigParts
<1>11. CASE NoDer
  BY <1>11 DEF NoDer
<1>12. CASE NewVctx
  BY <1>12 DEF NewVctx
<1>13. CASE VerifyInit
  BY <1>13 DEF VerifyInit
<1>14. CASE Verify
  BY <1>14 DEF Verify
<1>15. CASE Finish
  BY <1>15 DEF Finish
<1>. QED
  BY <1>1, <1>2, <1>3, <1>4, <1>5, <1>6, <1>7, <1>8, <1>9, <1>10, <1>11,
     <1>12, <1>13, <1>14, <1>15 DEF Next

(* Nor what the checks have established. *)
LEMMA EstablishedStep ==
  ASSUME IInv, Next
  PROVE  Established'
<1> USE DEF IInv, Established, Goto, Local, Return, Failure, NoFailure
<1>1. CASE \E in \in Input : Call(in)
  BY <1>1 DEF Call, Input
<1>2. CASE CheckLength
  BY <1>2 DEF CheckLength
<1>3. CASE NewCtx
  BY <1>3 DEF NewCtx
<1>4. CASE FromdataInit
  BY <1>4 DEF FromdataInit
<1>5. CASE Fromdata
  BY <1>5 DEF Fromdata
<1>6. CASE NoPkey
  BY <1>6 DEF NoPkey
<1>7. CASE NewSig
  BY <1>7 DEF NewSig
<1>8. CASE Bins
  BY <1>8 DEF Bins, Heap
<1>9. CASE Set0
  BY <1>9 DEF Set0
<1>10. CASE I2d
  BY <1>10 DEF I2d
<1>11. CASE NoDer
  BY <1>11 DEF NoDer
<1>12. CASE NewVctx
  BY <1>12 DEF NewVctx
<1>13. CASE VerifyInit
  BY <1>13 DEF VerifyInit
<1>14. CASE Verify
  BY <1>14 DEF Verify, Input
<1>15. CASE Finish
  BY <1>15 DEF Finish
<1>. QED
  BY <1>1, <1>2, <1>3, <1>4, <1>5, <1>6, <1>7, <1>8, <1>9, <1>10, <1>11,
     <1>12, <1>13, <1>14, <1>15 DEF Next

(* An outcome is made by one of four returns, and then kept. *)
LEMMA VerdictStep ==
  ASSUME IInv, Next
  PROVE  Verdict'
<1>1. CASE outcome' = <<>>
  BY <1>1 DEF Verdict
<1>2. CASE outcome' # <<>>
  <2>1. CASE CheckLength \/ NoPkey \/ NoDer \/ Finish
    BY <1>2, <2>1
    DEF CheckLength, NoPkey, NoDer, Finish, Return, IInv, Established, Verdict, Local
  <2>2. CASE ~ (CheckLength \/ NoPkey \/ NoDer \/ Finish)
    <3>1. pc # "idle" /\ outcome' = outcome
      BY <1>2, <2>2 DEF Next, Call, NewCtx, FromdataInit, Fromdata, NewSig, Bins,
         Set0, I2d, NewVctx, VerifyInit, Verify, Local
    <3>. QED BY <1>2, <3>1 DEF IInv, Established
  <2>. QED BY <2>1, <2>2
<1>. QED BY <1>1, <1>2

LEMMA NextIInv == IInv /\ [ProgramNext]_programVars => IInv'
<1> SUFFICES ASSUME IInv, [Next]_vars PROVE IInv'
  BY DEF ProgramNext, programVars
<1>1. CASE UNCHANGED vars
  BY <1>1 DEF vars, IInv, Ledger, LiveHere, OwnerHere, Established, Verdict
<1>2. CASE Next
  BY <1>2, LedgerStep, EstablishedStep, VerdictStep DEF IInv
<1>. QED BY <1>1, <1>2

(* No OpenSSL object is freed twice or used after it was freed, on any path of
   p256verify.cpp and in any number of calls. *)
THEOREM MisuseFree == ProgramSpec => []NoMisuse
<1>1. IInv => NoMisuse
  BY DEF IInv, Ledger, NoMisuse
<1>. QED BY <1>1, InitIInv, NextIInv, PTL DEF ProgramSpec

(* None outlives the call that made it. *)
THEOREM LeakFree == ProgramSpec => []NothingLeft
<1>1. IInv => NothingLeft
  BY DEF IInv, Ledger, LiveHere, NothingLeft
<1>. QED BY <1>1, InitIInv, NextIInv, PTL DEF ProgramSpec

(* The 32-byte result is returned for a good signature only, and the empty
   one for a good signature only if some OpenSSL call failed. *)
THEOREM VerdictRight == ProgramSpec => []Verdict
<1>1. IInv => Verdict
  BY DEF IInv
<1>. QED BY <1>1, InitIInv, NextIInv, PTL DEF ProgramSpec

-----------------------------------------------------------------------------
(* Hexadecimal digits. *)

Byte == 0 .. 255
Bytes == Seq(Byte)

LEMMA Made ==
  ASSUME NEW B, NEW n \in Nat, NEW s \in [1 .. n -> B] PROVE s \in Seq(B) /\ Len(s) = n
OBVIOUS

LEMMA Digits ==
  ASSUME NEW b \in Byte
  PROVE  b \div 16 \in 0 .. 15 /\ b % 16 \in 0 .. 15 /\ 16 * (b \div 16) + (b % 16) = b
BY DEF Byte

(* hexEncode makes two digits of a byte, and from them the byte can be had. *)
LEMMA HexRoundTrip ==
  ASSUME NEW str \in Bytes
  PROVE  Len(hexEncode(str)) = 2 * Len(str) /\ Unhex(hexEncode(str)) = str
<1> DEFINE n == Len(str)
           hex == hexEncode(str)
<1>1. n \in Nat /\ 2 * n \in Nat
  BY DEF Bytes
<1>2. hex = [j \in 1 .. 2 * n |-> IF j % 2 = 1 THEN str[(j + 1) \div 2] \div 16
                                  ELSE str[j \div 2] % 16]
  BY DEF hexEncode
<1>3. Len(hex) = 2 * n
  BY <1>1, <1>2
<1>4. ASSUME NEW k \in 1 .. n
      PROVE  16 * hex[2 * k - 1] + hex[2 * k] = str[k]
  <2>1. 2 * k - 1 \in 1 .. 2 * n /\ 2 * k \in 1 .. 2 * n
    BY <1>1
  <2>2. (2 * k - 1) % 2 = 1 /\ (2 * k) % 2 = 0
        /\ ((2 * k - 1) + 1) \div 2 = k /\ (2 * k) \div 2 = k
    BY <1>1
  <2>3. hex[2 * k - 1] = str[k] \div 16
    <3> HIDE DEF hex
    <3>. QED BY <1>2, <2>1, <2>2
  <2>4. hex[2 * k] = str[k] % 16
    <3> HIDE DEF hex
    <3>. QED BY <1>2, <2>1, <2>2
  <2>5. str[k] \in Byte
    BY ElementOfSeq, Zenon DEF Bytes
  <2>. QED BY <2>3, <2>4, <2>5, Digits
<1>5. Unhex(hex) = [k \in 1 .. n |-> 16 * hex[2 * k - 1] + hex[2 * k]]
  <2>1. Len(hex) \div 2 = n
    BY <1>1, <1>3
  <2>. QED BY <2>1, Zenon DEF Unhex
<1>6. Unhex(hex) = [k \in 1 .. n |-> str[k]]
  BY <1>4, <1>5, Zenon
<1>7. str = [k \in 1 .. n |-> str[k]]
  BY DEF Bytes
<1>. QED BY <1>3, <1>6, <1>7, Zenon

-----------------------------------------------------------------------------
(* Digests. *)

LEMMA SeedIsByte == \A h \in DOMAIN RawHook : Seed(RawHook[h][1]) \in Nat
<1>1. \A h \in DOMAIN RawHook : \E n \in 1 .. 7 : Algorithms[n] = RawHook[h][1]
  BY DEF RawHook, Algorithms
<1>. QED BY <1>1 DEF Seed

LEMMA DigestBytes ==
  ASSUME NEW h \in DOMAIN RawHook, NEW x \in 0 .. 1
  PROVE  /\ RawResult(h, <<x>>) \in Bytes
         /\ Len(RawResult(h, <<x>>)) = RawHook[h][2]
<1>1. PICK n \in Nat, a \in Nat : n = RawHook[h][2] /\ a = Seed(RawHook[h][1])
  <2>1. RawHook[h][2] \in Nat
    BY DEF RawHook
  <2>. QED BY <2>1, SeedIsByte
<1>2. ASSUME NEW j \in 1 .. n PROVE (j * (<<x>>[1] + 7) + a) % 256 \in Byte
  <2>1. <<x>>[1] \in Nat
    OBVIOUS
  <2>2. j * (<<x>>[1] + 7) + a \in Nat
    BY <1>1, <2>1
  <2>. QED BY <2>2 DEF Byte
<1> DEFINE f(j) == (j * (<<x>>[1] + 7) + a) % 256
<1>3. RawResult(h, <<x>>) = [j \in 1 .. n |-> f(j)]
  BY <1>1 DEF RawResult, raw, Digest
<1>4. \A j \in 1 .. n : f(j) \in Byte
  BY <1>2
<1> HIDE DEF f
<1>5. RawResult(h, <<x>>) \in [1 .. n -> Byte]
  BY <1>3, <1>4
<1>. QED BY <1>1, <1>5, Made, Zenon DEF Bytes

(* The two hooks of a digest name the same algorithm and have arrays of the same
   size. *)
LEMMA HooksAgree ==
  ASSUME NEW h \in DOMAIN HexHook
  PROVE  /\ h \in DOMAIN RawHook /\ HexHook[h] = RawHook[h]
         /\ h \in DOMAIN Documented => 2 * RawHook[h][2] = Documented[h]
BY DEF HexHook, RawHook, Documented

LEMMA Forms ==
  ASSUME NEW h \in DOMAIN HexHook, NEW x \in 0 .. 1
  PROVE  /\ Unhex(HexResult(h, <<x>>)) = RawResult(h, <<x>>)
         /\ h \in DOMAIN Documented => Len(HexResult(h, <<x>>)) = Documented[h]
<1>1. PICK d : d = RawResult(h, <<x>>)
  OBVIOUS
<1>2. HexResult(h, <<x>>) = hexEncode(d)
  BY <1>1, HooksAgree DEF HexResult, RawResult, raw
<1>3. d \in Bytes /\ Len(d) = RawHook[h][2]
  BY <1>1, HooksAgree, DigestBytes
<1>4. Unhex(hexEncode(d)) = d /\ Len(hexEncode(d)) = 2 * RawHook[h][2]
  BY <1>3, HexRoundTrip, Zenon
<1>. QED BY <1>1, <1>2, <1>4, HooksAgree, Zenon

(* What a call of a hook leaves in last. *)
LEMMA RecoverCalled ==
  ASSUME NEW str, NEW v, NEW r, NEW s, EcdsaRecover(str, v, r, s)
  PROVE  /\ last'.hook = "ecdsaRecover" /\ last'.args = <<str, v, r, s>>
         /\ signature' = signature
         /\ \E k \in IF AllSized(<<str, r, s>>) /\ VFits(v) THEN recover(str, r \o s, v - 27)
                                                          ELSE {0} :
              last'.result = KeyBytes(k)
<1> DEFINE Keys == IF AllSized(<<str, r, s>>) /\ VFits(v) THEN recover(str, r \o s, v - 27)
                   ELSE {0}
<1>1. PICK k \in Keys : Returns("ecdsaRecover", <<str, v, r, s>>, raw(KeyBytes(k)))
  BY Zenon DEF EcdsaRecover
<1>2. signature' = signature
  BY DEF EcdsaRecover
<1> HIDE DEF Keys
<1>3. /\ last'.hook = "ecdsaRecover" /\ last'.args = <<str, v, r, s>>
      /\ last'.result = KeyBytes(k)
  BY <1>1 DEF Returns, raw
<1>. QED BY <1>1, <1>2, <1>3, Zenon DEF Keys

LEMMA HookCalled ==
  ASSUME HookNext, last'.hook \in DOMAIN HexHook, last'.args[2] = "hex"
  PROVE  \E h \in DOMAIN HexHook, x \in 0 .. 1 :
           /\ last'.hook = h /\ last'.args[1] = <<x>>
           /\ last'.result = HexResult(h, <<x>>)
<1>1. CASE \E h \in DOMAIN HexHook, x \in 0 .. 1 : HexDigest(h, <<x>>)
  BY <1>1 DEF HexDigest, Returns
<1>7. CASE \E h \in DOMAIN RawHook, x \in 0 .. 1 : RawDigest(h, <<x>>)
  BY <1>7 DEF RawDigest, Returns
<1>2. CASE Sha512_256Throws(<<0>>)
  BY <1>2 DEF Sha512_256Throws, Returns
<1>3. CASE \E n \in {31, 32}, l \in {63, 64}, good \in BOOLEAN :
             Ed25519Verify(Repeat(n, 1), Repeat(l, 1), good)
  BY <1>3 DEF Ed25519Verify, Returns, HexHook
<1>4. CASE Recovery
  <2>1. PICK str, v, r, s : EcdsaRecover(str, v, r, s)
    BY <1>4, Zenon DEF Recovery
  <2>2. last'.hook = "ecdsaRecover"
    BY <2>1, RecoverCalled
  <2>. QED BY <2>2 DEF HexHook
<1>5. CASE \E mhash, prikey : EcdsaSign(mhash, prikey)
  BY <1>5 DEF EcdsaSign, Returns, HexHook
<1>6. CASE \E prikey : EcdsaPubKey(prikey)
  BY <1>6 DEF EcdsaPubKey, Returns, HexHook
<1>. QED BY <1>1, <1>2, <1>3, <1>4, <1>5, <1>6, <1>7 DEF HookNext

(* The hexadecimal digest is the raw one in digits, as many as documented, for
   every digest (hash_ext.cpp, crypto.cpp 21-60 and plugin_util.cpp). *)
THEOREM FormsMatch == ProgramSpec => []FormsAgree
<1>1. ProgramInit => FormsAgree
  BY DEF ProgramInit, HookInit, FormsAgree, HexHook
<1>2. FormsAgree /\ [ProgramNext]_programVars => FormsAgree'
  <2> SUFFICES ASSUME FormsAgree, [ProgramNext]_programVars PROVE FormsAgree'
    OBVIOUS
  <2>1. CASE UNCHANGED hookVars
    BY <2>1 DEF hookVars, FormsAgree
  <2>2. CASE HookNext
    <3> SUFFICES ASSUME last'.hook \in DOMAIN HexHook, last'.args[2] = "hex"
                 PROVE  /\ Unhex(last'.result) = RawResult(last'.hook, last'.args[1])
                        /\ last'.hook \in DOMAIN Documented =>
                             Len(last'.result) = Documented[last'.hook]
      BY DEF FormsAgree
    <3>. QED BY <2>2, HookCalled, Forms, Zenon
  <2>. QED BY <2>1, <2>2 DEF ProgramNext, programVars
<1>. QED BY <1>1, <1>2, PTL DEF ProgramSpec

-----------------------------------------------------------------------------
(* Signing and recovering. *)

LEMMA Repeated ==
  ASSUME NEW n \in Nat \ {0}, NEW x \in Byte
  PROVE  /\ Repeat(n, x) \in Bytes /\ Len(Repeat(n, x)) = n
         /\ Repeat(n, x)[1] = x
<1>1. Repeat(n, x) \in [1 .. n -> Byte] /\ Repeat(n, x)[1] = x
  BY DEF Repeat
<1>. QED BY <1>1, Made, Zenon DEF Bytes

(* c is s with t behind it; c is the part of s from a to b. *)
Joins(c, s, t) == /\ Len(c) = Len(s) + Len(t)
                  /\ \A j \in 1 .. Len(s) : c[j] = s[j]
                  /\ \A j \in 1 .. Len(t) : c[Len(s) + j] = t[j]
Cuts(c, s, a, b) == /\ Len(c) = b - a + 1
                    /\ \A j \in 1 .. b - a + 1 : c[j] = s[a + j - 1]

LEMMA Joined ==
  ASSUME NEW s \in Bytes, NEW t \in Bytes
  PROVE  s \o t \in Bytes /\ Joins(s \o t, s, t)
<1>1. /\ s \o t \in Bytes /\ Len(s \o t) = Len(s) + Len(t)
      /\ \A j \in 1 .. Len(s) + Len(t) :
           (s \o t)[j] = IF j <= Len(s) THEN s[j] ELSE t[j - Len(s)]
  BY ConcatProperties, Zenon DEF Bytes
<1>2. Len(s) \in Nat /\ Len(t) \in Nat
  BY DEF Bytes
<1>3. \A j \in 1 .. Len(s) : (s \o t)[j] = s[j]
  BY <1>1, <1>2
<1>4. ASSUME NEW j \in 1 .. Len(t) PROVE (s \o t)[Len(s) + j] = t[j]
  <2>1. Len(s) + j \in 1 .. Len(s) + Len(t) /\ ~ Len(s) + j <= Len(s) /\ Len(s) + j - Len(s) = j
    BY <1>2
  <2>. QED BY <1>1, <2>1
<1>. QED BY <1>1, <1>3, <1>4 DEF Joins

LEMMA Cut ==
  ASSUME NEW s \in Bytes, NEW a \in Nat \ {0}, NEW b \in Nat, a <= b, b <= Len(s)
  PROVE  SubSeq(s, a, b) \in Bytes /\ Cuts(SubSeq(s, a, b), s, a, b)
<1>1. a \in Int /\ b \in Int /\ Len(s) \in Nat
  BY DEF Bytes
<1>2. \A j \in a .. b : s[j] \in Byte
  <2> SUFFICES ASSUME NEW j \in a .. b PROVE s[j] \in Byte
    OBVIOUS
  <2>1. j \in 1 .. Len(s)
    BY <1>1
  <2>. QED BY <2>1, ElementOfSeq, Zenon DEF Bytes
<1>3. /\ SubSeq(s, a, b) \in Seq(Byte)
      /\ Len(SubSeq(s, a, b)) = IF a <= b THEN b - a + 1 ELSE 0
      /\ \A j \in 1 .. b - a + 1 : SubSeq(s, a, b)[j] = s[a + j - 1]
  <2>. QED BY <1>1, <1>2, SubSeqProperties
<1>. QED BY <1>3, Zenon DEF Bytes, Cuts

LEMMA SameBytes ==
  ASSUME NEW s \in Bytes, NEW t \in Bytes, Len(s) = Len(t), \A j \in 1 .. Len(s) : s[j] = t[j]
  PROVE  s = t
BY SeqEqual, Zenon DEF Bytes

LEMMA One ==
  ASSUME NEW x \in Byte
  PROVE  <<x>> \in Bytes /\ Len(<<x>>) = 1 /\ <<x>>[1] = x
BY DEF Bytes

(* The three parts of a signature. *)
Whole(m, k) == R(m, k) \o S(m, k) \o <<RecId(m, k)>>

LEMMA Parts ==
  ASSUME NEW m \in 0 .. 1, NEW k \in 1 .. 2
  PROVE  /\ R(m, k) \in Bytes /\ Len(R(m, k)) = 32 /\ R(m, k)[1] = 16 * m + k
         /\ S(m, k) \in Bytes /\ Len(S(m, k)) = 32
         /\ RecId(m, k) \in 0 .. 3
         /\ Hash(m) \in Bytes /\ Len(Hash(m)) = 32 /\ Hash(m)[1] = m
         /\ Key(k) \in Bytes /\ Len(Key(k)) = 32 /\ Key(k)[1] = k
<1>1. PICK r \in Byte, s \in Byte : r = 16 * m + k /\ s = 128 + 16 * m + k
  <2>1. 16 * m + k \in Byte /\ 128 + 16 * m + k \in Byte
    BY DEF Byte
  <2>. QED BY <2>1
<1>2. m \in Byte /\ k \in Byte
  BY DEF Byte
<1>3. RecId(m, k) \in 0 .. 3
  BY DEF RecId
<1>4. PICK n \in Nat \ {0} : n = 32
  OBVIOUS
<1>5. /\ R(m, k) = Repeat(n, r) /\ S(m, k) = Repeat(n, s)
      /\ Hash(m) = Repeat(n, m) /\ Key(k) = Repeat(n, k)
  BY <1>1, <1>4 DEF R, S, Hash, Key
<1>6. /\ R(m, k) \in Bytes /\ Len(R(m, k)) = n /\ R(m, k)[1] = r
      /\ S(m, k) \in Bytes /\ Len(S(m, k)) = n
  BY <1>5, Repeated, Zenon
<1>7. /\ Hash(m) \in Bytes /\ Len(Hash(m)) = n /\ Hash(m)[1] = m
      /\ Key(k) \in Bytes /\ Len(Key(k)) = n /\ Key(k)[1] = k
  BY <1>2, <1>5, Repeated, Zenon
<1>. QED BY <1>1, <1>3, <1>4, <1>6, <1>7

(* w is r, s and the one byte of e, r and s of length n. *)
Apart(w, n, r, s, e) ==
  /\ w = r \o s \o e /\ Len(w) = 2 * n + 1
  /\ SubSeq(w, 1, n) = r /\ SubSeq(w, n + 1, 2 * n) = s
  /\ w[2 * n + 1] = e[1]

LEMMA Taken ==
  ASSUME NEW n \in Nat \ {0}, NEW r \in Bytes, NEW s \in Bytes, NEW e \in Bytes,
         Len(r) = n, Len(s) = n, Len(e) = 1
  PROVE  \E w \in Bytes : Apart(w, n, r, s, e)
<1>1. PICK rs \in Bytes : rs = r \o s /\ Joins(rs, r, s)
  BY Joined, Zenon
<1>2. PICK w \in Bytes : w = rs \o e /\ Joins(w, rs, e)
  BY Joined, Zenon
<1>3. /\ Len(w) = 2 * n + 1 /\ w[2 * n + 1] = e[1]
      /\ \A j \in 1 .. n : w[j] = r[j] /\ w[n + j] = s[j]
  BY <1>1, <1>2 DEF Joins
<1>4. ASSUME NEW a \in Nat \ {0}, NEW b \in Nat, NEW t \in Bytes, Len(t) = n,
             a <= b, b <= Len(w), b - a + 1 = n,
             \A j \in 1 .. n : w[a + j - 1] = t[j]
      PROVE  SubSeq(w, a, b) = t
  <2>1. PICK c \in Bytes : c = SubSeq(w, a, b) /\ Cuts(c, w, a, b)
    BY <1>4, Cut, Zenon
  <2>2. Len(c) = Len(t) /\ \A j \in 1 .. Len(c) : c[j] = t[j]
    BY <1>4, <2>1 DEF Cuts
  <2>3. c = t
    BY <2>2, SameBytes, Zenon
  <2>. QED BY <2>1, <2>3
<1>5. SubSeq(w, 1, n) = r
  <2>1. 1 <= n /\ n <= Len(w) /\ n - 1 + 1 = n /\ 1 \in Nat \ {0} /\ n \in Nat
    BY <1>3
  <2>2. \A j \in 1 .. n : w[1 + j - 1] = r[j]
    BY <1>3
  <2>. QED BY <1>4, <2>1, <2>2, Zenon
<1>6. SubSeq(w, n + 1, 2 * n) = s
  <2>1. n + 1 <= 2 * n /\ 2 * n <= Len(w) /\ 2 * n - (n + 1) + 1 = n
        /\ n + 1 \in Nat \ {0} /\ 2 * n \in Nat
    BY <1>3
  <2>2. \A j \in 1 .. n : w[n + 1 + j - 1] = s[j]
    BY <1>3
  <2>. QED BY <1>4, <2>1, <2>2, Zenon
<1>. QED BY <1>1, <1>2, <1>3, <1>5, <1>6, Zenon DEF Apart

LEMMA WholeParts ==
  ASSUME NEW m \in 0 .. 1, NEW k \in 1 .. 2
  PROVE  /\ Whole(m, k) \in Bytes /\ Len(Whole(m, k)) = 65
         /\ SubSeq(Whole(m, k), 1, 32) = R(m, k)
         /\ SubSeq(Whole(m, k), 33, 64) = S(m, k)
         /\ Whole(m, k)[65] = RecId(m, k)
<1>1. PICK n \in Nat \ {0} : n = 32
  OBVIOUS
<1>2. R(m, k) \in Bytes /\ Len(R(m, k)) = n /\ S(m, k) \in Bytes /\ Len(S(m, k)) = n
  BY <1>1, Parts
<1>3. PICK e \in Bytes : e = <<RecId(m, k)>> /\ Len(e) = 1 /\ e[1] = RecId(m, k)
  <2>1. RecId(m, k) \in Byte
    BY DEF RecId, Byte
  <2>. QED BY <2>1, One, Zenon
<1>4. PICK w \in Bytes : Apart(w, n, R(m, k), S(m, k), e)
  <2>1. Len(e) = 1
    BY <1>3
  <2>. QED BY <1>2, <2>1, Taken, Zenon
<1>5. w = Whole(m, k)
  BY <1>3, <1>4, Zenon DEF Whole, Apart
<1>6. 2 * n + 1 = 65 /\ n + 1 = 33 /\ 2 * n = 64
  BY <1>1
<1>. QED BY <1>1, <1>3, <1>4, <1>5, <1>6 DEF Apart

(* A hash, r and s name the message and the key. *)
LEMMA Distinct ==
  ASSUME NEW m \in 0 .. 1, NEW k \in 1 .. 2, NEW m2 \in 0 .. 1, NEW k2 \in 1 .. 2
  PROVE  /\ Hash(m) = Hash(m2) => m = m2
         /\ R(m, k) \o S(m, k) = R(m2, k2) \o S(m2, k2) => m = m2 /\ k = k2
<1>1. ASSUME NEW a \in 0 .. 1, NEW b \in 1 .. 2
      PROVE  (R(a, b) \o S(a, b))[1] = 16 * a + b
  <2>1. R(a, b) \in Bytes /\ S(a, b) \in Bytes /\ 1 \in 1 .. Len(R(a, b))
        /\ R(a, b)[1] = 16 * a + b
    BY Parts
  <2>2. Joins(R(a, b) \o S(a, b), R(a, b), S(a, b))
    BY <2>1, Joined, Zenon
  <2>. QED BY <2>1, <2>2, Zenon DEF Joins
<1>2. ASSUME R(m, k) \o S(m, k) = R(m2, k2) \o S(m2, k2) PROVE m = m2 /\ k = k2
  <2>1. 16 * m + k = 16 * m2 + k2
    BY <1>1, <1>2, Zenon
  <2>. QED BY <2>1
<1>3. ASSUME Hash(m) = Hash(m2) PROVE m = m2
  BY <1>3, Parts, Zenon
<1>. QED BY <1>2, <1>3

(* Of a signature recovery yields the signer with its own id, and with any other
   id somebody else or nobody. *)
LEMMA Recovered ==
  ASSUME NEW m \in 0 .. 1, NEW k \in 1 .. 2, NEW id
  PROVE  recover(Hash(m), R(m, k) \o S(m, k), id)
           = IF id = RecId(m, k) THEN {k} ELSE {0, 3}
<1> DEFINE sig == R(m, k) \o S(m, k)
           Known == \E mk \in Signed :
                      /\ Hash(m) = Hash(mk[1]) /\ sig = R(mk[1], mk[2]) \o S(mk[1], mk[2])
                      /\ id = RecId(mk[1], mk[2])
           Signer(j) == j \in 1 .. 2 /\ sig = R(Hash(m)[1], j) \o S(Hash(m)[1], j)
<1>1. Known <=> id = RecId(m, k)
  <2>1. ASSUME id = RecId(m, k) PROVE Known
    <3>1. <<m, k>> \in Signed /\ <<m, k>>[1] = m /\ <<m, k>>[2] = k
      BY DEF Signed
    <3>. QED BY <2>1, <3>1, Zenon
  <2>2. ASSUME Known PROVE id = RecId(m, k)
    <3>1. PICK mk \in Signed : /\ sig = R(mk[1], mk[2]) \o S(mk[1], mk[2])
                               /\ id = RecId(mk[1], mk[2])
      BY <2>2, Zenon
    <3>2. mk[1] \in 0 .. 1 /\ mk[2] \in 1 .. 2
      BY <3>1 DEF Signed
    <3>3. PICK a \in 0 .. 1, b \in 1 .. 2 : a = mk[1] /\ b = mk[2]
      BY <3>2
    <3>4. sig = R(a, b) \o S(a, b) /\ id = RecId(a, b)
      BY <3>1, <3>3, Zenon
    <3>5. m = a /\ k = b
      BY <3>4, Distinct, Zenon
    <3>. QED BY <3>4, <3>5, Zenon
  <2>. QED BY <2>1, <2>2
<1>2. Hash(m)[1] = m
  BY Parts, Zenon
<1>3. (CHOOSE j \in 1 .. 2 : sig = R(Hash(m)[1], j) \o S(Hash(m)[1], j)) = k
  <2>1. \A j \in 1 .. 2 : sig = R(Hash(m)[1], j) \o S(Hash(m)[1], j) <=> j = k
    BY <1>2, Distinct, Zenon
  <2>. QED BY <2>1, Zenon
<1>4. recover(Hash(m), sig, id)
        = IF Known THEN {CHOOSE j \in 1 .. 2 : sig = R(Hash(m)[1], j) \o S(Hash(m)[1], j)}
          ELSE {0, 3}
  BY Zenon DEF recover
<1>. QED BY <1>1, <1>3, <1>4, Zenon

(* Keys differ in their bytes. *)
LEMMA KeysDiffer ==
  ASSUME NEW j \in {0, 1, 2, 3}, NEW k \in 1 .. 2
  PROVE  KeyBytes(j) = KeyBytes(k) <=> j = k
<1>1. ASSUME NEW n \in 1 .. 3
      PROVE  Len(KeyBytes(n)) = 64 /\ KeyBytes(n)[1] = 16 * n + 1
  <2>1. PICK t : t = [i \in 1 .. 64 |-> (16 * n + i) % 256]
    OBVIOUS
  <2>2. t \in [1 .. 64 -> Byte]
    <3>1. \A i \in 1 .. 64 : (16 * n + i) % 256 \in Byte
      BY <1>1 DEF Byte
    <3>. QED BY <2>1, <3>1
  <2>3. t[1] = 16 * n + 1
    <3>1. t[1] = (16 * n + 1) % 256
      BY <2>1
    <3>. QED BY <1>1, <3>1
  <2>4. t \in Bytes /\ Len(t) = 64
    <3>1. PICK l \in Nat : l = 64
      OBVIOUS
    <3>2. t \in [1 .. l -> Byte]
      BY <2>2, <3>1
    <3>3. t \in Bytes /\ Len(t) = l
      BY <3>2, Made, Zenon DEF Bytes
    <3>. QED BY <3>1, <3>3
  <2>5. PICK f \in Bytes : f = <<4>> /\ Len(f) = 1
    <3>1. 4 \in Byte
      BY DEF Byte
    <3>. QED BY <3>1, One, Zenon
  <2>6. PICK s \in Bytes : s = f \o t /\ Joins(s, f, t)
    BY <2>4, Joined, Zenon
  <2>7. Len(s) = 65 /\ s[2] = t[1]
    BY <2>4, <2>5, <2>6 DEF Joins
  <2>8. KeyBytes(n) = SubSeq(s, 2, 65)
    <3>1. serialize(n) = s
      BY <2>1, <2>5, <2>6, Zenon DEF serialize
    <3>2. n # 0
      BY <1>1
    <3>3. n # 0 => KeyBytes(n) = SubSeq(serialize(n), 2, 65)
      BY DEF KeyBytes
    <3>. QED BY <3>1, <3>2, <3>3
  <2>9. Len(SubSeq(s, 2, 65)) = 64 /\ SubSeq(s, 2, 65)[1] = s[2]
    <3>1. PICK a \in Nat \ {0}, b \in Nat : a = 2 /\ b = 65
      OBVIOUS
    <3>2. a <= b /\ b <= Len(s)
      BY <2>7, <3>1
    <3>3. Cuts(SubSeq(s, a, b), s, a, b)
      BY <3>2, Cut, Zenon
    <3>. QED BY <3>1, <3>3 DEF Cuts
  <2>. QED BY <2>3, <2>7, <2>8, <2>9
<1>2. CASE j = 0
  <2>1. Len(KeyBytes(j)) = 0 /\ j # k
    BY <1>2 DEF KeyBytes
  <2>2. Len(KeyBytes(k)) = 64
    BY <1>1
  <2>. QED BY <2>1, <2>2
<1>3. CASE j \in 1 .. 3
  <2>1. KeyBytes(j)[1] = 16 * j + 1 /\ KeyBytes(k)[1] = 16 * k + 1
    BY <1>1, <1>3
  <2>. QED BY <1>3, <2>1
<1>. QED BY <1>2, <1>3

(* What ecdsaSign puts out, if it puts out anything. *)
LEMMA SignedBytes ==
  ASSUME NEW mhash \in {Hash(0), Hash(1), Short},
         NEW prikey \in {Key(0), Key(1), Key(2), Short},
         SignResult(mhash, prikey) # <<>>
  PROVE  \E m \in 0 .. 1, k \in 1 .. 2 :
           /\ mhash = Hash(m) /\ prikey = Key(k)
           /\ SignResult(mhash, prikey) = Whole(m, k)
<1>1. Len(prikey) = 32 /\ Len(mhash) = 32 /\ prikey[1] # 0
  <2>1. AllSized(<<prikey, mhash>>) /\ prikey[1] # 0
    BY Zenon DEF SignResult
  <2>. QED BY <2>1 DEF AllSized
<1>2. Len(Short) # 32
  <2>1. PICK n \in Nat \ {0} : n = 31
    OBVIOUS
  <2>2. Len(Repeat(n, 1)) = n
    <3>1. 1 \in Byte
      BY DEF Byte
    <3>. QED BY <3>1, Repeated, Zenon
  <2>3. Short = Repeat(n, 1)
    BY <2>1 DEF Short
  <2>4. Len(Short) = n
    BY <2>2, <2>3, Zenon
  <2>. QED BY <2>1, <2>4
<1>3. Key(0)[1] = 0
  <2>1. 0 \in Byte
    BY DEF Byte
  <2>2. PICK n \in Nat \ {0} : n = 32
    OBVIOUS
  <2>3. Repeat(n, 0)[1] = 0
    BY <2>1, Repeated, Zenon
  <2>. QED BY <2>2, <2>3 DEF Key
<1>4. PICK m \in 0 .. 1 : mhash = Hash(m)
  BY <1>1, <1>2
<1>5. PICK k \in 1 .. 2 : prikey = Key(k)
  BY <1>1, <1>2, <1>3
<1>6. mhash[1] = m /\ prikey[1] = k
  BY <1>4, <1>5, Parts, Zenon
<1>7. SignResult(mhash, prikey)
        = R(mhash[1], prikey[1]) \o S(mhash[1], prikey[1]) \o <<RecId(mhash[1], prikey[1])>>
  BY Zenon DEF SignResult
<1>. QED BY <1>4, <1>5, <1>6, <1>7, Zenon DEF Whole

(* The signature kept is one of a message with a key. *)
IsSignature(m, k) ==
  /\ signature # <<>>
  /\ signature[1].args = <<Hash(m), Key(k)>>
  /\ Sig = Whole(m, k)

SignatureInv == signature # <<>> => \E m \in 0 .. 1, k \in 1 .. 2 : IsSignature(m, k)

(* The one hook that is called with a signature, the one that makes it. *)
LEMMA Calls ==
  ASSUME HookNext
  PROVE  \/ Recovery
         \/ /\ last'.hook # "ecdsaRecover"
            /\ \/ signature' = signature
               \/ \E mhash \in {Hash(0), Hash(1), Short},
                    prikey \in {Key(0), Key(1), Key(2), Short} :
                    EcdsaSign(mhash, prikey)
<1>1. ASSUME NEW h, NEW x, \/ h \in DOMAIN HexHook /\ HexDigest(h, <<x>>)
                           \/ h \in DOMAIN RawHook /\ RawDigest(h, <<x>>)
      PROVE  last'.hook # "ecdsaRecover" /\ signature' = signature
  BY <1>1 DEF HexDigest, RawDigest, Returns, HexHook, RawHook
<1>2. ASSUME NEW str, Sha512_256Throws(str)
      PROVE  last'.hook # "ecdsaRecover" /\ signature' = signature
  BY <1>2 DEF Sha512_256Throws, Returns
<1>3. ASSUME NEW key, NEW sig, NEW good, Ed25519Verify(key, sig, good)
      PROVE  last'.hook # "ecdsaRecover" /\ signature' = signature
  BY <1>3 DEF Ed25519Verify, Returns
<1>4. ASSUME NEW mhash, NEW prikey, EcdsaSign(mhash, prikey)
      PROVE  last'.hook # "ecdsaRecover"
  BY <1>4 DEF EcdsaSign, Returns
<1>5. ASSUME NEW prikey, EcdsaPubKey(prikey)
      PROVE  last'.hook # "ecdsaRecover" /\ signature' = signature
  BY <1>5 DEF EcdsaPubKey, Returns
<1>. QED BY <1>1, <1>2, <1>3, <1>4, <1>5 DEF HookNext

LEMMA SignatureKept ==
  ASSUME SignatureInv, HookNext
  PROVE  SignatureInv'
<1>1. CASE signature' = signature
  <2>1. SignatureInv' <=> SignatureInv
    BY <1>1 DEF SignatureInv, IsSignature, Sig
  <2>. QED BY <2>1
<1>2. CASE signature' # signature
  <2>1. ~ Recovery
    <3>1. ASSUME NEW str, NEW v, NEW r, NEW s, EcdsaRecover(str, v, r, s)
          PROVE  signature' = signature
      BY <3>1, RecoverCalled, Zenon
    <3>. QED BY <1>2, <3>1, Zenon DEF Recovery
  <2>2. PICK mhash \in {Hash(0), Hash(1), Short}, prikey \in {Key(0), Key(1), Key(2), Short} :
          EcdsaSign(mhash, prikey)
    BY <1>2, <2>1, Calls, Zenon
  <2>3. SignResult(mhash, prikey) # <<>> /\ signature' = <<last'>>
    BY <1>2, <2>2, Zenon DEF EcdsaSign
  <2>4. PICK m \in 0 .. 1, k \in 1 .. 2 :
          /\ mhash = Hash(m) /\ prikey = Key(k)
          /\ SignResult(mhash, prikey) = Whole(m, k)
    BY <2>3, SignedBytes, Zenon
  <2>5. /\ last'.args = <<mhash, prikey>>
        /\ last'.result = hexEncode(SignResult(mhash, prikey))
    <3>1. Returns("ecdsaSign", <<mhash, prikey>>, hexEncode(SignResult(mhash, prikey)))
      BY <2>2, Zenon DEF EcdsaSign
    <3> DEFINE result == hexEncode(SignResult(mhash, prikey))
    <3> HIDE DEF result
    <3>2. last' = [hook |-> "ecdsaSign", args |-> <<mhash, prikey>>, result |-> result]
      BY <3>1, Zenon DEF Returns, result
    <3>3. last'.args = <<mhash, prikey>> /\ last'.result = result
      BY <3>2
    <3>. QED BY <3>3 DEF result
  <2>6. Unhex(hexEncode(Whole(m, k))) = Whole(m, k)
    BY WholeParts, HexRoundTrip, Zenon
  <2>7. signature'[1] = last' /\ signature' # <<>>
    BY <2>3
  <2>8. signature'[1].args = <<Hash(m), Key(k)>> /\ Unhex(signature'[1].result) = Whole(m, k)
    BY <2>4, <2>5, <2>6, <2>7, Zenon
  <2>. QED BY <2>7, <2>8, Zenon DEF SignatureInv, IsSignature, Sig
<1>. QED BY <1>1, <1>2

(* The recovery of a signature's message from its r and s, whatever v. *)
LEMMA RecoverySound ==
  ASSUME NEW m \in 0 .. 1, NEW k \in 1 .. 2, NEW v \in Int,
         EcdsaRecover(Hash(m), v, R(m, k), S(m, k))
  PROVE  last'.result = KeyBytes(k) <=> RecId(m, k) \in {0, 1} /\ v = RecId(m, k) + 27
<1> DEFINE Keys == IF VFits(v) THEN IF v - 27 = RecId(m, k) THEN {k} ELSE {0, 3}
                   ELSE {0}
<1>1. AllSized(<<Hash(m), R(m, k), S(m, k)>>)
  <2>1. Len(Hash(m)) = 32 /\ Len(R(m, k)) = 32 /\ Len(S(m, k)) = 32
    BY Parts, Zenon
  <2>. QED BY <2>1 DEF AllSized
<1>2. PICK j \in Keys : last'.result = KeyBytes(j)
  <2>1. recover(Hash(m), R(m, k) \o S(m, k), v - 27)
          = IF v - 27 = RecId(m, k) THEN {k} ELSE {0, 3}
    BY Recovered, Zenon
  <2>2. PICK j \in IF AllSized(<<Hash(m), R(m, k), S(m, k)>>) /\ VFits(v)
                   THEN recover(Hash(m), R(m, k) \o S(m, k), v - 27)
                   ELSE {0} :
          last'.result = KeyBytes(j)
    BY RecoverCalled, Zenon
  <2>3. j \in Keys
    BY <1>1, <2>1, <2>2, Zenon
  <2>. QED BY <2>2, <2>3, Zenon
<1>3. RecId(m, k) \in 0 .. 3
  BY Parts, Zenon
<1>4. j \in {0, 1, 2, 3} /\ (j = k <=> RecId(m, k) \in {0, 1} /\ v = RecId(m, k) + 27)
  BY <1>3 DEF VFits
<1>5. KeyBytes(j) = KeyBytes(k) <=> j = k
  BY <1>4, KeysDiffer, Zenon
<1>. QED BY <1>2, <1>4, <1>5, Zenon

LEMMA RecoveryStep ==
  ASSUME SignatureInv, Recovery
  PROVE  SignerRecovered'
<1>1. PICK v \in Int : \E str, r, s : EcdsaRecover(str, v, r, s)
  <2>1. ASSUME NEW v \in {-1, 0, 27, 28, 29} PROVE v \in Int
    OBVIOUS
  <2>2. ASSUME signature # <<>>, NEW v \in {Sig[65], Sig[65] + 27, 27, 28} PROVE v \in Int
    <3>1. PICK m \in 0 .. 1, k \in 1 .. 2 : Sig = Whole(m, k)
      BY <2>2, Zenon DEF SignatureInv, IsSignature
    <3>2. Sig[65] = RecId(m, k)
      BY <3>1, WholeParts
    <3>3. RecId(m, k) \in 0 .. 3
      BY Parts, Zenon
    <3>. QED BY <3>2, <3>3
  <2>3. CASE \E str \in {Hash(0), Hash(1), Short}, v \in {-1, 0, 27, 28, 29} :
               EcdsaRecover(str, v, Hash(9), Hash(9))
    BY <2>1, <2>3, Zenon
  <2>4. CASE /\ signature # <<>>
             /\ \E str \in {Hash(0), Hash(1), Short}, v \in {Sig[65], Sig[65] + 27, 27, 28} :
                  EcdsaRecover(str, v, SubSeq(Sig, 1, 32), SubSeq(Sig, 33, 64))
    <3>1. PICK str \in {Hash(0), Hash(1), Short}, v \in {Sig[65], Sig[65] + 27, 27, 28} :
            EcdsaRecover(str, v, SubSeq(Sig, 1, 32), SubSeq(Sig, 33, 64))
      BY <2>4, Zenon
    <3>2. v \in Int
      BY <2>2, <2>4
    <3>. QED BY <3>1, <3>2, Zenon
  <2>. QED BY <2>3, <2>4, Zenon DEF Recovery
<1>2. PICK str, r, s : EcdsaRecover(str, v, r, s)
  BY <1>1
<1>3. last'.args = <<str, v, r, s>> /\ signature' = signature
  BY <1>2, RecoverCalled, Zenon
<1>4. SUFFICES ASSUME OfSignature(last.args)'
      PROVE  LET prikey == signature'[1].args[2]
                 recid == RecId(last'.args[1][1], prikey[1])
             IN last'.result = PubKeyOf(prikey)
                  <=> recid \in {0, 1} /\ last'.args[2] = recid + 27
  BY Zenon DEF SignerRecovered
<1>5. Sig' = Sig
  BY <1>3, Zenon DEF Sig
<1>6. PICK m \in 0 .. 1, k \in 1 .. 2 : IsSignature(m, k)
  BY <1>3, <1>4, Zenon DEF OfSignature, SignatureInv
<1>7. last'.args[1] = str /\ last'.args[2] = v /\ last'.args[3] = r /\ last'.args[4] = s
  BY <1>3
<1>8. signature[1].args[1] = Hash(m) /\ signature[1].args[2] = Key(k)
  <2>1. signature[1].args = <<Hash(m), Key(k)>>
    BY <1>6, Zenon DEF IsSignature
  <2>. QED BY <2>1
<1>9. Sig = Whole(m, k)
  BY <1>6, Zenon DEF IsSignature
<1>10. str = Hash(m) /\ r = R(m, k) /\ s = S(m, k)
  <2>1. /\ str = signature[1].args[1]
        /\ r = SubSeq(Sig, 1, 32) /\ s = SubSeq(Sig, 33, 64)
    BY <1>3, <1>4, <1>5, <1>7, Zenon DEF OfSignature
  <2>. QED BY <1>8, <1>9, <2>1, WholeParts, Zenon
<1>11. Hash(m)[1] = m /\ Key(k)[1] = k
  BY Parts, Zenon
<1>12. last'.result = KeyBytes(k) <=> RecId(m, k) \in {0, 1} /\ v = RecId(m, k) + 27
  BY <1>2, <1>10, RecoverySound, Zenon
<1>. QED BY <1>3, <1>7, <1>8, <1>10, <1>11, <1>12, Zenon DEF PubKeyOf

(* Recovery from a signature gives the signer's key exactly with v 27 more than
   the recovery id, and only for ids 0 and 1, after any number of calls
   (crypto.cpp 115-170). *)
THEOREM SignerKnown == ProgramSpec => []SignerRecovered
<1> DEFINE RecoveryInv == SignatureInv /\ SignerRecovered
<1>1. ProgramInit => RecoveryInv
  BY DEF ProgramInit, HookInit, SignatureInv, SignerRecovered
<1>2. RecoveryInv /\ [ProgramNext]_programVars => RecoveryInv'
  <2> SUFFICES ASSUME SignatureInv, SignerRecovered, [ProgramNext]_programVars
               PROVE  SignatureInv' /\ SignerRecovered'
    OBVIOUS
  <2>1. CASE UNCHANGED hookVars
    <3>1. last' = last /\ signature' = signature
      BY <2>1 DEF hookVars
    <3>2. SignatureInv'
      BY <3>1 DEF SignatureInv, IsSignature, Sig
    <3>3. SignerRecovered'
      BY <3>1 DEF SignerRecovered, OfSignature, Sig
    <3>. QED BY <3>2, <3>3
  <2>2. CASE HookNext
    <3>1. SignatureInv'
      BY <2>2, SignatureKept
    <3>2. CASE Recovery
      BY <3>1, <3>2, RecoveryStep
    <3>3. CASE last'.hook # "ecdsaRecover"
      BY <3>1, <3>3 DEF SignerRecovered
    <3>. QED BY <2>2, <3>2, <3>3, Calls
  <2>. QED BY <2>1, <2>2 DEF ProgramNext, programVars
<1>3. RecoveryInv => SignerRecovered
  OBVIOUS
<1>. QED BY <1>1, <1>2, <1>3, PTL DEF ProgramSpec

=============================================================================
