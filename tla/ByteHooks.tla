----------------------------- MODULE ByteHooks -----------------------------
(***************************************************************************)
(* The hooks of plugin-c/crypto.cpp and hash_ext.cpp that take byte        *)
(* strings: digests, ECDSA over secp256k1, ed25519; and plugin_util.cpp,   *)
(* which makes their results.  Each call is one step, since it shares      *)
(* nothing with another.  A byte string is a sequence of bytes, a          *)
(* hexadecimal one a sequence of digits.  Crypto++, OpenSSL and            *)
(* libsecp256k1 are external: bytes of the right length that depend on the *)
(* input.                                                                  *)
(***************************************************************************)
EXTENDS Integers, Sequences

CONSTANT MaxHookCalls     \* bound: calls of the hooks here

ASSUME HookAssumption == MaxHookCalls \in Nat

VARIABLES
  last,        \* the last call: hook, arguments and result
  signature,   \* history: the last call of ecdsaSign with a result
  ncalled

hookVars == <<last, signature, ncalled>>

Repeat(n, x) == [j \in 1 .. n |-> x]

(* Mutant: the low digit first. *)
ReversedHexEncode(str) ==
  [j \in 1 .. 2 * Len(str) |->
     IF j % 2 = 1 THEN str[(j + 1) \div 2] % 16 ELSE str[j \div 2] \div 16]

hexEncode(str) ==
  [j \in 1 .. 2 * Len(str) |->
     IF j % 2 = 1 THEN str[(j + 1) \div 2] \div 16 ELSE str[j \div 2] % 16]

raw(str) == str

(* What a K program makes of a hexadecimal string. *)
Unhex(digits) == [j \in 1 .. Len(digits) \div 2 |-> 16 * digits[2 * j - 1] + digits[2 * j]]

Returns(hook, args, result) ==
  /\ ncalled < MaxHookCalls /\ ncalled' = ncalled + 1
  /\ last' = [hook |-> hook, args |-> args, result |-> result]

-----------------------------------------------------------------------------
(* Digests.  Every one has two hooks, each with an algorithm and an array of its
   own; what the array holds beyond the digest would be garbage. *)

HexHook == [sha512 |-> <<"SHA512", 64>>, sha512_256 |-> <<"SHA512_256", 32>>,
            sha3 |-> <<"SHA3_256", 32>>, keccak256 |-> <<"Keccak_256", 32>>,
            sha256 |-> <<"SHA256", 32>>, ripemd160 |-> <<"RIPEMD160", 20>>,
            blake2b256 |-> <<"BLAKE2b", 32>>]

RawHook == [sha512 |-> <<"SHA512", 64>>, sha512_256 |-> <<"SHA512_256", 32>>,
            sha3 |-> <<"SHA3_256", 32>>, keccak256 |-> <<"Keccak_256", 32>>,
            sha256 |-> <<"SHA256", 32>>, ripemd160 |-> <<"RIPEMD160", 20>>,
            blake2b256 |-> <<"BLAKE2b", 32>>]

(* The bytes of an array of so many after the algorithm, which are some numbers
   that depend on it and on the input. *)
Algorithms == <<"SHA512", "SHA512_256", "SHA3_256", "Keccak_256", "SHA256",
                "RIPEMD160", "BLAKE2b">>
Seed(algorithm) == CHOOSE n \in 1 .. 7 : Algorithms[n] = algorithm
Digest(algorithm, str, size) ==
  [j \in 1 .. size |-> (j * (str[1] + 7) + Seed(algorithm)) % 256]

HexResult(h, str) == hexEncode(Digest(HexHook[h][1], str, HexHook[h][2]))
RawResult(h, str) == raw(Digest(RawHook[h][1], str, RawHook[h][2]))

HexDigest(h, str) == Returns(h, <<str, "hex">>, HexResult(h, str)) /\ UNCHANGED signature
RawDigest(h, str) == Returns(h, <<str, "raw">>, RawResult(h, str)) /\ UNCHANGED signature

(* One of OpenSSL's four calls fails. *)
Sha512_256Throws(str) ==
  Returns("sha512_256", <<str, "throw">>, <<>>) /\ UNCHANGED signature

(* Good and bad are all the verifier tells apart. *)
Ed25519Verify(key, sig, good) ==
  /\ Returns("ed25519verify", <<key, sig, good>>,
             Len(key) = 32 /\ Len(sig) = 64 /\ good)
  /\ UNCHANGED signature

-----------------------------------------------------------------------------
(* libsecp256k1.  Keys 1 and 2 are in the group's range, key 0 is not. *)

Hash(m) == Repeat(32, m)
Key(k) == Repeat(32, k)
R(m, k) == Repeat(32, 16 * m + k)
S(m, k) == Repeat(32, 128 + 16 * m + k)

(* The recovery id of a signature may be any of four, 2 and 3 being rare. *)
RecId(m, k) == (m + 2 * k) % 4

Signed == (0 .. 1) \X (1 .. 2)     \* messages and keys

(* A public key, uncompressed. *)
serialize(k) == <<4>> \o [j \in 1 .. 64 |-> (16 * k + j) % 256]

(* The keys recovery can yield, 0 for none: the signer's for what sign made,
   another's, 3, or none for everything else. *)
recover(hash, sig, recid) ==
  IF \E mk \in Signed : hash = Hash(mk[1]) /\ sig = R(mk[1], mk[2]) \o S(mk[1], mk[2])
                        /\ recid = RecId(mk[1], mk[2])
  THEN {CHOOSE k \in 1 .. 2 : sig = R(hash[1], k) \o S(hash[1], k)}
  ELSE {0, 3}

-----------------------------------------------------------------------------
(* ECDSA. *)

AllSized(strs) == \A j \in DOMAIN strs : Len(strs[j]) = 32

(* The key without its leading 4, or an empty string if there is none. *)
KeyBytes(k) == IF k = 0 THEN <<>> ELSE SubSeq(serialize(k), 2, 65)

(* Mutant: every recovery id is taken. *)
WideVFits(v) == v >= 0 /\ ~ (v < 27 \/ v > 30)

(* mpz_fits_ulong_p, and the range of v. *)
VFits(v) == v >= 0 /\ ~ (v < 27 \/ v > 28)

EcdsaRecover(str, v, r, s) ==
  /\ \E k \in IF AllSized(<<str, r, s>>) /\ VFits(v) THEN recover(str, r \o s, v - 27)
                                                     ELSE {0} :
       Returns("ecdsaRecover", <<str, v, r, s>>, raw(KeyBytes(k)))
  /\ UNCHANGED signature

SignResult(mhash, prikey) ==
  IF ~ AllSized(<<prikey, mhash>>) \/ prikey[1] = 0 THEN <<>>
  ELSE R(mhash[1], prikey[1]) \o S(mhash[1], prikey[1]) \o <<RecId(mhash[1], prikey[1])>>

EcdsaSign(mhash, prikey) ==
  /\ Returns("ecdsaSign", <<mhash, prikey>>, hexEncode(SignResult(mhash, prikey)))
  /\ signature' = IF SignResult(mhash, prikey) # <<>> THEN <<last'>> ELSE signature

EcdsaPubKey(prikey) ==
  /\ Returns("ecdsaPubKey", <<prikey>>,
             hexEncode(IF AllSized(<<prikey>>) THEN KeyBytes(prikey[1]) ELSE <<>>))
  /\ UNCHANGED signature

-----------------------------------------------------------------------------
(* The K program: calls with what it likes, and recovery from a signature it
   has taken apart, with v as it stands there, with 27 added, or guessed. *)

Short == Repeat(31, 1)
Sig == Unhex(signature[1].result)

Recovery ==
  \E str \in {Hash(0), Hash(1), Short} :
    \/ \E v \in {-1, 0, 27, 28, 29} : EcdsaRecover(str, v, Hash(9), Hash(9))
    \/ /\ signature # <<>>
       /\ \E v \in {Sig[65], Sig[65] + 27, 27, 28} :
            EcdsaRecover(str, v, SubSeq(Sig, 1, 32), SubSeq(Sig, 33, 64))

HookInit == /\ last = [hook |-> "none", args |-> <<>>, result |-> <<>>]
            /\ signature = <<>> /\ ncalled = 0

HookNext ==
  \/ \E h \in DOMAIN HexHook, x \in 0 .. 1 : HexDigest(h, <<x>>)
  \/ \E h \in DOMAIN RawHook, x \in 0 .. 1 : RawDigest(h, <<x>>)
  \/ Sha512_256Throws(<<0>>)
  \/ \E n \in {31, 32}, l \in {63, 64}, good \in BOOLEAN :
       Ed25519Verify(Repeat(n, 1), Repeat(l, 1), good)
  \/ Recovery
  \/ \E mhash \in {Hash(0), Hash(1), Short}, prikey \in {Key(0), Key(1), Key(2), Short} :
       EcdsaSign(mhash, prikey)
  \/ \E prikey \in {Key(0), Key(1), Key(2), Short} : EcdsaPubKey(prikey)

-----------------------------------------------------------------------------
(* Correctness. *)

(* The public key of the hook for a private key, as K sees it. *)
PubKeyOf(prikey) == KeyBytes(prikey[1])

OfSignature(args) ==
  /\ signature # <<>>
  /\ args[1] = signature[1].args[1]
  /\ args[3] = SubSeq(Sig, 1, 32) /\ args[4] = SubSeq(Sig, 33, 64)

(* A recovery from a signature, of the message it is of, gives the signer's key
   exactly if v is the recovery id plus 27 and the id is 0 or 1; a signature
   with another id can be recovered with no v at all, and none with the v it ends
   in (krypto.md:80-81 has ECDSARecover take the "v, r, s of the signed message"). *)
SignerRecovered ==
  last.hook = "ecdsaRecover" /\ OfSignature(last.args) =>
    LET prikey == signature[1].args[2]
        recid == RecId(last.args[1][1], prikey[1])
    IN last.result = PubKeyOf(prikey) <=> recid \in {0, 1} /\ last.args[2] = recid + 27

(* The hexadecimal hook of a digest gives in digits what the raw hook, which is
   other code, would give for the same input, and as many digits as krypto.md
   says. *)
Documented == [keccak256 |-> 64, sha256 |-> 64, sha512 |-> 128, sha3 |-> 64,
               ripemd160 |-> 40, blake2b256 |-> 64]
FormsAgree ==
  last.hook \in DOMAIN HexHook /\ last.args[2] = "hex" =>
    /\ Unhex(last.result) = RawResult(last.hook, last.args[1])
    /\ last.hook \in DOMAIN Documented => Len(last.result) = Documented[last.hook]

=============================================================================
