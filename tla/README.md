# A verification project for blockchain-k-plugin

The plugin gives K programs, run by the LLVM backend, two families of hooks:
JSON documents over file descriptors (`plugin-c/json.cpp`) and cryptography
(`plugin-c/crypto.cpp` and its neighbours).  The modules here are TLA+ models of
that code, checked by TLC on small instances and, where the same property holds
for every value of the constants, proved with TLAPS.

    tlc -config FDStreamFaulty.cfg FDStream.tla     # any run listed below
    tlapm FDStreamProofs.tla                        # any proof module

## 1. The system

| Component | State | Operations | What makes it correct |
|---|---|---|---|
| `FDStream` (json.cpp 54-111) | ring `readbuf`/`rhead`/`rsize`, buffer `writebuf`/`wsize`, the descriptor | `FDStream`, `Peek`, `Take`, `Put`, `Flush`, private `fillreadbuf` | bytes come out as they went in; `'\0'` really is the end |
| `KoreHandler`, `hook_JSON_read` (113-199, 254-284) | one flat `stack` of K terms | one function per SAX event; the hook's return | the term is the document, in its order and nesting |
| `write_json`, `hook_JSON_write` (201-250, 286-305) | the writer's nesting (rapidjson) | recursion over the term; the hook's return | what was read can be written; failure is visible |
| a JSON-RPC session | descriptors shared by calls of the two hooks | read, answer, read, ... | no request is lost, no reply is missing |
| BLS12-381 (crypto.cpp 368-852) | per call: two vectors, a counter, a bit width, a product | 13 hooks | group operations on all inputs, exceptions on the bad ones |
| BN128 (226-366) | `bn128_initialized`, the library's parameters | 5 hooks | initialised before use; only curve points accepted |
| Blake2 (189-205, blake2-*.cpp) | the argument itself | `blake2compress`, a scalar and a vectorised kernel | both kernels compute the same; a function |
| KZG (kzg.cpp) | thread-local `once`, `settings`; temporary files of the process | `verifyKZGProof` | answers only from loaded settings; no file left open |
| P256 (p256verify.cpp) | OpenSSL objects | `p256verify` | true only if verified; every object freed once |
| ECDSA (114-187) | contexts | recover, sign, public key | what sign puts out recover takes |
| Hashes, ed25519, `hexEncode`, `raw` (21-112, hash_ext.cpp, plugin_util.cpp) | digest context | two hooks per digest, one verifier | both forms agree, as long as documented |
| `configvar` (k.cpp), K syntax (krypto.md), Python tests, build | none | | |

How they interact.  K calls a hook synchronously; the hooks share nothing but the
process.  The exceptions are what is hard here:

* the JSON hooks share *descriptors*: every call makes an `FDStream` of its own,
  which reads in its constructor and loses its buffers on return;
* `FDStream` is called back by rapidjson, which decides when to peek, and shares
  the descriptor with a peer and the kernel, which decide how many bytes a call moves;
* `KoreHandler` is called back by rapidjson, whose counts drive its pop loops;
* BN128 and KZG keep state from call to call, per process and per thread;
* `blake2compress` works in the memory of its argument, which K may share or pass again;
* what `ecdsaSign` puts out is what a program gives to `ecdsaRecover`;
* hooks fail in three ways: a value, an exception, or a trap on a bad pointer.

`PROJECT.json` lists the hazards, each at its line.

## 2. The modules

| Module | Models | Extends |
|---|---|---|
| `ByteChannel` | the promise of each half of a stream | |
| `FDStream` | the class, the kernel and the peer | |
| `FDStreamProofs` | | `FDStream`, TLAPS |
| `Kore` | the terms json.cpp builds | |
| `JsonTree` | what building a document means | `Kore` |
| `KoreHandler` | the handler, the reader that calls it, `hook_JSON_read` | `Kore` |
| `KoreHandlerProofs` | | `KoreHandler`, TLAPS |
| `JsonHooks`, `MCJsonHooks` | read, edit, write: `write_json`, `hook_JSON_write` | `KoreHandler` |
| `JsonSession`, `MCJsonSession` | the hooks over descriptors, with a client | `FDStream` |
| `JsonSessionProofs` | | `JsonSession`, `FDStreamProofs` |
| `Bls12`, `MCBls12` | the BLS12-381 hooks | |
| `Bls12Proofs` | | `Bls12`, TLAPS |
| `Bn128`, `MCBn128` | `initBN128` and the BN128 hooks, in several threads | |
| `Bn128Proofs` | | `Bn128`, TLAPS |
| `P256Verify` | the P256 hook and its OpenSSL objects | |
| `ByteHooks` | digests, ed25519, ECDSA, `hexEncode`, `raw` | |
| `ByteProgram` | a K program that calls all hooks on byte strings | `P256Verify`, `ByteHooks` |
| `ByteProgramProofs` | | `ByteProgram`, TLAPS |
| `Blake2Rounds` | the arithmetic of the two Blake2 kernels | |
| `Blake2` | the hook, the kernels' loops, the memory of the argument | `Blake2Rounds` |
| `Blake2Proofs` | | `Blake2`, TLAPS |
| `Kzg` | the hook and its setup, in several threads | |
| `KzgProofs` | | `Kzg`, TLAPS |

### FDStream

Every member of the class is a variable of the same name; `wsize` is the length of
`writebuf`.  Each operation is one action.  `fillreadbuf` has no action of its own:
`Construct`, `Peek` and `Take` contain it, because nothing runs between its `read(2)`
and the rest of the operation.  A `read(2)` that would block is an action that is not
enabled.  A failed read is `-1`, a failed or short write accepts fewer bytes; the
constants `ReadErrors` and `ShortWrites` switch them on.  `sent`, `nread`, `taken`,
`nput`, `written` are histories of what the peer, the kernel and the caller have done.
A byte put is its number, so that a repeated or misplaced byte can be seen.

`In` and `Out` map the two halves to `ByteChannel`.  The read half implements it
whatever the kernel does, the write half only if write(2) takes all it is offered;
otherwise `OutputOrdered` is what remains: bytes go missing, but never twice or in
another order.

A finding about the design that the proof makes plain: the ring never wraps.
`RingInv` contains `rhead + rsize <= BUF_SIZE`, because `Peek` refills an empty ring
only.  The second case of line 99 is dead as long as that is so, and the first case
never yields 0.

### KoreHandler, JsonTree, JsonHooks

The reader is external.  `frames` is its state: open containers, elements counted, and
whether an object's key waits for its value.  It may give up (`Fail`) between any two
calls.  The handler's `stack` is a sequence of terms.  `EndObject` and `EndArray` are the
whole loops: the list is built from the top of the stack backwards, which is the
document's order, and the term replaces what was popped.

`JsonTree` has neither a stack nor counts.  The refinement mapping cuts the flat stack
at the height each container was opened at; `Segmented` says that the cut is where the
counts say it is, and `ImplementsTree` that the handler then builds the same terms.  Both are
proved, for documents of any length and depth.

`IntOf` is what `mpz_init_set_str` makes of a token: 0 when it is not a decimal integer.
`ReturnValue` has the four ways out of the hook, among them "trap": the header of the
immediate `null` is read through a pointer that is a tag (264-265), and "bare": a scalar
is returned without the injection into IOJSON (271).

`write_json` returns the calls it has made and how it ended.  Containers are closed even
when their content failed (226-235).  Where the content ends in a key without a value, that
runs into an assertion of rapidjson's `EndObject`, which a build may define away; `asserts`
stands for either build.  `FailureHidden` is about what the receiver can tell of a failure:
`Receive` reads the calls by the grammar of JSON and knows nothing of `write_json`.

### JsonSession

`FDStream`'s actions are reused: `phase` says where the server is, inside which hook.
rapidjson is cut down to how it peeks and takes: blanks, then an object without
members or a number.  `Destroy` is the destructor: the ring is forgotten and
its bytes go to the history `lost`.  `client` is chosen at the start from `Clients`: whether it
waits for each reply, what it sends, and whether it is on a socket, so that both hooks get
the same descriptor; if not, the writing stream's constructor reads from a descriptor that has
nothing to say, which has no effect.  `Documents` says of the requests of `Clients` that each
is one document with blanks around it, `Tight` that a request has no blank behind its document but
the one without which a number does not end.

### Bls12

blst is external: a cyclic group of `Order` residues, the subgroup of the pairing being
the multiples of `Cofactor`, the Miller loop a product of discrete logarithms.  blst reduces
a scalar modulo the order of the subgroup (`BlstScalar`), which leaves the multiples of the
subgroup's points as they were and no others; and from `WideBits` on it multiplies by way of an
endomorphism that is a multiplication in the subgroup only, so that outside it `mult` is any
point.  The hooks do not test membership, a program does (`bls12G1InSubgroup`), and `MsmSum`
claims nothing where it did not.  A point
that K passes is a residue or one of three others: not on the curve, too wide, or
infinity by coordinates that are 0 only modulo the characteristic.  What is the plugin's
own is modelled in full: the conversions and their failures, the order of the checks, the
MSM loop's compaction of its vectors with `first_nbits` and the three ways it ends, the
pairing's accumulation.  `blst_p1_mult` uses only `nbits` bits of a scalar here, as there,
so a width that belongs to another scalar gives another point.

### Bn128

A thread's call is a sequence of steps: `initBN128`'s look at the flag, the initialisation, the
raising of the flag, then the hook.  `bn128ate` has a step per pair; the other hooks are one step
behind `initBN128`, since nothing they read is written by another thread except the parameters, and
those are what `InitBeforeUse` and `WarmUp` are about.  The flag is a plain `bool`: a read that
races with a write is a read before or after it.  (The compiler cannot move the store to the flag in
front of the call of the library, which it does not see into, and on x86-64 stores are seen in their
order.  What a machine with weaker ordering could add, the flag seen before the parameters it stands
for, is not modelled.)  A thread that saw the flag down may initialise again while another computes;
the module does not say that this is harmless. It says when it is over: `Quiet`, once reached, is
for good, and is reached after the first call.

libff is external.  G1 is a cyclic group of `R` elements, the curve of G2 one of `R * Cofactor`, so
that there are points of the curve outside the subgroup.  Coordinates below the modulus that are no
point (`OffCurve`) and coordinates that are not below it (`OffField`) are values of their own.
`ValidIsSubgroup` says what `bn128g2valid` tests, membership in the subgroup, and `ValidIsOnCurve`
what krypto.md says of it.  Negative numbers and scalars of more than four limbs are left out: what
libff makes of them is not in the repository.

### P256Verify

One action per OpenSSL call, or per pair of calls with nothing between them, each with
the ways it can end; the frees that follow a failure before the return are part of the
action.  `live` is the set of objects that exist, `misused` those that were freed or used
while they did not, `owner` says that the signature has taken over `bn_r` and `bn_s`.
`input` is the three facts on which the verdict depends.  `failed` records a failure of a
library call for the property `Verdict`; a public key that is not on the curve is reported
by OpenSSL as such a failure, too.

### Blake2Rounds, Blake2

`Blake2Rounds` has the code of both kernels on symbolic words: a word is a name or an
operation on words, sums and exclusive ors are sets, rotations carry their number of bits,
which for the byte shuffles of AVX2 is computed from the shuffle.  An AVX2 register is a
tuple of four words.  The scalar round is `B2B_G` eight times over `sigma`; the vectorised
one is `BLAKE2B_ROUND_V1` with its message loads, which exist twice: forty macros of
unpacking, aligning and blending (`LOAD_MSG_0_4`, `LOAD_MSG_5_9`), and the table `indices` of
twelve rows, of which the code reads nine.  A vectorised round is identified by the row of
`sigma` whose scalar round makes the same sixteen words (`RowOf`).  This table differs from the
usual one because the code turns the rows a, c and d instead of b, c and d.

`Blake2` has the hook and the loops.  `bytes` is the memory of the argument.  What a
compression does to `h` is a value that lists the compressions so far; two compressions are
the same value if they start from the same words, apply the same rows and take out the same
words.  With no round the old `h` cancels out of `h ^= v[i] ^ v[i + 8]`, so the value is
the last compression alone.  `halign` and `blake2b_iv` are accessed by aligned loads and stores without
being declared aligned: whether that traps depends on where the compiler puts them, and
`Misaligned` may happen at either access.  The three properties are about what does not trap: `h`
is written in one step behind the last of these accesses.

### Kzg

The threads share only the process's descriptors.  `settings` is blank, loaded, or broken by
a load that failed, from which a verification may get any answer.  A failing load throws past
`fclose` and past the lowering of `once`, so the file stays open (`failures` counts them) and
the next call loads again.  `tmpfile()` yields a null pointer when the descriptors are used up, and may
do so at any time, since a directory may be full or closed to the process; `fputs` goes
through it: `crashed`.  A thread may end and another start in its place (`Renew`).

### ByteHooks, ByteProgram

The hooks that share nothing are one step each, with the checks of lengths in the code's order where
the order shows.  libsecp256k1 is external: `recover` yields the signer's key for message, r, s and
recovery id of a signature, and an unrelated key or none for anything else. The messages and keys
are such that all four recovery ids occur.  A digest has two hooks that share no code but
`sha512_256`'s, each with an algorithm and an array of its own (`HexHook`, `RawHook`); `Digest` is
some bytes that depend on the algorithm, as many as the array has.  `ByteProgram` interleaves them
with calls of `p256verify`, which keeps its step-by-step model.

## 3. The runs

| Run | cfg | Shows |
|---|---|---|
| fdstream_clean | `FDStreamClean.cfg` | `NoFalseEnd`, `OutChannel`, and that every byte before a NUL is taken in the end (`AllTaken`) |
| fdstream_faulty | `FDStreamFaulty.cfg` | `TypeOK`, `RingInv`, `InChannel`, `NulIsAWall`, `OutputOrdered`, whatever the kernel does |
| json_hooks | `JsonHooks.cfg` | `Segmented`, `OthersKept`, `ImplementsTree`; `RoundTrip`, `FailureHidden` |
| session | `JsonSession.cfg` | `OnlyBlanksLost`, `RepliesInStep`, `Answered`, `Stops`, `ReplyCostsInput`, `MuteUntilHangUp`, `InSync` |
| bls12 | `Bls12.cfg` | `Compacted`, `MsmSum`, `MsmThrows`, `PairingCancels` |
| bls12_doc | `Bls12Doc.cfg` | a violation: `UnfitIsFalse` |
| bn128 | `Bn128.cfg` | `InitBeforeUse`, `WarmUp`, `Settles`, `ValidIsSubgroup`, `AteCancels` |
| bn128_doc | `Bn128Doc.cfg` (module `MCBn128`) | a violation: `ValidIsOnCurve` |
| byte_program | `ByteProgram.cfg` | `NoMisuse`, `NothingLeft`, `Verdict`; `SignerRecovered`, `FormsAgree` |
| blake2 | `Blake2.cfg` | `TablesAgree`, `RowsInOrder`, `WholeSteps` |
| blake2_doc | `Blake2Doc.cfg` | a violation: `IsFunction` |
| kzg | `Kzg.cfg` | `AnswersRight`, `FilesAccounted` |

What `json_hooks` says of a failing `hook_JSON_write`: what is written is the document up to the
scalar that could not be, and closing brackets.  If that scalar was an element of an array, this is
a complete document, and the receiver cannot know that something is missing; if it was a member's
value, a key is left without one or the process ends in the assertion; if it was all of the
document, nothing is written; and if it was `undef`, the process ends with brackets open.

What the session run says: the hooks are sound for a client on a pair of pipes
that waits for each reply.  A client that sends ahead loses what a stream had read beyond
its document.  On a socket the writing stream competes for the input, and a client that
waits for its reply and sends nothing behind its document never gets one: the server sits
in the constructor's read(2).

`bls12_doc` finds an MSM of one scalar of more than 256 bits beside a point at infinity.
The loop skips the pair before it looks at the scalar (crypto.cpp 610-612), and the call has
a value; krypto.md 140-142 says that there is none when a scalar does not fit.

`bn128_doc` finds that `isValidPoint` refuses a point of G2's curve: `bn128g2valid` asks besides
`is_well_formed` (crypto.cpp 316) whether `-1 * P + P` is infinity (317-318), which it is in the subgroup
only.  krypto.md 100 says that the point is validated to be on the curve.  What holds is
`ValidIsSubgroup`, and it is what the pairing needs.

`blake2_doc` finds two calls with the same term and different results: the first has written its
result over the argument (crypto.cpp 195, 202).  krypto.md 31-32 and 41 declare a function of a byte
string.  The repository's test calls it once, and with no round, the one case in which a second call
gives the same.  What holds is `WholeSteps`: the memory changes by whole compressions.

`SignerRecovered` has a disagreement in it, too: `ECDSARecover` yields no key for the v, r and s that
`ECDSASign` put out, since it takes 27 and 28 (crypto.cpp 129) where the other puts out 0 to 3 (168).
krypto.md 80-81 describes one as the argument of the other.  With 27 added the signer is recovered for
the ids 0 and 1; for 2 and 3 no v will do.

The `blake2` run says that the two kernels compute the same function (`TablesAgree` for the
rounds, `RowsInOrder` for the loops, `WholeSteps` for the start, the end and the memory), and
the `kzg` run that a failing setup never gives a wrong answer, at the price of a descriptor for
each try, and that nothing else costs one.

### Bounds

* `BUF_SIZE` 2 or 3 for 8192, with up to 5 bytes: `rhead` goes around the ring, stands at every slot
  with every fill, and the write buffer fills exactly and once more.
* Two byte values and NUL: NUL before, behind and between others.
* Six handler calls besides closing brackets: three levels of nesting, two members in an object,
  empty containers, duplicate keys; each document written back, unchanged or with one scalar
  replaced.  The two texts are symmetric: nothing in the modules tells one from the other, and the
  run checks safety properties only.
* Sessions: clients of all four kinds; three requests, three of which can lie in one ring; blanks
  inside, before and behind them; a document shorter, as long as, and longer than the ring.
* BLS: a group of order 6 and a subgroup of order 3, so that sums wrap and a product can cancel with
  and without infinities, three points outside it; three bits of scalar, one scalar that has them
  all and is above the order of the subgroup, one that does not fit, one that is negative; lists of
  up to three, enough for an infinity before, between and behind finite points and for each of the
  three endings.

* BN128 (one thread in `bn128_doc`): three threads with one call each, so that one can initialise
  while a second computes and a third raises the flag; one of them may call anything, with lists of
  up to two pairs in both of which anything may stand, the others a pairing, the longest hook. `R` =
  3 and `Cofactor` = 2.
* P256: three calls, so that what one leaves would be met by the next twice over; between them three
  calls of the other byte hooks: a signature and what is made of it.
* ECDSA: two messages and two keys, with the four recovery ids between them, a key out of range, a
  string too short, and v below, in and above the range.
* Blake2: 0 to 25 rounds, two and a half cycles, so that both loops run never, once and more than
  once, with every remainder up to 9; two calls; either kernel; f good and bad.
* KZG: three threads and three descriptors, so that failed loads and loads under way use them up in
  every mixture, while `tmpfile()` may fail with any number of them left; five calls.

Deadlock is checked in the FDStream runs.  Elsewhere the system does stop: a call
returns, a session ends, and `MuteUntilHangUp` is about a real standstill.

### Fairness

`FairSpec`: the parser goes on taking bytes (weak fairness of `Construct` and `Take`).
`Take` is not enabled while read(2) would block, so nothing is assumed of the peer.
`FairSession`: the server runs whenever it is not blocked, being one thread with nothing
to wait for but read(2), and a client sends the rest of a request it has begun.  No
fairness is assumed of beginning a request or of hanging up.
`FairSpec` of `Bn128`: a thread inside a hook goes on, since nothing there waits for another.

## 4. The proofs

| Module | Theorem | Property | Under |
|---|---|---|---|
| `FDStreamProofs` | `TypeCorrect` | `TypeOK` | |
| | `RingCorrect` | `RingInv` | |
| | `NulWall` | `NulIsAWall` | |
| | `InRefines` | `InChannel` | |
| | `OutOrdered` | `OutputOrdered` | |
| | `NoEarlyEnd` | `NoFalseEnd` | no read errors |
| | `OutRefines` | `OutChannel` | no short writes |
| `KoreHandlerProofs` | `StackSegmented` | `Segmented` | |
| | `OthersUntouched` | `OthersKept` | |
| | `StackImplementsTree` | `ImplementsTree` | |
| `JsonSessionProofs` | `RepliesCost` | `ReplyCostsInput` | no read errors |
| | `BlanksLost` | `OnlyBlanksLost` | no read errors, `Documents` |
| | `InStepWithReplies` | `RepliesInStep` | no read errors, `Documents` |
| | `Synchronised` | `InSync` | no read errors, `Documents` |
| | `Mute` | `MuteUntilHangUp` | no read errors, `Documents` |
| `Bls12Proofs` | `MsmCompacts` | `Compacted` | |
| | `MsmThrowsRight` | `MsmThrows` | `PowersOfTwo` |
| | `SumRight` | `MsmSum` | `PowersOfTwo` |
| | `PairingThrowsRight` | `PairingThrows`, in the module | |
| | `PairingRight` | `PairingCancels` | |
| `Bn128Proofs` | `InitFirst` | `InitBeforeUse` | |
| | `QuietForGood` | `WarmUp` | |
| | `SubgroupOnly` | `ValidIsSubgroup` | |
| | `AteSaysRight` | `AteCancels` | |
| `ByteProgramProofs` | `MisuseFree` | `NoMisuse` | |
| | `LeakFree` | `NothingLeft` | |
| | `VerdictRight` | `Verdict` | |
| | `FormsMatch` | `FormsAgree` | |
| | `SignerKnown` | `SignerRecovered` | |
| `Blake2Proofs` | `TablesRight` | `TablesAgree` | |
| | `Cycles` | `RowsInOrder` | |
| | `Whole` | `WholeSteps` | |
| `KzgProofs` | `Right` | `AnswersRight` | |
| | `Files` | `FilesAccounted` | finitely many threads |

Beside the hypotheses of the last column, all use only the named assumptions of the modules.
The hypotheses hold of the runs: `ReadErrors` is false in the session's cfg, and TLC evaluates
`Documents` for the run's constants (`MCDocuments`).  `PowersOfTwo` says that 2^0 is 1 and that
2^(n + 1) is twice 2^n: arithmetic that the provers have no rule for; TLC evaluates it up to 2^21
(`MCPowers`).

* **FDStream.**  `TypeOK /\ RingInv` is inductive.  `RingInv` alone is not: the slot a refill writes
  is inside the array only because of the types.  The strengthening that matters is `NoWrap`;
  without it a refill could start in front of `rhead` and the bytes' places would need arithmetic
  modulo `BUF_SIZE`.  One lemma says what `fillreadbuf` can do; `Construct`, `Peek` and `Take` cite
  it.  Output has its own invariant: what is in the buffer are the last numbers put, and what is
  written is ordered and below them.
* **KoreHandler.**  `Segmented` is stated by the top of each segment; the inductive form (`Divides`)
  adds that bases are natural numbers inside the stack, and (`Waiting`) that only an object has a
  key waiting, without which closing an array with a key waiting would pop too little. The
  refinement is a step of `JsonTree`, or none, for each event.  `Cut` is the mapping, and `Nested`
  says that no container stands lower on the stack than one around it: a segment ends where the next
  begins, so that an event on top of the stack leaves the segments below as they were (`CutGrown`,
  `CutEntered`), and closing a container takes away the last one (`CutClosed`).
* **JsonSession.**  The session reuses `FDStream`'s actions and its proofs reuse `RingInv`. `Shape`
  says which bytes the ring holds: those sent from a known position on, taken and lost ones before
  it.  `ServerMoves` then has the server's steps in the terms the invariants need.  `RepliesCost`
  has an invariant of its own (`CostInv`), which counts a byte in the ring between the reply and the
  destructor.  The others rest on lemmas without a state, about streams of documents (`Between`,
  `InObject`, `InNumber`, `Document`, `AtDocument`): reading from the first byte of a document ends
  at its last and nowhere else.  Two invariants need each other: where the parser stands among the
  requests (`SyncInv`), and what a client that waits can have in the ring (`WaitInv`): a waiting
  client has sent nothing behind the request the server is at, so that what is lost are blanks, so
  that the parser stands at the next request.  `MuteInv` follows from both.  Nothing bounds the
  buffer, the number of requests or their lengths.
* **Bls12.**  `Compacted` speaks of the list by positions kept (`kept`), which turns a statement
  about filtering into one about an increasing sequence of indices.  For the exceptions the
  invariant says that a loop has passed only elements it does not throw for. `Digits` and
  `WidthsHold` derive from `PowersOfTwo` what `NumBits` is for: it is the number of bits with which
  nothing of a scalar is lost, and more than `ScalarBits` exactly if the scalar does not fit.
  `MsmSum` needs all of that, because the three endings multiply with three different widths.  That
  the scalar was reduced does no harm in the subgroup, of which `SubgroupOrder` times any point is 0
  (`WholeSubgroup`, `Reduced`).  Its invariant (`SumInv`): what blst would make of the slots in use
  is the sum over the list elements looked at, modulo `Order`, as long as the points looked at are
  of the subgroup; an infinity left out adds 0, and a finite point adds to both sides what the other
  gets.  `PairInv` is the same of the pairing's product.  The sums are recursive functions of the
  number of terms.  The prover has no induction over a property, so the lemmas about sums go by
  induction over the members of a set of numbers (`NatSetInduction`), which follows from there being
  a least number that the set lacks.
* **Bn128.**  That the parameters are filled before use needs two more facts: they are filled when
  the flag is up, and when a thread is about to raise it.  `SubgroupOnly` is arithmetic of residues:
  `-1` is `R - 1` of the scalar field, so that -1*q + q is `R * q`, which is 0 modulo `R * Cofactor`
  exactly if `q` is a multiple of `Cofactor`.  For `AteCancels` the invariant (`Multiplied`) says
  that a thread's product is the product over the pairs it has passed, for every thread in the loop,
  and that none of those had a coordinate off the field.
* **ByteProgram.**  Of `p256verify` the invariant says, for each place in the code, which objects
  exist (`LiveHere`), who owns the two numbers (`OwnerHere`) and what the checks on the way there
  have established (`Established`); leak, misuse and verdict are read off it.  `FormsMatch` needs no
  invariant but a lemma about every byte string: `Unhex(hexEncode(str)) = str`, and twice as many
  digits as bytes.  For `SignerKnown` the signature kept is, digit by digit, r, s and the id of some
  message and key (`SignatureInv`); `Parts`, `Distinct` and `KeysDiffer` say that these determine
  the message and the signer and that keys differ in their bytes.
* **Blake2.**  `TablesAgree` has no bound, so that TLC's evaluation of it is complete; the proof
  says why it holds.  `RoundMixes` unfolds a scalar round into four calls on the columns and four on
  the diagonals, of which no two touch a common lane.  `RoundRight`: registers that hold the words
  of a row in the right places (`Arranged`), turned, mixed four at a time and turned back, make the
  same sixteen words.  `Round0` to `Round9` compare the places, forty loads by shuffles and forty by
  the table.  `RoundsDiffer`: the words of a round name its row, since the sum in lane 0 ends with a
  message word that is another one in each row.  Then `Progress` says for each place in the code how
  far in the cycle it is; quotient and remainder of the rounds are put together in `TenMore` and
  `OneMore`.  `StartsAgree` and `FinishesAgree` compare the registers word by word.
* **Kzg.**  `LoadedFirst` ties the flag, the settings and the place of a thread together: the flag
  is up on the way to a load, so that a load that fails cannot leave it down.  The files are a count
  of threads, which changes by one element at a time (`LoadingCounted`).

Only model-checked: liveness (`AllTaken`, `Answered`, `Stops`, `Settles`), which is out of TLAPS'
reach here; `RoundTrip` and `FailureHidden`, which are about terms
that `write_json` goes through recursively, with a RECURSIVE operator, since TLC has no set of all
terms to be a function's domain, and which need induction over data.

## 5. Not modelled

rapidjson, gmp, blst, libff, OpenSSL and the kernel are external and modelled only by how the code
uses them, c-kzg, libsecp256k1, Crypto++ and the AVX2 instructions as well.  Left out: memory
allocation and garbage collection of K terms; text encoding; which digest a hash library computes;
objects that are leaked and never seen again (a libsecp256k1 context a call, the digest context when
`sha512_256` throws, a number when `getPoint` throws); negative numbers given to libff; `configvar`;
build, packaging and the Python tests.

## 6. Plan

What is left are proofs.  Of the session: the same without `Documents`, for what a client loses at
all.  Of the JSON writer: `RoundTrip` and its neighbours, if terms are given a depth and the writer
a recursive function over it.
