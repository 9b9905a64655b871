------------------------- MODULE KoreHandlerProofs -------------------------
(***************************************************************************)
(* Proof that the reader's counts and the handler's stack agree, and that  *)
(* the stack implements the tree of the document, for documents of any     *)
(* size, depth and content.                                                *)
(***************************************************************************)
EXTENDS KoreHandler, SequenceTheorems, TLAPS

Frame == [kind : {"object", "array"}, count : Nat, keyed : BOOLEAN, base : Nat]

IsSeq(s) == \E S : s \in Seq(S)

(* fs divides h stack slots into one segment for each of its frames. *)
Divides(fs, h) ==
  /\ fs = <<>> => h = 0
  /\ fs # <<>> => fs[1].base = 0
  /\ \A j \in 1 .. Len(fs) :
       (IF j = Len(fs) THEN h ELSE fs[j + 1].base) = fs[j].base + Slots(fs[j])

(* A container inside an object stands behind a key. *)
Waiting(f) == f.kind = "object" => f.keyed

(* While the reader is at work the frames divide the stack; that alone is not
   inductive, the objects around the innermost container must be waiting for
   its value. *)
IInv ==
  /\ IsSeq(stack) /\ frames \in Seq(Frame)
  /\ status \in {"parsing", "done", "empty", "error"}
  /\ status # "done" => Divides(frames, Len(stack))
  /\ status = "done" => frames = <<>> /\ Len(stack) = 1
  /\ \A j \in 1 .. Len(frames) - 1 : Waiting(frames[j])

LEMMA AppendSeq ==
  ASSUME NEW s, NEW x, IsSeq(s)
  PROVE  /\ IsSeq(Append(s, x)) /\ Len(s) \in Nat /\ Len(Append(s, x)) = Len(s) + 1
         /\ \A k \in 1 .. Len(s) : Append(s, x)[k] = s[k]
<1>1. PICK S : s \in Seq(S)
  BY DEF IsSeq
<1>2. s \in Seq(S \cup {x}) /\ x \in S \cup {x}
  BY <1>1
<1>. QED BY <1>2 DEF IsSeq

LEMMA SubSeqSeq ==
  ASSUME NEW s, IsSeq(s), NEW n \in 0 .. Len(s)
  PROVE  /\ IsSeq(SubSeq(s, 1, n)) /\ Len(SubSeq(s, 1, n)) = n
         /\ \A k \in 1 .. n : SubSeq(s, 1, n)[k] = s[k]
<1>1. PICK S : s \in Seq(S)
  BY DEF IsSeq
<1>2. SubSeq(s, 1, n) \in Seq(S) /\ Len(SubSeq(s, 1, n)) = n
      /\ \A k \in 1 .. n : SubSeq(s, 1, n)[k] = s[k]
  BY <1>1
<1>. QED BY <1>2 DEF IsSeq

LEMMA FrameCounted ==
  ASSUME NEW f \in Frame, NEW g, g = [f EXCEPT !.count = @ + 1, !.keyed = FALSE]
  PROVE  /\ g \in Frame /\ g.kind = f.kind /\ g.base = f.base
         /\ g.count = f.count + 1 /\ g.keyed = FALSE
<1>1. /\ f.kind \in {"object", "array"} /\ f.count \in Nat /\ f.base \in Nat
      /\ f = [kind |-> f.kind, count |-> f.count, keyed |-> f.keyed, base |-> f.base]
  BY DEF Frame
<1>2. f.count + 1 \in Nat
  BY <1>1
<1>3. g = [kind |-> f.kind, count |-> f.count + 1, keyed |-> FALSE, base |-> f.base]
  BY <1>1
<1>4. g \in Frame
  BY <1>1, <1>2, <1>3 DEF Frame
<1>. QED BY <1>3, <1>4

LEMMA FrameKeyed ==
  ASSUME NEW f \in Frame, NEW g, g = [f EXCEPT !.keyed = TRUE],
         f.kind = "object", ~ f.keyed
  PROVE  g \in Frame /\ g.base = f.base /\ Slots(g) = Slots(f) + 1
<1>1. /\ f.kind \in {"object", "array"} /\ f.count \in Nat /\ f.base \in Nat
      /\ f = [kind |-> f.kind, count |-> f.count, keyed |-> f.keyed, base |-> f.base]
  BY DEF Frame
<1>2. g = [kind |-> f.kind, count |-> f.count, keyed |-> TRUE, base |-> f.base]
  BY <1>1
<1>3. g \in Frame
  BY <1>1, <1>2 DEF Frame
<1>4. Slots(f) = 2 * f.count + 0
  BY DEF Slots
<1>5. Slots(g) = 2 * f.count + 1
  BY <1>2 DEF Slots
<1>. QED BY <1>1, <1>2, <1>3, <1>4, <1>5

(* Counting a value changes the innermost frame only, by one slot. *)
LEMMA CountedFrames ==
  ASSUME NEW fs \in Seq(Frame), fs # <<>>
  PROVE  /\ Counted(fs) \in Seq(Frame) /\ Len(Counted(fs)) = Len(fs)
         /\ \A j \in 1 .. Len(fs) - 1 : Counted(fs)[j] = fs[j]
         /\ LET f == fs[Len(fs)]
                g == Counted(fs)[Len(fs)]
            IN /\ g.kind = f.kind /\ g.base = f.base
               /\ g.count = f.count + 1 /\ g.keyed = FALSE
<1>1. Len(fs) \in 1 .. Len(fs) /\ fs[Len(fs)] \in Frame
  OBVIOUS
<1> DEFINE n == Len(fs)
           g == [fs[n] EXCEPT !.count = @ + 1, !.keyed = FALSE]
<1>2. g \in Frame /\ g.kind = fs[n].kind /\ g.base = fs[n].base
      /\ g.count = fs[n].count + 1 /\ g.keyed = FALSE
  BY <1>1, FrameCounted
<1>3. Counted(fs) = [fs EXCEPT ![n] = g]
  BY <1>1 DEF Counted
<1> HIDE DEF g
<1>4. /\ Counted(fs) \in Seq(Frame) /\ Len(Counted(fs)) = n
      /\ Counted(fs)[n] = g
      /\ \A j \in 1 .. n - 1 : Counted(fs)[j] = fs[j]
  BY <1>1, <1>2, <1>3
<1>. QED BY <1>2, <1>4

(* So a value on top of h slots leaves h + 1 slots divided. *)
LEMMA ValueAdded ==
  ASSUME NEW fs \in Seq(Frame), fs # <<>>, NEW h \in Nat,
         Divides(fs, h), Waiting(fs[Len(fs)])
  PROVE  Divides(Counted(fs), h + 1)
<1> DEFINE cs == Counted(fs)
           n  == Len(fs)
<1>1. n \in Nat \ {0} /\ \A j \in 1 .. n : fs[j] \in Frame
  OBVIOUS
<1>2. /\ cs \in Seq(Frame) /\ Len(cs) = n
      /\ \A j \in 1 .. n - 1 : cs[j] = fs[j]
      /\ cs[n].kind = fs[n].kind /\ cs[n].base = fs[n].base
      /\ cs[n].count = fs[n].count + 1 /\ cs[n].keyed = FALSE
  BY CountedFrames
<1> HIDE DEF cs, n
<1>3. \A j \in 1 .. n : cs[j].base = fs[j].base
  BY <1>1, <1>2
<1>4. Slots(cs[n]) = Slots(fs[n]) + 1
  BY <1>1, <1>2, SMTT(20) DEF Slots, Waiting, Frame, n
<1>5. fs[n].base + Slots(fs[n]) = h
  BY <1>1 DEF Divides, n
<1>6. \A j \in 1 .. n - 1 : fs[j + 1].base = fs[j].base + Slots(fs[j])
  BY <1>1 DEF Divides, n
<1>7. \A j \in 1 .. n - 1 : cs[j + 1].base = cs[j].base + Slots(cs[j])
  <2> TAKE j \in 1 .. n - 1
  <2>1. j \in 1 .. n /\ j + 1 \in 1 .. n
    BY <1>1
  <2>. QED BY <1>2, <1>3, <1>6, <2>1
<1>8. cs[n].base + Slots(cs[n]) = h + 1
  <2>1. fs[n] \in Frame
    BY <1>1
  <2>2. fs[n].base \in Nat /\ Slots(fs[n]) \in Nat
    BY <2>1 DEF Slots, Frame
  <2>3. cs[n].base + Slots(cs[n]) = fs[n].base + (Slots(fs[n]) + 1)
    BY <1>2, <1>4
  <2>. QED BY <1>5, <2>2, <2>3
<1>9. cs[1].base = 0 /\ cs # <<>>
  BY <1>1, <1>2, <1>3 DEF Divides
<1>. QED BY <1>2, <1>7, <1>8, <1>9 DEF Divides, cs

-----------------------------------------------------------------------------
(* The actions. *)

(* A value ends: n is the height of the stack without it, fs the containers
   around it. *)
LEMMA EndedInv ==
  ASSUME IInv, NEW fs \in Seq(Frame), Ended(fs),
         Divides(fs, Len(stack') - 1),
         \A j \in 1 .. Len(fs) : Waiting(fs[j]),
         IsSeq(stack'), Len(stack') \in Nat \ {0}, status = "parsing"
  PROVE  IInv'
<1>1. CASE fs = <<>>
  BY <1>1 DEF Ended, Counted, Divides, IInv
<1>2. CASE fs # <<>>
  <2>1. /\ frames' \in Seq(Frame) /\ Len(frames') = Len(fs) /\ status' = "parsing"
        /\ \A j \in 1 .. Len(fs) - 1 : frames'[j] = fs[j]
    BY <1>2, CountedFrames DEF Ended
  <2>2. Len(fs) \in 1 .. Len(fs)
    BY <1>2
  <2>3. Divides(frames', Len(stack'))
    BY <1>2, <2>2, ValueAdded DEF Ended
  <2>4. \A j \in 1 .. Len(frames') - 1 : Waiting(frames'[j])
    BY <2>1, <2>2
  <2>. QED BY <2>1, <2>3, <2>4 DEF IInv
<1>. QED BY <1>1, <1>2

(* Where a value is allowed, all open objects are waiting. *)
LEMMA AllWaiting ==
  ASSUME IInv, ValueAllowed
  PROVE  \A j \in 1 .. Len(frames) : Waiting(frames[j])
<1> TAKE j \in 1 .. Len(frames)
<1>1. j = Len(frames) \/ j \in 1 .. Len(frames) - 1
  BY DEF IInv
<1>2. frames # <<>>
  OBVIOUS
<1>. QED BY <1>1, <1>2 DEF IInv, ValueAllowed, Waiting, Last

LEMMA PushInv ==
  ASSUME IInv, NEW name, NEW arg, NEW t, Push(name, arg, t)
  PROVE  IInv'
<1>1. IsSeq(stack') /\ Len(stack') = Len(stack) + 1 /\ Len(stack) \in Nat
  BY AppendSeq DEF Push, IInv
<1>2. Divides(frames, Len(stack') - 1)
  BY <1>1 DEF IInv, Push, ValueAllowed
<1>3. ValueAllowed /\ Ended(frames) /\ status = "parsing" /\ frames \in Seq(Frame)
  BY DEF Push, ValueAllowed, IInv
<1>. QED BY <1>1, <1>2, <1>3, AllWaiting, EndedInv

LEMMA KeyInv ==
  ASSUME IInv, NEW s, Key(s)
  PROVE  IInv'
<1> DEFINE n == Len(frames)
           g == [frames[n] EXCEPT !.keyed = TRUE]
<1>1. /\ frames \in Seq(Frame) /\ frames # <<>> /\ status = "parsing" /\ status' = status
      /\ frames[n].kind = "object" /\ ~ frames[n].keyed
      /\ stack' = Append(stack, str(s))
  BY DEF Key, IInv, Last
<1>2. n \in 1 .. n /\ n \in Nat /\ frames[n] \in Frame
      /\ \A j \in 1 .. n : frames[j] \in Frame
  BY <1>1
<1>3. IsSeq(stack') /\ Len(stack') = Len(stack) + 1 /\ Len(stack) \in Nat
  BY <1>1, AppendSeq DEF IInv
<1>4. g \in Frame /\ g.base = frames[n].base /\ Slots(g) = Slots(frames[n]) + 1
  BY <1>1, <1>2, FrameKeyed
<1>5. frames' = [frames EXCEPT ![n] = g]
  BY <1>1, <1>2 DEF Key
<1> HIDE DEF g
<1>6. /\ frames' \in Seq(Frame) /\ Len(frames') = n /\ frames'[n] = g
      /\ \A j \in 1 .. n - 1 : frames'[j] = frames[j]
  BY <1>1, <1>2, <1>4, <1>5
<1> HIDE DEF n
<1>7. Divides(frames, Len(stack))
  BY <1>1 DEF IInv
<1>8. \A j \in 1 .. n : frames'[j].base = frames[j].base
  BY <1>2, <1>4, <1>6
<1>9. frames'[n].base + Slots(frames'[n]) = Len(stack')
  <2>1. frames[n].base + Slots(frames[n]) = Len(stack)
    BY <1>2, <1>7 DEF Divides, n
  <2>2. frames[n].base \in Nat /\ Slots(frames[n]) \in Nat
    BY <1>2 DEF Frame, Slots
  <2>. QED BY <1>3, <1>4, <1>6, <2>1, <2>2
<1>10. \A j \in 1 .. n - 1 : frames'[j + 1].base = frames'[j].base + Slots(frames'[j])
  <2> TAKE j \in 1 .. n - 1
  <2>1. j + 1 \in 1 .. n /\ j \in 1 .. n /\ j # n
    BY <1>2
  <2>2. frames[j + 1].base = frames[j].base + Slots(frames[j])
    BY <1>7, <2>1 DEF Divides, n
  <2>. QED BY <1>6, <1>8, <2>1, <2>2
<1>11. frames' # <<>> /\ frames'[1].base = 0
  BY <1>1, <1>2, <1>6, <1>7, <1>8 DEF Divides
<1>12. Divides(frames', Len(stack'))
  BY <1>2, <1>6, <1>9, <1>10, <1>11 DEF Divides
<1>13. \A j \in 1 .. Len(frames') - 1 : Waiting(frames'[j])
  BY <1>6 DEF IInv, n
<1>. QED BY <1>1, <1>3, <1>6, <1>12, <1>13 DEF IInv

LEMMA EnterInv ==
  ASSUME IInv, NEW kind \in {"object", "array"}, Enter(kind)
  PROVE  IInv'
<1> DEFINE n == Len(frames)
           g == [kind |-> kind, count |-> 0, keyed |-> FALSE, base |-> Len(stack)]
<1>1. /\ frames \in Seq(Frame) /\ frames' = Append(frames, g) /\ ValueAllowed
      /\ UNCHANGED <<stack, status>> /\ status = "parsing"
  BY DEF Enter, IInv, ValueAllowed
<1>2. n \in Nat /\ Len(stack) \in Nat
  BY <1>1, AppendSeq DEF IInv
<1>3. g \in Frame /\ g.base = Len(stack) /\ Slots(g) = 0
  BY <1>2 DEF Frame, Slots
<1> HIDE DEF g
<1>4. /\ frames' \in Seq(Frame) /\ Len(frames') = n + 1 /\ frames'[n + 1] = g
      /\ \A j \in 1 .. n : frames'[j] = frames[j]
  BY <1>1, <1>3
<1>5. Divides(frames, Len(stack))
  BY <1>1 DEF IInv
<1>6. \A j \in 1 .. n :
        (IF j = n THEN Len(stack) ELSE frames[j + 1].base)
          = frames[j].base + Slots(frames[j])
  BY <1>5 DEF Divides
<1> HIDE DEF n
<1>7. \A j \in 1 .. n : frames'[j + 1].base = frames'[j].base + Slots(frames'[j])
  <2> TAKE j \in 1 .. n
  <2>1. CASE j = n
    BY <1>3, <1>4, <1>6, <2>1
  <2>2. CASE j # n
    <3>1. j + 1 \in 1 .. n
      BY <1>2, <2>2
    <3>. QED BY <1>4, <1>6, <2>2, <3>1
  <2>. QED BY <2>1, <2>2
<1>8. frames'[1].base = 0
  <2>1. CASE n = 0
    BY <1>1, <1>3, <1>4, <1>5, <2>1 DEF Divides, n
  <2>2. CASE n # 0
    <3>1. frames # <<>> /\ 1 \in 1 .. n
      BY <1>2, <2>2 DEF n
    <3>. QED BY <1>4, <1>5, <3>1 DEF Divides
  <2>. QED BY <2>1, <2>2
<1>9. Divides(frames', Len(stack'))
  <2>1. frames' # <<>>
    BY <1>2, <1>4
  <2>2. \A j \in 1 .. n + 1 :
          (IF j = n + 1 THEN Len(stack) ELSE frames'[j + 1].base)
            = frames'[j].base + Slots(frames'[j])
    <3> TAKE j \in 1 .. n + 1
    <3>1. j = n + 1 \/ (j # n + 1 /\ j \in 1 .. n)
      BY <1>2
    <3>. QED BY <1>2, <1>3, <1>4, <1>7, <3>1
  <2>. QED BY <1>1, <1>4, <1>8, <2>1, <2>2 DEF Divides
<1>10. \A j \in 1 .. Len(frames') - 1 : Waiting(frames'[j])
  BY <1>1, <1>2, <1>4, AllWaiting DEF n
<1>. QED BY <1>1, <1>4, <1>9, <1>10 DEF IInv

LEMMA SubSeqAt ==
  ASSUME NEW s, IsSeq(s), NEW n \in 0 .. Len(s)
  PROVE  SubSeq(s, 1, n) = [j \in 1 .. n |-> s[j]]
  BY DEF IsSeq

LEMMA FrontSeq ==
  ASSUME NEW S, NEW s \in Seq(S), s # <<>>
  PROVE  /\ Front(s) \in Seq(S) /\ Len(Front(s)) = Len(s) - 1
         /\ \A j \in 1 .. Len(s) - 1 : Front(s)[j] = s[j]
<1>1. Len(s) - 1 \in 0 .. Len(s)
  OBVIOUS
<1>2. Front(s) = [j \in 1 .. Len(s) - 1 |-> s[j]]
  BY <1>1 DEF Front
<1>. QED BY <1>1, <1>2

(* Closing the innermost container: the pop loop takes exactly its segment. *)
LEMMA Closed ==
  ASSUME IInv, frames # <<>>, status = "parsing",
         NEW k, k = Slots(Last(frames)),
         NEW t, stack' = Append(Beneath(k), t)
  PROVE  LET base == Last(frames).base
         IN /\ Front(frames) \in Seq(Frame)
            /\ \A j \in 1 .. Len(Front(frames)) : Waiting(Front(frames)[j])
            /\ Divides(Front(frames), base)
            /\ base \in 0 .. Len(stack) /\ Len(stack) - k = base
            /\ IsSeq(stack') /\ Len(stack') = base + 1
            /\ \A j \in 1 .. base : stack'[j] = stack[j]
<1> DEFINE n == Len(frames)
           fs == Front(frames)
           base == Last(frames).base
<1>1. /\ frames \in Seq(Frame) /\ Divides(frames, Len(stack)) /\ IsSeq(stack)
      /\ \A j \in 1 .. n - 1 : Waiting(frames[j])
  BY DEF IInv
<1>2. /\ n \in Nat \ {0} /\ n \in 1 .. n /\ Last(frames) = frames[n]
      /\ \A j \in 1 .. n : frames[j] \in Frame
      /\ Len(stack) \in Nat
  BY <1>1, AppendSeq DEF Last
<1>3. fs \in Seq(Frame) /\ Len(fs) = n - 1 /\ \A j \in 1 .. n - 1 : fs[j] = frames[j]
  BY <1>1, FrontSeq
<1>4. base \in Nat /\ k \in Nat
  BY <1>2 DEF Frame, Slots
<1>5. base + k = Len(stack)
  BY <1>1, <1>2 DEF Divides
<1>6. base \in 0 .. Len(stack) /\ Len(stack) - k = base
  BY <1>2, <1>4, <1>5
<1>7. /\ IsSeq(Beneath(k)) /\ Len(Beneath(k)) = base
      /\ \A j \in 1 .. base : Beneath(k)[j] = stack[j]
  BY <1>1, <1>6, SubSeqSeq DEF Beneath
<1>8. /\ IsSeq(stack') /\ Len(stack') = base + 1
      /\ \A j \in 1 .. base : stack'[j] = stack[j]
  BY <1>7, AppendSeq
<1>9. Divides(fs, base)
  <2> HIDE DEF fs
  <2>1. CASE n = 1
    <3>1. fs = <<>> /\ base = 0
      BY <1>1, <1>2, <1>3, <2>1 DEF Divides
    <3>. QED BY <3>1 DEF Divides
  <2>2. CASE n # 1
    <3>1. fs # <<>> /\ fs[1].base = 0
      BY <1>1, <1>2, <1>3, <2>2, SMTT(20) DEF Divides
    <3>2. ASSUME NEW j \in 1 .. n - 1
          PROVE  (IF j = n - 1 THEN base ELSE fs[j + 1].base)
                   = fs[j].base + Slots(fs[j])
      <4>1. j \in 1 .. n /\ j # n /\ j + 1 \in 1 .. n
        BY <1>2
      <4>2. frames[j + 1].base = frames[j].base + Slots(frames[j])
        BY <1>1, <4>1 DEF Divides
      <4>3. CASE j = n - 1
        BY <1>2, <1>3, <4>2, <4>3
      <4>4. CASE j # n - 1
        BY <1>2, <1>3, <4>2, <4>4
      <4>. QED BY <4>3, <4>4
    <3>. QED BY <1>3, <3>1, <3>2 DEF Divides
  <2>. QED BY <2>1, <2>2
<1>. QED BY <1>1, <1>3, <1>6, <1>8, <1>9

(* The loop pops as many terms as the innermost container has slots. *)
LEMMA EndPops ==
  ASSUME IInv, EndObject \/ EndArray
  PROVE  \E k, t : /\ k = Slots(Last(frames)) /\ stack' = Append(Beneath(k), t)
                   /\ frames # <<>> /\ status = "parsing" /\ Ended(Front(frames))
<1>1. CASE EndObject
  <2>1. Slots(Last(frames)) = 2 * Last(frames).count
    <3>1. Last(frames) \in Frame
      BY <1>1 DEF EndObject, IInv, Last
    <3>2. Slots(Last(frames)) = 2 * Last(frames).count + 0
      BY <1>1 DEF EndObject, Slots
    <3>. QED BY <3>1, <3>2 DEF Frame
  <2>. QED BY <1>1, <2>1 DEF EndObject
<1>2. CASE EndArray
  BY <1>2 DEF EndArray, Slots
<1>. QED BY <1>1, <1>2

LEMMA EndInv ==
  ASSUME IInv, EndObject \/ EndArray
  PROVE  IInv'
<1>1. PICK k, t : /\ k = Slots(Last(frames)) /\ stack' = Append(Beneath(k), t)
                  /\ frames # <<>> /\ status = "parsing" /\ Ended(Front(frames))
  BY EndPops
<1> DEFINE base == Last(frames).base
<1>2. /\ Front(frames) \in Seq(Frame)
      /\ \A j \in 1 .. Len(Front(frames)) : Waiting(Front(frames)[j])
      /\ Divides(Front(frames), base) /\ base \in Nat
      /\ IsSeq(stack') /\ Len(stack') = base + 1
  BY <1>1, Closed
<1>3. Len(stack') \in Nat \ {0} /\ Len(stack') - 1 = base
  BY <1>2
<1>. QED BY <1>1, <1>2, <1>3, EndedInv

LEMMA StepInv == ASSUME IInv, [Next]_vars PROVE IInv'
<1>1. CASE UNCHANGED vars
  BY <1>1 DEF vars, IInv
<1>2. CASE \E name, arg, t : Push(name, arg, t)
  BY <1>2, PushInv
<1>3. CASE \E s \in Text : Key(s)
  BY <1>3, KeyInv
<1>4. CASE StartObject \/ StartArray
  BY <1>4, EnterInv DEF StartObject, StartArray
<1>5. CASE EndObject \/ EndArray
  BY <1>5, EndInv
<1>6. CASE Fail \/ Return
  BY <1>6 DEF Fail, Return, IInv
<1>. QED
  BY <1>1, <1>2, <1>3, <1>4, <1>5, <1>6 DEF Next, Null, Bool, RawNumber, String

LEMMA InitInv == ASSUME Init PROVE IInv
<1>1. stack \in Seq({}) /\ frames \in Seq(Frame) /\ Len(stack) = 0 /\ Len(frames) = 0
  BY DEF Init
<1>. QED BY <1>1 DEF Init, IInv, IsSeq, Divides

(* At every moment of every document the open containers' segments tile the
   stack as the reader's counts say, so that no pop loop takes too much, too
   little or somebody else's. *)
THEOREM StackSegmented == Spec => []Segmented
<1>1. IInv => Segmented
  <2> SUFFICES ASSUME IInv PROVE Segmented
    OBVIOUS
  <2>1. CASE status = "done"
    BY <2>1 DEF IInv, Segmented
  <2>2. CASE status # "done"
    <3>1. frames = <<>> => stack = <<>>
      BY <2>2 DEF IInv, Divides, IsSeq
    <3>. QED BY <2>2, <3>1 DEF IInv, Divides, Segmented, Top
  <2>. QED BY <2>1, <2>2
<1>. QED BY <1>1, InitInv, StepInv, PTL DEF Spec

LEMMA KeptStep ==
  ASSUME IInv, [Next]_vars, Len(frames') < Len(frames)
  PROVE  LET base == Last(frames).base
         IN /\ Len(stack') = base + 1
            /\ SubSeq(stack', 1, base) = SubSeq(stack, 1, base)
<1>1. frames \in Seq(Frame) /\ Len(frames) \in Nat
  BY DEF IInv
<1>2. EndObject \/ EndArray
  <2>1. CASE \E name, arg, t : Push(name, arg, t)
    <3>1. Len(frames') = Len(frames)
      BY <1>1, <2>1, CountedFrames DEF Push, Ended, Counted
    <3>. QED BY <1>1, <3>1
  <2>2. CASE \E s \in Text : Key(s)
    <3>1. Len(frames') = Len(frames)
      BY <1>1, <2>2 DEF Key
    <3>. QED BY <1>1, <3>1
  <2>3. CASE StartObject \/ StartArray
    <3>1. Len(frames') = Len(frames) + 1
      BY <1>1, <2>3 DEF StartObject, StartArray, Enter
    <3>. QED BY <1>1, <3>1
  <2>4. CASE frames' = frames
    BY <1>1, <2>4
  <2>. QED
    BY <2>1, <2>2, <2>3, <2>4
    DEF Next, vars, Null, Bool, RawNumber, String, Fail, Return
<1>3. PICK k, t : /\ k = Slots(Last(frames)) /\ stack' = Append(Beneath(k), t)
                  /\ frames # <<>> /\ status = "parsing"
  BY <1>2, EndPops
<1> DEFINE base == Last(frames).base
<1>4. /\ base \in 0 .. Len(stack) /\ IsSeq(stack') /\ Len(stack') = base + 1
      /\ \A j \in 1 .. base : stack'[j] = stack[j]
  BY <1>3, Closed
<1>5. /\ IsSeq(stack) /\ Len(stack) \in Nat /\ base \in 0 .. Len(stack')
  BY <1>4, AppendSeq DEF IInv
<1> HIDE DEF base
<1>6. SubSeq(stack', 1, base) = [j \in 1 .. base |-> stack'[j]]
  BY <1>4, <1>5, SubSeqAt
<1>7. SubSeq(stack, 1, base) = [j \in 1 .. base |-> stack[j]]
  BY <1>4, <1>5, SubSeqAt
<1>8. SubSeq(stack', 1, base) = SubSeq(stack, 1, base)
  BY <1>4, <1>6, <1>7
<1>. QED BY <1>4, <1>8 DEF base

(* No closing bracket, however deep, touches what lies on the stack beneath
   its own container. *)
THEOREM OthersUntouched == Spec => OthersKept
<1>1. IInv /\ [Next]_vars =>
        (Len(frames') < Len(frames) =>
           LET base == Last(frames).base
           IN /\ Len(stack') = base + 1
              /\ SubSeq(stack', 1, base) = SubSeq(stack, 1, base))
  BY KeptStep
<1>. QED BY <1>1, InitInv, StepInv, PTL DEF Spec, OthersKept

-----------------------------------------------------------------------------
(* The refinement. *)

(* What the refinement mapping makes of frames fs over a stack s. *)
Cut(fs, s) ==
  [i \in 1 .. Len(fs) |->
     [kind  |-> fs[i].kind,
      items |-> SubSeq(s, fs[i].base + 1,
                       IF i = Len(fs) THEN Len(s) ELSE fs[i + 1].base)]]

(* No container begins before the one around it. *)
Nested(fs) == \A i, j \in 1 .. Len(fs) : i <= j => fs[i].base <= fs[j].base

LEMMA SubSeqMapped ==
  ASSUME NEW s, IsSeq(s), NEW m \in Nat \ {0}, NEW n \in Nat, n <= Len(s)
  PROVE  /\ SubSeq(s, m, n) = [j \in 1 .. n - m + 1 |-> s[j + m - 1]]
         /\ IsSeq(SubSeq(s, m, n))
<1>1. PICK S : s \in Seq(S)
  BY DEF IsSeq
<1>2. m .. n \subseteq 1 .. Len(s) /\ m \in Int /\ n \in Int
  BY <1>1
<1>3. /\ SubSeq(s, m, n) = [j \in 1 .. n - m + 1 |-> s[j + m - 1]]
      /\ SubSeq(s, m, n) \in Seq(S)
  BY <1>1, <1>2
<1>. QED BY <1>3 DEF IsSeq

LEMMA LenMapped ==
  ASSUME NEW s, IsSeq(s), NEW m \in Nat \ {0}, NEW n \in Nat, n <= Len(s), m <= n + 1
  PROVE  Len(SubSeq(s, m, n)) = n - m + 1
<1>1. PICK S : s \in Seq(S)
  BY DEF IsSeq
<1>2. m .. n \subseteq 1 .. Len(s) /\ m \in Int /\ n \in Int
  BY <1>1
<1>. QED BY <1>1, <1>2

(* What lies at the bottom of the stack is not touched by a term put on it. *)
LEMMA AppendBeneath ==
  ASSUME NEW s, IsSeq(s), NEW t, NEW m \in Nat \ {0}, NEW n \in Nat, n <= Len(s)
  PROVE  SubSeq(Append(s, t), m, n) = SubSeq(s, m, n)
<1> DEFINE u == Append(s, t)
<1>1. /\ IsSeq(u) /\ Len(s) \in Nat /\ Len(u) = Len(s) + 1
      /\ \A k \in 1 .. Len(s) : u[k] = s[k]
  BY AppendSeq
<1> HIDE DEF u
<1>2. SubSeq(u, m, n) = [j \in 1 .. n - m + 1 |-> u[j + m - 1]]
  BY <1>1, SubSeqMapped
<1>3. SubSeq(s, m, n) = [j \in 1 .. n - m + 1 |-> s[j + m - 1]]
  BY <1>1, SubSeqMapped
<1>4. \A j \in 1 .. n - m + 1 : u[j + m - 1] = s[j + m - 1]
  BY <1>1
<1>. QED BY <1>2, <1>3, <1>4 DEF u

LEMMA AppendOnTop ==
  ASSUME NEW s, IsSeq(s), NEW t, NEW m \in Nat \ {0}, m <= Len(s) + 1
  PROVE  SubSeq(Append(s, t), m, Len(Append(s, t))) = Append(SubSeq(s, m, Len(s)), t)
<1> DEFINE n == Len(s)
           u == Append(s, t)
<1>1. PICK S : s \in Seq(S)
  BY DEF IsSeq
<1>2. s \in Seq(S \cup {t}) /\ t \in S \cup {t} /\ n \in Nat
  BY <1>1
<1>3. u \in Seq(S \cup {t}) /\ Len(u) = n + 1 /\ u[n + 1] = t
  BY <1>2, AppendProperties
<1>4. SubSeq(s, m, n) \in Seq(S \cup {t})
  BY <1>2
<1>5. SubSeq(u, m, n) = SubSeq(s, m, n)
  BY <1>2, AppendBeneath
<1> HIDE DEF n, u
<1>6. SubSeq(u, m, n + 1) = SubSeq(u, m, n) \o <<t>>
  <2>1. m \in 1 .. Len(u) /\ n + 1 \in m .. Len(u) /\ (n + 1) - 1 = n
    BY <1>2, <1>3 DEF n
  <2>. QED BY <1>3, <2>1, SubSeqRecursiveSecond, Zenon
<1>7. SubSeq(s, m, n) \o <<t>> = Append(SubSeq(s, m, n), t)
  BY <1>2, <1>4, AppendIsConcat, Zenon
<1>. QED BY <1>3, <1>5, <1>6, <1>7, Zenon DEF n, u

(* A value put on the stack becomes the last child of the innermost container. *)
LEMMA CutGrown ==
  ASSUME NEW fs \in Seq(Frame), NEW gs \in Seq(Frame), fs # <<>>, Len(gs) = Len(fs),
         \A j \in 1 .. Len(fs) : gs[j].kind = fs[j].kind /\ gs[j].base = fs[j].base,
         NEW s, IsSeq(s), NEW t,
         \A j \in 1 .. Len(fs) : fs[j].base <= Len(s)
  PROVE  Cut(gs, Append(s, t)) = [Cut(fs, s) EXCEPT ![Len(fs)].items = Append(@, t)]
<1> DEFINE n == Len(fs)
           u == Append(s, t)
           End(i) == IF i = n THEN Len(s) ELSE fs[i + 1].base
<1>1. n \in Nat \ {0} /\ n \in 1 .. n /\ \A j \in 1 .. n : fs[j].base \in Nat
  <2>1. n \in Nat \ {0} /\ n \in 1 .. n /\ \A j \in 1 .. n : fs[j] \in Frame
    OBVIOUS
  <2>. QED BY <2>1 DEF Frame
<1>2. Len(s) \in Nat /\ Len(u) = Len(s) + 1
  BY AppendSeq
<1>3. Cut(fs, s) = [i \in 1 .. n |->
                      [kind |-> fs[i].kind, items |-> SubSeq(s, fs[i].base + 1, End(i))]]
  BY DEF Cut
<1>4. Cut(gs, u) = [i \in 1 .. n |->
                      [kind  |-> fs[i].kind,
                       items |-> SubSeq(u, fs[i].base + 1,
                                        IF i = n THEN Len(u) ELSE fs[i + 1].base)]]
  <2>1. \A i \in 1 .. n : i # n => i + 1 \in 1 .. n
    BY <1>1
  <2>. QED BY <2>1, Zenon DEF Cut
<1> HIDE DEF n, u
<1>5. \A i \in 1 .. n : i # n =>
        SubSeq(u, fs[i].base + 1, fs[i + 1].base) = SubSeq(s, fs[i].base + 1, fs[i + 1].base)
  <2> TAKE i \in 1 .. n
  <2> HAVE i # n
  <2>1. fs[i].base + 1 \in Nat \ {0} /\ fs[i + 1].base \in Nat /\ fs[i + 1].base <= Len(s)
    BY <1>1 DEF n
  <2>. QED BY <2>1, AppendBeneath DEF u
<1>6. SubSeq(u, fs[n].base + 1, Len(u)) = Append(SubSeq(s, fs[n].base + 1, Len(s)), t)
  <2>1. fs[n].base + 1 \in Nat \ {0} /\ fs[n].base + 1 <= Len(s) + 1
    BY <1>1, <1>2 DEF n
  <2>. QED BY <2>1, AppendOnTop DEF u
<1>7. Cut(gs, u) = [i \in 1 .. n |->
                      [kind  |-> fs[i].kind,
                       items |-> IF i = n THEN Append(SubSeq(s, fs[n].base + 1, Len(s)), t)
                                 ELSE SubSeq(s, fs[i].base + 1, fs[i + 1].base)]]
  BY <1>4, <1>5, <1>6, Zenon
<1> DEFINE c == Cut(fs, s)
           x == Append(SubSeq(s, fs[n].base + 1, Len(s)), t)
           r == [kind |-> fs[n].kind, items |-> x]
<1>8. [c EXCEPT ![n].items = Append(@, t)] = [c EXCEPT ![n] = r]
  <2>1. c[n] = [kind |-> fs[n].kind, items |-> SubSeq(s, fs[n].base + 1, Len(s))]
    BY <1>1, <1>3
  <2> HIDE DEF c
  <2> DEFINE d == c[n]
             k == fs[n].kind
             y == SubSeq(s, fs[n].base + 1, Len(s))
  <2>2. d = [kind |-> k, items |-> y] /\ r = [kind |-> k, items |-> Append(y, t)]
    BY <2>1
  <2> HIDE DEF d, k, y, r
  <2>3. d.items = y
    BY <2>2
  <2> DEFINE z == Append(y, t)
  <2> HIDE DEF z
  <2>4. [d EXCEPT !.items = z] = [kind |-> k, items |-> z]
    BY <2>2
  <2>. QED BY <2>2, <2>3, <2>4 DEF d, z
<1> HIDE DEF r
<1>9. [c EXCEPT ![n] = r] = [i \in 1 .. n |-> IF i = n THEN r ELSE c[i]]
  BY <1>3
<1>10. \A i \in 1 .. n :
         (IF i = n THEN r ELSE c[i])
           = [kind  |-> fs[i].kind,
              items |-> IF i = n THEN x ELSE SubSeq(s, fs[i].base + 1, fs[i + 1].base)]
  BY <1>3 DEF r
<1> HIDE DEF c, x
<1>11. Cut(gs, u) = [c EXCEPT ![n] = r]
  BY <1>7, <1>9, <1>10, Zenon DEF x
<1>. QED BY <1>8, <1>11 DEF c, n, u

(* Append, Front and Last of a sequence that is given as a function. *)
LEMMA AppendMapped ==
  ASSUME NEW n \in Nat, NEW f, f = [i \in 1 .. n |-> f[i]], NEW x
  PROVE  Append(f, x) = [i \in 1 .. n + 1 |-> IF i = n + 1 THEN x ELSE f[i]]
<1> DEFINE S == {f[i] : i \in 1 .. n} \cup {x}
           g == [i \in 1 .. n + 1 |-> IF i = n + 1 THEN x ELSE f[i]]
<1>1. x \in S /\ \A i \in 1 .. n : f[i] \in S
  OBVIOUS
<1> HIDE DEF S
<1>2. f \in Seq(S) /\ Len(f) = n
  BY <1>1
<1>3. /\ Append(f, x) \in Seq(S) /\ Len(Append(f, x)) = n + 1
      /\ Append(f, x)[n + 1] = x /\ \A i \in 1 .. n : Append(f, x)[i] = f[i]
  BY <1>1, <1>2, AppendProperties
<1>4. g \in Seq(S) /\ Len(g) = n + 1
  <2>1. \A i \in 1 .. n + 1 : (IF i = n + 1 THEN x ELSE f[i]) \in S
    BY <1>1
  <2>2. g \in [1 .. n + 1 -> S]
    BY <2>1
  <2> HIDE DEF g
  <2>. QED BY <2>2
<1>5. \A i \in 1 .. n + 1 : Append(f, x)[i] = g[i]
  <2> TAKE i \in 1 .. n + 1
  <2>1. i = n + 1 \/ (i # n + 1 /\ i \in 1 .. n)
    OBVIOUS
  <2>. QED BY <1>3, <2>1
<1> HIDE DEF g
<1>6. Append(f, x) = g
  BY <1>3, <1>4, <1>5, SeqEqual, Zenon
<1>. QED BY <1>6 DEF g

LEMMA FrontMapped ==
  ASSUME NEW n \in Nat \ {0}, NEW f, f = [i \in 1 .. n |-> f[i]]
  PROVE  /\ Len(f) = n /\ f # <<>> /\ Last(f) = f[n]
         /\ Front(f) = [i \in 1 .. n - 1 |-> f[i]]
<1> DEFINE S == {f[i] : i \in 1 .. n}
<1>1. \A i \in 1 .. n : f[i] \in S
  OBVIOUS
<1> HIDE DEF S
<1>2. f \in Seq(S) /\ Len(f) = n
  BY <1>1
<1>3. IsSeq(f)
  BY <1>2 DEF IsSeq
<1>4. Front(f) = [i \in 1 .. n - 1 |-> f[i]]
  BY <1>2, <1>3, SubSeqAt DEF Front
<1>. QED BY <1>2, <1>4 DEF Last

(* A container that opens has no children. *)
LEMMA CutEntered ==
  ASSUME NEW fs \in Seq(Frame), NEW g \in Frame, NEW s, IsSeq(s), g.base = Len(s)
  PROVE  Cut(Append(fs, g), s) = Append(Cut(fs, s), [kind |-> g.kind, items |-> <<>>])
<1> DEFINE n == Len(fs)
           gs == Append(fs, g)
           c == Cut(fs, s)
           x == [kind |-> g.kind, items |-> <<>>]
           End(i) == IF i = n THEN Len(s) ELSE fs[i + 1].base
<1>1. n \in Nat
  OBVIOUS
<1>2. Len(gs) = n + 1 /\ gs[n + 1] = g /\ \A i \in 1 .. n : gs[i] = fs[i]
  OBVIOUS
<1>3. Len(s) \in Nat
  BY AppendSeq
<1>4. c = [i \in 1 .. n |->
             [kind |-> fs[i].kind, items |-> SubSeq(s, fs[i].base + 1, End(i))]]
  BY DEF Cut
<1> HIDE DEF n, gs, c
<1>5. SubSeq(s, Len(s) + 1, Len(s)) = <<>>
  BY <1>3, SubSeqEmpty
<1>6. \A i \in 1 .. n + 1 :
        [kind  |-> gs[i].kind,
         items |-> SubSeq(s, gs[i].base + 1,
                          IF i = Len(gs) THEN Len(s) ELSE gs[i + 1].base)]
          = IF i = n + 1 THEN x ELSE c[i]
  <2> TAKE i \in 1 .. n + 1
  <2>1. CASE i = n + 1
    BY <1>2, <1>5, <2>1
  <2>2. CASE i # n + 1
    <3>1. i \in 1 .. n /\ gs[i] = fs[i]
      BY <1>1, <1>2, <2>2
    <3>2. gs[i + 1].base = End(i)
      <4>1. CASE i = n
        BY <1>2, <4>1
      <4>2. CASE i # n
        <5>1. i + 1 \in 1 .. n
          BY <1>1, <3>1, <4>2
        <5>. QED BY <1>2, <4>2, <5>1
      <4>. QED BY <4>1, <4>2
    <3>3. c[i] = [kind |-> fs[i].kind, items |-> SubSeq(s, fs[i].base + 1, End(i))]
      BY <1>4, <3>1
    <3> HIDE DEF End
    <3>. QED BY <1>2, <2>2, <3>1, <3>2, <3>3
  <2>. QED BY <2>1, <2>2
<1> HIDE DEF x
<1>7. Cut(gs, s) = [i \in 1 .. n + 1 |-> IF i = n + 1 THEN x ELSE c[i]]
  BY <1>2, <1>6, Zenon DEF Cut
<1>8. c = [i \in 1 .. n |-> c[i]]
  BY <1>4
<1>9. Append(c, x) = [i \in 1 .. n + 1 |-> IF i = n + 1 THEN x ELSE c[i]]
  BY <1>1, <1>8, AppendMapped
<1>. QED BY <1>7, <1>9 DEF c, gs, x

(* Without its innermost container a document is cut as before. *)
LEMMA CutClosed ==
  ASSUME NEW fs \in Seq(Frame), fs # <<>>, Nested(fs), NEW s, IsSeq(s),
         Last(fs).base <= Len(s)
  PROVE  LET base == Last(fs).base
             c    == Cut(fs, s)
         IN /\ Cut(Front(fs), SubSeq(s, 1, base)) = Front(c)
            /\ Len(c) = Len(fs) /\ c # <<>>
            /\ Last(c) = [kind |-> Last(fs).kind, items |-> SubSeq(s, base + 1, Len(s))]
<1> DEFINE n == Len(fs)
           gs == Front(fs)
           base == Last(fs).base
           u == SubSeq(s, 1, base)
           c == Cut(fs, s)
           Piece(i) == [kind  |-> fs[i].kind,
                        items |-> SubSeq(s, fs[i].base + 1, fs[i + 1].base)]
<1>1. n \in Nat \ {0} /\ n \in 1 .. n /\ Last(fs) = fs[n] /\ \A i \in 1 .. n : fs[i] \in Frame
  BY DEF Last
<1>2. \A i \in 1 .. n : fs[i].base \in Nat /\ fs[i].base <= base
  BY <1>1 DEF Frame, Nested
<1>3. Len(gs) = n - 1 /\ \A i \in 1 .. n - 1 : gs[i] = fs[i]
  BY FrontSeq
<1>4. base \in 0 .. Len(s) /\ Len(s) \in Nat
  BY <1>1, <1>2, AppendSeq
<1>5. IsSeq(u) /\ Len(u) = base /\ \A j \in 1 .. base : u[j] = s[j]
  BY <1>4, SubSeqSeq
<1>6. c = [i \in 1 .. n |->
             [kind  |-> fs[i].kind,
              items |-> SubSeq(s, fs[i].base + 1,
                               IF i = n THEN Len(s) ELSE fs[i + 1].base)]]
  BY DEF Cut
<1> HIDE DEF n, gs, base, u, c
<1>7. /\ Len(c) = n /\ c # <<>> /\ Last(c) = c[n]
      /\ Front(c) = [i \in 1 .. n - 1 |-> c[i]]
  <2>1. c = [i \in 1 .. n |-> c[i]]
    BY <1>6
  <2>. QED BY <1>1, <2>1, FrontMapped
<1>8. \A i \in 1 .. n - 1 : i \in 1 .. n /\ i # n /\ c[i] = Piece(i)
  <2> TAKE i \in 1 .. n - 1
  <2>1. i \in 1 .. n /\ i # n
    BY <1>1
  <2>. QED BY <1>6, <2>1, Zenon
<1>9. \A i \in 1 .. n - 1 :
        [kind  |-> gs[i].kind,
         items |-> SubSeq(u, gs[i].base + 1,
                          IF i = Len(gs) THEN Len(u) ELSE gs[i + 1].base)] = c[i]
  <2> TAKE i \in 1 .. n - 1
  <2>1. i \in 1 .. n /\ i + 1 \in 1 .. n /\ gs[i] = fs[i]
    BY <1>1, <1>3
  <2>2. (IF i = Len(gs) THEN Len(u) ELSE gs[i + 1].base) = fs[i + 1].base
    <3>1. CASE i = n - 1
      BY <1>1, <1>3, <1>5, <3>1 DEF base
    <3>2. CASE i # n - 1
      <4>1. i + 1 \in 1 .. n - 1
        BY <1>1, <3>2
      <4>. QED BY <1>3, <3>2, <4>1
    <3>. QED BY <3>1, <3>2
  <2> DEFINE m == fs[i].base + 1
             e == fs[i + 1].base
  <2>3. m \in Nat \ {0} /\ e \in Nat /\ e <= base /\ base <= Len(s)
    BY <1>2, <1>4, <2>1
  <2> HIDE DEF m, e
  <2>4. SubSeq(u, m, e) = SubSeq(s, m, e)
    <3>1. SubSeq(u, m, e) = [j \in 1 .. e - m + 1 |-> u[j + m - 1]]
      BY <1>5, <2>3, SubSeqMapped
    <3>2. SubSeq(s, m, e) = [j \in 1 .. e - m + 1 |-> s[j + m - 1]]
      BY <1>4, <2>3, SubSeqMapped
    <3>3. \A j \in 1 .. e - m + 1 : u[j + m - 1] = s[j + m - 1]
      BY <1>4, <1>5, <2>3
    <3>. QED BY <3>1, <3>2, <3>3
  <2>. QED BY <1>8, <2>1, <2>2, <2>4, Zenon DEF m, e
<1>10. Cut(gs, u) = Front(c)
  BY <1>3, <1>7, <1>9, Zenon DEF Cut
<1>11. Last(c) = [kind |-> Last(fs).kind, items |-> SubSeq(s, base + 1, Len(s))]
  BY <1>1, <1>6, <1>7 DEF base
<1>. QED BY <1>7, <1>10, <1>11 DEF n, gs, base, u, c

(* The refinement needs one fact more than the tiling: that the containers
   begin in the order of their nesting. *)
RInv == IInv /\ Nested(frames)

LEMMA BasesBelow ==
  ASSUME RInv, status = "parsing", frames # <<>>
  PROVE  /\ \A j \in 1 .. Len(frames) : frames[j].base <= Len(stack)
         /\ Len(stack) = Last(frames).base + Slots(Last(frames))
         /\ Last(frames) \in Frame /\ Last(frames).base \in Nat
         /\ Slots(Last(frames)) \in Nat /\ Len(stack) \in Nat
<1> DEFINE n == Len(frames)
<1>1. frames \in Seq(Frame) /\ Divides(frames, Len(stack)) /\ Nested(frames)
  BY DEF RInv, IInv
<1>2. n \in 1 .. n /\ Last(frames) = frames[n] /\ \A j \in 1 .. n : frames[j] \in Frame
  BY <1>1 DEF Last
<1>3. Len(stack) \in Nat
  BY AppendSeq DEF RInv, IInv
<1>4. \A j \in 1 .. n : frames[j].base \in Nat /\ frames[j].base <= frames[n].base
  BY <1>1, <1>2 DEF Frame, Nested
<1>5. Slots(frames[n]) \in Nat
  BY <1>2 DEF Frame, Slots
<1>6. frames[n].base + Slots(frames[n]) = Len(stack)
  BY <1>1, <1>2 DEF Divides
<1> HIDE DEF n
<1>. QED BY <1>2, <1>3, <1>4, <1>5, <1>6 DEF n

LEMMA SameBases ==
  ASSUME NEW fs, NEW gs, Nested(fs), Len(gs) = Len(fs),
         \A j \in 1 .. Len(fs) : gs[j].base = fs[j].base
  PROVE  Nested(gs)
  BY DEF Nested

(* Counted changes neither the kind nor the base of a container. *)
LEMMA CountedSame ==
  ASSUME NEW fs \in Seq(Frame), fs # <<>>
  PROVE  /\ Counted(fs) \in Seq(Frame) /\ Len(Counted(fs)) = Len(fs)
         /\ \A j \in 1 .. Len(fs) :
              Counted(fs)[j].kind = fs[j].kind /\ Counted(fs)[j].base = fs[j].base
<1> DEFINE n == Len(fs)
           cs == Counted(fs)
<1>1. n \in Nat \ {0}
  OBVIOUS
<1>2. /\ cs \in Seq(Frame) /\ Len(cs) = n /\ \A j \in 1 .. n - 1 : cs[j] = fs[j]
      /\ cs[n].kind = fs[n].kind /\ cs[n].base = fs[n].base
  BY CountedFrames
<1> HIDE DEF n, cs
<1>3. \A j \in 1 .. n : cs[j].kind = fs[j].kind /\ cs[j].base = fs[j].base
  <2> TAKE j \in 1 .. n
  <2>1. j = n \/ j \in 1 .. n - 1
    BY <1>1
  <2>. QED BY <1>2, <2>1
<1>. QED BY <1>2, <1>3 DEF n, cs

(* A key changes neither the kind nor the base of a container. *)
LEMMA KeyedSame ==
  ASSUME IInv, NEW s, Key(s)
  PROVE  /\ frames' \in Seq(Frame) /\ Len(frames') = Len(frames)
         /\ \A j \in 1 .. Len(frames) :
              frames'[j].kind = frames[j].kind /\ frames'[j].base = frames[j].base
<1> DEFINE n == Len(frames)
           g == [frames[n] EXCEPT !.keyed = TRUE]
<1>1. /\ frames \in Seq(Frame) /\ frames # <<>>
      /\ frames[n].kind = "object" /\ ~ frames[n].keyed
  BY DEF Key, IInv, Last
<1>2. n \in Nat \ {0} /\ n \in 1 .. n /\ frames[n] \in Frame
  BY <1>1
<1>3. g \in Frame /\ g.base = frames[n].base /\ g.kind = frames[n].kind
  BY <1>1, <1>2, FrameKeyed DEF Frame
<1>4. frames' = [frames EXCEPT ![n] = g]
  BY <1>1, <1>2 DEF Key
<1> HIDE DEF g
<1>5. /\ frames' \in Seq(Frame) /\ Len(frames') = n /\ frames'[n] = g
      /\ \A j \in 1 .. n : j # n => frames'[j] = frames[j]
  BY <1>1, <1>2, <1>3, <1>4
<1> HIDE DEF n
<1>. QED BY <1>3, <1>5 DEF n

LEMMA FrontNested ==
  ASSUME NEW fs \in Seq(Frame), fs # <<>>, Nested(fs)
  PROVE  Nested(Front(fs))
<1>1. Len(Front(fs)) = Len(fs) - 1 /\ \A j \in 1 .. Len(fs) - 1 : Front(fs)[j] = fs[j]
  BY FrontSeq
<1>. QED BY <1>1 DEF Nested

LEMMA EndedNested ==
  ASSUME NEW fs \in Seq(Frame), Nested(fs), Ended(fs)
  PROVE  Nested(frames')
<1>1. CASE fs = <<>>
  BY <1>1 DEF Ended, Counted
<1>2. CASE fs # <<>>
  BY <1>2, CountedSame, SameBases DEF Ended
<1>. QED BY <1>1, <1>2

LEMMA EnterNested ==
  ASSUME RInv, NEW kind \in {"object", "array"}, Enter(kind)
  PROVE  Nested(frames')
<1> DEFINE n == Len(frames)
           g == [kind |-> kind, count |-> 0, keyed |-> FALSE, base |-> Len(stack)]
<1>1. frames \in Seq(Frame) /\ frames' = Append(frames, g) /\ status = "parsing"
  BY DEF Enter, RInv, IInv, ValueAllowed
<1>2. n \in Nat /\ Len(stack) \in Nat /\ g.base = Len(stack)
  BY <1>1, AppendSeq DEF RInv, IInv
<1> HIDE DEF g
<1>3. Len(frames') = n + 1 /\ frames'[n + 1] = g /\ \A j \in 1 .. n : frames'[j] = frames[j]
  BY <1>1
<1>4. \A j \in 1 .. n : frames[j].base <= Len(stack)
  <2>1. CASE frames = <<>>
    BY <2>1
  <2>2. CASE frames # <<>>
    BY <1>1, <2>2, BasesBelow
  <2>. QED BY <2>1, <2>2
<1> HIDE DEF n
<1>5. ASSUME NEW i \in 1 .. n + 1, NEW j \in 1 .. n + 1, i <= j
      PROVE  frames'[i].base <= frames'[j].base
  <2>1. CASE j = n + 1
    <3>1. i = n + 1 \/ i \in 1 .. n
      BY <1>2
    <3>. QED BY <1>2, <1>3, <1>4, <2>1, <3>1
  <2>2. CASE j # n + 1
    <3>1. i \in 1 .. n /\ j \in 1 .. n
      BY <1>2, <1>5, <2>2
    <3>. QED BY <1>3, <1>5, <3>1 DEF RInv, Nested, n
  <2>. QED BY <2>1, <2>2
<1>. QED BY <1>3, <1>5 DEF Nested

LEMMA RStep == ASSUME RInv, [Next]_vars PROVE RInv'
<1>1. IInv' /\ frames \in Seq(Frame) /\ Nested(frames)
  BY StepInv DEF RInv, IInv
<1>2. Nested(frames')
  <2>1. CASE frames' = frames
    BY <1>1, <2>1
  <2>2. CASE \E name, arg, t : Push(name, arg, t)
    BY <1>1, <2>2, EndedNested DEF Push
  <2>3. CASE \E s \in Text : Key(s)
    BY <1>1, <2>3, KeyedSame, SameBases DEF RInv
  <2>4. CASE StartObject \/ StartArray
    BY <2>4, EnterNested DEF StartObject, StartArray
  <2>5. CASE EndObject \/ EndArray
    <3>1. frames # <<>> /\ Ended(Front(frames))
      BY <2>5, EndPops DEF RInv
    <3>. QED BY <1>1, <3>1, FrontSeq, FrontNested, EndedNested
  <2>. QED
    BY <2>1, <2>2, <2>3, <2>4, <2>5
    DEF Next, vars, Null, Bool, RawNumber, String, Fail, Return
<1>. QED BY <1>1, <1>2 DEF RInv

LEMMA RInit == ASSUME Init PROVE RInv
  BY InitInv DEF RInv, Nested, Init

(* The state of the tree. *)
OpenBar == Cut(frames, stack)
RootBar == IF frames = <<>> THEN stack ELSE <<>>

LEMMA Parity == ASSUME NEW n \in Nat PROVE (2 * n + 1) % 2 = 1 /\ (2 * n + 0) % 2 = 0
  OBVIOUS

LEMMA SameTerms ==
  /\ \A s : Tree!Conses(s) = Conses(s)
  /\ \A s : Tree!Members(s) = Members(s)
  /\ \A s : Tree!obj(s) = obj(s) /\ Tree!listWrap(s) = listWrap(s)
<1>1. \A s : Tree!Conses(s) = Conses(s)
  BY Zenon
  DEF Tree!Conses, Conses, Tree!FoldRight, FoldRight, Tree!MapThenFoldSet, MapThenFoldSet,
      Tree!Min, Min, Tree!list, list, Tree!dotList, dotList
<1>2. \A s : Tree!Members(s) = Members(s)
  BY DEF Tree!Members, Members, Tree!memb, memb
<1>3. \A s : Tree!obj(s) = obj(s) /\ Tree!listWrap(s) = listWrap(s)
  BY DEF Tree!obj, obj, Tree!listWrap, listWrap
<1>. QED BY <1>1, <1>2, <1>3

(* The innermost container as the tree sees it. *)
LEMMA Innermost ==
  ASSUME RInv, status = "parsing", frames # <<>>
  PROVE  LET f == Last(frames)
         IN /\ OpenBar # <<>> /\ Len(OpenBar) = Len(frames)
            /\ Last(OpenBar) = [kind  |-> f.kind,
                                items |-> SubSeq(stack, f.base + 1, Len(stack))]
            /\ f.kind = "object" => (Tree!Half(Last(OpenBar)) <=> f.keyed)
<1> DEFINE f == Last(frames)
           c == Last(OpenBar)
<1>1. /\ Len(stack) = f.base + Slots(f) /\ f \in Frame
      /\ f.base \in Nat /\ Slots(f) \in Nat /\ Len(stack) \in Nat
  BY BasesBelow
<1>2. /\ OpenBar # <<>> /\ Len(OpenBar) = Len(frames)
      /\ c = [kind |-> f.kind, items |-> SubSeq(stack, f.base + 1, Len(stack))]
  BY <1>1, CutClosed DEF RInv, IInv, OpenBar
<1> HIDE DEF f
<1>3. Len(SubSeq(stack, f.base + 1, Len(stack))) = Slots(f)
  <2> DEFINE m == f.base + 1
             n == Len(stack)
  <2>1. /\ m \in Nat \ {0} /\ n \in Nat /\ n <= Len(stack) /\ m <= n + 1
        /\ n - m + 1 = Slots(f)
    BY <1>1
  <2>2. IsSeq(stack)
    BY DEF RInv, IInv
  <2> HIDE DEF m, n
  <2>3. Len(SubSeq(stack, m, n)) = n - m + 1
    BY <2>1, <2>2, LenMapped
  <2>. QED BY <2>1, <2>3, Zenon DEF m, n
<1>4. ASSUME f.kind = "object" PROVE Tree!Half(c) <=> f.keyed
  <2>1. Tree!Half(c) <=> Slots(f) % 2 = 1
    <3> HIDE DEF c
    <3>1. c.items = SubSeq(stack, f.base + 1, Len(stack))
      BY <1>2
    <3>. QED BY <1>3, <3>1, Zenon DEF Tree!Half
  <2>2. f.count \in Nat /\ f.keyed \in BOOLEAN
    BY <1>1 DEF Frame
  <2>3. Slots(f) = 2 * f.count + (IF f.keyed THEN 1 ELSE 0)
    BY <1>4 DEF Slots
  <2>4. CASE f.keyed
    <3>1. Slots(f) % 2 = 1
      BY <2>2, <2>3, <2>4, Parity
    <3>. QED BY <2>1, <2>4, <3>1
  <2>5. CASE ~ f.keyed
    <3>1. Slots(f) % 2 = 0
      BY <2>2, <2>3, <2>5, Parity
    <3>. QED BY <2>1, <2>5, <3>1
  <2>. QED BY <2>2, <2>4, <2>5
<1>. QED BY <1>2, <1>4 DEF f

LEMMA Outermost ==
  ASSUME RInv, status = "parsing", frames = <<>>
  PROVE  stack = <<>> /\ OpenBar = <<>> /\ RootBar = <<>>
<1>1. stack = <<>>
  BY DEF RInv, IInv, Divides, IsSeq
<1>. QED BY <1>1 DEF OpenBar, RootBar, Cut

(* Where the reader expects a value, the tree takes one. *)
LEMMA Allowed ==
  ASSUME RInv, ValueAllowed
  PROVE  IF OpenBar = <<>> THEN RootBar = <<>>
         ELSE Last(OpenBar).kind = "object" => Tree!Half(Last(OpenBar))
<1>1. CASE frames = <<>>
  BY <1>1, Outermost DEF ValueAllowed
<1>2. CASE frames # <<>>
  <2>1. /\ OpenBar # <<>> /\ Last(OpenBar).kind = Last(frames).kind
        /\ Last(frames).kind = "object" =>
             (Tree!Half(Last(OpenBar)) <=> Last(frames).keyed)
    BY <1>2, Innermost DEF ValueAllowed
  <2>. QED BY <1>2, <2>1 DEF ValueAllowed
<1>. QED BY <1>1, <1>2

(* A term on the stack is a child of the innermost container around it. *)
LEMMA Added ==
  ASSUME NEW fs \in Seq(Frame), NEW s, IsSeq(s), NEW t,
         \A j \in 1 .. Len(fs) : fs[j].base <= Len(s),
         Ended(fs), stack' = Append(s, t), fs = <<>> => s = <<>>
  PROVE  /\ OpenBar' = Tree!Add(Cut(fs, s), t)
         /\ RootBar' = Tree!Grown(IF fs = <<>> THEN s ELSE <<>>, Cut(fs, s), t)
<1>1. CASE fs = <<>>
  <2>1. frames' = <<>> /\ Cut(fs, s) = <<>>
    BY <1>1 DEF Ended, Counted, Cut
  <2>2. OpenBar' = <<>>
    BY <2>1 DEF OpenBar, Cut
  <2>. QED BY <1>1, <2>1, <2>2, Zenon DEF RootBar, Tree!Add, Tree!Grown
<1>2. CASE fs # <<>>
  <2>1. /\ frames' \in Seq(Frame) /\ Len(frames') = Len(fs) /\ Len(fs) \in Nat \ {0}
        /\ \A j \in 1 .. Len(fs) : frames'[j].kind = fs[j].kind /\ frames'[j].base = fs[j].base
    BY <1>2, CountedSame DEF Ended
  <2>2. Cut(frames', stack') = [Cut(fs, s) EXCEPT ![Len(fs)].items = Append(@, t)]
    <3> DEFINE gs == frames'
    <3>1. /\ gs \in Seq(Frame) /\ Len(gs) = Len(fs)
          /\ \A j \in 1 .. Len(fs) : gs[j].kind = fs[j].kind /\ gs[j].base = fs[j].base
      BY <2>1
    <3> HIDE DEF gs
    <3>2. Cut(gs, Append(s, t)) = [Cut(fs, s) EXCEPT ![Len(fs)].items = Append(@, t)]
      BY <1>2, <3>1, CutGrown
    <3>. QED BY <3>2, Zenon DEF gs
  <2>3. Len(Cut(fs, s)) = Len(fs) /\ Cut(fs, s) # <<>>
    BY <2>1 DEF Cut
  <2>4. frames' # <<>>
    BY <2>1
  <2>5. OpenBar' = Cut(frames', stack')
    BY DEF OpenBar
  <2>. QED BY <1>2, <2>2, <2>3, <2>4, <2>5, Zenon DEF RootBar, Tree!Add, Tree!Grown
<1>. QED BY <1>1, <1>2

LEMMA PushImplements ==
  ASSUME RInv, NEW name, NEW arg, NEW t, Push(name, arg, t)
  PROVE  Tree!Value(t)
<1>1. /\ ValueAllowed /\ Ended(frames) /\ stack' = Append(stack, t) /\ status = "parsing"
      /\ frames \in Seq(Frame) /\ IsSeq(stack)
  BY DEF Push, ValueAllowed, RInv, IInv
<1>2. \A j \in 1 .. Len(frames) : frames[j].base <= Len(stack)
  BY <1>1, BasesBelow
<1>3. frames = <<>> => stack = <<>>
  BY <1>1, Outermost
<1>4. OpenBar' = Tree!Add(OpenBar, t) /\ RootBar' = Tree!Grown(RootBar, OpenBar, t)
  BY <1>1, <1>2, <1>3, Added DEF OpenBar, RootBar
<1>5. IF OpenBar = <<>> THEN RootBar = <<>>
      ELSE Last(OpenBar).kind = "object" => Tree!Half(Last(OpenBar))
  BY <1>1, Allowed
<1>. QED
  BY <1>4, <1>5, Zenon
  DEF Tree!Value, Tree!TermAllowed, OpenBar, RootBar, Cut, Top, Tree!Last, Last

LEMMA KeyImplements ==
  ASSUME RInv, NEW s, Key(s)
  PROVE  Tree!Member(str(s))
<1>1. /\ status = "parsing" /\ frames # <<>> /\ Last(frames).kind = "object"
      /\ ~ Last(frames).keyed /\ stack' = Append(stack, str(s))
      /\ frames \in Seq(Frame) /\ IsSeq(stack)
  BY DEF Key, RInv, IInv
<1>2. /\ OpenBar # <<>> /\ Len(OpenBar) = Len(frames)
      /\ Last(OpenBar).kind = "object" /\ ~ Tree!Half(Last(OpenBar))
  BY <1>1, Innermost
<1> DEFINE gs == frames'
           t == str(s)
<1>3. /\ gs \in Seq(Frame) /\ Len(gs) = Len(frames) /\ Len(frames) \in Nat \ {0}
      /\ \A j \in 1 .. Len(frames) :
           gs[j].kind = frames[j].kind /\ gs[j].base = frames[j].base
  BY <1>1, KeyedSame DEF RInv
<1>4. \A j \in 1 .. Len(frames) : frames[j].base <= Len(stack)
  BY <1>1, BasesBelow
<1> HIDE DEF gs, t
<1>5. Cut(gs, Append(stack, t))
        = [Cut(frames, stack) EXCEPT ![Len(frames)].items = Append(@, t)]
  <2>1. frames \in Seq(Frame) /\ frames # <<>> /\ IsSeq(stack)
    BY <1>1
  <2>. QED BY <1>3, <1>4, <2>1, CutGrown
<1>6. OpenBar' = Tree!Add(OpenBar, t)
  BY <1>1, <1>2, <1>5, Zenon DEF OpenBar, Tree!Add, gs, t
<1>7. RootBar' = RootBar
  <2>1. gs # <<>>
    BY <1>3
  <2>. QED BY <1>1, <2>1 DEF RootBar, gs
<1>. QED
  BY <1>2, <1>6, <1>7, Zenon
  DEF Tree!Member, OpenBar, RootBar, Cut, Top, Tree!Last, Last, t

LEMMA EnterImplements ==
  ASSUME RInv, NEW kind \in {"object", "array"}, Enter(kind)
  PROVE  Tree!Open(kind)
<1> DEFINE g == [kind |-> kind, count |-> 0, keyed |-> FALSE, base |-> Len(stack)]
<1>1. /\ ValueAllowed /\ frames \in Seq(Frame) /\ frames' = Append(frames, g)
      /\ stack' = stack /\ IsSeq(stack) /\ Len(stack) \in Nat /\ status = "parsing"
  BY AppendSeq DEF Enter, ValueAllowed, RInv, IInv
<1>2. g \in Frame /\ g.base = Len(stack) /\ g.kind = kind
  BY <1>1 DEF Frame
<1> HIDE DEF g
<1>3. Cut(Append(frames, g), stack)
        = Append(Cut(frames, stack), [kind |-> kind, items |-> <<>>])
  BY <1>1, <1>2, CutEntered
<1>4. OpenBar' = Append(OpenBar, [kind |-> kind, items |-> <<>>])
  BY <1>1, <1>3, Zenon DEF OpenBar
<1>5. RootBar' = RootBar
  <2>1. frames' # <<>>
    BY <1>1, <1>2
  <2>2. frames = <<>> => RootBar = <<>>
    BY <1>1, Outermost
  <2>. QED BY <2>1, <2>2 DEF RootBar
<1>6. IF OpenBar = <<>> THEN RootBar = <<>>
      ELSE Last(OpenBar).kind = "object" => Tree!Half(Last(OpenBar))
  BY <1>1, Allowed
<1>. QED
  BY <1>4, <1>5, <1>6, Zenon
  DEF Tree!Open, Tree!TermAllowed, OpenBar, RootBar, Cut, Top, Tree!Last, Last

(* The pop loop makes the term of its own container's children. *)
LEMMA LoopTerm ==
  ASSUME RInv, EndObject \/ EndArray
  PROVE  LET f == Last(frames)
             items == SubSeq(stack, f.base + 1, Len(stack))
         IN /\ frames # <<>> /\ status = "parsing" /\ Ended(Front(frames))
            /\ f.kind = "object" => ~ f.keyed
            /\ stack' = Append(SubSeq(stack, 1, f.base),
                               IF f.kind = "object" THEN obj(Conses(Members(items)))
                                                    ELSE listWrap(Conses(items)))
<1> DEFINE f == Last(frames)
<1>1. frames # <<>> /\ status = "parsing" /\ Ended(Front(frames))
  BY DEF EndObject, EndArray
<1>2. /\ Len(stack) = f.base + Slots(f) /\ f \in Frame
      /\ f.base \in Nat /\ Slots(f) \in Nat /\ Len(stack) \in Nat
  BY <1>1, BasesBelow
<1>3. Len(stack) - Slots(f) = f.base /\ Len(stack) - Slots(f) + 1 = f.base + 1
  BY <1>2
<1>4. CASE EndObject
  <2>1. Slots(f) = 2 * f.count
    <3>1. Slots(f) = 2 * f.count + 0
      BY <1>4 DEF EndObject, Slots
    <3>. QED BY <1>2, <3>1 DEF Frame
  <2>2. stack' = Append(Beneath(Slots(f)), obj(Conses(Members(Popped(Slots(f))))))
    BY <1>4, <2>1, Zenon DEF EndObject
  <2>3. f.kind = "object" /\ ~ f.keyed
    BY <1>4 DEF EndObject
  <2>. QED BY <1>1, <1>3, <2>2, <2>3, Zenon DEF Beneath, Popped
<1>5. CASE EndArray
  <2>1. f.kind # "object"
    BY <1>5 DEF EndArray
  <2>2. Slots(f) = f.count
    BY <2>1 DEF Slots
  <2>3. stack' = Append(Beneath(Slots(f)), listWrap(Conses(Popped(Slots(f)))))
    BY <1>5, <2>2, Zenon DEF EndArray
  <2>. QED BY <1>1, <1>3, <2>1, <2>3, Zenon DEF Beneath, Popped
<1>. QED BY <1>4, <1>5

LEMMA EndImplements ==
  ASSUME RInv, EndObject \/ EndArray
  PROVE  Tree!Close
<1> DEFINE f == Last(frames)
           items == SubSeq(stack, f.base + 1, Len(stack))
           t == IF f.kind = "object" THEN obj(Conses(Members(items)))
                                     ELSE listWrap(Conses(items))
           fs == Front(frames)
           s == SubSeq(stack, 1, f.base)
           c == Last(OpenBar)
<1>1. /\ frames # <<>> /\ status = "parsing" /\ Ended(fs)
      /\ f.kind = "object" => ~ f.keyed
      /\ stack' = Append(s, t)
  BY LoopTerm
<1>2. /\ OpenBar # <<>> /\ c = [kind |-> f.kind, items |-> items]
      /\ f.kind = "object" => ~ Tree!Half(c)
  BY <1>1, Innermost
<1>3. /\ frames \in Seq(Frame) /\ Nested(frames) /\ IsSeq(stack)
      /\ f.base \in 0 .. Len(stack) /\ f.base \in Nat
  BY <1>1, BasesBelow DEF RInv, IInv
<1>4. Cut(fs, s) = Front(OpenBar)
  BY <1>1, <1>3, CutClosed DEF OpenBar
<1>5. IsSeq(s) /\ Len(s) = f.base
  BY <1>3, SubSeqSeq
<1>6. fs \in Seq(Frame) /\ \A j \in 1 .. Len(fs) : fs[j].base <= Len(s)
  <2>1. fs \in Seq(Frame) /\ Len(fs) = Len(frames) - 1 /\ Len(frames) \in Nat \ {0}
        /\ \A j \in 1 .. Len(frames) - 1 : fs[j] = frames[j]
    BY <1>1, <1>3, FrontSeq
  <2> HIDE DEF s, fs
  <2>2. ASSUME NEW j \in 1 .. Len(fs) PROVE fs[j].base <= Len(s)
    <3>1. /\ j \in 1 .. Len(frames) - 1 /\ j \in 1 .. Len(frames)
          /\ Len(frames) \in 1 .. Len(frames) /\ j <= Len(frames)
      BY <2>1
    <3>. QED BY <1>3, <1>5, <2>1, <3>1 DEF Nested, Last
  <2>. QED BY <2>1, <2>2
<1>7. fs = <<>> => s = <<>>
  <2>1. fs = <<>> => f.base = 0
    <3>1. Len(fs) = Len(frames) - 1 /\ Len(frames) \in Nat \ {0}
      BY <1>1, <1>3, FrontSeq
    <3>2. frames[1].base = 0
      BY <1>1 DEF RInv, IInv, Divides
    <3> HIDE DEF fs
    <3>3. fs = <<>> => Len(frames) = 1
      BY <3>1
    <3>. QED BY <3>2, <3>3 DEF Last
  <2> HIDE DEF s, fs
  <2>2. f.base = 0 => s = <<>>
    <3>1. PICK S : s \in Seq(S)
      BY <1>5 DEF IsSeq
    <3>. QED BY <1>5, <3>1
  <2>. QED BY <2>1, <2>2
<1> HIDE DEF fs, s, f, items, t
<1>8. /\ OpenBar' = Tree!Add(Front(OpenBar), t)
      /\ RootBar' = Tree!Grown(IF fs = <<>> THEN s ELSE <<>>, Front(OpenBar), t)
  <2>1. /\ OpenBar' = Tree!Add(Cut(fs, s), t)
        /\ RootBar' = Tree!Grown(IF fs = <<>> THEN s ELSE <<>>, Cut(fs, s), t)
    BY <1>1, <1>5, <1>6, <1>7, Added
  <2>. QED BY <1>4, <2>1, Zenon
<1>9. (IF fs = <<>> THEN s ELSE <<>>) = RootBar
  BY <1>1, <1>7 DEF RootBar
<1>10. t = IF c.kind = "object" THEN Tree!obj(Tree!Conses(Tree!Members(c.items)))
                                ELSE Tree!listWrap(Tree!Conses(c.items))
  <2> HIDE DEF c
  <2>1. c.kind = f.kind /\ c.items = items
    BY <1>2
  <2>. QED BY <2>1, SameTerms, Zenon DEF t
<1>11. c.kind = "object" => ~ Tree!Half(c)
  BY <1>2
<1>. QED
  BY <1>2, <1>8, <1>9, <1>10, <1>11, Zenon
  DEF Tree!Close, OpenBar, RootBar, Cut, Top, Tree!Last, Last, Tree!Front, Front

(* The flat stack implements the tree: whatever the document, every call of
   the reader is a step of the tree that keeps each container's children
   apart, or changes nothing of it. *)
THEOREM StackImplementsTree == Spec => ImplementsTree
<1>1. Init => Tree!Init
  <2> SUFFICES ASSUME Init PROVE Tree!Init
    OBVIOUS
  <2>1. frames = <<>> /\ stack = <<>>
    BY DEF Init
  <2>. QED BY <2>1 DEF Tree!Init
<1>2. RInv /\ [Next]_vars => [Tree!Next]_Tree!vars
  <2> SUFFICES ASSUME RInv, [Next]_vars PROVE [Tree!Next]_Tree!vars
    OBVIOUS
  <2>1. CASE frames' = frames /\ stack' = stack
    BY <2>1 DEF Tree!vars, Top
  <2>2. CASE Null \/ (\E b \in BOOLEAN : Bool(b)) \/ (\E n \in Number : RawNumber(n))
             \/ (\E s \in Text : String(s))
    <3>1. \E t \in Scalars : \E name, arg : Push(name, arg, t)
      BY <2>2, NumberAssumption, Zenon DEF Null, Bool, RawNumber, String, Scalars, IntOf
    <3>. QED BY <3>1, PushImplements DEF Tree!Next
  <2>3. CASE \E s \in Text : Key(s)
    BY <2>3, KeyImplements DEF Tree!Next
  <2>4. CASE StartObject \/ StartArray
    BY <2>4, EnterImplements DEF StartObject, StartArray, Tree!Next
  <2>5. CASE EndObject \/ EndArray
    BY <2>5, EndImplements DEF Tree!Next
  <2>. QED BY <2>1, <2>2, <2>3, <2>4, <2>5 DEF Next, vars, Fail, Return
<1>. QED BY <1>1, <1>2, RInit, RStep, PTL DEF Spec, ImplementsTree, Tree!Spec

=============================================================================
