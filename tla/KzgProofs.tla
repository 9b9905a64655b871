------------------------------ MODULE KzgProofs ------------------------------
(***************************************************************************)
(* The properties of Kzg for every number of threads, descriptors and      *)
(* calls.                                                                  *)
(***************************************************************************)
EXTENDS Kzg, FiniteSetTheorems, TLAPS

Places == {"idle", "flag", "setup", "load", "close", "verify"}

TypeOK ==
  /\ pc \in [Threads -> Places]
  /\ once \in [Threads -> BOOLEAN] /\ proof \in [Threads -> BOOLEAN]
  /\ settings \in [Threads -> {"blank", "loaded", "broken"}]
  /\ answer \in [Threads -> {"none", "true", "false", "throw"}]
  /\ files \in Nat /\ failures \in Nat /\ ncalls \in Nat

(* The flag is up until the thread's settings are loaded, and a thread on its way
   to load them has it up. *)
LoadedFirst ==
  \A t \in Threads :
    /\ ~ once[t] \/ pc[t] \in {"close", "verify"} => settings[t] = "loaded"
    /\ pc[t] \in {"setup", "load", "close"} => once[t]

Inv == TypeOK /\ LoadedFirst /\ AnswersRight /\ FilesAccounted

LEMMA InvInit == Init => Inv
<1>. SUFFICES ASSUME Init PROVE Inv
  OBVIOUS
<1>1. TypeOK /\ LoadedFirst /\ AnswersRight
  BY DEF Init, TypeOK, Places, LoadedFirst, AnswersRight
<1>2. Loading = {}
  BY DEF Init, Loading
<1>3. FilesAccounted
  BY <1>2, FS_EmptySet DEF Init, FilesAccounted
<1>. QED BY <1>1, <1>3 DEF Inv

(* The set of loading threads when one changes its place. *)
LEMMA LoadingCounted ==
  ASSUME TypeOK, NEW t \in Threads, NEW p \in Places, Goto(t, p)
  PROVE  /\ Cardinality(Loading) \in Nat
         /\ (pc[t] \in {"load", "close"}) = (p \in {"load", "close"})
              => Cardinality(Loading') = Cardinality(Loading)
         /\ pc[t] \notin {"load", "close"} /\ p \in {"load", "close"}
              => Cardinality(Loading') = Cardinality(Loading) + 1
         /\ pc[t] \in {"load", "close"} /\ p \notin {"load", "close"}
              => Cardinality(Loading') = Cardinality(Loading) - 1
<1>1. pc' = [pc EXCEPT ![t] = p] /\ pc \in [Threads -> Places]
  BY DEF Goto, TypeOK
<1>2. IsFiniteSet(Loading)
  BY ThreadsAssumption, FS_Subset DEF Loading
<1>3. Cardinality(Loading) \in Nat
  BY <1>2, FS_CardinalityType
<1>4. CASE (pc[t] \in {"load", "close"}) = (p \in {"load", "close"})
  <2>1. Loading' = Loading
    BY <1>1, <1>4 DEF Loading
  <2>. QED BY <1>3, <1>4, <2>1
<1>5. CASE pc[t] \notin {"load", "close"} /\ p \in {"load", "close"}
  <2>1. Loading' = Loading \cup {t} /\ t \notin Loading
    BY <1>1, <1>5 DEF Loading
  <2>2. Cardinality(Loading') = Cardinality(Loading) + 1
    BY <1>2, <2>1, FS_AddElement
  <2>. QED BY <1>3, <1>5, <2>2
<1>6. CASE pc[t] \in {"load", "close"} /\ p \notin {"load", "close"}
  <2>1. Loading' = Loading \ {t} /\ t \in Loading
    BY <1>1, <1>6 DEF Loading
  <2>2. Cardinality(Loading') = Cardinality(Loading) - 1
    BY <1>2, <2>1, FS_RemoveElement
  <2>. QED BY <1>3, <1>6, <2>2
<1>. QED BY <1>4, <1>5, <1>6

LEMMA InvStep == Inv /\ [Next]_vars => Inv'
<1>. SUFFICES ASSUME Inv, [Next]_vars PROVE Inv'
  OBVIOUS
<1>. USE DEF Inv
<1>0. CASE UNCHANGED vars
  BY <1>0 DEF vars, TypeOK, LoadedFirst, AnswersRight, FilesAccounted, Loading
<1>. SUFFICES ASSUME ~ crashed, NEW t \in Threads,
                     (\E good \in BOOLEAN : Call(t, good)) \/ Hook(t) \/ Renew(t)
              PROVE  Inv'
  BY <1>0 DEF Next
<1>1. ASSUME NEW good \in BOOLEAN, Call(t, good) PROVE Inv'
  <2>1. TypeOK' /\ LoadedFirst' /\ AnswersRight'
    BY <1>1 DEF Call, Goto, TypeOK, Places, LoadedFirst, AnswersRight
  <2>2. FilesAccounted'
    <3>1. Goto(t, "flag") /\ pc[t] = "idle" /\ UNCHANGED <<files, failures, crashed>>
      BY <1>1 DEF Call
    <3>2. Cardinality(Loading') = Cardinality(Loading) /\ Cardinality(Loading) \in Nat
      BY <3>1, LoadingCounted DEF Places
    <3>. QED BY <3>1, <3>2 DEF FilesAccounted, TypeOK
  <2>. QED BY <2>1, <2>2
<1>2. CASE CheckOnce(t)
  <2>1. TypeOK' /\ LoadedFirst' /\ AnswersRight'
    BY <1>2 DEF CheckOnce, Goto, TypeOK, Places, LoadedFirst, AnswersRight
  <2>2. FilesAccounted'
    <3>1. PICK p \in {"setup", "verify"} :
            Goto(t, p) /\ pc[t] = "flag" /\ UNCHANGED <<files, failures, crashed>>
      BY <1>2, Zenon DEF CheckOnce
    <3>2. Cardinality(Loading') = Cardinality(Loading) /\ Cardinality(Loading) \in Nat
      BY <3>1, LoadingCounted DEF Places
    <3>. QED BY <3>1, <3>2 DEF FilesAccounted, TypeOK
  <2>. QED BY <2>1, <2>2
<1>3. CASE WriteFile(t)
  <2>0. /\ UNCHANGED <<once, settings, proof, answer, failures, ncalls>>
        /\ pc[t] = "setup" /\ (UNCHANGED pc \/ Goto(t, "load"))
        /\ files' \in Nat
    BY <1>3 DEF WriteFile, TypeOK
  <2>1. TypeOK' /\ LoadedFirst' /\ AnswersRight'
    <3>1. CASE UNCHANGED pc
      BY <2>0, <3>1 DEF TypeOK, Places, LoadedFirst, AnswersRight
    <3>2. CASE Goto(t, "load")
      BY <2>0, <3>2 DEF Goto, TypeOK, Places, LoadedFirst, AnswersRight
    <3>. QED BY <2>0, <3>1, <3>2
  <2>2. CASE Goto(t, "load") /\ files' = files + 1
    <3>1. Cardinality(Loading') = Cardinality(Loading) + 1 /\ Cardinality(Loading) \in Nat
      BY <2>0, <2>2, LoadingCounted DEF Places
    <3>2. FilesAccounted'
      BY <2>0, <2>2, <3>1 DEF FilesAccounted, TypeOK
    <3>. QED BY <2>1, <3>2
  <2>3. CASE UNCHANGED <<pc, files>>
    <3>1. FilesAccounted'
      BY <2>0, <2>3 DEF FilesAccounted, Loading
    <3>. QED BY <2>1, <3>1
  <2>. QED BY <1>3, <2>2, <2>3 DEF WriteFile
<1>4. CASE Load(t)
  <2>1. TypeOK' /\ LoadedFirst' /\ AnswersRight'
    BY <1>4 DEF Load, Goto, TypeOK, Places, LoadedFirst, AnswersRight
  <2>2. FilesAccounted'
    <3>1. Goto(t, "close") /\ pc[t] = "load" /\ UNCHANGED <<files, failures, crashed>>
      BY <1>4 DEF Load
    <3>2. Cardinality(Loading') = Cardinality(Loading) /\ Cardinality(Loading) \in Nat
      BY <3>1, LoadingCounted DEF Places
    <3>. QED BY <3>1, <3>2 DEF FilesAccounted, TypeOK
  <2>. QED BY <2>1, <2>2
<1>5. CASE LoadFails(t)
  <2>1. TypeOK' /\ LoadedFirst' /\ AnswersRight'
    BY <1>5 DEF LoadFails, Goto, TypeOK, Places, LoadedFirst, AnswersRight
  <2>2. FilesAccounted'
    <3>1. /\ Goto(t, "idle") /\ pc[t] = "load"
          /\ failures' = failures + 1 /\ UNCHANGED <<files, crashed>>
      BY <1>5 DEF LoadFails
    <3>2. Cardinality(Loading') = Cardinality(Loading) - 1 /\ Cardinality(Loading) \in Nat
      BY <3>1, LoadingCounted DEF Places
    <3>. QED BY <3>1, <3>2 DEF FilesAccounted, TypeOK
  <2>. QED BY <2>1, <2>2
<1>6. CASE CloseFile(t)
  <2>1. /\ Goto(t, "verify") /\ pc[t] = "close"
        /\ files' = files - 1 /\ UNCHANGED <<failures, crashed>>
    BY <1>6 DEF CloseFile
  <2>2. /\ Cardinality(Loading') = Cardinality(Loading) - 1 /\ Cardinality(Loading) \in Nat
        /\ Cardinality(Loading') \in Nat
    <3>1. TypeOK /\ "verify" \in Places  BY DEF Places
    <3>2. Loading' \in SUBSET Threads  BY DEF Loading
    <3>3. Cardinality(Loading') \in Nat
      BY <3>2, ThreadsAssumption, FS_Subset, FS_CardinalityType
    <3>. QED BY <2>1, <3>1, <3>3, LoadingCounted
  <2>3. FilesAccounted' /\ files' \in Nat
    BY <2>1, <2>2 DEF FilesAccounted, TypeOK
  <2>4. TypeOK' /\ LoadedFirst' /\ AnswersRight'
    BY <1>6, <2>3 DEF CloseFile, Goto, TypeOK, Places, LoadedFirst, AnswersRight
  <2>. QED BY <2>3, <2>4
<1>7. CASE Verify(t)
  <2>0. settings[t] = "loaded"
    BY <1>7 DEF Verify, LoadedFirst
  <2>1. TypeOK' /\ LoadedFirst' /\ AnswersRight'
    BY <1>7, <2>0 DEF Verify, Goto, TypeOK, Places, LoadedFirst, AnswersRight
  <2>2. FilesAccounted'
    <3>1. Goto(t, "idle") /\ pc[t] = "verify" /\ UNCHANGED <<files, failures, crashed>>
      BY <1>7 DEF Verify
    <3>2. Cardinality(Loading') = Cardinality(Loading) /\ Cardinality(Loading) \in Nat
      BY <3>1, LoadingCounted DEF Places
    <3>. QED BY <3>1, <3>2 DEF FilesAccounted, TypeOK
  <2>. QED BY <2>1, <2>2
<1>8. CASE Renew(t)
  <2>1. TypeOK' /\ LoadedFirst' /\ AnswersRight'
    BY <1>8 DEF Renew, Goto, TypeOK, Places, LoadedFirst, AnswersRight
  <2>2. FilesAccounted'
    BY <1>8 DEF Renew, FilesAccounted, Loading
  <2>. QED BY <2>1, <2>2
<1>. QED BY <1>1, <1>2, <1>3, <1>4, <1>5, <1>6, <1>7, <1>8 DEF Hook

LEMMA InvAlways == Spec => []Inv
  BY InvInit, InvStep, PTL DEF Spec

(* AnswersRight: whatever failed before or goes on elsewhere, a thread that
   answers answers with settings it has loaded itself. *)
THEOREM Right == Spec => []AnswersRight
  BY InvAlways, PTL DEF Inv

(* FilesAccounted: the temporary files that are open are those of loads under way
   and one for each load that failed, whatever made it fail. *)
THEOREM Files == Spec => []FilesAccounted
  BY InvAlways, PTL DEF Inv

=============================================================================
