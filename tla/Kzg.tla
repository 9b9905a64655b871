-------------------------------- MODULE Kzg --------------------------------
(***************************************************************************)
(* hook_KRYPTO_verifyKZGProof of plugin-c/kzg.cpp, called by several       *)
(* threads.  Each has its own flag and settings; the first call of a       *)
(* thread loads the trusted setup through a temporary file, and may fail.  *)
(* The descriptors are the process's.  c-kzg is external: loading fails or *)
(* not, and with settings that were not loaded it may answer anything.     *)
(***************************************************************************)
EXTENDS Integers, FiniteSets

CONSTANTS
  Threads,
  FileLimit,       \* descriptors the process has left
  MaxCalls         \* bound: calls of the hook, by all threads

ASSUME ThreadsAssumption == IsFiniteSet(Threads)
ASSUME BoundsAssumption == FileLimit \in Nat /\ MaxCalls \in Nat

VARIABLES
  pc,
  once, settings,     \* the thread_locals
  proof,              \* is what the thread's last call has to verify good?
  answer,             \* what it returned: a boolean, or that it threw
  files,              \* open temporary files
  failures,           \* history: loads that failed
  crashed,            \* a thread went through a null pointer
  ncalls

vars == <<pc, once, settings, proof, answer, files, failures, crashed, ncalls>>

Goto(t, p) == pc' = [pc EXCEPT ![t] = p]

Call(t, good) ==
  /\ pc[t] = "idle" /\ ncalls < MaxCalls
  /\ ncalls' = ncalls + 1
  /\ proof' = [proof EXCEPT ![t] = good] /\ answer' = [answer EXCEPT ![t] = "none"]
  /\ Goto(t, "flag")
  /\ UNCHANGED <<once, settings, files, failures, crashed>>

CheckOnce(t) ==
  /\ pc[t] = "flag"
  /\ Goto(t, IF once[t] THEN "setup" ELSE "verify")
  /\ UNCHANGED <<once, settings, proof, answer, files, failures, crashed, ncalls>>

(* tmpfile() and the writing of the setup.  There is no file when the descriptors
   are used up, and at any other time for a reason outside the process: a
   directory that is full or cannot be written, or no memory.  Then fputs goes
   through the null pointer. *)
WriteFile(t) ==
  /\ pc[t] = "setup"
  /\ \/ /\ files < FileLimit
        /\ files' = files + 1 /\ Goto(t, "load") /\ UNCHANGED crashed
     \/ crashed' = TRUE /\ UNCHANGED <<pc, files>>
  /\ UNCHANGED <<once, settings, proof, answer, failures, ncalls>>

Load(t) ==
  /\ pc[t] = "load"
  /\ settings' = [settings EXCEPT ![t] = "loaded"]
  /\ Goto(t, "close")
  /\ UNCHANGED <<once, proof, answer, files, failures, crashed, ncalls>>

(* Mutant: the flag is lowered before the exception leaves. *)
HastyLoadFails(t) ==
  /\ pc[t] = "load"
  /\ settings' = [settings EXCEPT ![t] = "broken"]
  /\ once' = [once EXCEPT ![t] = FALSE]
  /\ failures' = failures + 1
  /\ answer' = [answer EXCEPT ![t] = "throw"] /\ Goto(t, "idle")
  /\ UNCHANGED <<proof, files, crashed, ncalls>>

(* The exception passes by fclose and by the lowering of the flag. *)
LoadFails(t) ==
  /\ pc[t] = "load"
  /\ settings' = [settings EXCEPT ![t] = "broken"]
  /\ failures' = failures + 1
  /\ answer' = [answer EXCEPT ![t] = "throw"] /\ Goto(t, "idle")
  /\ UNCHANGED <<once, proof, files, crashed, ncalls>>

(* Mutant: fclose is left out. *)
ForgetfulCloseFile(t) ==
  /\ pc[t] = "close"
  /\ once' = [once EXCEPT ![t] = FALSE]
  /\ Goto(t, "verify")
  /\ UNCHANGED <<settings, proof, answer, files, failures, crashed, ncalls>>

CloseFile(t) ==
  /\ pc[t] = "close"
  /\ files' = files - 1 /\ once' = [once EXCEPT ![t] = FALSE]
  /\ Goto(t, "verify")
  /\ UNCHANGED <<settings, proof, answer, failures, crashed, ncalls>>

Verify(t) ==
  /\ pc[t] = "verify"
  /\ \E ok \in IF settings[t] = "loaded" THEN {proof[t]} ELSE BOOLEAN :
       answer' = [answer EXCEPT ![t] = IF ok THEN "true" ELSE "false"]
  /\ Goto(t, "idle")
  /\ UNCHANGED <<once, settings, proof, files, failures, crashed, ncalls>>

(* A thread ends and another begins in its place. *)
Renew(t) ==
  /\ pc[t] = "idle" /\ answer[t] # "none"
  /\ once' = [once EXCEPT ![t] = TRUE] /\ settings' = [settings EXCEPT ![t] = "blank"]
  /\ answer' = [answer EXCEPT ![t] = "none"]
  /\ UNCHANGED <<pc, proof, files, failures, crashed, ncalls>>

Init ==
  /\ pc = [t \in Threads |-> "idle"] /\ once = [t \in Threads |-> TRUE]
  /\ settings = [t \in Threads |-> "blank"] /\ proof = [t \in Threads |-> FALSE]
  /\ answer = [t \in Threads |-> "none"]
  /\ files = 0 /\ failures = 0 /\ crashed = FALSE /\ ncalls = 0

Hook(t) == CheckOnce(t) \/ WriteFile(t) \/ Load(t) \/ LoadFails(t) \/ CloseFile(t) \/ Verify(t)

(* A crash is the end of all threads. *)
Next == /\ ~ crashed
        /\ \E t \in Threads : \/ \E good \in BOOLEAN : Call(t, good)
                              \/ Hook(t)
                              \/ Renew(t)

Spec == Init /\ [][Next]_vars

-----------------------------------------------------------------------------
(* Correctness. *)

(* A thread that answers tells a good proof from a bad one, whatever failed in
   its own earlier calls or goes on in other threads: no answer is given with
   settings that a failed load left behind. *)
AnswersRight ==
  \A t \in Threads : answer[t] \in {"true", "false"} => (answer[t] = "true") = proof[t]

(* Descriptors are lost to failed loads and to nothing else, and each of those
   costs exactly one: an open file belongs to a thread that is loading, or was
   left behind by a load that failed, however often threads call, fail, retry, end
   and are replaced.  A thread whose load succeeds leaves no file. *)
Loading == {t \in Threads : pc[t] \in {"load", "close"}}
FilesAccounted == files = failures + Cardinality(Loading)

=============================================================================
