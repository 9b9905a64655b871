---------------------------- MODULE ByteProgram ----------------------------
(***************************************************************************)
(* A K program that calls the hooks on byte strings one after another:     *)
(* p256verify step by step, the others in one.                             *)
(***************************************************************************)
EXTENDS P256Verify, ByteHooks

programVars == <<vars, hookVars>>

ProgramInit == Init /\ HookInit

ProgramNext == \/ Next /\ UNCHANGED hookVars
               \/ pc = "idle" /\ HookNext /\ UNCHANGED vars

ProgramSpec == ProgramInit /\ [][ProgramNext]_programVars

=============================================================================
