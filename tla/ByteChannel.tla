----------------------------- MODULE ByteChannel -----------------------------
(***************************************************************************)
(* What each half of an FDStream promises while the object lives: an       *)
(* exact byte channel.  Whatever one side has handed over is delivered in  *)
(* order, without a gap, a repetition or an invented byte.  How the bytes  *)
(* are grouped (read(2) results, buffer refills, flushes) is invisible     *)
(* here, so one step may extend both histories by any number of bytes.     *)
(***************************************************************************)
EXTENDS SequencesExt

VARIABLES
  sent,   \* every byte handed to the channel so far, oldest first
  got     \* every byte that came out of it so far, oldest first

Init == sent = <<>> /\ got = <<>>

Next == /\ IsPrefix(sent, sent')
        /\ IsPrefix(got, got')
        /\ IsPrefix(got', sent')

Spec == Init /\ [][Next]_<<sent, got>>

=============================================================================
