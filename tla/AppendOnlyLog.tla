---------------------------- MODULE AppendOnlyLog ----------------------------
(***************************************************************************)
(* What a ledger of the node promises its readers: what was recorded is    *)
(* never changed, reordered or lost, it is only added to.                  *)
(***************************************************************************)
EXTENDS Sequences, SequencesExt

VARIABLE log

Init == log = <<>>

Next == IsPrefix(log, log')

Spec == Init /\ [][Next]_log

=============================================================================
