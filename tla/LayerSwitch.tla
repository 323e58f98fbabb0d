----------------------------- MODULE LayerSwitch -----------------------------
(***************************************************************************)
(* What the promotion of a code layer promises: the active layer changes   *)
(* as a whole.  It is replaced by a sealed layer, and only once a copy of  *)
(* what it was has been saved, or it goes back to the copy.                *)
(***************************************************************************)
CONSTANTS
    SealedLayers,  \* layers all of whose files are validly signed
    NoLayer        \* there is no saved copy

VARIABLES active, saved

Init == active \in SealedLayers /\ saved = NoLayer

\* A new copy is being made; until it is complete there is none.
Discard == saved' = NoLayer /\ UNCHANGED active

Save == saved = NoLayer /\ saved' = active /\ UNCHANGED active

Promote == saved = active /\ active' \in SealedLayers /\ UNCHANGED saved

Rollback == saved # NoLayer /\ active' = saved /\ UNCHANGED saved

Next == Discard \/ Save \/ Promote \/ Rollback

Spec == Init /\ [][Next]_<<active, saved>>

=============================================================================
