------------------------------ MODULE MCLayerd ------------------------------
(***************************************************************************)
(* Small instances of Layerd.  Service 1 is long-running and belongs to    *)
(* the core, service 2 is periodic and carries a module label.             *)
(***************************************************************************)
EXTENDS Layerd

MCLong == {1}
MCOptional == {2}
MCIv == [i \in Services |-> 1]

=============================================================================
