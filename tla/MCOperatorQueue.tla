-------------------------- MODULE MCOperatorQueue --------------------------
(***************************************************************************)
(* Small instances of OperatorQueue: the two CRIT checks and at most one   *)
(* service.                                                                *)
(***************************************************************************)
EXTENDS OperatorQueue

MCNoService  == {}
MCOneService == {"vw:svc:clock_watch"}

=============================================================================
