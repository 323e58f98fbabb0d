--------------------------- MODULE MCEventLedger ---------------------------
(***************************************************************************)
(* Small instances of EventLedger: two sources with two values each.       *)
(***************************************************************************)
EXTENDS EventLedger

MCKinds == <<"core_health", "mesh">>
MCOneKind == <<"core_health">>
MCVals  == {"up", "dn"}

=============================================================================
