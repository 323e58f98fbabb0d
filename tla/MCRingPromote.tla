--------------------------- MODULE MCRingPromote ---------------------------
(***************************************************************************)
(* Small instances of RingPromote: the verifier, the list of services and  *)
(* one service, in two versions each.                                      *)
(***************************************************************************)
EXTENDS RingPromote

MCFiles    == {"authority_partition.py", "manifest.txt", "svc.py"}
MCServices == {"svc.py"}
MCNone     == {}
MCVersions == {"v1", "v2"}

MCNoBad        == {}
MCBadCopies    == {"mirror", "main"} \X {"manifest.txt", "svc.py"}
MCAllBad       == (DOMAIN Copies) \X Files
MCBadPartition == {<<"main", "authority_partition.py">>}

=============================================================================
