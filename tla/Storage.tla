------------------------------ MODULE Storage ------------------------------
(***************************************************************************)
(* storage_watch: how full the disk is, its inodes, and a file that grows  *)
(* without end.  A level is the class its threshold puts it in; the file   *)
(* is one whose name the report uses as a key.                             *)
(***************************************************************************)
EXTENDS StateWatch

ASSUME StorageAssumption == {"persist", "inodos", "big"} \subseteq WatchKeys

VARIABLES
    use,    \* how full /persist is: "low", "warn", "crit", or "none" (not mounted)
    inodes, \* are inodes scarce?
    big     \* is there a state file above the size that counts as enormous?

storageVars == <<use, inodes, big>>

StorageInit == use = "low" /\ inodes = FALSE /\ big = FALSE

\* Files are written and removed.
Fill ==
    /\ use' \in {"low", "warn", "crit", "none"} /\ inodes' \in BOOLEAN /\ big' \in BOOLEAN
    /\ UNCHANGED watchVars

\* A check that finds nothing says OK, but the enormous file has an entry only
\* while there is one, and the inodes only while the disk can be measured.
Evaluated ==
    (IF use = "none" THEN <<<<"persist", "OK">>>>
     ELSE <<<<"persist", IF use = "low" THEN "OK" ELSE "DISCO_LLENO">>,
            <<"inodos", IF inodes THEN "INODOS_BAJOS" ELSE "OK">>>>)
    \o (IF big THEN <<<<"big", "FICHERO_ENORME">>>> ELSE <<>>)

StoragePass == BeginPass(Evaluated) /\ UNCHANGED storageVars

StorageNext ==
    \/ Fill \/ StoragePass
    \/ (Compare \/ SaveState \/ KillPass) /\ UNCHANGED storageVars

-----------------------------------------------------------------------------
\* The ledger of storage_watch tells the state of the disk.
DiskIsTold == LedgerTells({"persist"})

\* storage_watch 132: a state that is no longer what it was is a transition.
\* The code records none for an enormous file that is gone, nor for the inodes
\* of a disk that cannot be measured: they are in no finding at all.
GrowthIsTold == LedgerTells({"inodos", "big"})
=============================================================================
