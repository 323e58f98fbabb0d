----------------------------- MODULE RingPromote -----------------------------
(***************************************************************************)
(* services/ring_promote.py: the promotion of the node's code layer        *)
(* through three directories, DEV -> MIRROR -> MAIN, with a backup of MAIN *)
(* and a rollback to it.  MAIN is what layerd runs.                        *)
(*                                                                         *)
(* A directory maps each file of the layer to what it holds: nothing, a    *)
(* version whose signature verifies, or something that does not verify.    *)
(* Copies remove the destination's files and then copy one file at a time, *)
(* so a run that is killed or raises an exception leaves a partial copy.   *)
(* Of the backups only the latest is modelled: no operation reads another. *)
(***************************************************************************)
EXTENDS Naturals, FiniteSets, Sequences

CONSTANTS
    Files,         \* files of the layer
    Partition,     \* authority_partition.py, the module that verifies
    ManifestTxt,   \* manifest.txt, the list of services
    Versions,      \* versions of a file that are validly signed
    Bad,           \* <<copy, file>>: copies that may go wrong silently
    MayRetire,     \* files the operator agrees to retire from MAIN
    LiveDev,       \* is DEV written while a promotion runs?
    MaxDeliveries, \* bound: files put into DEV or removed from it
    MaxRuns,       \* bound: commands started
    MaxDamage,     \* bound: copies that go wrong silently
    MaxStops       \* bound: commands that are killed or raise an exception

Dirs    == {"dev", "mirror", "main", "backup"}
Absent  == "absent"
Damaged == "damaged"
Content == Versions \cup {Absent, Damaged}
Bundles == [Files -> Content]
Empty   == [f \in Files |-> Absent]

ASSUME FilesAssumption ==
    Partition \in Files /\ ManifestTxt \in Files /\ Partition # ManifestTxt
ASSUME VersionsAssumption ==
    Versions # {} /\ Versions \cap {Absent, Damaged} = {}
ASSUME DevAssumption == MayRetire \subseteq Files /\ LiveDev \in BOOLEAN
ASSUME BoundsAssumption ==
    /\ MaxDeliveries \in Nat /\ MaxRuns \in Nat
    /\ MaxDamage \in Nat /\ MaxStops \in Nat

VARIABLES
    dir,       \* contents of each directory ("backup": the latest backup)
    hasBackup, \* is there a backup?
    manifest,  \* main_manifest.json: the bundle it describes, or none
    chain,     \* promotion.chain
    head,      \* promotion.chain.head: number of the record it names
    stage,     \* what the running command does now
    cmd,       \* the command
    auth,      \* the promotion retires files, with the operator's leave
    cleaning,  \* a copy removes the old files first
    left,      \* files the copy has still to remove or to copy
    deliveries, runs, damage, stops

disk   == <<dir, hasBackup, manifest, chain, head>>
run    == <<stage, cmd, auth, cleaning, left>>
counts == <<deliveries, runs, damage, stops>>
vars   == <<disk, run, counts>>

NoManifest == Empty     \* a written one is never empty

Present(b) == {f \in Files : b[f] # Absent}

\* _faltan_en_dev() compares the files by extension: manifest.txt is not
\* among them.
Managed(b) == Present(b) \ {ManifestTxt}

\* verify_dir(): some file, and every file that is there verifies.
Sealed(b) == Present(b) # {} /\ Damaged \notin {b[f] : f \in Files}

\* _ap(): the module that verifies must itself verify, in MAIN; otherwise
\* every verification raises an exception that ends the command.
CanVerify == dir["main"][Partition] \in Versions

Verifies(d) == CanVerify /\ Sealed(dir[d])

\* The verification of MAIN answers: the verifier is sound, or no file has a
\* signature that would need it.  It raises: some file does need it.
MainAnswers == CanVerify \/ \A f \in Files : dir["main"][f] \notin Versions
MainRaises  == ~CanVerify /\ Present(dir["main"]) # {}

-----------------------------------------------------------------------------
(***************************************************************************)
(* Copies: stage |-> source and destination.                               *)
(***************************************************************************)
Copies == [seedDev    |-> <<"main", "dev">>,
           seedMirror |-> <<"main", "mirror">>,
           mirror     |-> <<"dev", "mirror">>,
           backup     |-> <<"main", "backup">>,
           main       |-> <<"mirror", "main">>,
           restore    |-> <<"backup", "main">>,
           roll       |-> <<"backup", "main">>]

ASSUME BadAssumption == Bad \subseteq (DOMAIN Copies) \X Files

Copying == stage \in DOMAIN Copies
Src     == Copies[stage][1]
Dst     == Copies[stage][2]

Go(s) == stage' = s /\ cleaning' = FALSE /\ left' = {} /\ UNCHANGED <<cmd, auth>>

\* _copy_bundle() starts: the files of the destination are to be removed.
GoCopy(s) ==
    /\ stage' = s /\ cleaning' = TRUE
    /\ left' = Present(dir[Copies[s][2]])

Ended ==
    /\ stage' = "idle" /\ cmd' = "none" /\ auth' = FALSE
    /\ cleaning' = FALSE /\ left' = {}

Init ==
    /\ \E v \in Versions :
          dir = [d \in Dirs |-> IF d = "main" THEN [f \in Files |-> v]
                                              ELSE Empty]
    /\ hasBackup = FALSE /\ manifest = NoManifest /\ chain = <<>> /\ head = 0
    /\ stage = "idle" /\ cmd = "none" /\ auth = FALSE
    /\ cleaning = FALSE /\ left = {}
    /\ deliveries = 0 /\ runs = 0 /\ damage = 0 /\ stops = 0

Clean(f) ==
    /\ Copying /\ cleaning /\ f \in left
    /\ dir' = [dir EXCEPT ![Dst][f] = Absent]
    /\ left' = left \ {f}
    /\ UNCHANGED <<hasBackup, manifest, chain, head, stage, cmd, auth, cleaning,
                   counts>>

ListSource ==
    /\ Copying /\ cleaning /\ left = {}
    /\ cleaning' = FALSE /\ left' = Present(dir[Src])
    /\ UNCHANGED <<stage, cmd, auth, disk, counts>>

CopyFile(f) ==
    /\ Copying /\ ~cleaning /\ f \in left /\ dir[Src][f] # Absent
    /\ dir' = [dir EXCEPT ![Dst][f] = dir[Src][f]]
    /\ left' = left \ {f}
    /\ UNCHANGED <<hasBackup, manifest, chain, head, stage, cmd, auth, cleaning,
                   counts>>

\* The copy is not what was read and nobody notices.
CopyGoesWrong(f) ==
    /\ Copying /\ ~cleaning /\ f \in left /\ dir[Src][f] # Absent
    /\ <<stage, f>> \in Bad /\ damage < MaxDamage
    /\ dir' = [dir EXCEPT ![Dst][f] = Damaged]
    /\ left' = left \ {f} /\ damage' = damage + 1
    /\ UNCHANGED <<hasBackup, manifest, chain, head, stage, cmd, auth, cleaning,
                   deliveries, runs, stops>>

\* A listed file is gone when its turn comes: the command ends.
SourceGone(f) ==
    /\ Copying /\ ~cleaning /\ f \in left /\ dir[Src][f] = Absent
    /\ Ended
    /\ UNCHANGED <<disk, counts>>

CopyDone == Copying /\ ~cleaning /\ left = {}

Copy == ListSource \/ \E f \in Files : \/ Clean(f) \/ CopyFile(f)
                                       \/ CopyGoesWrong(f) \/ SourceGone(f)

-----------------------------------------------------------------------------
(***************************************************************************)
(* cmd_init: DEV and MIRROR are seeded from MAIN.                          *)
(***************************************************************************)
Start(c) ==
    /\ stage = "idle" /\ runs < MaxRuns
    /\ runs' = runs + 1 /\ cmd' = c
    /\ UNCHANGED <<deliveries, damage, stops>>

\* Mutant of StartInit: MAIN is not verified first.
StartInitUnchecked ==
    /\ Start("init")
    /\ GoCopy("seedDev") /\ auth' = FALSE
    /\ UNCHANGED disk

StartInit ==
    /\ Start("init") /\ Verifies("main")
    /\ GoCopy("seedDev") /\ auth' = FALSE
    /\ UNCHANGED disk

SeedMirror ==
    /\ stage = "seedDev" /\ CopyDone
    /\ GoCopy("seedMirror")
    /\ UNCHANGED <<cmd, auth, disk, counts>>

Seeded ==
    /\ stage = "seedMirror" /\ CopyDone
    /\ Go("manifest")
    /\ UNCHANGED <<disk, counts>>

(***************************************************************************)
(* cmd_promote.  A promotion that the governance verdict or the ASCT       *)
(* simulation denies changes nothing and is no step.                       *)
(***************************************************************************)

\* Mutant of Missing: the difference is taken the other way round.
Added == Managed(dir["dev"]) \ Managed(dir["main"])

\* DEV must cover MAIN, or the operator authorises what would be retired.
Missing == Managed(dir["main"]) \ Managed(dir["dev"])

StartPromote ==
    /\ Start("promote") /\ Missing \subseteq MayRetire
    /\ stage' = "dev" /\ cleaning' = FALSE /\ left' = {}
    /\ auth' = (Missing # {})
    /\ UNCHANGED disk

CheckDev ==
    /\ stage = "dev"
    /\ IF Verifies("dev") THEN GoCopy("mirror") /\ UNCHANGED <<cmd, auth>>
                          ELSE Ended
    /\ UNCHANGED <<disk, counts>>

MirrorCopied ==
    /\ stage = "mirror" /\ CopyDone
    /\ Go("checkMirror")
    /\ UNCHANGED <<disk, counts>>

\* MIRROR verifies: a new backup directory is made, the latest from now on.
StartBackup ==
    /\ stage = "checkMirror" /\ Verifies("mirror")
    /\ dir' = [dir EXCEPT !["backup"] = Empty] /\ hasBackup' = TRUE
    /\ stage' = "backup" /\ cleaning' = TRUE /\ left' = {}
    /\ UNCHANGED <<cmd, auth, manifest, chain, head, counts>>

MirrorRejected ==
    /\ stage = "checkMirror" /\ ~Verifies("mirror")
    /\ Ended
    /\ UNCHANGED <<disk, counts>>

BackupCopied ==
    /\ stage = "backup" /\ CopyDone
    /\ GoCopy("main")
    /\ UNCHANGED <<cmd, auth, disk, counts>>

MainCopied ==
    /\ stage = "main" /\ CopyDone
    /\ Go("checkMain")
    /\ UNCHANGED <<disk, counts>>

\* Mutant of AcceptMain: MAIN is accepted without verifying it.
AcceptUnchecked ==
    /\ stage = "checkMain"
    /\ Go("manifest")
    /\ UNCHANGED <<disk, counts>>

AcceptMain ==
    /\ stage = "checkMain" /\ Verifies("main")
    /\ Go("manifest")
    /\ UNCHANGED <<disk, counts>>

\* Mutant of RejectMain: the command ends without the rollback.
RejectAndLeave ==
    /\ stage = "checkMain" /\ MainAnswers
    /\ Ended
    /\ UNCHANGED <<disk, counts>>

\* MAIN does not verify, or self_integrity finds something invalid (it also
\* looks at a file outside MAIN, so it may say so of a sealed MAIN).
RejectMain ==
    /\ stage = "checkMain" /\ MainAnswers
    /\ GoCopy("restore")
    /\ UNCHANGED <<cmd, auth, disk, counts>>

\* The verification itself raises an exception: the command ends there.
CheckMainRaises ==
    /\ stage = "checkMain" /\ MainRaises
    /\ Ended
    /\ UNCHANGED <<disk, counts>>

Restored ==
    /\ stage = "restore" /\ CopyDone
    /\ Ended
    /\ UNCHANGED <<disk, counts>>

WriteManifest ==
    /\ stage = "manifest"
    /\ manifest' = dir["main"]
    /\ Go("chain")
    /\ UNCHANGED <<dir, hasBackup, chain, head, counts>>

\* _chain_append(): the record, linked to the one the head names, ...
AppendRecord ==
    /\ stage = "chain"
    /\ chain' = Append(chain, [action |-> cmd, ch |-> dir["main"],
                               prev |-> head, auth |-> auth])
    /\ Go("head")
    /\ UNCHANGED <<dir, hasBackup, manifest, head, counts>>

\* Mutant of WriteHead: it names a record that is not there.
WriteNextHead ==
    /\ stage = "head"
    /\ head' = Len(chain) + 1
    /\ Ended
    /\ UNCHANGED <<dir, hasBackup, manifest, chain, counts>>

\* ... then the head.
WriteHead ==
    /\ stage = "head"
    /\ head' = Len(chain)
    /\ Ended
    /\ UNCHANGED <<dir, hasBackup, manifest, chain, counts>>

Promotion == \/ StartPromote \/ CheckDev \/ MirrorCopied \/ StartBackup
             \/ MirrorRejected \/ BackupCopied \/ MainCopied \/ AcceptMain
             \/ RejectMain \/ CheckMainRaises \/ Restored

(***************************************************************************)
(* cmd_rollback: the latest backup is copied to MAIN.  What it brings is   *)
(* verified for the report only; the manifest is not written again.        *)
(***************************************************************************)
StartRollback ==
    /\ Start("rollback") /\ hasBackup
    /\ GoCopy("roll") /\ auth' = FALSE
    /\ UNCHANGED disk

RolledBack ==
    /\ stage = "roll" /\ CopyDone
    /\ \/ MainAnswers /\ Go("chain")
       \/ MainRaises /\ Ended
    /\ UNCHANGED <<disk, counts>>

-----------------------------------------------------------------------------
(***************************************************************************)
(* The environment.                                                        *)
(***************************************************************************)

\* A file lands in DEV, is damaged there or is removed.
Deliver(f, c) ==
    /\ stage = "idle" \/ LiveDev
    /\ deliveries < MaxDeliveries /\ dir["dev"][f] # c
    /\ dir' = [dir EXCEPT !["dev"][f] = c]
    /\ deliveries' = deliveries + 1
    /\ UNCHANGED <<hasBackup, manifest, chain, head, run, runs, damage, stops>>

\* The command is killed, or an exception ends it (a full disk): the file
\* being written may stay torn.
Stop ==
    /\ stage # "idle" /\ stops < MaxStops
    /\ stops' = stops + 1
    /\ \/ UNCHANGED <<dir, manifest>>
       \/ /\ Copying /\ ~cleaning
          /\ \E f \in left : dir' = [dir EXCEPT ![Dst][f] = Damaged]
          /\ UNCHANGED manifest
       \/ stage = "manifest" /\ manifest' = NoManifest /\ UNCHANGED dir
    /\ Ended
    /\ UNCHANGED <<hasBackup, chain, head, deliveries, runs, damage>>

Env == Stop \/ \E f \in Files, c \in Content : Deliver(f, c)

-----------------------------------------------------------------------------
Next ==
    \/ Copy
    \/ StartInit \/ SeedMirror \/ Seeded
    \/ Promotion \/ WriteManifest \/ AppendRecord \/ WriteHead
    \/ StartRollback \/ RolledBack
    \/ Env

Spec == Init /\ [][Next]_vars

-----------------------------------------------------------------------------
(***************************************************************************)
(* Properties.                                                             *)
(***************************************************************************)
Records == [action : {"init", "promote", "rollback"}, ch : Bundles,
            prev : Nat, auth : BOOLEAN]

TypeOK ==
    /\ dir \in [Dirs -> Bundles] /\ hasBackup \in BOOLEAN
    /\ manifest \in Bundles
    /\ chain \in Seq(Records) /\ head \in 0..Len(chain)
    /\ stage \in DOMAIN Copies \cup {"idle", "dev", "checkMirror", "checkMain",
                                     "manifest", "chain", "head"}
    /\ cmd \in {"none", "init", "promote", "rollback"}
    /\ auth \in BOOLEAN /\ cleaning \in BOOLEAN /\ left \subseteq Files
    /\ deliveries \in 0..MaxDeliveries /\ runs \in 0..MaxRuns
    /\ damage \in 0..MaxDamage /\ stops \in 0..MaxStops

\* The layer a reader should take for active: while MAIN is being rewritten
\* or waits for its verdict, the backup.
Active == IF stage \in {"main", "checkMain", "restore", "roll"}
          THEN dir["backup"] ELSE dir["main"]

Saved == IF ~hasBackup \/ stage = "backup" THEN NoManifest ELSE dir["backup"]

\* Seen that way, the layer changes as a whole: only a sealed layer is ever
\* promoted, never before a complete backup of the layer it replaces exists,
\* and a promotion whose copy to MIRROR or MAIN went wrong leaves the layer
\* as it was (lines 486-512, 523-536).
Switch == INSTANCE LayerSwitch
    WITH SealedLayers <- {b \in Bundles : Sealed(b)}, NoLayer <- NoManifest,
         active <- Active, saved <- Saved
SwitchedWhole == Switch!Spec

\* Between commands, the last record of the chain describes MAIN, also after
\* a promotion that rolled itself back (lines 501-515, 529-533).
ChainTellsMain ==
    stage = "idle" /\ chain # <<>> => chain[Len(chain)].ch = dir["main"]

Keeps(n, Names(_)) ==
    chain[n + 1].action = "promote" /\ ~chain[n + 1].auth
        => Names(chain[n].ch) \subseteq Names(chain[n + 1].ch)

\* No recorded promotion retires a service from the active layer without the
\* operator's leave (lines 449-477).
ServicesKept == \A n \in 1..(Len(chain) - 1) : Keeps(n, Managed)

\* Whatever was killed, torn or damaged before, and although DEV changes while
\* a promotion runs, only a sealed layer is ever recorded as promoted (lines
\* 486-516).
RecordedSealed ==
    \A n \in DOMAIN chain :
        chain[n].action # "rollback" => Sealed(chain[n].ch)

\* Lines 402-406: what _faltan_en_dev() compares is exactly what the
\* promotion would remove, so it removes nothing unannounced.
NothingRetired == \A n \in 1..(Len(chain) - 1) : Keeps(n, Present)

\* Line 24: a MAIN that does not verify after the promotion is rolled back.
SealedAtRest == stage = "idle" => Sealed(dir["main"])

\* Lines 25-27: the manifest is the index of MAIN that a peer compares what
\* it replicated with.
ManifestTellsMain ==
    stage = "idle" /\ manifest # NoManifest => manifest = dir["main"]

\* Line 25: the records are chained, each to the one before it.
ChainLinked == \A n \in DOMAIN chain : chain[n].prev = n - 1

=============================================================================
