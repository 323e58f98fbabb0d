------------------------------- MODULE DrCopy -------------------------------
(***************************************************************************)
(* The copy of a node on its second disk: dr_ext_mount mounts it, dr_sync  *)
(* copies the layer file by file, moves what the layer no longer has to an *)
(* archive beside it and writes a manifest of all that is there, the       *)
(* archive included; the master signs the manifest some time later;        *)
(* dr_verify judges all that is listed.  The four are processes of their   *)
(* own, and nothing keeps them apart.                                      *)
(*                                                                         *)
(* The content of a file is the version of the layer it came from; Rotten  *)
(* is a content nobody signed: half a file.  A manifest says which contents*)
(* were there, or that one could not be read.  The critical files (a list, *)
(* an identity, certificates) are no code and carry no release signature.  *)
(***************************************************************************)
EXTENDS Integers, FiniteSets, SequencesExt

CONSTANTS
    Files,        \* the files of the layer
    Critical,     \* the files without which a node cannot be rebuilt
    SubFiles,     \* the files in a subdirectory of the layer
    MaxPromotions,\* bound: changes of the live layer
    MaxDrFaults   \* bound: kills, copies that fail, unplugged disks

ASSUME DrAssumption ==
    /\ Critical \subseteq Files /\ SubFiles \subseteq Files
    /\ MaxPromotions \in Nat \ {0} /\ MaxDrFaults \in Nat

VARIABLES
    live,      \* the layer in use: the version of each file, or Absent
    promoted,  \* promotions so far
    plugged, mounted,
    copy,      \* <dr_root>/<node>/current/layer
    archive,   \* .archive beside it: what was retired, with its content
    manifest,  \* dr_manifest.json
    sig,       \* dr_manifest.json.minisig: the manifest it signs
    sigNewer,  \* is the signature not older than the manifest?
    master,    \* the manifest the master is signing
    sync,      \* a run of dr_sync
    ver,       \* a run of dr_verify, or the verdict of the last one
    drFaults

drWorld == <<live, promoted, plugged, mounted>>
drMaster == <<sig, sigNewer, master>>
drVars == <<drWorld, copy, archive, manifest, drMaster, sync, ver, drFaults>>

Absent == 0
Rotten == -1
Unread == -2
NoManifest == [kind |-> "none", of |-> [f \in Files |-> Absent], old |-> {}]
TornManifest == [NoManifest EXCEPT !.kind = "torn"]
Idling == [pc |-> "idle"]
Said(v) == [pc |-> "idle", verdict |-> v]
Present(c) == {f \in Files : c[f] # Absent}
Listing(c, a) == [kind |-> "whole", of |-> c, old |-> a]

DrTypeOK ==
    /\ live \in [Files -> 0..MaxPromotions] /\ copy \in [Files -> -1..MaxPromotions]
    /\ archive \subseteq Files \X (-1..MaxPromotions)
    /\ sync.pc \in {"idle", "copy", "prune", "manifest", "write"}
    /\ ver.pc \in {"idle", "hash", "judge"}
    /\ mounted => plugged

DrInit ==
    /\ live = [f \in Files |-> 1] /\ promoted = 1
    /\ plugged = TRUE /\ mounted = FALSE
    /\ copy = [f \in Files |-> Absent] /\ archive = {}
    /\ manifest = NoManifest /\ sig = NoManifest /\ sigNewer = FALSE
    /\ master = NoManifest /\ sync = Idling /\ ver = Said("none")
    /\ drFaults = 0

-----------------------------------------------------------------------------
\* The layer changes under the copy: files get a new version or go away.
PromoteLayer ==
    /\ promoted < MaxPromotions /\ promoted' = promoted + 1
    /\ \E gone \in SUBSET (Files \ Critical) :
          live' = [f \in Files |-> IF f \in gone THEN Absent ELSE promoted + 1]
    /\ sync' = IF sync.pc = "idle" THEN sync ELSE [sync EXCEPT !.clean = FALSE]
    /\ UNCHANGED <<plugged, mounted, copy, archive, manifest, drMaster, ver, drFaults>>

\* dr_ext_mount: the disk with the configured superblock is mounted.
MountDisk ==
    /\ plugged /\ ~mounted /\ mounted' = TRUE
    /\ UNCHANGED <<live, promoted, plugged, copy, archive, manifest, drMaster,
                   sync, ver, drFaults>>

\* The disk is unplugged between two runs, or comes back.
PlugDisk ==
    /\ sync.pc = "idle" /\ ver.pc = "idle"
    /\ \/ plugged /\ drFaults < MaxDrFaults /\ drFaults' = drFaults + 1
       \/ ~plugged /\ UNCHANGED drFaults
    /\ plugged' = ~plugged /\ mounted' = FALSE
    /\ UNCHANGED <<live, promoted, copy, archive, manifest, drMaster, sync, ver>>

-----------------------------------------------------------------------------
(***************************************************************************)
(* dr_sync.                                                                *)
(***************************************************************************)
\* The copy is begun; where its directory cannot be made, nothing is copied.
SyncStart ==
    /\ sync.pc = "idle" /\ mounted
    /\ \/ /\ sync' = [pc |-> "copy", todo |-> Present(live), seen |-> {},
                      clean |-> TRUE]
          /\ UNCHANGED drFaults
       \/ /\ drFaults < MaxDrFaults /\ drFaults' = drFaults + 1
          /\ sync' = [pc |-> "manifest", clean |-> FALSE]
    /\ UNCHANGED <<drWorld, copy, archive, manifest, drMaster, ver>>

\* Mutant of Walked: the layer is listed without its subdirectories.
WalkedFlat(todo) == todo \ SubFiles

\* _copy_layer(): the whole tree is walked.
Walked(todo) == todo

\* One file is copied; one that is gone meanwhile, or a copy that fails, is
\* passed over in silence, and a copy that fails may leave half a file.
CopyLayerFile ==
    /\ sync.pc = "copy" /\ Walked(sync.todo) # {}
    /\ \E f \in Walked(sync.todo) :
          /\ \/ /\ copy' = IF live[f] = Absent THEN copy
                           ELSE [copy EXCEPT ![f] = live[f]]
                /\ sync' = [sync EXCEPT !.todo = @ \ {f}, !.seen = @ \cup {f}]
                /\ UNCHANGED drFaults
             \/ /\ drFaults < MaxDrFaults /\ drFaults' = drFaults + 1
                /\ copy' \in {copy, [copy EXCEPT ![f] = Rotten]}
                /\ sync' = [sync EXCEPT !.todo = @ \ {f}, !.seen = @ \cup {f},
                                        !.clean = FALSE]
    /\ UNCHANGED <<drWorld, archive, manifest, drMaster, ver>>

EndCopy ==
    /\ sync.pc = "copy" /\ Walked(sync.todo) = {}
    /\ sync' = [pc |-> "prune", seen |-> sync.seen, clean |-> sync.clean]
    /\ UNCHANGED <<drWorld, copy, archive, manifest, drMaster, ver, drFaults>>

\* Mutant of PruneFile: what the layer no longer has stays in the copy.
KeepAll ==
    /\ sync.pc = "prune"
    /\ sync' = [pc |-> "manifest", clean |-> sync.clean]
    /\ UNCHANGED <<drWorld, copy, archive, manifest, drMaster, ver, drFaults>>

\* What the layer no longer has is moved to the archive, file by file; a move
\* that fails ends the pruning, in silence.
PruneFile ==
    /\ sync.pc = "prune"
    /\ \E f \in Present(copy) \ sync.seen :
          \/ /\ copy' = [copy EXCEPT ![f] = Absent]
             /\ archive' = archive \cup {<<f, copy[f]>>}
             /\ UNCHANGED <<sync, drFaults>>
          \/ /\ drFaults < MaxDrFaults /\ drFaults' = drFaults + 1
             /\ sync' = [pc |-> "manifest", clean |-> FALSE]
             /\ UNCHANGED <<copy, archive>>
    /\ UNCHANGED <<drWorld, manifest, drMaster, ver>>

EndPrune ==
    /\ sync.pc = "prune" /\ Present(copy) \subseteq sync.seen
    /\ sync' = [pc |-> "manifest", clean |-> sync.clean]
    /\ UNCHANGED <<drWorld, copy, archive, manifest, drMaster, ver, drFaults>>

\* Mutant of OpenManifest: the archive is left out of the manifest.
ListCopyOnly ==
    /\ sync.pc = "manifest"
    /\ manifest' = TornManifest /\ sigNewer' = FALSE
    /\ sync' = [pc |-> "write", listing |-> Listing(copy, {}), clean |-> sync.clean]
    /\ UNCHANGED <<drWorld, copy, archive, sig, master, ver, drFaults>>

\* The manifest is computed from copy and archive (a file that cannot be read
\* is listed without its hash), then opened for writing, which empties it ...
OpenManifest ==
    /\ sync.pc = "manifest"
    /\ manifest' = TornManifest /\ sigNewer' = FALSE
    /\ \/ /\ sync' = [pc |-> "write", listing |-> Listing(copy, archive),
                      clean |-> sync.clean]
          /\ UNCHANGED drFaults
       \/ /\ drFaults < MaxDrFaults /\ drFaults' = drFaults + 1
          /\ \E l \in {Listing([copy EXCEPT ![f] = Unread], archive) : f \in Present(copy)}
                    \cup {Listing(copy, (archive \ {a}) \cup {<<a[1], Unread>>}) : a \in archive} :
                sync' = [pc |-> "write", listing |-> l, clean |-> FALSE]
    /\ UNCHANGED <<drWorld, copy, archive, sig, master, ver>>

\* ... and written.
WriteDrManifest ==
    /\ sync.pc = "write"
    /\ manifest' = sync.listing /\ sigNewer' = FALSE
    /\ sync' = Idling
    /\ UNCHANGED <<drWorld, copy, archive, sig, master, ver, drFaults>>

\* A run is killed.  A manifest that cannot be opened or written, which is
\* passed over in silence, leaves the same.
KillDr ==
    /\ drFaults < MaxDrFaults /\ drFaults' = drFaults + 1
    /\ \/ sync.pc # "idle" /\ sync' = Idling /\ UNCHANGED ver
       \/ ver.pc # "idle" /\ ver' = Said("none") /\ UNCHANGED sync
    /\ UNCHANGED <<drWorld, copy, archive, manifest, drMaster>>

-----------------------------------------------------------------------------
\* The master fetches the manifest ...
FetchManifest ==
    /\ manifest \notin {NoManifest, TornManifest} /\ master = NoManifest
    /\ manifest # sig /\ master' = manifest
    /\ UNCHANGED <<drWorld, copy, archive, manifest, sig, sigNewer, sync, ver, drFaults>>

\* ... and later puts the signature of what it fetched beside it.
PutSignature ==
    /\ master # NoManifest
    /\ sig' = master /\ sigNewer' = TRUE /\ master' = NoManifest
    /\ UNCHANGED <<drWorld, copy, archive, manifest, sync, ver, drFaults>>

-----------------------------------------------------------------------------
(***************************************************************************)
(* dr_verify.                                                              *)
(***************************************************************************)
Verdict(v) == ver' = Said(v)

\* Whose manifest is it?  A signature older than the manifest is late, one
\* that is not older and does not verify is an accusation.
Authority(m) ==
    CASE sig = NoManifest -> "PENDIENTE"
      [] sig # NoManifest /\ sig = m -> "OK"
      [] OTHER -> IF sigNewer THEN "NO_AUTENTICO" ELSE "DESFASADA"

VerifyStart ==
    /\ ver.pc = "idle"
    /\ \/ ~mounted /\ Verdict("DR_NO_MONTADO")
       \/ mounted /\ manifest = NoManifest /\ Verdict("DR_SIN_MANIFIESTO")
       \/ /\ mounted /\ manifest # NoManifest
          /\ IF Authority(manifest) = "NO_AUTENTICO"
             THEN Verdict("DR_MANIFIESTO_NO_AUTENTICO")
             ELSE /\ ver' = [pc |-> "hash", auth |-> Authority(manifest)]
    /\ UNCHANGED <<drWorld, copy, archive, manifest, drMaster, sync, drFaults>>

\* The manifest is opened again to be parsed; every listed file must be there
\* with the hash it was listed with.
HashFiles ==
    /\ ver.pc = "hash"
    /\ ver' = IF manifest = TornManifest THEN Said("DR_MANIFIESTO_ILEGIBLE")
              ELSE [pc |-> "judge", auth |-> ver.auth,
                    listed |-> Present(manifest.of), old |-> manifest.old,
                    missing |-> {f \in Present(manifest.of) : copy[f] = Absent},
                    corrupt |-> {f \in Present(manifest.of) :
                                   copy[f] \notin {Absent, manifest.of[f]}}
                                \cup {a[1] : a \in manifest.old \ archive}]
    /\ UNCHANGED <<drWorld, copy, archive, manifest, drMaster, sync, drFaults>>

\* Then the release signatures of the code that is listed, archived code
\* included, the critical pieces, and the verdict; how old the last sync is is
\* left open.
Judge ==
    /\ ver.pc = "judge"
    /\ LET bad == {f \in ver.listed \ Critical : copy[f] = Rotten}
                  \cup {a[1] : a \in {b \in ver.old \cap archive : b[2] = Rotten}}
           lacking == {f \in Critical : copy[f] = Absent}
       IN  \E ok \in {"DR_VERIFICADO", "DR_VIEJO"} :
             Verdict(CASE ver.corrupt \cup bad # {} -> "DR_TAMPER"
                     [] ver.corrupt \cup bad = {} /\ ver.auth # "OK"
                          -> "DR_FIRMA_PENDIENTE"
                     [] OTHER ->
                          IF ver.missing \cup lacking # {} THEN "DR_INCOMPLETO" ELSE ok)
    /\ UNCHANGED <<drWorld, copy, archive, manifest, drMaster, sync, drFaults>>

DrSync ==
    \/ SyncStart \/ CopyLayerFile \/ EndCopy \/ PruneFile \/ EndPrune
    \/ OpenManifest \/ WriteDrManifest
DrVerify == VerifyStart \/ HashFiles \/ Judge

DrNext ==
    \/ PromoteLayer \/ MountDisk \/ PlugDisk \/ DrSync \/ KillDr
    \/ FetchManifest \/ PutSignature \/ DrVerify

-----------------------------------------------------------------------------
\* After a sync during which the layer rested and nothing failed, the copy is
\* the layer: nothing of it is missing (not even in a subdirectory), nothing
\* is left there that the layer gave up, and the manifest lists exactly that
\* and the archive.
SyncedIsLive ==
    [][sync.pc = "write" /\ manifest'.kind = "whole" /\ sync.clean =>
          copy' = live' /\ manifest' = Listing(live', archive')]_drVars

\* When the layer rests and nothing fails any more, the signature catches up
\* with the manifest and stays valid through all the syncs that follow, and
\* no verdict of damage or of absence lasts, unless half a file of code was
\* retired: the archive keeps it, and it is judged for ever.
DrSettles ==
    /\ <>[](sync.pc # "write" => sig = manifest)
    /\ <>[](ver.pc = "idle" =>
                ver.verdict \in {"DR_VERIFICADO", "DR_VIEJO", "DR_FIRMA_PENDIENTE",
                                "DR_MANIFIESTO_ILEGIBLE"}
                \/ (ver.verdict = "DR_TAMPER" /\ \E f \in Files : <<f, Rotten>> \in archive))

\* dr_sync lines 88-89: what is archived no longer weighs on the verdict.
ArchiveIsInnocent ==
    [][ver.pc = "judge" /\ ver.corrupt = {} /\ ver' = Said("DR_TAMPER") =>
          \E f \in ver.listed : copy[f] = Rotten]_drVars
=============================================================================
