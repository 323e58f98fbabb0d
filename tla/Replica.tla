------------------------------ MODULE Replica ------------------------------
(***************************************************************************)
(* The authoritative layer of a node on another node.  ring_transport      *)
(* serves the layer in use with the manifest of its promotion, and fetches *)
(* the bundle of a peer into an inbox; ring_replicate verifies the inbox   *)
(* and installs it as the replica.                                         *)
(*                                                                         *)
(* The content of a file is the version it belongs to.  A manifest says    *)
(* which version every file had (hash per file and hash of all of them).   *)
(* Corrupt is a content whose signature does not verify.                   *)
(***************************************************************************)
EXTENDS Integers, FiniteSets

CONSTANTS
    BundleFiles,
    Optional,        \* the files a promotion may retire
    MaxVersions,     \* bound: promotions at the origin
    MaxReplicaFaults \* bound: kills, connections that break, damaged files,
                     \* files that cannot be removed

ASSUME ReplicaAssumption ==
    /\ Optional \subseteq BundleFiles
    /\ MaxVersions \in Nat \ {0} /\ MaxReplicaFaults \in Nat

VARIABLES
    main,       \* the layer in use at the origin
    goal,       \* the layer being promoted
    layers,     \* the layers promoted so far
    originMan,  \* main_manifest.json at the origin
    wire,       \* the bundle being received
    inbox, inboxMan,
    tmp, tmpMan,
    replica, replicaMan,
    op,         \* the command that runs at the receiver
    replicaFaults

repOrigin == <<main, goal, layers, originMan>>
repInbox == <<inbox, inboxMan>>
repVars == <<repOrigin, wire, repInbox, tmp, tmpMan, replica, replicaMan, op,
             replicaFaults>>

Corrupt == -1
NoFile == 0
Nothing == [f \in BundleFiles |-> NoFile]
NoDir == [f \in BundleFiles |-> -2]
NoMan == NoDir
Held(d) == {f \in BundleFiles : d[f] \notin {NoFile, -2}}
Resting == [pc |-> "idle"]

ReplicaTypeOK ==
    /\ main \in [BundleFiles -> 0..MaxVersions]
    /\ op.pc \in {"idle", "pack", "extract", "verify", "copy", "swap", "rename"}
    /\ inbox \in [BundleFiles -> -1..MaxVersions]

ReplicaInit ==
    /\ main = [f \in BundleFiles |-> 1] /\ goal = main /\ originMan = main
    /\ layers = {main}
    /\ wire = Nothing /\ inbox = Nothing /\ inboxMan = NoMan
    /\ tmp = NoDir /\ tmpMan = NoMan /\ replica = NoDir /\ replicaMan = NoMan
    /\ op = Resting /\ replicaFaults = 0

-----------------------------------------------------------------------------
(***************************************************************************)
(* The origin: ring_promote changes the layer file by file, then writes    *)
(* the manifest (RingPromote has the whole of it).                         *)
(***************************************************************************)
StartVersion ==
    /\ Cardinality(layers) < MaxVersions /\ originMan = goal
    /\ \E gone \in SUBSET Optional :
          goal' = [f \in BundleFiles |->
                      IF f \in gone THEN NoFile ELSE Cardinality(layers) + 1]
    /\ UNCHANGED <<main, layers, originMan, wire, repInbox, tmp, tmpMan, replica,
                   replicaMan, op, replicaFaults>>

PromoteFile ==
    /\ \E f \in BundleFiles :
          main[f] # goal[f] /\ main' = [main EXCEPT ![f] = goal[f]]
    /\ UNCHANGED <<goal, layers, originMan, wire, repInbox, tmp, tmpMan, replica,
                   replicaMan, op, replicaFaults>>

WriteOriginManifest ==
    /\ main = goal /\ originMan # main
    /\ originMan' = main /\ layers' = layers \cup {main}
    /\ UNCHANGED <<main, goal, wire, repInbox, tmp, tmpMan, replica, replicaMan,
                   op, replicaFaults>>

-----------------------------------------------------------------------------
(***************************************************************************)
(* cmd_serve() and cmd_fetch(): the bundle is packed file by file, its     *)
(* manifest first, received whole, and extracted over what the inbox holds.*)
(***************************************************************************)
Fetch ==
    /\ op.pc = "idle"
    /\ wire' = Nothing /\ op' = [pc |-> "pack", todo |-> BundleFiles, man |-> originMan]
    /\ UNCHANGED <<repOrigin, repInbox, tmp, tmpMan, replica, replicaMan,
                   replicaFaults>>

PackFile ==
    /\ op.pc = "pack"
    /\ \E f \in op.todo :
          /\ wire' = [wire EXCEPT ![f] = main[f]]
          /\ IF op.todo = {f}
             THEN /\ op' = [pc |-> "extract", todo |-> BundleFiles]
                  /\ inboxMan' = op.man
             ELSE op' = [op EXCEPT !.todo = @ \ {f}] /\ UNCHANGED inboxMan
    /\ UNCHANGED <<repOrigin, inbox, tmp, tmpMan, replica, replicaMan,
                   replicaFaults>>

\* A file the bundle does not have is not removed from the inbox.
ExtractFile ==
    /\ op.pc = "extract"
    /\ \E f \in op.todo :
          /\ \/ /\ inbox' = IF wire[f] = NoFile THEN inbox
                            ELSE [inbox EXCEPT ![f] = wire[f]]
                /\ UNCHANGED replicaFaults
             \/ /\ replicaFaults < MaxReplicaFaults
                /\ replicaFaults' = replicaFaults + 1
                /\ inbox' = [inbox EXCEPT ![f] = Corrupt]
          /\ op' = IF op.todo = {f} THEN [pc |-> "verify"]
                   ELSE [op EXCEPT !.todo = @ \ {f}]
    /\ UNCHANGED <<repOrigin, wire, inboxMan, tmp, tmpMan, replica, replicaMan>>

\* The tar is cut short: the command ends and the inbox is a mixture.
TransferBreaks ==
    /\ op.pc \in {"pack", "extract"} /\ replicaFaults < MaxReplicaFaults
    /\ replicaFaults' = replicaFaults + 1 /\ op' = Resting
    /\ UNCHANGED <<repOrigin, wire, repInbox, tmp, tmpMan, replica, replicaMan>>

-----------------------------------------------------------------------------
(***************************************************************************)
(* ring_replicate.                                                         *)
(***************************************************************************)
\* Mutant of VerifyBundle: the hashes are left to the signatures.
VerifySignatures(box, man) ==
    /\ man # NoMan /\ \A f \in BundleFiles : box[f] # Corrupt

\* verify_bundle(): hash of every listed file, hash of all of them, and the
\* release signature of every file.
VerifyBundle(box, man) ==
    /\ man # NoMan /\ \A f \in BundleFiles : box[f] = man[f]
    /\ \A f \in BundleFiles : box[f] # Corrupt

\* cmd_install(): the command alone, or as the end of a fetch; an inbox that
\* does not verify is refused.  What an install that was killed has left is
\* removed first, as far as it can be.
Install ==
    /\ op.pc = "verify" \/ (op.pc = "idle" /\ inboxMan # NoMan)
    /\ IF VerifyBundle(inbox, inboxMan)
       THEN /\ op' = [pc |-> "copy", todo |-> BundleFiles]
            /\ \E stay \in SUBSET Held(tmp) :
                  /\ tmp' = [f \in BundleFiles |-> IF f \in stay THEN tmp[f] ELSE NoFile]
                  /\ stay # {} => replicaFaults < MaxReplicaFaults
                  /\ replicaFaults' = IF stay = {} THEN replicaFaults ELSE replicaFaults + 1
            /\ tmpMan' = NoMan
       ELSE op' = Resting /\ UNCHANGED <<tmp, tmpMan, replicaFaults>>
    /\ UNCHANGED <<repOrigin, wire, repInbox, replica, replicaMan>>

\* Mutant of CopyToTmp: the first file that is there is enough.
CopyFirst ==
    /\ op.pc = "copy"
    /\ \E f \in op.todo :
          /\ tmp' = [tmp EXCEPT ![f] = inbox[f]]
          /\ op' = [pc |-> "swap"] /\ tmpMan' = inboxMan
    /\ UNCHANGED <<repOrigin, wire, repInbox, replica, replicaMan, replicaFaults>>

\* The files of the bundle are copied, its manifest last.
CopyToTmp ==
    /\ op.pc = "copy"
    /\ \E f \in op.todo :
          /\ tmp' = IF inbox[f] = NoFile THEN tmp ELSE [tmp EXCEPT ![f] = inbox[f]]
          /\ IF op.todo = {f} THEN op' = [pc |-> "swap"] /\ tmpMan' = inboxMan
             ELSE op' = [op EXCEPT !.todo = @ \ {f}] /\ UNCHANGED tmpMan
    /\ UNCHANGED <<repOrigin, wire, repInbox, replica, replicaMan, replicaFaults>>

\* The replica of before is removed file by file; one that cannot be removed
\* is passed over in silence.
RemoveOld ==
    /\ op.pc = "swap" /\ replica # NoDir
    /\ \/ /\ \E f \in Held(replica) : replica' = [replica EXCEPT ![f] = NoFile]
          /\ UNCHANGED replicaMan
       \/ replicaMan # NoMan /\ replicaMan' = NoMan /\ UNCHANGED replica
    /\ UNCHANGED <<repOrigin, wire, repInbox, tmp, tmpMan, op, replicaFaults>>

EndRemove ==
    /\ op.pc = "swap" /\ op' = [pc |-> "rename"]
    /\ \/ /\ Held(replica) = {} /\ replicaMan = NoMan
          /\ replica' = NoDir /\ UNCHANGED replicaFaults
       \/ /\ replica # NoDir /\ replicaFaults < MaxReplicaFaults
          /\ replicaFaults' = replicaFaults + 1 /\ UNCHANGED replica
    /\ UNCHANGED <<repOrigin, wire, repInbox, tmp, tmpMan, replicaMan>>

\* The new one is renamed into its place, which must be free.
RenameNew ==
    /\ op.pc = "rename" /\ op' = Resting
    /\ IF replica = NoDir
       THEN replica' = tmp /\ replicaMan' = tmpMan /\ tmp' = NoDir /\ tmpMan' = NoMan
       ELSE UNCHANGED <<tmp, tmpMan, replica, replicaMan>>
    /\ UNCHANGED <<repOrigin, wire, repInbox, replicaFaults>>

\* A copy that fails ends the command like a kill.
KillReplicate ==
    /\ op.pc # "idle" /\ replicaFaults < MaxReplicaFaults
    /\ replicaFaults' = replicaFaults + 1 /\ op' = Resting
    /\ UNCHANGED <<repOrigin, wire, repInbox, tmp, tmpMan, replica, replicaMan>>

ReplicaStep ==
    \/ Fetch \/ PackFile \/ ExtractFile \/ Install \/ CopyToTmp \/ RemoveOld
    \/ EndRemove \/ RenameNew

ReplicaNext ==
    \/ StartVersion \/ PromoteFile \/ WriteOriginManifest
    \/ ReplicaStep \/ TransferBreaks \/ KillReplicate

ReplicaGoesOn ==
    \/ PackFile \/ ExtractFile \/ (op.pc = "verify" /\ Install) \/ CopyToTmp
    \/ RemoveOld \/ EndRemove \/ RenameNew

-----------------------------------------------------------------------------
\* A replica holds files of one promoted layer only, and one that verifies
\* (cmd_status) is the whole of it: whatever is fetched in the middle of a
\* promotion, damaged or broken off, wherever an install is killed and
\* whatever could not be removed, no mixture of two versions and no unsigned
\* file is ever installed, and a replica that lost files never verifies.
ReplicaIsOneLayer ==
    replica # NoDir =>
        \E l \in layers :
            /\ \A f \in BundleFiles : replica[f] \in {NoFile, l[f]}
            /\ VerifyBundle(replica, replicaMan) => replica = l

\* The bundle is fetched again and again: whoever keeps a replica does that by
\* hand, so it is a condition and not what the code guarantees.
FetchedAgain == []<><<Fetch>>_repVars

\* The replica catches up with the origin once its promotions are over, in
\* spite of kills and broken transfers, if it is fetched again and again;
\* only a file that the origin retired and the inbox still holds keeps it
\* behind.
ReplicaCatchesUp ==
    FetchedAgain =>
        <>[](\/ op.pc \in {"swap", "rename"} \/ replica = goal
             \/ \E f \in BundleFiles : goal[f] = NoFile /\ inbox[f] # NoFile)

\* ring_replicate lines 24 and 181: the replica is installed atomically.
InstalledAtomically == [][replica # NoDir => replica' # NoDir]_repVars
=============================================================================
