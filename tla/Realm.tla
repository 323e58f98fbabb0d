------------------------------- MODULE Realm -------------------------------
(***************************************************************************)
(* How a node becomes its own realm (services/realm_activate.py).          *)
(*                                                                         *)
(* The authority copies a pack into the realm directory, one file after    *)
(* the other; a run verifies what is there and turns the state of the node *)
(* from pending to sovereign.  A file is the pack it comes from, "torn"    *)
(* while it is copied, or "none".  The manifest lists the other files with *)
(* their hashes.  A pack is for this node or for another one.              *)
(***************************************************************************)
EXTENDS Integers, Sequences

CONSTANTS
    MaxDeliveries, \* bound: packs copied
    MaxStateCuts   \* bound: power cuts, failed writes, killed runs

ASSUME RealmAssumption == {MaxDeliveries, MaxStateCuts} \subseteq Nat

VARIABLES
    dir,       \* the realm directory
    left,      \* what the authority still has to copy, and of which pack
    pubs,      \* the keys deployed to check the manifest, in order
    nodeState, \* anvos-node.state
    act,       \* a run
    activated, \* ghost: the directory at the activation, and if it was still
    deliveries, stateCuts

realmVars == <<dir, left, pubs, nodeState, act, activated, deliveries, stateCuts>>

Packs == {"own", "other"}
Listed == {"certs", "registry"}
PackFiles == Listed \cup {"manifest", "sig"}
EmptyDir == [f \in PackFiles |-> "none"]
NotActivating == [pc |-> "idle", clean |-> TRUE]
Nothing == [pack |-> "none", files |-> {}]

RealmTypeOK ==
    /\ dir \in [PackFiles -> Packs \cup {"torn", "none"}]
    /\ nodeState \in {"pending", "sovereign", ""}
    /\ act.pc \in {"idle", "signature", "bind", "write"}
    /\ activated.clean \in BOOLEAN

RealmInit ==
    /\ dir = EmptyDir /\ left = Nothing /\ nodeState = "pending"
    /\ pubs \in {<<"old", "current">>, <<"current", "old">>, <<"current">>, <<>>}
    /\ act = NotActivating /\ activated = [clean |-> FALSE, dir |-> EmptyDir]
    /\ deliveries = 0 /\ stateCuts = 0

-----------------------------------------------------------------------------
(***************************************************************************)
(* The authority.                                                          *)
(***************************************************************************)
ProvisionPack(p) ==
    /\ left.files = {} /\ deliveries < MaxDeliveries
    /\ deliveries' = deliveries + 1
    /\ left' = [pack |-> p, files |-> PackFiles]
    /\ UNCHANGED <<dir, pubs, nodeState, act, activated, stateCuts>>

\* One file at a time, in any order; while it is copied it is torn.
CopyPackFile ==
    /\ left.files # {}
    /\ IF \E f \in PackFiles : dir[f] = "torn"
       THEN /\ dir' = [f \in PackFiles |-> IF dir[f] = "torn" THEN left.pack ELSE dir[f]]
            /\ left' = [left EXCEPT !.files = {f \in @ : dir[f] # "torn"}]
       ELSE /\ \E f \in left.files : dir' = [dir EXCEPT ![f] = "torn"]
            /\ UNCHANGED left
    /\ act' = [act EXCEPT !.clean = FALSE]
    /\ UNCHANGED <<pubs, nodeState, activated, deliveries, stateCuts>>

-----------------------------------------------------------------------------
(***************************************************************************)
(* _verify_pack() and cmd_cycle().                                         *)
(***************************************************************************)
\* Without a manifest the node waits; each file it lists must be there and be
\* what it says.  A manifest that is being copied lists some files or none.
HashPack ==
    /\ act.pc = "idle" /\ nodeState = "pending" /\ dir["manifest"] # "none"
    /\ \E lists \in IF dir["manifest"] = "torn" THEN SUBSET Listed ELSE {Listed},
          p \in IF dir["manifest"] = "torn" THEN {left.pack} ELSE {dir["manifest"]} :
         /\ lists # {}
         /\ \A f \in lists : dir[f] = p
    /\ act' = [pc |-> "signature", clean |-> TRUE]
    /\ UNCHANGED <<dir, left, pubs, nodeState, activated, deliveries, stateCuts>>

\* Mutant of Endorsed: a manifest without a signature passes.
EndorsedIfSigned == dir["sig"] # "none" => dir["sig"] = dir["manifest"]

\* The first key that verifies the manifest decides, unless one before it
\* says no.
Endorsed ==
    /\ dir["sig"] # "none"
    /\ pubs # <<>> /\ Head(pubs) = "current"
    /\ dir["sig"] \in Packs /\ dir["sig"] = dir["manifest"]

CheckManifest ==
    /\ act.pc = "signature"
    /\ act' = IF Endorsed /\ dir["certs"] # "none"
              THEN [act EXCEPT !.pc = "bind"] ELSE NotActivating
    /\ UNCHANGED <<dir, left, pubs, nodeState, activated, deliveries, stateCuts>>

\* Mutant of ForThisNode: the node the pack is for is not looked at.
AnyNode == TRUE

\* A registry that cannot be read names no node, and nobody is refused.
ForThisNode == dir["registry"] # "other"

Bind ==
    /\ act.pc = "bind"
    /\ act' = IF ForThisNode THEN [act EXCEPT !.pc = "write"] ELSE NotActivating
    /\ UNCHANGED <<dir, left, pubs, nodeState, activated, deliveries, stateCuts>>

Activate ==
    /\ act.pc = "write" /\ act' = NotActivating
    /\ \/ /\ nodeState' = "sovereign" /\ UNCHANGED stateCuts
          /\ activated' = [clean |-> act.clean, dir |-> dir]
       \/ /\ stateCuts < MaxStateCuts /\ stateCuts' = stateCuts + 1
          /\ UNCHANGED <<nodeState, activated>>
    /\ UNCHANGED <<dir, left, pubs, deliveries>>

\* The run is killed; or the power goes, and the state file, renamed without
\* fsync, may come back as it was or empty.
LoseRun ==
    /\ stateCuts < MaxStateCuts /\ stateCuts' = stateCuts + 1
    /\ act' = NotActivating
    /\ nodeState' \in IF nodeState = "sovereign"
                      THEN {"sovereign", "pending", ""} ELSE {nodeState}
    /\ UNCHANGED <<dir, left, pubs, activated, deliveries>>

RealmCycle == HashPack \/ CheckManifest \/ Bind \/ Activate

RealmNext ==
    \/ \E p \in Packs : ProvisionPack(p)
    \/ CopyPackFile \/ RealmCycle \/ LoseRun

-----------------------------------------------------------------------------
\* A node becomes sovereign on a whole pack, signed and its own: if nothing
\* was copied while the run looked, every file is of the node's own pack.
SovereignOnOwnPack ==
    activated.clean => \A f \in PackFiles : activated.dir[f] = "own"

\* A node whose own pack lies there whole, with the key that signs it before
\* any other, becomes sovereign and stays so, if nothing else fails.
RealmActivates ==
    <>[](\A f \in PackFiles : dir[f] = "own") /\ pubs # <<>> /\ Head(pubs) = "current"
        => <>[](nodeState = "sovereign" \/ stateCuts > 0)

\* realm_activate 171: the node is not activated if NONE of the keys
\* verifies the manifest.  (Not checked by a run: one that does not is
\* enough.)
AnyKeyActivates ==
    <>[](\A f \in PackFiles : dir[f] = "own") /\ (\E i \in DOMAIN pubs : pubs[i] = "current")
        => <>[](nodeState = "sovereign" \/ stateCuts > 0)

\* realm_activate 258: a pack of another node never activates this one.
\* (Not checked by a run: a registry that is being copied names no node.)
NeverForeign ==
    nodeState = "sovereign" => activated.dir["certs"] # "other"
=============================================================================
