------------------------------ MODULE MCCopies ------------------------------
(***************************************************************************)
(* One instance for the four ways in which a node keeps and moves what it  *)
(* cannot lose: the sealed ledger, the copy on the second disk, the replica*)
(* on another node and the link it travels by.  They share no state: a     *)
(* behaviour exercises one of them, and the others rest.                   *)
(***************************************************************************)
EXTENDS SealedLog, DrCopy, Replica, Link

VARIABLE part

vars == <<part, logVars, drVars, repVars, linkVars>>

Init ==
    /\ part \in {"log", "dr", "replica", "link"}
    /\ SealedLogInit /\ DrInit /\ ReplicaInit /\ LinkInit
    /\ part # "link" => ~toolSigned /\ psk = "unset" /\ modSigned = [i \in Mods |-> FALSE]

LogStep(A) == part = "log" /\ A /\ UNCHANGED <<part, drVars, repVars, linkVars>>
DrStep(A) == part = "dr" /\ A /\ UNCHANGED <<part, logVars, repVars, linkVars>>
RepStep(A) == part = "replica" /\ A /\ UNCHANGED <<part, logVars, drVars, linkVars>>
LinkStep(A) == part = "link" /\ A /\ UNCHANGED <<part, logVars, drVars, repVars>>

Next ==
    \/ LogStep(SealedLogNext) \/ DrStep(DrNext)
    \/ RepStep(ReplicaNext) \/ LinkStep(LinkNext)

Spec == Init /\ [][Next]_vars

\* layerd launches dr_ext_mount, dr_sync, dr_verify and ring_link for ever;
\* an unplugged disk comes back; a promotion or an installation that started
\* ends; the master that fetches a manifest to sign it tries again and again
\* and does not hit a bad moment every time.  (A behaviour exercises one part,
\* so that one condition can serve several parts.)
FairSpec ==
    /\ Spec
    /\ WF_vars(DrStep(DrSync) \/ RepStep(ReplicaGoesOn) \/ LinkStep(LinkRun))
    /\ WF_vars(DrStep(DrVerify) \/ RepStep(PromoteFile \/ WriteOriginManifest))
    /\ WF_vars(DrStep(MountDisk \/ (~plugged /\ PlugDisk)))
    /\ WF_vars(DrStep(PutSignature))
    /\ SF_vars(DrStep(FetchManifest))

\* What is installed or loaded was verified, and what is linked too, unless it
\* was replaced in the very moment between the check and the use.
NothingUnverified ==
    /\ SealedLogTypeOK /\ DrTypeOK /\ ReplicaTypeOK /\ LinkTypeOK
    /\ ReplicaIsOneLayer /\ LinkFailClosed

=============================================================================
