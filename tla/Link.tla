-------------------------------- MODULE Link --------------------------------
(***************************************************************************)
(* ring_link: the WireGuard link of the ring.  A run verifies its tool,    *)
(* loads the signed modules one by one, raises the mesh wg0, makes the key *)
(* pair, heals the loopback, makes the interface and applies the peers of  *)
(* a signed file.  layerd kills a run after 30 seconds; what was done      *)
(* stays done, and the next run goes on from there.                        *)
(***************************************************************************)
EXTENDS Integers

CONSTANTS
    NModules,      \* the modules of the bundle; the last one is wireguard
    MaxLinkFaults, \* bound: kills and reboots
    MaxCfgChanges  \* bound: changes of the peer file

ASSUME LinkAssumption ==
    NModules \in Nat \ {0} /\ {MaxLinkFaults, MaxCfgChanges} \subseteq Nat

VARIABLES
    toolSigned, modSigned,  \* do wg and the modules verify?
    psk,       \* the shared key of wg0: "unset", "present", "declared"
    cfg,       \* the peer file: "none", "unsigned", "signed"
    loaded,    \* modules in the kernel
    wg0, lo, iface,
    peers,     \* the peer files whose peers were applied
    peerCfg,   \* what the run read of the peer file
    swapped,   \* was the peer file ever replaced after a run had verified it
               \* and before that run opened it?
    key, pub,  \* node.key, node.pub: "none", "empty", "ok"
    linkPc,    \* where the run is
    linkState, \* the state it last reported
    linkFaults, cfgChanges

linkEnv == <<toolSigned, modSigned, psk>>
linkKernel == <<loaded, wg0, lo, iface, peers>>
linkKeys == <<key, pub>>
linkRead == <<peerCfg, swapped>>
linkVars == <<linkEnv, cfg, linkKernel, linkKeys, linkRead, linkPc, linkState,
              linkFaults, cfgChanges>>

Mods == 1..NModules
Ready == {"LINKED", "READY_PEERS", "READY_NO_PEERS"}
Blocked == {"BLOCKED_SIG_TOOL", "NO_MODULES", "NO_KEYPAIR", "IFACE_FAIL"}

LinkTypeOK ==
    /\ loaded \subseteq Mods /\ {key, pub} \subseteq {"none", "empty", "ok"}
    /\ linkState \in Ready \cup Blocked \cup {"none"}
    /\ linkPc \in {"idle", "modules", "wg0", "key", "keyfile", "pub", "pubfile",
                   "verify", "load", "iface", "peers", "status"}
    /\ peers \subseteq {"unsigned", "signed"}
    /\ peerCfg \in {"none", "unsigned", "signed"}

LinkInit ==
    /\ toolSigned \in BOOLEAN /\ modSigned \in [Mods -> BOOLEAN]
    /\ psk \in {"unset", "present", "declared"}
    /\ cfg = "none" /\ loaded = {} /\ wg0 = FALSE /\ lo = FALSE
    /\ iface = FALSE /\ peers = {} /\ peerCfg = "none" /\ swapped = FALSE /\ key = "none" /\ pub = "none"
    /\ linkPc = "idle" /\ linkState = "none" /\ linkFaults = 0 /\ cfgChanges = 0

-----------------------------------------------------------------------------
Goto(pc) == linkPc' = pc /\ UNCHANGED linkState
Report(s) == linkState' = s /\ linkPc' = "idle"

\* Without a signed tool there is nothing to do.
StartLink ==
    /\ linkPc = "idle"
    /\ IF toolSigned THEN Goto("modules") ELSE Report("BLOCKED_SIG_TOOL")
    /\ UNCHANGED <<linkEnv, cfg, linkKernel, linkKeys, linkRead, linkFaults, cfgChanges>>


\* insmod needs the signature and every module before it.
CanLoad(i) ==
    i \notin loaded /\ modSigned[i] /\ \A j \in 1..(i - 1) : j \in loaded

LoadModule ==
    /\ linkPc = "modules"
    /\ \E i \in Mods : CanLoad(i) /\ loaded' = loaded \cup {i}
    /\ UNCHANGED <<linkEnv, cfg, wg0, lo, iface, peers, linkKeys, linkRead,
                   linkPc, linkState, linkFaults, cfgChanges>>

ModulesDone ==
    /\ linkPc = "modules" /\ \A i \in Mods : ~CanLoad(i)
    /\ IF NModules \in loaded THEN Goto("wg0") ELSE Report("NO_MODULES")
    /\ UNCHANGED <<linkEnv, cfg, linkKernel, linkKeys, linkRead, linkFaults, cfgChanges>>

\* Mutant of MayRaise: the shared key is not looked at.
RaiseAnyway == TRUE

\* ensure_mesh_wg0(): a shared key that is declared must be there.
MayRaise == psk # "declared"

RaiseMesh ==
    /\ linkPc = "wg0" /\ wg0' = (wg0 \/ MayRaise) /\ Goto("key")
    /\ UNCHANGED <<linkEnv, cfg, loaded, lo, iface, peers, linkKeys, linkRead, linkFaults,
                   cfgChanges>>

\* ensure_keypair(): the file is created empty ...
CreateKey ==
    /\ linkPc = "key"
    /\ IF key = "none" THEN key' = "empty" /\ Goto("keyfile")
                       ELSE Goto("pub") /\ UNCHANGED key
    /\ UNCHANGED <<linkEnv, cfg, linkKernel, pub, linkRead, linkFaults, cfgChanges>>

\* ... and then written.
WriteKey ==
    /\ linkPc = "keyfile" /\ key' = "ok" /\ Goto("pub")
    /\ UNCHANGED <<linkEnv, cfg, linkKernel, pub, linkRead, linkFaults, cfgChanges>>

\* The public key is derived from the private one; an empty one gives none.
CreatePub ==
    /\ linkPc = "pub"
    /\ CASE pub = "none" /\ key = "ok" -> pub' = "empty" /\ Goto("pubfile")
         [] pub = "ok"                 -> UNCHANGED pub /\ Goto("verify")
         [] OTHER                      -> UNCHANGED pub /\ Report("NO_KEYPAIR")
    /\ UNCHANGED <<linkEnv, cfg, linkKernel, key, linkRead, linkFaults, cfgChanges>>

WritePub ==
    /\ linkPc = "pubfile" /\ pub' = "ok" /\ Goto("verify")
    /\ UNCHANGED <<linkEnv, cfg, linkKernel, key, linkRead, linkFaults, cfgChanges>>

\* Mutant of VerifyPeers: what is there is read without being verified.
ReadAnyPeers ==
    /\ linkPc = "verify" /\ lo' = TRUE /\ Goto("load")
    /\ peerCfg' = "none"
    /\ UNCHANGED <<linkEnv, cfg, loaded, wg0, iface, peers, linkKeys, swapped,
                   linkFaults, cfgChanges>>

\* ensure_lo(), then read_peers(): without a valid signature there are no
\* peers ...
VerifyPeers ==
    /\ linkPc = "verify" /\ lo' = TRUE
    /\ Goto(IF cfg = "signed" THEN "load" ELSE "iface")
    /\ peerCfg' = "none"
    /\ UNCHANGED <<linkEnv, cfg, loaded, wg0, iface, peers, linkKeys, swapped,
                   linkFaults, cfgChanges>>

\* ... and the file is opened once more to be read; one that cannot be read
\* is none.
LoadPeers ==
    /\ linkPc = "load" /\ Goto("iface")
    /\ peerCfg' \in {cfg, "none"}
    /\ UNCHANGED <<linkEnv, cfg, linkKernel, linkKeys, swapped, linkFaults,
                   cfgChanges>>

\* ensure_iface().
MakeIface ==
    /\ linkPc = "iface"
    /\ \/ iface' = TRUE /\ Goto("peers")
       \/ ~iface /\ UNCHANGED iface /\ linkFaults < MaxLinkFaults
            /\ Report("IFACE_FAIL")
    /\ linkFaults' = IF iface' THEN linkFaults ELSE linkFaults + 1
    /\ UNCHANGED <<linkEnv, cfg, loaded, wg0, lo, peers, linkKeys, linkRead,
                   cfgChanges>>

\* apply_peers(): the peers that were read are applied, or some are refused,
\* and none of those applied before is removed.
ApplyPeers ==
    /\ linkPc = "peers" /\ Goto("status")
    /\ peers' \in {peers, peers \cup ({peerCfg} \ {"none"})}
    /\ UNCHANGED <<linkEnv, cfg, loaded, wg0, lo, iface, linkKeys, linkRead,
                   linkFaults, cfgChanges>>

\* link_status(): whether a peer answered lately is up to the peer.
ReportLink ==
    /\ linkPc = "status"
    /\ \E fresh \in BOOLEAN :
          Report(IF peers = {} THEN "READY_NO_PEERS"
                 ELSE IF fresh THEN "LINKED" ELSE "READY_PEERS")
    /\ UNCHANGED <<linkEnv, cfg, linkKernel, linkKeys, linkRead, linkFaults, cfgChanges>>

KillLink ==
    /\ linkPc # "idle" /\ linkFaults < MaxLinkFaults
    /\ linkPc' = "idle" /\ linkFaults' = linkFaults + 1
    /\ UNCHANGED <<linkEnv, cfg, linkKernel, linkKeys, linkRead, linkState, cfgChanges>>

\* A reboot forgets the kernel's part.
Reboot ==
    /\ linkFaults < MaxLinkFaults /\ linkFaults' = linkFaults + 1
    /\ loaded' = {} /\ wg0' = FALSE /\ lo' = FALSE /\ iface' = FALSE
    /\ peers' = {} /\ linkPc' = "idle"
    /\ UNCHANGED <<linkEnv, cfg, linkKeys, linkRead, linkState, cfgChanges>>

ChangePeers ==
    /\ cfgChanges < MaxCfgChanges /\ cfgChanges' = cfgChanges + 1
    /\ \E c \in {"unsigned", "signed"} : c # cfg /\ cfg' = c
    /\ swapped' = (swapped \/ linkPc = "load")
    /\ UNCHANGED <<linkEnv, linkKernel, linkKeys, peerCfg, linkPc, linkState,
                   linkFaults>>

LinkRun ==
    \/ StartLink \/ LoadModule \/ ModulesDone \/ RaiseMesh \/ CreateKey \/ WriteKey
    \/ CreatePub \/ WritePub \/ VerifyPeers \/ LoadPeers \/ MakeIface \/ ApplyPeers
    \/ ReportLink

LinkNext == LinkRun \/ KillLink \/ Reboot \/ ChangePeers

-----------------------------------------------------------------------------
\* Three levels of fail-closed, over any sequence of kills, reboots and
\* changes of the peer file: no module without a signature is in the kernel,
\* the mesh is never up without the shared key its configuration asks for,
\* and no peer of an unsigned file is applied, unless that file took the place
\* of a signed one after a run had verified it and before the run opened it.
LinkFailClosed ==
    /\ \A i \in loaded : modSigned[i]
    /\ wg0 => psk # "declared" /\ toolSigned
    /\ peers # {} => iface /\ NModules \in loaded /\ key = "ok"
    /\ "unsigned" \in peers => swapped

\* The link converges: with its signatures in place it is ready in the end,
\* whatever was killed and rebooted, unless a kill left an empty key file.
LinkConverges ==
    (toolSigned /\ \A i \in Mods : modSigned[i]) =>
        <>[](linkState \in Ready \/ "empty" \in {key, pub})

\* ring_link lines 18-20: a run that is killed is continued by the next one,
\* and the link converges.
LinkAlwaysConverges ==
    (toolSigned /\ \A i \in Mods : modSigned[i]) => <>[](linkState \in Ready)
=============================================================================
