------------------------------- MODULE Fleet -------------------------------
(***************************************************************************)
(* The federation: nodes that verify one another without a master.         *)
(*                                                                         *)
(* block_anchor mines one block per cycle into blocks.jsonl, then saves    *)
(* blocks.head, then records.  node_attest publishes the head in           *)
(* attestation.json.  The status server serves both files as they are.     *)
(* fleet_attest (N1) reads a peer's attestation, then its blocks, then     *)
(* its attestation again if the heads differ; its output is the view that  *)
(* the server serves on /fleet.  fleet_consensus (N2) counts the views of  *)
(* several peers.  fleet_anchor (N3) remembers the head of each peer.      *)
(*                                                                         *)
(* The hash of a block is what it commits to: the blocks before it and     *)
(* itself.  Every block is new (it carries its time), and its merkle       *)
(* leaves are left out.  A node has one name: the code uses the node id in *)
(* the registry and the name in the blocks as if they were the same.       *)
(***************************************************************************)
EXTENDS Integers, Sequences, PeerVerdict

CONSTANTS
    Nodes,
    Miners,      \* the nodes whose chain grows while we look
    PeersOf,     \* PeersOf[v]: the peers v verifies, in order
    Know,        \* Know[v]: what v knows of its peers
    Anchorers,   \* the verifiers that run fleet_anchor too
    Quorum,      \* ANV_FLEET_QUORUM, 0 when it is not set
    MaxBlocks,   \* bound: blocks a node mines
    MaxCrashes,  \* bound: kills of block_anchor, power cuts
    MaxDrops     \* bound: requests that fail, runs that are killed

ASSUME NodesAssumption == IsFiniteSet(Nodes)
ASSUME MinersAssumption == Miners \subseteq Nodes
ASSUME PeersAssumption ==
    PeersOf \in [Nodes -> Seq(Nodes)] /\ Anchorers \subseteq Nodes
ASSUME FleetBoundAssumption ==
    {Quorum, MaxBlocks, MaxCrashes, MaxDrops} \subseteq Nat

VARIABLES
    chain,    \* blocks.jsonl of each node
    head,     \* blocks.head
    recorded, \* has block_anchor.jsonl a record?
    mpc,      \* where block_anchor is: "idle", "save", "record"
    ids,      \* blocks a node has mined so far
    att,      \* the head in attestation.json
    run,      \* a run of fleet_attest
    view,     \* fleet_status.json, served on /fleet
    anchor,   \* last line of fleet/anchors/<peer>.jsonl
    n3,       \* last verdict of fleet_anchor
    crashes, drops

minerVars == <<chain, head, recorded, mpc, ids, crashes>>
vars == <<minerVars, att, run, view, anchor, n3, drops>>

Verifiers == {v \in Nodes : PeersOf[v] # <<>>}

-----------------------------------------------------------------------------
(***************************************************************************)
(* Chains.                                                                 *)
(***************************************************************************)
Genesis == <<>>
Hash(b) == Append(b.prev, b.id)
Torn == [height |-> -1, prev |-> Genesis, id |-> 0]

\* Mutant of Chained: the links are not looked at.
Parses(c) == \A i \in DOMAIN c : c[i] # Torn

\* _verify_chain() of the miner, _verifica_cadena() of a verifier: every
\* block links to the one before it.  The heights are not compared.
Chained(c) ==
    \A i \in DOMAIN c :
        /\ c[i] # Torn
        /\ c[i].prev = IF i = 1 THEN Genesis ELSE Hash(c[i - 1])

LastOf(c) == c[Len(c)]

\* What a chain should be: its last hash commits to every block before it.
Intact(c) ==
    /\ c # <<>> /\ \A i \in DOMAIN c : c[i] # Torn
    /\ Hash(LastOf(c)) = [i \in DOMAIN c |-> c[i].id]

\* _chain_map(): the hash of the last block of each height; a line that does
\* not parse is skipped.
Readable(c) == {i \in DOMAIN c : c[i] # Torn}
Heights(c) == {c[i].height : i \in Readable(c)}
TopHeight(c) == CHOOSE h \in Heights(c) : \A k \in Heights(c) : k <= h
HashAt(c, h) ==
    LET at == {i \in Readable(c) : c[i].height = h}
    IN  Hash(c[CHOOSE i \in at : \A j \in at : j <= i])
ChainMap(c) == [h \in Heights(c) |-> HashAt(c, h)]

NoHead == [height |-> 0, hash |-> Genesis]
NoAtt == <<-1>>
ShortHash == <<-2>>   \* the 16 characters block_anchor.jsonl keeps
NoAnchor == [height |-> -1, head |-> Genesis]
NoEntry == [verdict |-> "absent", height |-> -1]
NoRow == [s \in Nodes |-> NoEntry]
Idle == [pc |-> "idle", todo |-> <<>>, said |-> NoAtt, top |-> Genesis,
         height |-> 0, row |-> NoRow]

TypeOK ==
    /\ \A n \in Nodes : \A i \in DOMAIN chain[n] :
           chain[n][i].height \in {-1} \cup 1..MaxBlocks
    /\ \A n \in Nodes : head[n].height \in 0..MaxBlocks
    /\ mpc \in [Nodes -> {"idle", "save", "record"}]
    /\ ids \in [Nodes -> 0..MaxBlocks] /\ recorded \in [Nodes -> BOOLEAN]
    /\ \A v \in Nodes :
           /\ run[v].pc \in {"idle", "attest", "blocks", "again", "publish"}
           /\ run[v].pc \in {"attest", "blocks", "again"} => run[v].todo # <<>>
    /\ crashes \in 0..MaxCrashes /\ drops \in 0..MaxDrops

Init ==
    /\ chain = [n \in Nodes |-> <<>>] /\ head = [n \in Nodes |-> NoHead]
    /\ recorded = [n \in Nodes |-> FALSE] /\ mpc = [n \in Nodes |-> "idle"]
    /\ ids = [n \in Nodes |-> 0] /\ att = [n \in Nodes |-> NoAtt]
    /\ run = [v \in Nodes |-> Idle] /\ view = [v \in Nodes |-> NoRow]
    /\ anchor = [v \in Nodes |-> [s \in Nodes |-> NoAnchor]]
    /\ n3 = [v \in Nodes |-> [s \in Nodes |-> "none"]]
    /\ crashes = 0 /\ drops = 0

-----------------------------------------------------------------------------
(***************************************************************************)
(* block_anchor and node_attest.                                           *)
(***************************************************************************)
\* Mutant of NewBlock: the height is that of the head.
SameHeight(n) == [height |-> head[n].height, prev |-> head[n].hash,
                  id |-> ids[n] + 1]

NewBlock(n) == [height |-> head[n].height + 1, prev |-> head[n].hash,
                id |-> ids[n] + 1]

\* Mutant of Mine: the file is opened for writing, not for appending.
MineAnew(n) ==
    /\ mpc[n] = "idle" /\ ids[n] < MaxBlocks
    /\ chain' = [chain EXCEPT ![n] = <<NewBlock(n)>>]
    /\ ids' = [ids EXCEPT ![n] = @ + 1]
    /\ mpc' = [mpc EXCEPT ![n] = "save"]
    /\ UNCHANGED <<head, recorded, crashes, att, run, view, anchor, n3, drops>>

\* cmd_cycle(): the block is appended ...
Mine(n) ==
    /\ mpc[n] = "idle" /\ ids[n] < MaxBlocks
    /\ chain' = [chain EXCEPT ![n] = Append(@, NewBlock(n))]
    /\ ids' = [ids EXCEPT ![n] = @ + 1]
    /\ mpc' = [mpc EXCEPT ![n] = "save"]
    /\ UNCHANGED <<head, recorded, crashes, att, run, view, anchor, n3, drops>>

\* ... then the head is saved ...
SaveHead(n) ==
    /\ mpc[n] = "save"
    /\ LET b == LastOf(chain[n])
       IN  head' = [head EXCEPT ![n] = [height |-> b.height, hash |-> Hash(b)]]
    /\ mpc' = [mpc EXCEPT ![n] = "record"]
    /\ UNCHANGED <<chain, recorded, ids, crashes, att, run, view,
                   anchor, n3, drops>>

\* ... then the verdict on the own chain is recorded.
Record(n) ==
    /\ mpc[n] = "record"
    /\ recorded' = [recorded EXCEPT ![n] = TRUE]
    /\ mpc' = [mpc EXCEPT ![n] = "idle"]
    /\ UNCHANGED <<chain, head, ids, crashes, att, run, view, anchor, n3, drops>>

\* layerd kills block_anchor between two of its writes.
KillMiner(n) ==
    /\ mpc[n] # "idle" /\ crashes < MaxCrashes
    /\ mpc' = [mpc EXCEPT ![n] = "idle"] /\ crashes' = crashes + 1
    /\ UNCHANGED <<chain, head, recorded, ids, att, run, view, anchor, n3, drops>>

\* Nothing is fsynced: a power cut tears or loses the last block, or empties
\* the head file.
PowerCut(n) ==
    /\ chain[n] # <<>> /\ crashes < MaxCrashes
    /\ \/ /\ chain' = [chain EXCEPT ![n][Len(chain[n])] = Torn]
          /\ UNCHANGED head
       \/ /\ chain' = [chain EXCEPT ![n] = SubSeq(@, 1, Len(@) - 1)]
          /\ UNCHANGED head
       \/ /\ head' = [head EXCEPT ![n] = NoHead]
          /\ UNCHANGED chain
    /\ mpc' = [mpc EXCEPT ![n] = "idle"] /\ crashes' = crashes + 1
    /\ UNCHANGED <<recorded, ids, att, run, view, anchor, n3, drops>>

\* Mutant of HeadToAttest: the head is taken from the record, which is short.
HeadFromRecord(n) == IF recorded[n] THEN ShortHash ELSE NoAtt

\* build_attestation(): the whole head, or what the last record shows of it.
HeadToAttest(n) ==
    IF head[n] # NoHead THEN head[n].hash
    ELSE IF recorded[n] THEN ShortHash ELSE NoAtt

\* The attestation is rewritten (tmp and rename) by a service of its own,
\* at any time after the head moved.
Attest(n) ==
    /\ HeadToAttest(n) # att[n]
    /\ att' = [att EXCEPT ![n] = HeadToAttest(n)]
    /\ UNCHANGED <<minerVars, run, view, anchor, n3, drops>>

-----------------------------------------------------------------------------
(***************************************************************************)
(* N1: fleet_attest.  A run visits its peers in order.                     *)
(***************************************************************************)
Peer(v) == run[v].todo[1]
Rest(v) == SubSeq(run[v].todo, 2, Len(run[v].todo))

\* The peer is done with: entered in the list, or left out without a name.
Done(v, row) ==
    run' = [run EXCEPT ![v] =
               [Idle EXCEPT !.row = row, !.todo = Rest(v),
                            !.pc = IF Rest(v) = <<>> THEN "publish"
                                   ELSE "attest"]]

Entered(v, verdict, h) ==
    Done(v, [run[v].row EXCEPT ![Peer(v)] =
                [verdict |-> Flota(verdict), height |-> h]])

\* layerd or the status server starts a run.
StartRun(v) ==
    /\ run[v].pc = "idle" /\ PeersOf[v] # <<>>
    /\ run' = [run EXCEPT ![v] = [Idle EXCEPT !.pc = "attest",
                                              !.todo = PeersOf[v]]]
    /\ UNCHANGED <<minerVars, att, view, anchor, n3, drops>>

\* GET /attest
ReadAttestation(v) ==
    /\ run[v].pc = "attest"
    /\ IF att[Peer(v)] # NoAtt
       THEN run' = [run EXCEPT ![v].pc = "blocks", ![v].said = att[Peer(v)]]
       ELSE Done(v, run[v].row)
    /\ UNCHANGED <<minerVars, att, view, anchor, n3, drops>>

\* GET /blocks, and the decision unless the heads differ.
ReadBlocks(v) ==
    /\ run[v].pc = "blocks"
    /\ LET c == chain[Peer(v)]
       IN  \/ /\ c # <<>> /\ ~Chained(c)
              /\ Entered(v, "CADENA_INVALIDA", -1)
           \/ /\ c = <<>>
              /\ Entered(v, "SIN_CADENA", -1)
           \/ /\ c # <<>> /\ Chained(c) /\ run[v].said = Hash(LastOf(c))
              /\ Entered(v, Authorization(Know[v]), LastOf(c).height)
           \/ /\ c # <<>> /\ Chained(c) /\ run[v].said # Hash(LastOf(c))
              /\ run' = [run EXCEPT ![v].pc = "again",
                                    ![v].top = Hash(LastOf(c)),
                                    ![v].height = LastOf(c).height]
    /\ UNCHANGED <<minerVars, att, view, anchor, n3, drops>>

\* GET /attest once more: if the head moved there is no verdict at all, if
\* it is still (or cannot be read) the peer is accused.
ReadAgain(v) ==
    /\ run[v].pc = "again"
    /\ \/ /\ att[Peer(v)] # NoAtt /\ att[Peer(v)] # run[v].said
          /\ Entered(v, "null", run[v].height)
       \/ /\ att[Peer(v)] \in {NoAtt, run[v].said}
          /\ Entered(v, "CABEZA_DISCREPANTE", run[v].height)
    /\ UNCHANGED <<minerVars, att, view, anchor, n3, drops>>

\* The output becomes the view (moved into place when it is complete).
Publish(v) ==
    /\ run[v].pc = "publish"
    /\ view' = [view EXCEPT ![v] = run[v].row]
    /\ run' = [run EXCEPT ![v] = Idle]
    /\ UNCHANGED <<minerVars, att, anchor, n3, drops>>

\* A request fails, or the run is killed: nothing of it is published.
Drop(v) ==
    /\ run[v].pc # "idle" /\ drops < MaxDrops /\ drops' = drops + 1
    /\ \/ run' = [run EXCEPT ![v] = Idle]
       \/ run[v].pc = "attest" /\ Done(v, run[v].row)
       \/ /\ run[v].pc = "blocks"
          /\ Entered(v, "SIN_CADENA", -1)
       \/ /\ run[v].pc = "again"
          /\ Entered(v, "CABEZA_DISCREPANTE", run[v].height)
    /\ UNCHANGED <<minerVars, att, view, anchor, n3>>

-----------------------------------------------------------------------------
(***************************************************************************)
(* N2 and N3.                                                              *)
(***************************************************************************)
\* main() of fleet_consensus: the peers whose view could be read within the
\* budget have a row, the others are named apart.
ConsensusOf(asked, s) ==
    Consensus([v \in asked |-> [x \in Nodes |-> view[v][x].verdict]], s, Quorum)

\* Mutant of NewAnchor: the anchor is one block behind.
AnchorBehind(c) == [height |-> TopHeight(c) + 1, head |-> Hash(LastOf(c))]

NewAnchor(c) == [height |-> TopHeight(c), head |-> HashAt(c, TopHeight(c))]

\* check_peer(): whatever the verdict, what is served now is anchored.
AnchorPeer(v, s) ==
    /\ v # s /\ att[s] # NoAtt /\ Heights(chain[s]) # {}
    /\ LET c == chain[s]
           verdict == AnchorVerdict(ChainMap(c), TopHeight(c), anchor[v][s])
       IN  /\ n3' = [n3 EXCEPT ![v][s] = verdict]
           /\ anchor' = [anchor EXCEPT ![v][s] = NewAnchor(c)]
    /\ UNCHANGED <<minerVars, att, run, view, drops>>

-----------------------------------------------------------------------------
Next ==
    \/ \E n \in Miners : \/ Mine(n) \/ SaveHead(n) \/ Record(n)
                         \/ KillMiner(n) \/ PowerCut(n) \/ Attest(n)
    \/ \E v \in Verifiers :
          \/ StartRun(v) \/ ReadAttestation(v) \/ ReadBlocks(v)
          \/ ReadAgain(v) \/ Publish(v) \/ Drop(v)
    \/ \E v \in Anchorers : \E i \in DOMAIN PeersOf[v] :
          AnchorPeer(v, PeersOf[v][i])

Spec == Init /\ [][Next]_vars

\* layerd launches every service again and again; what is started goes on.
FairSpec ==
    /\ Spec
    /\ \A n \in Miners :
          WF_vars(Mine(n) \/ SaveHead(n) \/ Record(n)) /\ WF_vars(Attest(n))
    /\ \A v \in Verifiers :
          WF_vars(\/ StartRun(v) \/ ReadAttestation(v) \/ ReadBlocks(v)
                  \/ ReadAgain(v) \/ Publish(v))

-----------------------------------------------------------------------------
\* A view that calls a peer valid vouches for a history: the chain of the
\* peer has, to this day, an intact prefix of that height.  (Unless a power
\* cut at the peer took blocks that others had already seen.)
Vouched(v, s) ==
    \E i \in DOMAIN chain[s] :
        /\ Intact(SubSeq(chain[s], 1, i))
        /\ chain[s][i].height = view[v][s].height

ViewsVouch ==
    crashes = 0 =>
        \A v \in Verifiers, s \in Nodes :
            view[v][s].verdict = "VALIDA" => Vouched(v, s)

\* A consensus, whichever peers answered, stands on the word of another node
\* that verified the chain, and on more of those asked than deny it.
ConsensusVouches ==
    crashes = 0 =>
        \A asked \in SUBSET Verifiers, s \in Nodes :
            ConsensusOf(asked, s) = "CONSENSO_VALIDA" =>
                /\ \E v \in asked \ {s} :
                      view[v][s].verdict = "VALIDA" /\ Vouched(v, s)
                /\ LET say == {v \in asked \ {s} : view[v][s].verdict = "VALIDA"}
                       mute == {v \in asked :
                                  view[v][s].verdict \in {"null", "absent"}}
                   IN  2 * Cardinality(say) > Cardinality(asked \ (mute \cup {s}))

\* The memory of time accuses nobody of having rewritten or rolled back its
\* history as long as no process was killed and no power was cut there.
NoFalseRewrite ==
    crashes = 0 => \A v, s \in Nodes : n3[v][s] \notin {"ROLLBACK", "REESCRITA"}

\* A chain that forked is refused: after its first broken link no verifier
\* ever again completes a verification with the verdict valid.
BrokenNotVouched ==
    [][\A v \in Verifiers :
          (run[v].pc \in {"blocks", "again"} /\ run'[v].row # run[v].row) =>
              LET s == Peer(v)
              IN  run'[v].row[s].verdict = "VALIDA" => Intact(chain[s])]_vars

\* Healthy peers are recognised in the end: when nothing crashed at the peers
\* and their chains rest, every verifier that has the evidence for it
\* calls them valid, and the consensus can say so.
Recognised ==
    [](crashes = 0) =>
        \A v \in Verifiers :
            Authorization(Know[v]) \in Valid =>
                <>[](\A i \in DOMAIN PeersOf[v] :
                        view[v][PeersOf[v][i]].verdict = "VALIDA")

\* What the comment at fleet_attest 682-693 says: only a peer whose head does
\* not match, and not one that grows, is accused of a discrepant head.
GrowthNotAccused ==
    crashes = 0 /\ drops = 0 =>
        \A v, s \in Nodes : run[v].row[s].verdict # "CABEZA_DISCREPANTE"
=============================================================================
