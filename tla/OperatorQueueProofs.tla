------------------------- MODULE OperatorQueueProofs -------------------------
(***************************************************************************)
(* Theorems about the operator's queue, for every set of services and any  *)
(* number of changes, kills and corruptions.                               *)
(*                                                                         *)
(* The argument: a run of queue_watch appends to the queue and saves       *)
(* estado.json in two steps.  Between them it is not the cache that lists  *)
(* the open incidents but what the run found active (CacheInv); the        *)
(* escalator, which appends to the same file, touches no incident.         *)
(***************************************************************************)
EXTENDS OperatorQueue, TLAPS

Open == {i \in Incidents : lastInc[i] = "OPEN"}

CacheInv ==
    qkills = 0 =>
        /\ qpc \in {"idle", "append"} => abiertos = Open
        /\ qpc = "save" => act = Open

QueueInv == TypeOK /\ CacheInv

-----------------------------------------------------------------------------
\* TypeOK in two parts: each prover sees the one it can reason about.
Flags ==
    /\ silent \in BOOLEAN /\ known \in BOOLEAN /\ vfresh \in BOOLEAN
    /\ sig \in BOOLEAN /\ unsigned \in BOOLEAN

Sets ==
    /\ cond \subseteq Checks /\ hall \subseteq Checks /\ vstate \subseteq Checks
    /\ todo \subseteq Named /\ crit \in Named /\ recent \subseteq Named
    /\ act \subseteq Incidents /\ abiertos \subseteq Incidents
    /\ lastInc \in [Incidents -> {"none", "OPEN", "RESUELTO"}]

Steps ==
    /\ signer \in {"ok", "failing", "missing"}
    /\ vpc \in {"idle", "record", "save", "print"}
    /\ vline \in {"none", "transition", "SUPERVISION_OK", "SUPERVISION_DEGRADADA"}
    /\ epc \in {"idle", "next", "sign", "save"} /\ qpc \in {"idle", "append", "save"}

Bounds == changes \in 0..MaxChanges /\ faults \in 0..MaxFaults /\ qkills \in 0..MaxQueueKills

LEMMA TypeParts == TypeOK <=> Flags /\ Sets /\ Steps /\ Bounds
BY DEF TypeOK, Flags, Sets, Steps, Bounds

LEMMA QueueTypeInit == Init => TypeOK
<1> SUFFICES ASSUME Init PROVE Flags /\ Sets /\ Steps /\ Bounds
    BY TypeParts
<1>1. Flags
      BY DEF Init, Flags
<1>2. Sets
      BY DEF Init, Sets, Named
<1>3. Steps
      BY DEF Init, Steps
<1>4. Bounds
      BY BoundsAssumption DEF Init, Bounds
<1> QED  BY <1>1, <1>2, <1>3, <1>4

LEMMA QueueTypeStep ==
    ASSUME TypeOK, [Next]_vars
    PROVE  TypeOK'
<1> USE DEF Next, Vigias, Evaluate, RecordTransitions, SaveState, PrintVerdict, Escalator,
            ReadState, Sign, SignFails, SaveEscalation, EscalatorEnds, SkipCrit, AppendCrit,
            QueueWatch, Detect, AppendIncidents, SaveEstado, Env, WorldChanges, GoStale,
            CorruptState, KillVigias, KillEscalator, KillQueueWatch, Elapse, vars, world, vigias,
            escal, qwatch, queue, counts
<1>0. Flags /\ Sets /\ Steps /\ Bounds
      BY TypeParts
<1>1. Flags'
      BY <1>0, ZenonT(60) DEF Flags
<1>2. Sets'
      BY <1>0 DEF Sets, CritsFromVigias, Named, CritChecks
<1>3. Steps'
      BY <1>0 DEF Steps
<1>4. Bounds'
      BY <1>0, BoundsAssumption DEF Bounds
<1>5. (Flags /\ Sets /\ Steps /\ Bounds)' => TypeOK'
      BY DEF TypeOK, Flags, Sets, Steps, Bounds
<1> QED  BY <1>1, <1>2, <1>3, <1>4, <1>5

\* What a run appends makes the open incidents those it found active.
LEMMA AppendOpens ==
    ASSUME TypeOK, abiertos = Open, AppendIncidents
    PROVE  Open' = act
<1>1. \A i \in Incidents : lastInc'[i] = IF i \in act \ abiertos THEN "OPEN"
                                         ELSE IF i \in abiertos \ act THEN "RESUELTO"
                                         ELSE lastInc[i]
      BY DEF AppendIncidents
<1>2. act \subseteq Incidents
      BY DEF TypeOK
<1> QED  BY <1>1, <1>2 DEF Open

LEMMA CacheStep ==
    ASSUME TypeOK, CacheInv, [Next]_vars
    PROVE  CacheInv'
<1>1. CASE UNCHANGED <<qwatch, lastInc, qkills>>
      BY <1>1 DEF CacheInv, Open, qwatch
<1>2. CASE Detect
      BY <1>2 DEF Detect, CacheInv, Open, queue, counts
<1>3. CASE AppendIncidents
      <2> SUFFICES ASSUME qkills = 0 PROVE act' = Open' /\ qpc' = "save"
          BY <1>3 DEF CacheInv, AppendIncidents, counts
      <2>1. abiertos = Open
            BY <1>3 DEF CacheInv, AppendIncidents
      <2> QED  BY <1>3, <2>1, AppendOpens DEF AppendIncidents
<1>4. CASE SaveEstado
      BY <1>4 DEF SaveEstado, CacheInv, Open, queue, counts
<1>5. CASE KillQueueWatch
      <2>1. qkills' # 0
            BY <1>5 DEF KillQueueWatch, TypeOK
      <2> QED  BY <2>1 DEF CacheInv
<1>6. \/ UNCHANGED <<qwatch, lastInc, qkills>>
      \/ Detect \/ AppendIncidents \/ SaveEstado \/ KillQueueWatch
      BY DEF Next, Vigias, Evaluate, RecordTransitions, SaveState, PrintVerdict, Escalator,
             ReadState, Sign, SignFails, SaveEscalation, EscalatorEnds, SkipCrit, AppendCrit,
             QueueWatch, Env, WorldChanges, GoStale, CorruptState, KillVigias, KillEscalator,
             Elapse, vars, queue, counts
<1> QED  BY <1>1, <1>2, <1>3, <1>4, <1>5, <1>6

\* estado.json agrees with the queue between the runs of queue_watch, whatever
\* the escalator and vigias_watch did or suffered meanwhile, as long as
\* queue_watch itself was not interrupted.
THEOREM CacheIsDerivable == Spec => []CacheAgrees
<1>1. Init => QueueInv
      BY QueueTypeInit DEF Init, QueueInv, CacheInv, Open
<1>2. QueueInv /\ [Next]_vars => QueueInv'
      BY QueueTypeStep, CacheStep DEF QueueInv
<1>3. QueueInv => CacheAgrees
      BY DEF QueueInv, CacheInv, CacheAgrees, Open
<1> QED  BY <1>1, <1>2, <1>3, PTL DEF Spec

=============================================================================
