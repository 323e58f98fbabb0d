---------------------------- MODULE OperatorQueue ----------------------------
(***************************************************************************)
(* How an anomaly of the node reaches its operator: three single-shot      *)
(* services that layerd launches periodically and that share files.        *)
(*                                                                         *)
(*   vigias_watch.py        evaluates the checks, appends one record per   *)
(*                          transition to vigias_watch.jsonl, saves        *)
(*                          vigias_state.json, prints its verdict (layerd  *)
(*                          appends it to the same vigias_watch.jsonl)     *)
(*   anv-crit-escalator.py  reads vigias_state.json and writes every CRIT, *)
(*                          signed, to operator_queue.jsonl                *)
(*   queue_watch.py         reads the last line of every source, opens and *)
(*                          resolves incidents in the same                 *)
(*                          operator_queue.jsonl and saves estado.json     *)
(*                                                                         *)
(* The queue is modelled by what its readers look at: the last OPEN or     *)
(* RESUELTO of each incident, whether the signature covers its contents,   *)
(* and how many entries a failed signature left behind.                    *)
(***************************************************************************)
EXTENDS Naturals, FiniteSets

CONSTANTS
    Services,     \* periodic services whose output vigias_watch expects
    MaxChanges,   \* bound: changes of the world
    MaxFaults,    \* bound: kills of vigias_watch and of the escalator, and
                  \* corruptions of vigias_state.json
    MaxQueueKills \* bound: kills of queue_watch and losses of estado.json

Layerd    == "vw:layerd"            \* LAYERD_MUDO when bad
Integrity == "vw:integrity"         \* INTEGRIDAD_DEGRADADA when bad
Source    == "vw:source"            \* the escalator's own incident

CritChecks == {Layerd, Integrity}   \* a service that is bad is only a WARN
Checks     == CritChecks \cup Services
Named      == CritChecks \cup {Source}
Incidents  == {"VIGIAS_PROBLEMA", "NODO_NO_SELLADO"}

ASSUME ServicesAssumption == Services \cap Named = {}
ASSUME BoundsAssumption ==
    MaxChanges \in Nat /\ MaxFaults \in Nat /\ MaxQueueKills \in Nat

VARIABLES
    \* the world
    cond,      \* the checks vigias_watch would find bad now
    silent,    \* layerd.jsonl is missing or older than LAYERD_STALE_S
    signer,    \* sign agent: "ok", "failing" or "missing"
    \* vigias_watch
    vpc, hall, \* its step and the bad checks it evaluated
    vstate,    \* vigias_state.json: its bad checks
    known,     \* is vigias_state.json a readable file?
    vfresh,    \* was it written in the last VIGIAS_STATE_STALE_S seconds?
    vline,     \* last line of vigias_watch.jsonl
    \* escalator
    epc, todo, \* its step and the CRIT it has still to escalate
    crit,      \* the CRIT whose entry it is signing or saving
    recent,    \* CRIT escalated in the last REESCALA_S (escalator_state.json)
    \* queue_watch
    qpc, act,  \* its step and the incidents it found active
    abiertos,  \* open incidents in estado.json
    \* the queue
    lastInc,   \* last line of each incident: none, OPEN or RESUELTO
    sig,       \* the signature covers the whole queue
    unsigned,  \* entries stand in the queue although their signature failed
    \* bounds
    changes, faults, qkills

world  == <<cond, silent, signer>>
vigias == <<vpc, hall, vstate, known, vfresh, vline>>
escal  == <<epc, todo, crit, recent>>
qwatch == <<qpc, act, abiertos>>
queue  == <<lastInc, sig, unsigned>>
counts == <<changes, faults, qkills>>
vars   == <<world, vigias, escal, qwatch, queue, counts>>

Init ==
    /\ cond = {} /\ silent = FALSE /\ signer = "ok"
    /\ vpc = "idle" /\ hall = {} /\ vstate = {} /\ known = FALSE
    /\ vfresh = FALSE /\ vline = "none"
    /\ epc = "idle" /\ todo = {} /\ crit = Source /\ recent = {}
    /\ qpc = "idle" /\ act = {} /\ abiertos = {}
    /\ lastInc = [i \in Incidents |-> "none"]
    /\ sig = TRUE /\ unsigned = FALSE
    /\ changes = 0 /\ faults = 0 /\ qkills = 0

-----------------------------------------------------------------------------
(***************************************************************************)
(* vigias_watch: _evaluar, the transition records, _save, the verdict.     *)
(***************************************************************************)
Evaluate ==
    /\ vpc = "idle"
    /\ hall' = cond /\ vpc' = "record"
    /\ UNCHANGED <<vstate, known, vfresh, vline, world, escal, qwatch, queue,
                   counts>>

\* A check whose state differs from the saved one (OK when there is none) is
\* appended to the log as a transition.  An unreadable state counts as empty.
Previo == IF known THEN vstate ELSE {}

RecordTransitions ==
    /\ vpc = "record"
    /\ vline' = IF hall = Previo THEN vline ELSE "transition"
    /\ vpc' = "save"
    /\ UNCHANGED <<hall, vstate, known, vfresh, world, escal, qwatch, queue,
                   counts>>

SaveState ==
    /\ vpc = "save"
    /\ vstate' = hall /\ known' = TRUE /\ vfresh' = TRUE
    /\ vpc' = "print"
    /\ UNCHANGED <<hall, vline, world, escal, qwatch, queue, counts>>

PrintVerdict ==
    /\ vpc = "print"
    /\ vline' = IF hall = {} THEN "SUPERVISION_OK" ELSE "SUPERVISION_DEGRADADA"
    /\ hall' = {} /\ vpc' = "idle"
    /\ UNCHANGED <<vstate, known, vfresh, world, escal, qwatch, queue, counts>>

Vigias == Evaluate \/ RecordTransitions \/ SaveState \/ PrintVerdict

-----------------------------------------------------------------------------
(***************************************************************************)
(* The escalator.  It has no state of its own between two runs but recent. *)
(***************************************************************************)

\* Mutant of CritsFromVigias: the severity test is inverted.
WarnsFromVigias == (IF vfresh THEN {} ELSE {Source})
                       \cup (IF known THEN vstate \ CritChecks ELSE {})

\* Mutant of CritsFromVigias: a state file that is old is as good as a new one.
CritsWithoutAge == (IF known THEN {} ELSE {Source})
                       \cup (IF known THEN vstate \cap CritChecks ELSE {})

\* _crits_from_vigias(): a state file that is missing or stale is a CRIT of
\* its own.  _load_json() turns an unreadable file into an empty state, so an
\* unreadable but fresh file yields no CRIT at all.
CritsFromVigias == (IF vfresh THEN {} ELSE {Source})
                       \cup (IF known THEN vstate \cap CritChecks ELSE {})

\* _check_layerd_dead() looks at the heartbeat without vigias_watch.
ReadState ==
    /\ epc = "idle"
    /\ todo' = CritsFromVigias \cup (IF silent THEN {Layerd} ELSE {})
    /\ epc' = "next"
    /\ UNCHANGED <<crit, recent, world, vigias, qwatch, queue, counts>>

\* _escalate() gives up before touching the queue: no sign agent, or the
\* CRIT was escalated a short while ago.
SkipCrit(k) ==
    /\ epc = "next" /\ k \in todo
    /\ signer = "missing" \/ k \in recent
    /\ todo' = todo \ {k}
    /\ UNCHANGED <<epc, crit, recent, world, vigias, qwatch, queue, counts>>

AppendCrit(k) ==
    /\ epc = "next" /\ k \in todo
    /\ signer # "missing" /\ k \notin recent
    /\ sig' = FALSE
    /\ todo' = todo \ {k} /\ crit' = k
    /\ epc' = "sign"
    /\ UNCHANGED <<recent, lastInc, unsigned, world, vigias, qwatch, counts>>

\* _sign_queue() signs the whole file as it is now.
Sign ==
    /\ epc = "sign" /\ signer = "ok"
    /\ sig' = TRUE /\ unsigned' = FALSE
    /\ epc' = "save"
    /\ UNCHANGED <<todo, crit, recent, lastInc, world, vigias, qwatch, counts>>

\* The signature fails.  _revert_last_entry() reads a text-mode file as bytes,
\* raises TypeError on its first character and returns False: the entry stays.
SignFails ==
    /\ epc = "sign" /\ signer # "ok"
    /\ unsigned' = TRUE
    /\ epc' = "next" /\ crit' = Source
    /\ UNCHANGED <<todo, recent, lastInc, sig, world, vigias, qwatch, counts>>

SaveEscalation ==
    /\ epc = "save"
    /\ recent' = recent \cup {crit}
    /\ epc' = "next" /\ crit' = Source
    /\ UNCHANGED <<todo, world, vigias, qwatch, queue, counts>>

EscalatorEnds ==
    /\ epc = "next" /\ todo = {}
    /\ epc' = "idle"
    /\ UNCHANGED <<todo, crit, recent, world, vigias, qwatch, queue, counts>>

Escalator ==
    \/ ReadState \/ Sign \/ SignFails \/ SaveEscalation \/ EscalatorEnds
    \/ \E k \in Named : SkipCrit(k) \/ AppendCrit(k)

-----------------------------------------------------------------------------
(***************************************************************************)
(* queue_watch.                                                            *)
(***************************************************************************)

\* _detectar(): the last line of each source decides.  A last line without a
\* verdict (a transition record) counts as no problem.
Active(i) == IF i = "VIGIAS_PROBLEMA" THEN vline = "SUPERVISION_DEGRADADA"
                                      ELSE Integrity \in cond

Detect ==
    /\ qpc = "idle"
    /\ act' = {i \in Incidents : Active(i)}
    /\ qpc' = "append"
    /\ UNCHANGED <<abiertos, world, vigias, escal, queue, counts>>

\* Mutant of AppendIncidents: what is no longer active is not resolved.
AppendOnlyNew ==
    /\ qpc = "append"
    /\ lastInc' = [i \in Incidents |->
                      IF i \in act \ abiertos THEN "OPEN" ELSE lastInc[i]]
    /\ sig' = (sig /\ act = abiertos)
    /\ qpc' = "save"
    /\ UNCHANGED <<act, abiertos, unsigned, world, vigias, escal, counts>>

\* OPEN for what is active and not open, RESUELTO for what is open and not
\* active, appended to the queue the escalator signed.
AppendIncidents ==
    /\ qpc = "append"
    /\ lastInc' = [i \in Incidents |->
                      IF i \in act \ abiertos THEN "OPEN"
                      ELSE IF i \in abiertos \ act THEN "RESUELTO"
                      ELSE lastInc[i]]
    /\ sig' = (sig /\ act = abiertos)
    /\ qpc' = "save"
    /\ UNCHANGED <<act, abiertos, unsigned, world, vigias, escal, counts>>

\* Mutant of SaveEstado: a resolved incident is not taken out.
SaveEstadoKeeps ==
    /\ qpc = "save"
    /\ abiertos' = abiertos \cup act /\ act' = {}
    /\ qpc' = "idle"
    /\ UNCHANGED <<world, vigias, escal, queue, counts>>

SaveEstado ==
    /\ qpc = "save"
    /\ abiertos' = act /\ act' = {}
    /\ qpc' = "idle"
    /\ UNCHANGED <<world, vigias, escal, queue, counts>>

QueueWatch == Detect \/ AppendIncidents \/ SaveEstado

-----------------------------------------------------------------------------
(***************************************************************************)
(* The environment.                                                        *)
(***************************************************************************)
WorldChanges ==
    /\ changes < MaxChanges /\ changes' = changes + 1
    /\ \/ /\ \E k \in Checks :
                cond' = IF k \in cond THEN cond \ {k} ELSE cond \cup {k}
          /\ UNCHANGED <<silent, signer>>
       \/ silent' = ~silent /\ UNCHANGED <<cond, signer>>
       \/ /\ signer' \in {"ok", "failing", "missing"} \ {signer}
          /\ UNCHANGED <<cond, silent>>
    /\ UNCHANGED <<vigias, escal, qwatch, queue, faults, qkills>>

\* VIGIAS_STATE_STALE_S pass without a save.
GoStale ==
    /\ vfresh /\ vfresh' = FALSE
    /\ UNCHANGED <<vpc, hall, vstate, known, vline, world, escal, qwatch,
                   queue, counts>>

\* REESCALA_S pass since k was escalated.  A run of the escalator reads the
\* clock once, so what elapses during a run counts from the next one on.
Elapse(k) ==
    /\ k \in recent /\ epc = "idle"
    /\ recent' = recent \ {k}
    /\ UNCHANGED <<epc, todo, crit, world, vigias, qwatch, queue, counts>>

CorruptState ==
    /\ known /\ faults < MaxFaults
    /\ known' = FALSE /\ vstate' = {} /\ faults' = faults + 1
    /\ UNCHANGED <<vpc, hall, vfresh, vline, world, escal, qwatch, queue,
                   changes, qkills>>

KillVigias ==
    /\ vpc # "idle" /\ faults < MaxFaults
    /\ vpc' = "idle" /\ hall' = {} /\ faults' = faults + 1
    /\ UNCHANGED <<vstate, known, vfresh, vline, world, escal, qwatch, queue,
                   changes, qkills>>

\* Killed between the signature and the save, the escalator forgets that it
\* escalated.
KillEscalator ==
    /\ epc # "idle" /\ faults < MaxFaults
    /\ epc' = "idle" /\ todo' = {} /\ crit' = Source /\ faults' = faults + 1
    /\ UNCHANGED <<recent, world, vigias, qwatch, queue, changes, qkills>>

\* estado.json is written without fsync: a power cut may lose it, and then
\* nothing is open.
KillQueueWatch ==
    /\ qkills < MaxQueueKills /\ qkills' = qkills + 1
    /\ \/ qpc # "idle" /\ UNCHANGED abiertos
       \/ abiertos # {} /\ abiertos' = {}
    /\ qpc' = "idle" /\ act' = {}
    /\ UNCHANGED <<world, vigias, escal, queue, changes, faults>>

Env == \/ WorldChanges \/ GoStale \/ CorruptState
       \/ KillVigias \/ KillEscalator \/ KillQueueWatch
       \/ \E k \in Named : Elapse(k)

-----------------------------------------------------------------------------
Next == Vigias \/ Escalator \/ QueueWatch \/ Env

Spec == Init /\ [][Next]_vars

\* layerd launches the escalator and queue_watch again and again, and time
\* passes.  Nothing is assumed of vigias_watch: each property says what it
\* expects of it.
FairSpec ==
    /\ Spec
    /\ WF_vars(Escalator) /\ WF_vars(QueueWatch)
    /\ WF_vars(vpc = "idle" /\ GoStale)
    /\ \A k \in Named : SF_vars(Elapse(k))

-----------------------------------------------------------------------------
(***************************************************************************)
(* Properties.                                                             *)
(***************************************************************************)
TypeOK ==
    /\ cond \subseteq Checks /\ silent \in BOOLEAN
    /\ signer \in {"ok", "failing", "missing"}
    /\ vpc \in {"idle", "record", "save", "print"}
    /\ hall \subseteq Checks /\ vstate \subseteq Checks
    /\ known \in BOOLEAN /\ vfresh \in BOOLEAN
    /\ vline \in {"none", "transition", "SUPERVISION_OK",
                  "SUPERVISION_DEGRADADA"}
    /\ epc \in {"idle", "next", "sign", "save"}
    /\ todo \subseteq Named /\ crit \in Named /\ recent \subseteq Named
    /\ qpc \in {"idle", "append", "save"}
    /\ act \subseteq Incidents /\ abiertos \subseteq Incidents
    /\ lastInc \in [Incidents -> {"none", "OPEN", "RESUELTO"}]
    /\ sig \in BOOLEAN /\ unsigned \in BOOLEAN
    /\ changes \in 0..MaxChanges /\ faults \in 0..MaxFaults
    /\ qkills \in 0..MaxQueueKills

\* As long as queue_watch is not interrupted, estado.json between two runs
\* lists exactly the incidents whose last line in the queue is OPEN: the
\* cache can be derived from the queue (queue_watch.py lines 27-29, 160-186).
CacheAgrees ==
    /\ TypeOK
    /\ qkills = 0 /\ qpc = "idle" =>
         abiertos = {i \in Incidents : lastInc[i] = "OPEN"}

\* A CRIT that lasts is named to the operator again and again, never drowned,
\* provided vigias_watch keeps completing runs and the sign agent works, and
\* whatever was killed or corrupted before (anv-crit-escalator.py lines
\* 208-243, 291-339).
CritNamed ==
    \A k \in CritChecks :
        /\ <>[](k \in cond /\ signer = "ok")
        /\ []<><<PrintVerdict>>_vars
        => []<>(k \in recent)

\* When vigias_watch is launched no more, the operator is told so again and
\* again (lines 151-174).
SourceNamed ==
    <>[](vpc = "idle" /\ signer = "ok") => []<>(Source \in recent)

\* An incident whose source stays bad ends up OPEN in the queue and stays so;
\* one whose source stays good ends up not OPEN; unless queue_watch was killed.
QueueSettles ==
    \A i \in Incidents :
        /\ <>[]Active(i) => <>[](lastInc[i] = "OPEN" \/ qkills > 0)
        /\ <>[]~Active(i) => <>[](lastInc[i] # "OPEN" \/ qkills > 0)

\* queue_watch.py lines 28-29: the cache is derived from the queue, so that
\* incidents settle after a kill as well.
SettlesAfterKills ==
    \A i \in Incidents :
        /\ <>[]Active(i) => <>[](lastInc[i] = "OPEN")
        /\ <>[]~Active(i) => <>[](lastInc[i] # "OPEN")

\* anv-crit-escalator.py lines 293-295: when the signature is not produced
\* the entry is reverted.
FailedSignReverts == ~unsigned

\* anv-crit-escalator.py lines 22 and 211: a state that cannot be read is
\* escalated as a CRIT of its source.
UnreadableEscalates ==
    [][ReadState /\ ~known => Source \in todo']_vars

\* queue_watch.py lines 11-12: an incident resolves itself when its condition
\* has cleared, that is, when nothing is bad or vigias_watch last said so.
HonestResolution ==
    [][Detect /\ "VIGIAS_PROBLEMA" \in abiertos \ act'
           => cond = {} \/ vline = "SUPERVISION_OK"]_vars

=============================================================================
