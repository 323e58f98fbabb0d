----------------------------- MODULE EventLearn -----------------------------
(***************************************************************************)
(* event_learn: what the node learns from its ledgers.  A run reads what   *)
(* is new in each of them, writes a draft about the largest group of       *)
(* events and saves how far it has read.  The operator signs the draft.    *)
(*                                                                         *)
(* "events" is the ledger of event_ledger, read by the number in the line; *)
(* "alerts" stands for the seven ledgers that are read by the count of     *)
(* lines, each with one kind of events.  What the draft says is left out.  *)
(***************************************************************************)
EXTENDS Integers, Sequences, SequencesExt, FiniteSets

CONSTANTS
    EventKinds,    \* the kinds of the transitions in the first ledger
    MaxShown,      \* MAX_EVENTS_IN_PROMPT
    MaxBorn,       \* bound: lines written
    MaxLearnFaults \* bound: kills, power cuts, healed ledgers, failed writes

ASSUME LearnAssumption ==
    MaxShown \in Nat \ {0} /\ {MaxBorn, MaxLearnFaults} \subseteq Nat

VARIABLES
    sources,    \* the two ledgers
    reached,    \* cursor.json: how far each was read
    learn,      \* a run
    shown,      \* the events that a draft shows
    passedOver, \* the events that were read and left to no draft
    shrunk,     \* the ledgers that lost a line
    born, learnFaults

learnVars == <<sources, reached, learn, shown, passedOver, shrunk, born, learnFaults>>

Names == {"events", "alerts"}
NoLearn == [pc |-> "idle"]
KindsIn(s) == IF s = "events" THEN EventKinds ELSE {"alert"}

LearnTypeOK ==
    /\ \A s \in Names : \A i \in DOMAIN sources[s] :
          sources[s][i].kind \in KindsIn(s) \cup {"healthy", "bad"}
    /\ reached \in [Names -> 0..MaxBorn] /\ shrunk \subseteq Names
    /\ learn.pc \in {"idle", "events", "alerts", "draft", "save"}
    /\ shown \cup passedOver \subseteq 1..MaxBorn

LearnInit ==
    /\ sources = [s \in Names |-> <<>>] /\ reached = [s \in Names |-> 0]
    /\ learn = NoLearn /\ shown = {} /\ passedOver = {} /\ shrunk = {}
    /\ born = 0 /\ learnFaults = 0

-----------------------------------------------------------------------------
(***************************************************************************)
(* What happens to the ledgers.                                            *)
(***************************************************************************)
AppendLine(s) ==
    /\ born < MaxBorn /\ born' = born + 1
    /\ \E k \in KindsIn(s) \cup {"healthy"} :
          sources' = [sources EXCEPT ![s] =
              Append(@, [id |-> born + 1, seq |-> Len(@), kind |-> k])]
    /\ UNCHANGED <<reached, learn, shown, passedOver, shrunk, learnFaults>>

LearnFault == learnFaults < MaxLearnFaults /\ learnFaults' = learnFaults + 1

\* A power cut turns the last line of a ledger into zeros, or the cursor.
PowerCut ==
    /\ LearnFault /\ learn' = NoLearn
    /\ \/ \E s \in Names :
             /\ sources[s] # <<>>
             /\ sources' = [sources EXCEPT ![s][Len(sources[s])].kind = "bad"]
             /\ UNCHANGED reached
       \/ reached' = [s \in Names |-> 0] /\ UNCHANGED sources
    /\ UNCHANGED <<shown, passedOver, shrunk, born>>

\* crash_recovery takes away what is unreadable, and what follows it in a
\* chained ledger.
Bad(x) == x.kind = "bad"
ReadableIn(ls) ==
    LET at == {i \in DOMAIN ls : ~Bad(ls[i])}
        orders == {o \in [1..Cardinality(at) -> at] : \A i, j \in DOMAIN o : i < j => o[i] < o[j]}
    IN  {[k \in 1..Cardinality(at) |-> ls[o[k]]] : o \in orders}
Cure(s) ==
    /\ \E i \in DOMAIN sources[s] : Bad(sources[s][i])
    /\ \E rest \in IF s = "events"
                   THEN {SubSeq(sources[s], 1, SelectInSeq(sources[s], Bad) - 1)}
                   ELSE ReadableIn(sources[s]) :
          sources' = [sources EXCEPT ![s] = rest]
    /\ shrunk' = shrunk \cup {s}
    /\ UNCHANGED <<reached, learn, shown, passedOver, born, learnFaults>>

\* event_ledger takes away a line that is not linked to those before it.
HealEvents ==
    /\ LearnFault /\ sources["events"] # <<>>
    /\ sources' = [sources EXCEPT !["events"] = Front(@)]
    /\ shrunk' = shrunk \cup {"events"}
    /\ UNCHANGED <<reached, learn, shown, passedOver, born>>

-----------------------------------------------------------------------------
(***************************************************************************)
(* A run.                                                                  *)
(***************************************************************************)
StartLearn ==
    /\ learn.pc = "idle"
    /\ learn' = [pc |-> "events", upto |-> reached, new |-> {}]
    /\ UNCHANGED <<sources, reached, shown, passedOver, shrunk, born, learnFaults>>

Significant(x) == x.kind \notin {"healthy", "bad"}
GreatestSeq(ls, from) ==
    Max({from} \cup {ls[i].seq : i \in {j \in DOMAIN ls : ~Bad(ls[j])}})

\* _read_episodic: the lines with a greater number than the cursor.
ReadEvents ==
    /\ learn.pc = "events"
    /\ LET ls == sources["events"]  from == learn.upto["events"]
       IN  learn' = [learn EXCEPT !.pc = "alerts",
                                  !.new = {x \in Range(ls) : Significant(x) /\ x.seq > from},
                                  !.upto["events"] = GreatestSeq(ls, from)]
    /\ UNCHANGED <<sources, reached, shown, passedOver, shrunk, born, learnFaults>>

\* _read_lines: the lines after as many as the cursor says.  A ledger that is
\* shorter brings the cursor back, an empty one does not.
ReadAlerts ==
    /\ learn.pc = "alerts"
    /\ LET ls == sources["alerts"]  from == learn.upto["alerts"]
           more == {ls[i] : i \in {j \in DOMAIN ls : j > from}}
       IN  learn' = [learn EXCEPT !.pc = "draft",
                                  !.new = @ \cup {x \in more : Significant(x)},
                                  !.upto["alerts"] = IF ls = <<>> THEN from ELSE Len(ls)]
    /\ UNCHANGED <<sources, reached, shown, passedOver, shrunk, born, learnFaults>>

\* The largest group of events of a kind; of equal ones that of the event read
\* first.
Group(new, k) == {x \in new : x.kind = k}
Earlier(x, y) ==
    \/ x.kind # "alert" /\ y.kind = "alert"
    \/ (x.kind = "alert" <=> y.kind = "alert") /\ x.id < y.id
Largest(new) ==
    LET size(x) == Cardinality(Group(new, x.kind))
        first == CHOOSE x \in new : \A y \in new :
                     size(y) < size(x) \/ (size(y) = size(x) /\ ~Earlier(y, x))
    IN  Group(new, first.kind)

\* events[:MAX_EVENTS_IN_PROMPT]
FirstOf(group) == {x \in group : Cardinality({y \in group : y.id < x.id}) < MaxShown}

IdsOf(xs) == {x.id : x \in xs}

\* A model is asked for a lesson, for as long as the time of the run allows;
\* with a lesson or without, the draft shows the first events of the group.
\* If the file cannot be written the run goes on; if the directory cannot be
\* made it ends.
WriteDraft ==
    /\ learn.pc = "draft"
    /\ \/ /\ learn.new = {}
          /\ learn' = [learn EXCEPT !.pc = "save"] /\ UNCHANGED <<shown, learnFaults>>
       \/ /\ learn.new # {}
          /\ shown' = shown \cup IdsOf(FirstOf(Largest(learn.new)))
          /\ learn' = [learn EXCEPT !.pc = "save"] /\ UNCHANGED learnFaults
       \/ /\ learn.new # {} /\ LearnFault
          /\ learn' \in {[learn EXCEPT !.pc = "save"], NoLearn} /\ UNCHANGED shown
    /\ UNCHANGED <<sources, reached, passedOver, shrunk, born>>

\* Mutant of SaveReached: how long the ledgers are now.
SaveReachedNow ==
    /\ learn.pc = "save" /\ learn' = NoLearn
    /\ reached' = [s \in Names |-> Len(sources[s])]
    /\ passedOver' = passedOver \cup (IdsOf(learn.new) \ shown)
    /\ UNCHANGED <<sources, shown, shrunk, born, learnFaults>>

\* All that was read is behind the cursor, in a draft or not.  A cursor that
\* cannot be written stays, and nothing tells.
SaveReached ==
    /\ learn.pc = "save" /\ learn' = NoLearn
    /\ \/ /\ reached' = learn.upto /\ UNCHANGED learnFaults
          /\ passedOver' = passedOver \cup (IdsOf(learn.new) \ shown)
       \/ LearnFault /\ UNCHANGED <<reached, passedOver>>
    /\ UNCHANGED <<sources, shown, shrunk, born>>

\* layerd kills a run after 30 seconds.
KillLearn ==
    /\ learn.pc # "idle" /\ LearnFault /\ learn' = NoLearn
    /\ UNCHANGED <<sources, reached, shown, passedOver, shrunk, born>>

LearnRun == StartLearn \/ ReadEvents \/ ReadAlerts \/ WriteDraft \/ SaveReached
LearnNext ==
    \/ \E s \in Names : AppendLine(s) \/ Cure(s)
    \/ PowerCut \/ HealEvents \/ LearnRun \/ KillLearn

-----------------------------------------------------------------------------
\* The significant lines that the cursor says were read.
Behind(s) ==
    LET ls == sources[s]
        known(i) == (IF s = "events" THEN ls[i].seq ELSE i) <= reached[s]
    IN  {ls[i] : i \in {j \in DOMAIN ls : Significant(ls[j]) /\ known(j)}}

Read(x) == x.id \in shown \cup passedOver

\* Whatever is killed or written meanwhile, an event gets behind the cursor
\* only when a run has read it: in a ledger that lost no line none is skipped,
\* but for the first transition of the memory (see FirstIsRead).
NoneSkipped ==
    \A s \in Names \ shrunk : \A x \in Behind(s) :
        Read(x) \/ (s = "events" /\ x.seq = 0)

\* In the end: the cursors reach the ends of the ledgers, and come back in
\* one that got shorter (the numbers of the first one never do).
LearnSettled ==
    /\ reached["events"] >= GreatestSeq(sources["events"], 0)
    /\ sources["alerts"] # <<>> => reached["alerts"] = Len(sources["alerts"])

\* event_learn 22: the cursor advances over what was processed only.
OnlyProcessed == passedOver = {}

\* event_learn 20: nothing is lost; not the first transition either, whose
\* number is the one that the cursor begins with.
FirstIsRead == \A s \in Names \ shrunk : \A x \in Behind(s) : Read(x)

\* Nor what was appended to a ledger after it lost a line.
ShrunkIsRead == \A x \in Behind("alerts") : Read(x)
=============================================================================
