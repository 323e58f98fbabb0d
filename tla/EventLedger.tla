----------------------------- MODULE EventLedger -----------------------------
(***************************************************************************)
(* The episodic memory of the node: services/event_ledger.py, single-shot  *)
(* under layerd, and services/crash_recovery.py, which repairs the same    *)
(* ledger after an unclean shutdown.                                       *)
(*                                                                         *)
(* events.jsonl is a chain: each line carries seq, the hash of the line    *)
(* before it and its own hash.  A separate file, events.head.json, holds   *)
(* the hash and length of the chain and the last value of every kind.  A   *)
(* run heals the ledger, loads the head, appends one event for every       *)
(* source whose value differs from the head's, saves the head and verifies *)
(* the tail of the chain.                                                  *)
(*                                                                         *)
(* A hash is modelled by what it commits to: the sequence of the events    *)
(* hashed so far (collision-free, GENESIS is the empty sequence).  Time    *)
(* stamps are left out.  A line with NUL bytes or broken JSON is Bad.      *)
(*                                                                         *)
(* A run may be killed at any step (layerd kills what overruns), and the   *)
(* power may be cut: the ledger keeps what was fsynced and any part of the *)
(* rest, its next line possibly Bad; the head file, which is never         *)
(* fsynced, keeps its old or new contents or becomes unreadable.           *)
(*                                                                         *)
(* crash_recovery looks whether the ledger is quiet, copies its readable   *)
(* lines and renames the copy over it.  No lock keeps a run from writing   *)
(* between the look and the rename.                                        *)
(***************************************************************************)
EXTENDS Integers, Sequences

CONSTANTS
    Kinds,        \* SOURCES, the kinds in the order they are read
    Vals,         \* values a source may show
    TailN,        \* lines _verify_tail() checks (50)
    MaxChanges,   \* bound: changes of the sources
    MaxFaults     \* bound: kills, power cuts and failed head saves

NoVal == "none"
KindSet == {Kinds[i] : i \in DOMAIN Kinds}

ASSUME KindsAssumption == Kinds \in Seq(STRING) /\ Len(Kinds) > 0
ASSUME ValsAssumption == NoVal \notin Vals
ASSUME BoundAssumption ==
    MaxChanges \in Nat /\ MaxFaults \in Nat
\* A run may fork the chain with as many lines as there are sources; the tail
\* that is verified is longer (50 against 5).
ASSUME TailAssumption == TailN \in Nat /\ TailN > Len(Kinds)

VARIABLES
    ledger,     \* events.jsonl
    unsynced,   \* how many of its last lines are not fsynced yet
    head,       \* events.head.json as a reader sees it
    headWas,    \* its last contents known to be on the disk
    src,        \* last value in each source file
    pc,         \* where the run is; "idle" between runs
    mem,        \* the run's prev_hash, seq, last and new_events
    report,     \* chain_ok of the last record printed
    rec,        \* crash_recovery: "idle", or "copy" in _curar_stream
    copy,       \* the sound lines it copies
    quiet,      \* the ledger was not written for QUIESCE_S seconds
    races,      \* renames of crash_recovery that fell upon a run that had
                \* looked at the ledger and was yet to append to it
    beheaded,   \* did one of its renames take the first line away?
    changes, faults

clashes == <<races, beheaded>>
vars == <<ledger, unsynced, head, headWas, src, pc, mem, report, rec, copy,
          quiet, clashes, changes, faults>>

-----------------------------------------------------------------------------
(***************************************************************************)
(* Lines, chains and heads.                                                *)
(***************************************************************************)
Genesis == <<>>
Hash(prev, core) == Append(prev, core)

Line(prev, core) == [core |-> core, prev |-> prev, hash |-> Hash(prev, core)]

Bad == [core |-> [seq |-> -1, kind |-> NoVal, from |-> NoVal, to |-> NoVal],
        prev |-> Genesis, hash |-> Genesis]

\* The checks of _heal_ledger() on line n.
Sound(l, n) ==
    /\ l[n] # Bad
    /\ l[n].core.seq = n - 1
    /\ l[n].prev = IF n = 1 THEN Genesis ELSE l[n - 1].hash
    /\ l[n].hash = Hash(l[n].prev, l[n].core)

\* The lines before the first one that fails.
SoundPrefix(l, n) == n \in 0..Len(l) /\ \A i \in 1..n : Sound(l, i)

GoodLen(l) ==
    CHOOSE n \in 0..Len(l) :
        SoundPrefix(l, n) /\ (n < Len(l) => ~Sound(l, n + 1))

\* Mutant of Good: what parses is kept, the links are not looked at.
GoodParses(l) == SelectSeq(l, LAMBDA e : e # Bad)

Good(l) == SubSeq(l, 1, GoodLen(l))

Intact(l) == GoodLen(l) = Len(l)

\* Mutant of TailVerifies: the links are not compared.
TailHashes(l) ==
    \A n \in DOMAIN l : l[n] # Bad /\ l[n].hash = Hash(l[n].prev, l[n].core)

\* _verify_tail(): hash and link of the last TailN lines, not their numbers.
TailVerifies(l) ==
    LET first == IF Len(l) > TailN THEN Len(l) - TailN + 1 ELSE 1
    IN  \A n \in first..Len(l) :
            /\ l[n] # Bad
            /\ l[n].hash = Hash(l[n].prev, l[n].core)
            /\ n > first => l[n].prev = l[n - 1].hash

\* What _load_head() returns when the file is missing or unreadable.
EmptyHead == [head |-> Genesis, seq |-> 0, last |-> [k \in KindSet |-> NoVal]]

\* last, as the loop of _heal_ledger() leaves it: what the last event of each
\* kind led to.
LastOf(l) ==
    [k \in KindSet |->
        LET at == {i \in DOMAIN l : l[i].core.kind = k}
        IN  IF at = {} THEN NoVal
            ELSE l[CHOOSE i \in at : \A j \in at : j <= i].core.to]

\* Mutant of HeadOf: the last values are not rebuilt.
HeadWithoutLast(l) ==
    [head |-> IF l = <<>> THEN Genesis ELSE l[Len(l)].hash,
     seq  |-> Len(l), last |-> EmptyHead.last]

\* The head that belongs to a sound chain.
HeadOf(l) ==
    [head |-> IF l = <<>> THEN Genesis ELSE l[Len(l)].hash,
     seq  |-> Len(l),
     last |-> LastOf(l)]

\* The lines crash_recovery keeps of a chained file: those before the first
\* one that is not JSON.  It does not look at the hashes.
Readable(l, n) == n \in 0..Len(l) /\ \A i \in 1..n : l[i] # Bad

JsonPrefix(l) ==
    SubSeq(l, 1, CHOOSE n \in 0..Len(l) :
                     Readable(l, n) /\ (n < Len(l) => l[n + 1] = Bad))

\* The lines a power cut cannot take away.
Durable == SubSeq(ledger, 1, Len(ledger) - unsynced)

-----------------------------------------------------------------------------
NoMem == [head |-> EmptyHead, batch |-> <<>>, left |-> <<>>]

\* An event for the source if its value differs from the last one known.
Observe(m, k) ==
    IF src[k] \in {NoVal, m.head.last[k]} THEN m
    ELSE LET h == m.head
             line == Line(h.head, [seq |-> h.seq, kind |-> k,
                                   from |-> h.last[k], to |-> src[k]])
         IN  [m EXCEPT !.head = [head |-> line.hash, seq |-> h.seq + 1,
                                 last |-> [h.last EXCEPT ![k] = src[k]]],
                       !.batch = Append(@, line)]

Init ==
    /\ ledger = <<>> /\ unsynced = 0
    /\ head = EmptyHead /\ headWas = EmptyHead
    /\ src = [k \in KindSet |-> NoVal]
    /\ pc = "idle" /\ mem = NoMem /\ report = "none"
    /\ rec = "idle" /\ copy = <<>> /\ quiet = TRUE
    /\ races = 0 /\ beheaded = FALSE
    /\ changes = 0 /\ faults = 0

-----------------------------------------------------------------------------
(***************************************************************************)
(* A run of event_ledger.                                                  *)
(***************************************************************************)

\* Mutant of StartSound: a broken ledger is not noticed.
StartAnyway ==
    /\ pc = "idle"
    /\ pc' = "load" /\ report' = "none"
    /\ UNCHANGED <<ledger, unsynced, head, headWas, src, mem, rec, copy, quiet,
                   clashes, changes, faults>>

\* _heal_ledger(): the ledger is sound, nothing is written.
StartSound ==
    /\ pc = "idle" /\ Intact(ledger)
    /\ pc' = "load" /\ report' = "none"
    /\ UNCHANGED <<ledger, unsynced, head, headWas, src, mem, rec, copy, quiet,
                   clashes, changes, faults>>

\* Mutant of StartHeal: one sound line too many is dropped.
StartHealDropsOne ==
    /\ pc = "idle" /\ ~Intact(ledger)
    /\ ledger' = SubSeq(ledger, 1, GoodLen(ledger) - 1)
    /\ unsynced' = 0 /\ quiet' = FALSE
    /\ mem' = [NoMem EXCEPT !.head = HeadOf(ledger')]
    /\ pc' = "healHead" /\ report' = "none"
    /\ UNCHANGED <<head, headWas, src, rec, copy, clashes, changes, faults>>

\* _heal_ledger(): the sound prefix replaces the ledger (tmp, fsync, rename).
StartHeal ==
    /\ pc = "idle" /\ ~Intact(ledger)
    /\ ledger' = Good(ledger) /\ unsynced' = 0 /\ quiet' = FALSE
    /\ mem' = [NoMem EXCEPT !.head = HeadOf(Good(ledger))]
    /\ pc' = "healHead" /\ report' = "none"
    /\ UNCHANGED <<head, headWas, src, rec, copy, clashes, changes, faults>>

\* _save_head(): tmp and rename without fsync.
HealHead ==
    /\ pc = "healHead"
    /\ head' = mem.head
    /\ mem' = NoMem /\ pc' = "load"
    /\ UNCHANGED <<ledger, unsynced, headWas, src, report, rec, copy, quiet,
                   clashes, changes, faults>>

\* _load_head()
Load ==
    /\ pc = "load"
    /\ mem' = [head |-> head, batch |-> <<>>, left |-> Kinds]
    /\ pc' = "read"
    /\ UNCHANGED <<ledger, unsynced, head, headWas, src, report, rec, copy,
                   quiet, clashes, changes, faults>>

\* main() reads one source after the other; others write them meanwhile.
ReadSource ==
    /\ pc = "read"
    /\ mem' = [Observe(mem, Head(mem.left)) EXCEPT !.left = Tail(@)]
    /\ pc' = IF mem'.left # <<>> THEN "read"
             ELSE IF mem'.batch = <<>> THEN "verify" ELSE "append"
    /\ UNCHANGED <<ledger, unsynced, head, headWas, src, report, rec, copy,
                   quiet, clashes, changes, faults>>

AppendEvents ==
    /\ pc = "append"
    /\ ledger' = ledger \o mem.batch
    /\ unsynced' = unsynced + Len(mem.batch) /\ quiet' = FALSE
    /\ pc' = "fsync"
    /\ UNCHANGED <<head, headWas, src, mem, report, rec, copy, clashes, changes,
                   faults>>

Fsync ==
    /\ pc = "fsync"
    /\ unsynced' = 0
    /\ pc' = "saveHead"
    /\ UNCHANGED <<ledger, head, headWas, src, mem, report, rec, copy, quiet,
                   clashes, changes, faults>>

SaveHead ==
    /\ pc = "saveHead"
    /\ head' = mem.head
    /\ mem' = NoMem /\ pc' = "verify"
    /\ UNCHANGED <<ledger, unsynced, headWas, src, report, rec, copy, quiet,
                   clashes, changes, faults>>

\* _save_head() swallows its exceptions: the run goes on with the old head.
SaveHeadFails ==
    /\ pc \in {"healHead", "saveHead"} /\ faults < MaxFaults
    /\ faults' = faults + 1
    /\ mem' = NoMem /\ pc' = IF pc = "healHead" THEN "load" ELSE "verify"
    /\ UNCHANGED <<ledger, unsynced, head, headWas, src, report, rec, copy,
                   quiet, clashes, changes>>

Verify ==
    /\ pc = "verify"
    /\ report' = IF TailVerifies(ledger) THEN "ok" ELSE "broken"
    /\ pc' = "idle" /\ mem' = NoMem
    /\ UNCHANGED <<ledger, unsynced, head, headWas, src, rec, copy, quiet,
                   clashes, changes, faults>>

Run == \/ StartSound \/ StartHeal \/ HealHead \/ Load \/ ReadSource
       \/ AppendEvents \/ Fsync \/ SaveHead \/ Verify

-----------------------------------------------------------------------------
(***************************************************************************)
(* crash_recovery on events.jsonl.  The head file is reported but never    *)
(* written; a corrupt line it can see has NULs or is the last one.         *)
(***************************************************************************)
RecoveryReads ==
    /\ rec = "idle" /\ quiet
    /\ \E i \in DOMAIN ledger : ledger[i] = Bad
    /\ rec' = "copy" /\ copy' = JsonPrefix(ledger)
    /\ UNCHANGED <<ledger, unsynced, head, headWas, src, pc, mem, report,
                   quiet, clashes, changes, faults>>

\* The rename, whatever was written meanwhile.
RecoveryReplaces ==
    /\ rec = "copy"
    /\ ledger' = copy /\ unsynced' = 0 /\ quiet' = FALSE
    /\ rec' = "idle" /\ copy' = <<>>
    /\ races' = IF pc \in {"healHead", "load", "read", "append"} THEN races + 1
                                                              ELSE races
    /\ beheaded' = (beheaded \/ (copy = <<>> /\ ledger # <<>> /\ Sound(ledger, 1)))
    /\ UNCHANGED <<head, headWas, src, pc, mem, report, changes, faults>>

-----------------------------------------------------------------------------
(***************************************************************************)
(* The environment.                                                        *)
(***************************************************************************)

\* Another service appends a new state to a source file.
SourceChanges(k, v) ==
    /\ changes < MaxChanges /\ src[k] # v
    /\ src' = [src EXCEPT ![k] = v] /\ changes' = changes + 1
    /\ UNCHANGED <<ledger, unsynced, head, headWas, pc, mem, report, rec, copy,
                   quiet, clashes, faults>>

\* QUIESCE_S seconds pass without a write to the ledger.
Quiesce ==
    /\ ~quiet /\ pc \in {"idle", "load", "read", "verify"}
    /\ quiet' = TRUE
    /\ UNCHANGED <<ledger, unsynced, head, headWas, src, pc, mem, report, rec,
                   copy, clashes, changes, faults>>

\* The kernel writes everything back.
WriteBack ==
    /\ unsynced > 0 \/ headWas # head
    /\ unsynced' = 0 /\ headWas' = head
    /\ UNCHANGED <<ledger, head, src, pc, mem, report, rec, copy, quiet,
                   clashes, changes, faults>>

Killed ==
    /\ pc # "idle" /\ faults < MaxFaults
    /\ pc' = "idle" /\ mem' = NoMem /\ faults' = faults + 1
    /\ UNCHANGED <<ledger, unsynced, head, headWas, src, report, rec, copy,
                   quiet, clashes, changes>>

\* n lines of the unsynced part survive, and the next one may be torn.
PowerCut ==
    /\ faults < MaxFaults /\ faults' = faults + 1
    /\ \E n \in 0..unsynced :
          /\ LET kept == SubSeq(ledger, 1, Len(ledger) - unsynced + n)
             IN  \/ ledger' = kept
                 \/ n < unsynced /\ ledger' = Append(kept, Bad)
    /\ unsynced' = 0
    /\ \/ head' \in {head, headWas}
       \/ head # headWas /\ head' = EmptyHead
    /\ headWas' = head'
    /\ pc' = "idle" /\ mem' = NoMem /\ rec' = "idle" /\ copy' = <<>>
    /\ report' = "none"
    /\ UNCHANGED <<src, quiet, clashes, changes>>

-----------------------------------------------------------------------------
Recovery == RecoveryReads \/ RecoveryReplaces

Env ==
    \/ Quiesce \/ WriteBack \/ Killed \/ PowerCut \/ SaveHeadFails
    \/ \E k \in KindSet, v \in Vals : SourceChanges(k, v)

Next == Run \/ Recovery \/ Env

Spec == Init /\ [][Next]_vars

\* layerd launches the run again and again, and a started run goes on unless
\* it is killed.  Recovery finishes what it started; nothing makes it start.
FairSpec == Spec /\ WF_vars(Run) /\ WF_vars(RecoveryReplaces)

-----------------------------------------------------------------------------
(***************************************************************************)
(* Properties.                                                             *)
(***************************************************************************)
Cores == [seq : Int, kind : KindSet \cup {NoVal},
          from : Vals \cup {NoVal}, to : Vals \cup {NoVal}]
Lines == [core : Cores, prev : Seq(Cores), hash : Seq(Cores)]
Heads == [head : Seq(Cores), seq : Nat, last : [KindSet -> Vals \cup {NoVal}]]

TypeOK ==
    /\ ledger \in Seq(Lines) /\ unsynced \in 0..Len(ledger)
    /\ head \in Heads /\ headWas \in Heads
    /\ src \in [KindSet -> Vals \cup {NoVal}]
    /\ pc \in {"idle", "healHead", "load", "read", "append", "fsync",
               "saveHead", "verify"}
    /\ mem \in [head : Heads, batch : Seq(Lines), left : Seq(KindSet)]
    /\ report \in {"none", "ok", "broken"}
    /\ rec \in {"idle", "copy"} /\ copy \in Seq(Lines)
    /\ quiet \in BOOLEAN /\ races \in Nat /\ beheaded \in BOOLEAN
    /\ changes \in 0..MaxChanges /\ faults \in 0..MaxFaults

\* The beginning two sequences have in common.
Shared(s, t, n) ==
    n \in 0..Len(s) /\ n <= Len(t) /\ \A i \in 1..n : s[i] = t[i]

Common(s, t) ==
    SubSeq(s, 1, CHOOSE n \in 0..Len(s) :
                     Shared(s, t, n) /\ ~Shared(s, t, n + 1))

\* What is there to stay of the validated history: all that is fsynced onto a
\* sound chain, and, while crash_recovery is between its look at the ledger
\* and its rename, no more of it than the copy holds too.
Lasting ==
    IF rec = "idle" THEN Good(Durable) ELSE Common(Good(copy), Good(Durable))

\* The validated history only grows: no kill, power cut, healing, forked
\* append or recovery takes back or changes an event that was fsynced onto a
\* sound chain.  Only what a run writes while crash_recovery copies is at the
\* mercy of the rename: its quiescence check cannot see it (event_ledger
\* 80-124, 151-157, crash_recovery 160-164, 280-288).
History == INSTANCE AppendOnlyLog WITH log <- Lasting
AppendOnly == History!Spec

\* What the comment of crash_recovery says of healing by default (lines
\* 205-206: safe, only corrupt AND quiescent files, atomic rewriting):
\* nothing that was fsynced onto a sound chain is taken back.
Fsynced == INSTANCE AppendOnlyLog WITH log <- Good(Durable)
FsyncedStays == Fsynced!Spec

\* The validated history tells one connected story per kind: every event
\* starts from the value the event before it of the same kind ended with, and
\* changes it.  (A head that does not belong to the chain it extends would
\* break this.)
Coherent ==
    /\ TypeOK
    /\ LET g == Good(ledger) IN
       \A n \in DOMAIN g :
           /\ g[n].core.from = LastOf(SubSeq(g, 1, n - 1))[g[n].core.kind]
           /\ g[n].core.from # g[n].core.to

\* A run never stacks events on a chain it could see broken: what follows the
\* sound prefix is at most what one run wrote, and what one more wrote for
\* every rename of crash_recovery that fell upon a run (lines 80-124,
\* 151-157, crash_recovery 283-288).
OneForkAtMost == Len(ledger) - GoodLen(ledger) <= (1 + races) * Len(Kinds)

\* chain_ok is only reported of a chain that is sound from genesis, although
\* only its tail is verified: as long as the tail is longer than the forks
\* may be, and no rename took the beginning of the chain away (lines 160,
\* 170-191).
VerdictSound ==
    [][(report # "ok" /\ report' = "ok"
          /\ TailN > (1 + races) * Len(Kinds) /\ ~beheaded) => Intact(ledger')]_vars

\* Once the faults are over, the chain is healed for good.
SelfHeals == <>[]Intact(ledger)

\* "AUTO-CURADO ... reescribe ledger+head ATOMICAMENTE al ultimo punto sano"
\* (lines 81-84): between runs, a ledger without a broken line has the head
\* that belongs to it, or to a state it was in before.
HealedTogether ==
    pc = "idle" /\ Intact(ledger) => \E n \in 0..Len(ledger) : head = HeadOf(SubSeq(ledger, 1, n))

\* The docstring's promise of the memory (lines 10-13): the transitions of
\* the sources end up in the ledger.  When the sources rest, the last event
\* of each kind is the value the source shows.
EventuallyRecorded ==
    <>[](\A k \in KindSet : src[k] # NoVal => LastOf(Good(ledger))[k] = src[k])

\* crash_recovery.py lines 15-16: a chained ledger is truncated and its head
\* is reconciled with it.
RecoveryReconciles ==
    [][RecoveryReplaces => head' = HeadOf(ledger')]_vars

=============================================================================
