----------------------------- MODULE Governance -----------------------------
(***************************************************************************)
(* The verdict about who governs the node, and the first filter of a       *)
(* promotion, which reads it: "a node that is not governed does not change *)
(* itself".                                                                *)
(*                                                                         *)
(* cognition_guard looks at the constitution of the node, at its signature *)
(* by the authority of the system and at softer conditions, and layerd     *)
(* appends the verdict to a ledger.  ring_promote takes the last line that *)
(* begins as a record, and refuses one that is too old: the guard may have *)
(* stopped, or the filter may be behind it.  A tick is at least as long as *)
(* layerd lets a run of the guard last.                                    *)
(***************************************************************************)
EXTENDS Integers, Sequences

CONSTANTS
    MaxAge,        \* GOV_MAX_EDAD_S, in ticks
    MaxGovTime,    \* bound: ticks
    MaxGovChanges, \* bound: changes of what the guard looks at
    MaxGovFaults   \* bound: kills, torn lines, late verifiers, clocks that go back

ASSUME GovAssumption == {MaxAge, MaxGovTime, MaxGovChanges, MaxGovFaults} \subseteq Nat

VARIABLES
    ground,    \* what the guard looks at
    guard,     \* a run of cognition_guard
    govLedger, \* the last lines of governance/cognition_guard.jsonl
    tick, back, \* the time, and by how much the clock of the node is behind it
    lastSound, \* the last time at which the node was governed, or -1
    govChanges, govFaults

govVars == <<ground, guard, govLedger, tick, back, lastSound, govChanges, govFaults>>

NoGuard == [pc |-> "idle"]
Grounds == [constitution : {"absent", "unsigned", "signed"},
            authority : BOOLEAN,  \* anvos_release.pub
            verifier : BOOLEAN,   \* minisign and its loader
            soft : BOOLEAN]       \* an identity, OBSERVE_ONLY, the same affiliation

\* What stands between the node and its authority.  Without a verifier a
\* constitution that is there counts, as the code says it does.
Sound(g) ==
    /\ g.authority /\ g.constitution # "absent"
    /\ g.verifier => g.constitution = "signed"

Verdicts == {"GOBERNADO", "GOBERNADO_SIN_VERIFICADOR", "DEGRADADO", "SIN_GOBIERNO"}

Lines == [verdict : Verdicts, ts : Nat, reads : {"record", "broken", "none"}, ended : BOOLEAN]
Guards ==
    {NoGuard} \cup [pc : {"look"}, fresh : BOOLEAN]
    \cup [pc : {"verify", "soft"}, fresh : BOOLEAN, verifier : BOOLEAN, breach : BOOLEAN]
    \cup [pc : {"emit"}, fresh : BOOLEAN, ts : Nat, verdict : Verdicts]

GovTypeOK ==
    /\ ground \in Grounds /\ guard \in Guards
    /\ govLedger \in Seq(Lines) /\ Len(govLedger) <= 2
    /\ tick \in Nat /\ back \in 0..tick /\ lastSound \in -1..tick
    /\ govChanges \in 0..MaxGovChanges /\ govFaults \in 0..MaxGovFaults

GovInit ==
    /\ ground \in Grounds /\ guard = NoGuard /\ govLedger = <<>>
    /\ tick = 0 /\ back = 0 /\ lastSound = IF Sound(ground) THEN 0 ELSE -1
    /\ govChanges = 0 /\ govFaults = 0

-----------------------------------------------------------------------------
GovFault == govFaults < MaxGovFaults /\ govFaults' = govFaults + 1

\* One of the things that the guard looks at changes.
ChangeGround ==
    /\ govChanges < MaxGovChanges /\ govChanges' = govChanges + 1
    /\ \/ \E c \in {"absent", "unsigned", "signed"} \ {ground.constitution} :
              ground' = [ground EXCEPT !.constitution = c]
       \/ \E f \in {"authority", "verifier", "soft"} : ground' = [ground EXCEPT ![f] = ~@]
    /\ lastSound' = IF Sound(ground') THEN tick ELSE lastSound
    /\ UNCHANGED <<guard, govLedger, tick, back, govFaults>>

\* A run that began before the last tick is killed at this one.
GovTick ==
    /\ tick < MaxGovTime /\ tick' = tick + 1
    /\ lastSound' = IF Sound(ground) THEN tick + 1 ELSE lastSound
    /\ guard' = IF guard.pc # "idle" /\ guard.fresh THEN [guard EXCEPT !.fresh = FALSE]
                ELSE NoGuard
    /\ UNCHANGED <<ground, govLedger, back, govChanges, govFaults>>

ClockGoesBack ==
    /\ GovFault /\ back = 0 /\ back' \in 1..tick
    /\ UNCHANGED <<ground, guard, govLedger, tick, lastSound, govChanges>>

-----------------------------------------------------------------------------
(***************************************************************************)
(* cognition_guard: main().                                                *)
(***************************************************************************)
StartGuard ==
    /\ guard.pc = "idle" /\ guard' = [pc |-> "look", fresh |-> TRUE]
    /\ UNCHANGED <<ground, govLedger, tick, back, lastSound, govChanges, govFaults>>

\* Are the verifier, the constitution and the key of the authority there?
Look ==
    /\ guard.pc = "look"
    /\ LET present == ground.constitution # "absent"
       IN  guard' = [pc |-> IF present /\ ground.authority /\ ground.verifier
                            THEN "verify" ELSE "soft",
                     fresh |-> guard.fresh, verifier |-> ground.verifier,
                     breach |-> ~present \/ ~ground.authority \/ ground.verifier]
    /\ UNCHANGED <<ground, govLedger, tick, back, lastSound, govChanges, govFaults>>

\* The signature is verified over the file as it is now; a verifier that takes
\* too long says no.
VerifySig ==
    /\ guard.pc = "verify"
    /\ \/ /\ guard' = [guard EXCEPT !.pc = "soft", !.breach = ~Sound(ground) \/ ~ground.verifier]
          /\ UNCHANGED govFaults
       \/ GovFault /\ guard' = [guard EXCEPT !.pc = "soft"]
    /\ UNCHANGED <<ground, govLedger, tick, back, lastSound, govChanges>>

\* The identity, the mode and the affiliation; then the verdict, with its time.
Judge ==
    /\ guard.pc = "soft"
    /\ guard' = [pc |-> "emit", fresh |-> guard.fresh, ts |-> tick - back,
                 verdict |-> IF guard.breach THEN "SIN_GOBIERNO"
                             ELSE IF ~guard.verifier THEN "GOBERNADO_SIN_VERIFICADOR"
                             ELSE IF ~ground.soft THEN "DEGRADADO" ELSE "GOBERNADO"]
    /\ UNCHANGED <<ground, govLedger, tick, back, lastSound, govChanges, govFaults>>

\* The record is appended to the ledger; behind half a line it is glued to it.
\* (Two lines are kept: a reader goes back behind a line of zeros only.)
EmitVerdict ==
    /\ guard.pc = "emit" /\ guard' = NoGuard
    /\ govLedger' =
          IF govLedger # <<>> /\ ~govLedger[Len(govLedger)].ended
          THEN [govLedger EXCEPT ![Len(govLedger)].ended = TRUE]
          ELSE Append(IF Len(govLedger) < 2 THEN govLedger ELSE Tail(govLedger),
                      [verdict |-> guard.verdict, ts |-> guard.ts, reads |-> "record",
                       ended |-> TRUE])
    /\ UNCHANGED <<ground, tick, back, lastSound, govChanges, govFaults>>

\* A power cut leaves half of the last line, or zeros.
CutVerdict ==
    /\ govLedger # <<>> /\ GovFault /\ guard' = NoGuard
    /\ \E r \in {"broken", "none"} :
          govLedger' = [govLedger EXCEPT ![Len(govLedger)] = [@ EXCEPT !.reads = r, !.ended = FALSE]]
    /\ UNCHANGED <<ground, tick, back, lastSound, govChanges>>

GuardRun == StartGuard \/ Look \/ VerifySig \/ Judge \/ EmitVerdict
GovNext == ChangeGround \/ GovTick \/ ClockGoesBack \/ CutVerdict \/ GuardRun
GovSpec == GovInit /\ [][GovNext]_govVars

-----------------------------------------------------------------------------
(***************************************************************************)
(* ring_promote: _gobernanza().                                            *)
(***************************************************************************)
\* The last line that begins as a record is line i, and is one.
LastRecord(i) ==
    /\ i \in DOMAIN govLedger /\ govLedger[i].reads = "record"
    /\ \A j \in DOMAIN govLedger : j > i => govLedger[j].reads = "none"

\* Mutant of Permits: a verdict is a verdict, however old.
PermitsOld == \E i \in 1..2 : LastRecord(i) /\ govLedger[i].verdict # "SIN_GOBIERNO"

\* Would a promotion that is not forced be let through?
Permits ==
    \E i \in 1..2 :
        /\ LastRecord(i)
        /\ (tick - back) - govLedger[i].ts <= MaxAge
        /\ govLedger[i].verdict # "SIN_GOBIERNO"

\* A node that lost its government is not changed: whatever is torn or killed,
\* a promotion is let through only if the node was governed not longer ago
\* than a verdict and the run that made it last.  (Of a node whose clock never
\* went back: see OldIsRefused.)
GovernedIsRecent == Permits => tick - lastSound <= MaxAge + 1 \/ back > 0

\* The filter is no trap: in the end it lets through what is governed, a
\* degraded node too, and nothing else.
GovernanceSettled == Permits <=> Sound(ground)

\* ring_promote 387: a verdict that is too old is refused.  (Not checked by a
\* run: behind a clock that went back it is as new as before.)
OldIsRefused == Permits => tick - lastSound <= MaxAge + 1
=============================================================================
