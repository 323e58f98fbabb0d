------------------------------- MODULE Expiry -------------------------------
(***************************************************************************)
(* caducidad_watch: the calendar of what expires, signed by the operator,  *)
(* is compared with the clock; a stage worse than the one announced before *)
(* is appended to the alerts, the severe ones to the escalations too, and  *)
(* the cursor that remembers what was announced is saved last.             *)
(*                                                                         *)
(* A day is 30 days.  Of each ledger the model keeps the lines that the    *)
(* channel of alerts reads, and the worst stage that any line told.  An    *)
(* append that fails is told on stderr and nowhere else; it leaves nothing *)
(* in the ledger.  The operator and the clock are not part of this code.   *)
(***************************************************************************)
EXTENDS Integers, Sequences, SequencesExt

CONSTANTS
    Ids,            \* the entries of the calendar, in its order
    CriticalIds,    \* those whose category is in CRITICAS
    TailLen,        \* MAX_POR_FUENTE of alerts_channel
    FirstDue,       \* when each entry is due at first
    MaxDay,         \* bound: days
    MaxRenewals,    \* bound: edits of the calendar
    MaxExpiryFaults \* bound: kills, boots without the time, appends that fail

ASSUME ExpiryAssumption ==
    /\ {MaxDay, MaxRenewals, MaxExpiryFaults} \subseteq Nat /\ TailLen \in Nat \ {0}
    /\ Ids \in Seq(Range(Ids)) /\ Ids # <<>> /\ FirstDue \in [Range(Ids) -> Nat]

VARIABLES
    day,       \* the true date
    lost,      \* does the clock of the node stand at the start of its time?
    due,       \* calendario.json: when each entry is due
    calSig,    \* does its signature verify, "none" when there is no calendar
    cursor,    \* cursor.json: the stage announced of each entry
    alerts,    \* alerts.jsonl, its last lines
    escalated, \* escalated.jsonl, its last lines
    worst,     \* the worst stage a line of alerts.jsonl ever told of an entry
    sent,      \* and of escalated.jsonl
    regFail,   \* the entries of which a line could not be appended (REG_FAIL)
    cycle,     \* a run of caducidad_watch
    renewals, expiryFaults

expiryVars == <<day, lost, due, calSig, cursor, alerts, escalated, worst, sent, regFail,
                cycle, renewals, expiryFaults>>

IdSet == Range(Ids)
NoCycle == [pc |-> "idle"]
VENCIDO == 4

ExpiryTypeOK ==
    /\ day \in 0..MaxDay /\ calSig \in {"none", "good", "bad"}
    /\ {cursor[e] : e \in IdSet} \cup {worst[e] : e \in IdSet} \subseteq 0..VENCIDO
    /\ Len(alerts) <= TailLen /\ Len(escalated) <= TailLen
    /\ regFail \subseteq IdSet
    /\ cycle.pc \in {"idle", "read", "entry", "escalate", "save"}

ExpiryInit ==
    /\ day \in 0..MaxDay /\ lost = FALSE /\ due = FirstDue /\ calSig \in {"none", "good"}
    /\ cursor = [e \in IdSet |-> 0] /\ alerts = <<>> /\ escalated = <<>>
    /\ worst = cursor /\ sent = cursor /\ regFail = {} /\ cycle = NoCycle
    /\ renewals = 0 /\ expiryFaults \in 0..MaxExpiryFaults

-----------------------------------------------------------------------------
Now == IF lost THEN 0 ELSE day

Days ==
    /\ day < MaxDay /\ day' = day + 1
    /\ UNCHANGED <<lost, due, calSig, cursor, alerts, escalated, worst, sent, regFail,
                   cycle, renewals, expiryFaults>>

\* The node boots without the time; clock_sync gives it back.
LoseClock ==
    /\ ~lost /\ lost' = TRUE
    /\ expiryFaults < MaxExpiryFaults /\ expiryFaults' = expiryFaults + 1
    /\ UNCHANGED <<day, due, calSig, cursor, alerts, escalated, worst, sent, regFail,
                   cycle, renewals>>

SetDate ==
    /\ lost /\ lost' = FALSE
    /\ UNCHANGED <<day, due, calSig, cursor, alerts, escalated, worst, sent, regFail,
                   cycle, renewals, expiryFaults>>

\* The operator puts a calendar, or gives an entry a new date; the signature
\* is a second file that follows.
Renew ==
    /\ renewals < MaxRenewals /\ renewals' = renewals + 1
    /\ \E e \in IdSet : due' = [due EXCEPT ![e] = @ + 2]
    /\ calSig' = "bad"
    /\ UNCHANGED <<day, lost, cursor, alerts, escalated, worst, sent, regFail, cycle,
                   expiryFaults>>

SignCalendar ==
    /\ calSig = "bad" /\ calSig' = "good"
    /\ UNCHANGED <<day, lost, due, cursor, alerts, escalated, worst, sent, regFail,
                   cycle, renewals, expiryFaults>>

-----------------------------------------------------------------------------
\* _etapa: 1 to 3 are the notices of 90, 60 and 30 days, 4 is VENCIDO.
Etapa(left) ==
    IF left < 0 THEN VENCIDO ELSE IF left <= 1 THEN 3
    ELSE IF left <= 2 THEN 2 ELSE IF left <= 3 THEN 1 ELSE 0

\* ALTA or MAXIMA.  (A doubtful clock lowers MAXIMA to ALTA only.)
Severe(e, stage) == stage = VENCIDO \/ (stage = 3 /\ e \in CriticalIds)

LastOf(s) == SubSeq(s, Max({1, Len(s) - TailLen + 1}), Len(s))
Worse(w, e, stage) == [w EXCEPT ![e] = Max({@, stage})]
ManipLine(now) == [id |-> "calendario", stage |-> 0, ts |-> now]

\* An append is made, or fails and is reported on stderr alone; the run goes
\* on in either case.
AppendDone == UNCHANGED <<regFail, expiryFaults>>
AppendFails(e) ==
    /\ expiryFaults < MaxExpiryFaults /\ expiryFaults' = expiryFaults + 1
    /\ regFail' = regFail \cup ({e} \cap IdSet)

\* A run loads the cursor and looks at the calendar.  One that does not verify
\* is told in every run.
StartCycle ==
    /\ cycle.pc = "idle"
    /\ cycle' = [pc |-> CASE calSig = "none" -> "save"
                          [] calSig = "bad" -> "escalate"
                          [] calSig = "good" -> "read",
                  now |-> Now, cur |-> cursor, due |-> due, i |-> 1, line |-> ManipLine(Now)]
    /\ \/ /\ alerts' = IF calSig = "bad" THEN LastOf(Append(alerts, ManipLine(Now)))
                       ELSE alerts
          /\ AppendDone
       \/ calSig = "bad" /\ AppendFails("calendario") /\ UNCHANGED alerts
    /\ UNCHANGED <<day, lost, due, calSig, cursor, escalated, worst, sent, renewals>>

\* The calendar that verified is opened again and read.  One that is being
\* edited may be torn: it counts as empty, and the cursor is emptied too.
ReadCalendar ==
    /\ cycle.pc = "read"
    /\ \/ cycle' = [cycle EXCEPT !.pc = "entry", !.due = due]
       \/ /\ calSig = "bad"
          /\ cycle' = [cycle EXCEPT !.pc = "save", !.cur = [e \in IdSet |-> 0]]
    /\ UNCHANGED <<day, lost, due, calSig, cursor, alerts, escalated, worst, sent,
                   regFail, renewals, expiryFaults>>

\* An entry whose stage is no worse than the cursor's is passed over; a better
\* one lowers the cursor.
Stage == Etapa(cycle.due[Ids[cycle.i]] - cycle.now)
NextEntry(c) == [c EXCEPT !.i = @ + 1, !.pc = IF cycle.i = Len(Ids) THEN "save" ELSE "entry"]
PassOver ==
    /\ cycle.pc = "entry" /\ Stage <= cycle.cur[Ids[cycle.i]]
    /\ cycle' = NextEntry([cycle EXCEPT !.cur[Ids[cycle.i]] = Stage])
    /\ UNCHANGED <<day, lost, due, calSig, cursor, alerts, escalated, worst, sent,
                   regFail, renewals, expiryFaults>>

\* Mutant of Announce: the cursor is set before the line is escalated.
AnnounceUnescalated ==
    /\ cycle.pc = "entry" /\ Stage > cycle.cur[Ids[cycle.i]]
    /\ LET e == Ids[cycle.i]
           line == [id |-> e, stage |-> Stage, ts |-> cycle.now]
       IN  /\ alerts' = LastOf(Append(alerts, line)) /\ worst' = Worse(worst, e, Stage)
           /\ AppendDone
           /\ cycle' = NextEntry([cycle EXCEPT !.cur[e] = Stage])
    /\ UNCHANGED <<day, lost, due, calSig, cursor, escalated, sent, renewals>>

Announce ==
    /\ cycle.pc = "entry" /\ Stage > cycle.cur[Ids[cycle.i]]
    /\ LET e == Ids[cycle.i]
           line == [id |-> e, stage |-> Stage, ts |-> cycle.now]
       IN  /\ \/ /\ alerts' = LastOf(Append(alerts, line)) /\ worst' = Worse(worst, e, Stage)
                 /\ AppendDone
              \/ AppendFails(e) /\ UNCHANGED <<alerts, worst>>
           /\ cycle' = IF Severe(e, Stage) THEN [cycle EXCEPT !.pc = "escalate", !.line = line]
                       ELSE NextEntry([cycle EXCEPT !.cur[e] = Stage])
    /\ UNCHANGED <<day, lost, due, calSig, cursor, escalated, sent, renewals>>

\* The line for the alerts is appended to the escalations; the cursor is set
\* whether it was or not.
Escalate ==
    /\ cycle.pc = "escalate"
    /\ LET line == cycle.line  e == line.id
       IN  /\ \/ /\ escalated' = LastOf(Append(escalated, line))
                 /\ sent' = IF e \in IdSet THEN Worse(sent, e, line.stage) ELSE sent
                 /\ AppendDone
              \/ AppendFails(e) /\ UNCHANGED <<escalated, sent>>
           /\ cycle' = IF e \in IdSet THEN NextEntry([cycle EXCEPT !.cur[e] = line.stage])
                       ELSE [cycle EXCEPT !.pc = "save"]
    /\ UNCHANGED <<day, lost, due, calSig, cursor, alerts, worst, renewals>>

SaveCursor ==
    /\ cycle.pc = "save" /\ cursor' = cycle.cur /\ cycle' = NoCycle
    /\ UNCHANGED <<day, lost, due, calSig, alerts, escalated, worst, sent, regFail,
                   renewals, expiryFaults>>

\* A run is killed.  A cursor that cannot be saved, which is passed over in
\* silence, leaves the same.
KillCycle ==
    /\ cycle.pc # "idle" /\ cycle' = NoCycle
    /\ expiryFaults < MaxExpiryFaults /\ expiryFaults' = expiryFaults + 1
    /\ UNCHANGED <<day, lost, due, calSig, cursor, alerts, escalated, worst, sent, regFail,
                   renewals>>

ExpiryCycle ==
    StartCycle \/ ReadCalendar \/ PassOver \/ Announce \/ Escalate \/ SaveCursor
ExpiryNext ==
    Days \/ LoseClock \/ SetDate \/ Renew \/ SignCalendar \/ ExpiryCycle \/ KillCycle

-----------------------------------------------------------------------------
\* The cursor never remembers an announcement that was not made, unless its
\* append failed: wherever a run is killed, an entry the cursor has at a stage
\* was told at that stage or a worse one, and escalated when the stage calls
\* for it.
CursorVouches ==
    \A e \in IdSet \ regFail :
        /\ cursor[e] <= worst[e]
        /\ Severe(e, cursor[e]) => sent[e] >= cursor[e] \/ sent[e] = VENCIDO

\* In the end: what is due in a calendar that verifies is escalated, although
\* the run that told it was killed, or the clock was lost; only an append that
\* failed is never made up for.
ExpiryTold ==
    \A e \in IdSet \ regFail : calSig = "good" /\ day > due[e] => sent[e] = VENCIDO

\* caducidad_watch line 201, a stage is told only if it is worse than "lo ya
\* avisado", what was already told: what the cursor has is what was told.
CursorIsWhatWasTold == \A e \in IdSet : cursor[e] <= worst[e]
=============================================================================
