------------------------------- MODULE Layerd -------------------------------
(***************************************************************************)
(* The resident supervisor of the node, services/anvos-layerd.py.          *)
(*                                                                         *)
(* One process reads the manifest once and then, about once a second,      *)
(* visits every service in manifest order: it starts what is due (after    *)
(* verifying its signature), reaps what ended, kills a periodic service    *)
(* that overran, and every HbInterval seconds appends a heartbeat.         *)
(*                                                                         *)
(* Time.  The loop reads the clock once per pass ("now", line 405) and     *)
(* uses that value for the whole pass, but spawn() reads the clock again.  *)
(* The model keeps every date relative to the pass's now:                  *)
(*   wait[i]  = next_run - now       (0: due)                              *)
(*   left[i]  = started_at + MAX_RUNTIME + 1 - now   (0: overran)          *)
(*   lag      = clock - now, the time this pass has taken so far           *)
(* and shifts them when the next pass reads the clock again.  Only a       *)
(* signature verification (it runs external verifiers with timeouts) and   *)
(* the sleep take time.                                                    *)
(*                                                                         *)
(* A crash of the supervisor leaves its children running: they are not in  *)
(* any process group that dies with it, and the next instance knows        *)
(* nothing of them.  The model counts the processes of every service that  *)
(* the machine runs, whoever started them.                                 *)
(***************************************************************************)
EXTENDS Integers, FiniteSets

CONSTANTS
    N,            \* number of manifest lines
    Long,         \* services with a loop of their own (LONG_RUNNING)
    Optional,     \* services that carry a module label (4th manifest field)
    Iv,           \* manifest interval of each service
    HbInterval,   \* HB_INTERVAL
    MaxRuntime,   \* MAX_RUNTIME
    BackoffBase,  \* BACKOFF_BASE
    BackoffMax,   \* BACKOFF_MAX
    Stagger,      \* seconds between the first start of two services
    VerifyMax,    \* longest time one verification takes
    MaxCrashes,   \* bound: crashes of the supervisor in a behaviour
    MaxMisses     \* bound: heartbeats in a row whose write fails

Services == 1..N

ASSUME NAssumption == N \in Nat \ {0}
ASSUME KindAssumption == Long \subseteq Services /\ Optional \subseteq Services
ASSUME IvAssumption == Iv \in [Services -> Nat]
ASSUME TimeAssumption ==
    /\ HbInterval \in Nat \ {0}
    /\ MaxRuntime \in Nat
    /\ Stagger \in Nat
    /\ VerifyMax \in Nat
ASSUME BackoffAssumption ==
    /\ BackoffBase \in Nat \ {0}
    /\ BackoffMax \in Nat
    /\ BackoffBase <= BackoffMax
ASSUME FaultAssumption == MaxCrashes \in Nat /\ MaxMisses \in Nat

VARIABLES
    phase,      \* where the supervisor is in its loop
    cur,        \* the service it is visiting, N+1 when the pass is over
    loaded,     \* the services in st: the core and the enabled modules
    stopReq,    \* SIGTERM or SIGINT received (_run is False)
    lag,        \* clock - now
    sinceBeat,  \* clock - last_hb
    silent,     \* clock - now of the pass that wrote this process's last line
                \* of the heartbeat file (its start, when it wrote none); the
                \* line's own ts is the clock, which is no earlier
    misses,     \* heartbeats whose write failed since then
    proc,       \* s["proc"]: none, running, or ended with a return code
    wait,       \* s["next_run"] - now
    left,       \* time left of the runtime allowance
    backoff,    \* s["backoff"]
    sigOk,      \* s["sig_ok"]: verdict of the last verification
    seen,       \* what the verification of the start under way found in the
                \* files; absent when no start is under way
    file,       \* what a verification of the service's files would say
    copies,     \* processes of each service that run on the machine
    crashes     \* crashes so far

loopVars == <<phase, cur, loaded, stopReq>>
timeVars == <<lag, sinceBeat, silent, misses>>
svcVars  == <<proc, wait, left, backoff, sigOk, seen>>
envVars  == <<file, copies, crashes>>
vars     == <<loopVars, timeVars, svcVars, envVars>>

Phases   == {"down", "visit", "spawn", "sleep", "terminated"}
Verdicts == {"valid", "invalid", "absent"}     \* True, False, None
Ended    == {"rc0", "rc15", "rcX"}             \* 0, -15, any other code
Procs    == {"none", "run"} \cup Ended

Lesser(a, b)  == IF a < b THEN a ELSE b
Greater(a, b) == IF a < b THEN b ELSE a
Minus(a, b)   == IF a < b THEN 0 ELSE a - b

\* Mutant of Doubled: the backoff is never capped.
DoubledForEver(b) == 2 * b

Doubled(b) == Lesser(2 * b, BackoffMax)
All(v)     == [i \in Services |-> v]

-----------------------------------------------------------------------------
\* The next service is visited.
Advance == cur' = cur + 1 /\ UNCHANGED <<loaded, stopReq>>

Here(i) == phase = "visit" /\ cur = i /\ i \in loaded

Due(i) == Here(i) /\ proc[i] = "none" /\ wait[i] = 0

Elapse(d) ==
    /\ lag' = lag + d /\ sinceBeat' = sinceBeat + d /\ silent' = silent + d
    /\ UNCHANGED misses

\* Processes of service i the supervisor holds: the one in s["proc"], if it
\* has not ended.
Held(i) == IF proc[i] = "run" THEN 1 ELSE 0

-----------------------------------------------------------------------------
Init ==
    /\ phase = "down" /\ cur = 1 /\ loaded = {} /\ stopReq = FALSE
    /\ lag = 0 /\ sinceBeat = HbInterval /\ silent = 0 /\ misses = 0
    /\ proc = All("none") /\ wait = All(0) /\ left = All(0)
    /\ backoff = All(BackoffBase) /\ sigOk = All("absent")
    /\ seen = "absent"
    /\ file \in [Services -> Verdicts]
    /\ copies = All(0)
    /\ crashes = 0

\* The process is gone and its memory with it.
GoDown ==
    /\ phase' = "down" /\ cur' = 1 /\ loaded' = {} /\ stopReq' = FALSE
    /\ lag' = 0 /\ sinceBeat' = HbInterval /\ silent' = 0 /\ misses' = 0
    /\ proc' = All("none") /\ wait' = All(0) /\ left' = All(0)
    /\ backoff' = All(BackoffBase) /\ sigOk' = All("absent")
    /\ seen' = "absent"

\* The supervisor starts: it reads the manifest and the profile.  The
\* modules it loads are those a validly signed profile enables (none, when
\* the profile is missing or does not verify); the core is always loaded.
\* last_hb = 0 makes the first heartbeat due in the first pass.
Boot ==
    /\ phase = "down"
    /\ phase' = "visit"
    /\ \E mods \in SUBSET Optional : loaded' = (Services \ Optional) \cup mods
    /\ wait' = [i \in Services |->
                    Stagger * Cardinality({j \in loaded' : j < i})]
    /\ UNCHANGED <<cur, stopReq, timeVars, proc, left, backoff, sigOk, seen,
                   envVars>>

\* Nothing to do for service i in this pass.
Skip(i) ==
    /\ phase = "visit" /\ cur = i
    /\ \/ i \notin loaded
       \/ proc[i] = "none" /\ wait[i] > 0
       \/ proc[i] = "run" /\ (i \in Long \/ left[i] > 0)
    /\ Advance
    /\ UNCHANGED <<phase, timeVars, svcVars, envVars>>

\* Mutant of VerifyAccepts: a verdict that was good once is not made again.
VerifyOnce(i, d) ==
    /\ Due(i) /\ (sigOk[i] = "valid" \/ file[i] = "valid")
    /\ Elapse(d)
    /\ sigOk' = [sigOk EXCEPT ![i] = "valid"]
    /\ seen' = IF sigOk[i] = "valid" THEN seen ELSE file[i]
    /\ phase' = "spawn"
    /\ UNCHANGED <<cur, loaded, stopReq, proc, wait, left, backoff, envVars>>

\* spawn(): the signature is valid, the process is started next.
VerifyAccepts(i, d) ==
    /\ Due(i) /\ file[i] = "valid"
    /\ Elapse(d)
    /\ sigOk' = [sigOk EXCEPT ![i] = "valid"]
    /\ seen' = file[i]
    /\ phase' = "spawn"
    /\ UNCHANGED <<cur, loaded, stopReq, proc, wait, left, backoff, envVars>>

\* spawn(): no valid signature, strict fail-closed.  The retry date spawn()
\* sets is kept for a periodic service; the loop overrides it with the
\* backoff (unchanged here) for a long-running one.
VerifyBlocks(i, d) ==
    /\ Due(i) /\ file[i] # "valid"
    /\ Elapse(d)
    /\ sigOk' = [sigOk EXCEPT ![i] = file[i]]
    /\ wait' = [wait EXCEPT ![i] =
                    IF i \in Long THEN backoff[i]
                                  ELSE lag' + Greater(Iv[i], BackoffBase)]
    /\ Advance
    /\ UNCHANGED <<phase, proc, left, backoff, seen, envVars>>

\* spawn(): Popen succeeds.
Popen(i) ==
    /\ phase = "spawn" /\ cur = i
    /\ phase' = "visit"
    /\ proc' = [proc EXCEPT ![i] = "run"]
    /\ left' = [left EXCEPT ![i] = IF i \in Long THEN 0
                                                 ELSE lag + MaxRuntime + 1]
    /\ copies' = [copies EXCEPT ![i] = @ + 1]
    /\ seen' = "absent"
    /\ Advance
    /\ UNCHANGED <<timeVars, wait, backoff, sigOk, file, crashes>>

\* spawn(): the output file or Popen raises an exception.
PopenFails(i) ==
    /\ phase = "spawn" /\ cur = i
    /\ phase' = "visit"
    /\ backoff' = [backoff EXCEPT ![i] = Doubled(backoff[i])]
    /\ wait' = [wait EXCEPT ![i] = IF i \in Long THEN backoff'[i]
                                                 ELSE lag + backoff'[i]]
    /\ seen' = "absent"
    /\ Advance
    /\ UNCHANGED <<timeVars, proc, left, sigOk, envVars>>

\* reap(): the backoff is doubled after a failure, reset otherwise (the
\* counters ok, stopped and fail are left out).  The loop then dates the next
\* start: the backoff for a long-running service, the interval for a
\* periodic one.
Retire(i, failed) ==
    /\ backoff' = [backoff EXCEPT ![i] = IF failed THEN Doubled(backoff[i])
                                                   ELSE BackoffBase]
    /\ proc' = [proc EXCEPT ![i] = "none"]
    /\ left' = [left EXCEPT ![i] = 0]
    /\ wait' = [wait EXCEPT ![i] = IF i \in Long THEN backoff'[i] ELSE Iv[i]]
    /\ Advance
    /\ UNCHANGED <<phase, timeVars, sigOk, seen, file, crashes>>

\* Mutant of Reap: a child stopped with SIGTERM is not retired.
ReapOnlyExits(i) ==
    /\ Here(i) /\ proc[i] \in {"rc0", "rcX"}
    /\ Retire(i, proc[i] = "rcX")
    /\ UNCHANGED copies

Reap(i) ==
    /\ Here(i) /\ proc[i] \in Ended
    /\ Retire(i, proc[i] = "rcX")
    /\ UNCHANGED copies

\* Mutant of KillHung: the process is given up without being killed.
GiveUpHung(i) ==
    /\ Here(i) /\ i \notin Long
    /\ proc[i] = "run" /\ left[i] = 0
    /\ Retire(i, TRUE)
    /\ UNCHANGED copies

\* A periodic service that runs longer than MaxRuntime is killed and counted
\* as a failure.
KillHung(i) ==
    /\ Here(i) /\ i \notin Long
    /\ proc[i] = "run" /\ left[i] = 0
    /\ Retire(i, TRUE)
    /\ copies' = [copies EXCEPT ![i] = @ - 1]

\* Mutant of BeatDue: off by one.
BeatLate == sinceBeat - lag > HbInterval

\* A heartbeat is due when now - last_hb >= HB_INTERVAL.
BeatDue == sinceBeat - lag >= HbInterval

\* heartbeat(): the line is appended; or the write fails and nobody is told.
\* (The rotation of the file is left out.)
Heartbeat ==
    \/ silent' = lag /\ misses' = 0
    \/ misses < MaxMisses /\ misses' = misses + 1 /\ UNCHANGED silent

\* End of the pass: when a heartbeat is due, last_hb is the pass's now,
\* whether the line was written or not.
EndPass ==
    /\ phase = "visit" /\ cur = N + 1
    /\ phase' = "sleep"
    /\ \/ BeatDue /\ Heartbeat /\ sinceBeat' = lag
       \/ ~BeatDue /\ UNCHANGED <<sinceBeat, silent, misses>>
    /\ UNCHANGED <<cur, loaded, stopReq, lag, svcVars, envVars>>

\* Mutant of NextPass: the runtime allowance starts again at every pass.
NextPassRenews ==
    /\ phase = "sleep" /\ ~stopReq
    /\ phase' = "visit" /\ cur' = 1
    /\ lag' = 0
    /\ sinceBeat' = sinceBeat + 1 /\ silent' = silent + 1
    /\ wait' = [i \in Services |-> Minus(wait[i], lag + 1)]
    /\ UNCHANGED <<loaded, stopReq, misses, proc, left, backoff, sigOk, seen,
                   envVars>>

\* time.sleep(1), then the loop condition holds and the clock is read.
NextPass ==
    /\ phase = "sleep" /\ ~stopReq
    /\ phase' = "visit" /\ cur' = 1
    /\ lag' = 0
    /\ sinceBeat' = sinceBeat + 1 /\ silent' = silent + 1
    /\ wait' = [i \in Services |-> Minus(wait[i], lag + 1)]
    /\ left' = [i \in Services |-> Minus(left[i], lag + 1)]
    /\ UNCHANGED <<loaded, stopReq, misses, proc, backoff, sigOk, seen, envVars>>

\* Mutant of Terminate: the children are waited for without a limit.
TerminateWaits ==
    /\ phase = "sleep" /\ stopReq
    /\ \A i \in Services : proc[i] # "run"
    /\ phase' = "terminated"
    /\ UNCHANGED <<cur, loaded, stopReq, timeVars, svcVars, envVars>>

\* time.sleep(1), then _run is False: SIGTERM is sent to every live child.
\* What a child does with it is the child's business (ServiceEnds).
Terminate ==
    /\ phase = "sleep" /\ stopReq
    /\ phase' = "terminated"
    /\ UNCHANGED <<cur, loaded, stopReq, timeVars, svcVars, envVars>>

\* One second later the survivors are killed, a last heartbeat is written
\* and the process exits.
KillSurvivors ==
    /\ phase = "terminated"
    /\ copies' = [i \in Services |-> copies[i] - Held(i)]
    /\ GoDown
    /\ UNCHANGED <<file, crashes>>

-----------------------------------------------------------------------------
\* The environment.

\* The supervisor dies (uncaught exception, SIGKILL, out of memory) without
\* running its shutdown: the running children live on.
Crash ==
    /\ phase # "down" /\ crashes < MaxCrashes
    /\ crashes' = crashes + 1
    /\ GoDown
    /\ UNCHANGED <<file, copies>>

\* SIGTERM or SIGINT reaches the supervisor.
StopSignal ==
    /\ phase # "down" /\ ~stopReq
    /\ stopReq' = TRUE
    /\ UNCHANGED <<phase, cur, loaded, timeVars, svcVars, envVars>>

\* A service ends: by itself, by a crash, or stopped with SIGTERM.
ServiceEnds(i, rc) ==
    /\ proc[i] = "run"
    /\ proc' = [proc EXCEPT ![i] = rc]
    /\ copies' = [copies EXCEPT ![i] = @ - 1]
    /\ UNCHANGED <<loopVars, timeVars, wait, left, backoff, sigOk, seen, file,
                   crashes>>

\* A process that no supervisor holds ends.
OrphanEnds(i) ==
    /\ copies[i] > Held(i)
    /\ copies' = [copies EXCEPT ![i] = @ - 1]
    /\ UNCHANGED <<loopVars, timeVars, svcVars, file, crashes>>

\* The files of a service are replaced, damaged, removed or signed again.
FilesChange(i, v) ==
    /\ file[i] # v
    /\ file' = [file EXCEPT ![i] = v]
    /\ UNCHANGED <<loopVars, timeVars, svcVars, copies, crashes>>

-----------------------------------------------------------------------------
Visit(i) ==
    \/ Skip(i) \/ Reap(i) \/ KillHung(i) \/ Popen(i) \/ PopenFails(i)
    \/ \E d \in 0..VerifyMax : VerifyAccepts(i, d) \/ VerifyBlocks(i, d)

Loop ==
    \/ \E i \in Services : Visit(i)
    \/ EndPass \/ NextPass \/ Terminate \/ KillSurvivors

Env ==
    \/ Boot \/ Crash \/ StopSignal
    \/ \E i \in Services :
          \/ OrphanEnds(i)
          \/ \E rc \in Ended : ServiceEnds(i, rc)
          \/ \E v \in Verdicts : FilesChange(i, v)

Next == Loop \/ Env

Spec == Init /\ [][Next]_vars

\* The loop of a live supervisor keeps going, and a Popen that is tried again
\* and again does not fail for ever.  Nothing is assumed of the services, of
\* the files, or of who starts the supervisor.
FairSpec ==
    /\ Spec
    /\ WF_vars(Loop)
    /\ \A i \in Services : SF_vars(Popen(i))

-----------------------------------------------------------------------------
(***************************************************************************)
(* Properties.                                                             *)
(***************************************************************************)

\* Types of the loop's state.
TypeOK ==
    /\ phase \in Phases /\ cur \in 1..(N + 1) /\ loaded \subseteq Services
    /\ stopReq \in BOOLEAN
    /\ lag \in Nat /\ sinceBeat \in Nat /\ silent \in Nat /\ misses \in Nat
    /\ proc \in [Services -> Procs]
    /\ wait \in [Services -> Nat] /\ left \in [Services -> Nat]
    /\ backoff \in [Services -> BackoffBase..BackoffMax]
    /\ sigOk \in [Services -> Verdicts] /\ file \in [Services -> Verdicts]
    /\ seen \in Verdicts
    /\ copies \in [Services -> Int] /\ crashes \in Nat

\* The longest a heartbeat may be late when its write does not fail: the
\* date kept in last_hb is the stale now of its pass, and the pass that
\* finds it not yet due sleeps one second.
BeatSpan == HbInterval + 2 * (N * VerifyMax)

\* The last line of a live supervisor in the heartbeat file is never older
\* than HB_INTERVAL plus the time two passes may take, for every write that
\* failed since and one more: the loop swallows a failed write and waits a
\* whole interval before it tries again (lines 396-400, 433-436).  The
\* watchers that read the heartbeat's age (120 s in vigias_watch) rely on
\* such a bound.
HeartbeatBound ==
    phase \in {"visit", "spawn", "sleep"} => silent <= (misses + 1) * BeatSpan

\* No service runs twice, but for what crashes left behind: however starts,
\* exits, kills of hung processes, clean shutdowns and restarts interleave,
\* the machine runs the process the supervisor holds and at most one more
\* for every crash (lines 407-432, 438-450).
CopiesBounded == \A i \in Services : copies[i] <= crashes + Held(i)

\* The loop never schedules a service further away than its interval or the
\* greatest backoff, whatever failed before: one failure after the other
\* does not push the next attempt out of reach (lines 323, 339-340, 358,
\* 413-427).
RetryBound ==
    \A i \in Services :
        wait[i] <= Greater(Stagger * N,
                           N * VerifyMax + Greater(Iv[i], BackoffMax))

\* Strict fail-closed: a process starts only when the files of the service
\* were looked at for this very start and found valid.  A verdict of an
\* earlier start does not count, and an absent signature or verifier (None)
\* blocks as much as an invalid one (lines 315-324).
FailClosed ==
    [][\A i \in Services :
          (proc[i] # "run" /\ proc'[i] = "run") => seen = "valid"]_vars

\* A service that is loaded and whose files stay valid runs again and again
\* under a supervisor that stays up, however often it crashes, hangs or is
\* stopped.
Revived ==
    \A i \in Services :
        <>[](phase # "down" /\ i \in loaded /\ file[i] = "valid")
            => []<>(proc[i] = "run")

\* A periodic service that never ends by itself does not stay for ever in
\* the supervisor's hands: it is killed (lines 422-427).
HungKilled ==
    \A i \in Services \ Long : proc[i] = "run" ~> proc[i] # "run"

\* SIGTERM brings the supervisor down, even with children that ignore it.
StopCompletes == stopReq ~> phase = "down"

\* What the comment at lines 351-353 says of a service stopped with SIGTERM
\* by a promotion: no backoff, the respawn is immediate.  (The code resets
\* the backoff to its base and then waits for it, or for the interval.)
RelayImmediate ==
    [][\A i \in Services :
          (proc[i] = "rc15" /\ proc'[i] = "none" /\ phase' # "down")
              => wait'[i] = 0]_vars

=============================================================================
