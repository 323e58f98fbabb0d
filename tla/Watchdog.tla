------------------------------ MODULE Watchdog ------------------------------
(***************************************************************************)
(* liveness_watchdog: a process that feeds the hardware watchdog while the *)
(* node shows signs of life, and lets the hardware reset the node when it  *)
(* no longer does.  The signs are the dates of two files and the last      *)
(* verdict of self_integrity; a correction of the clock makes both files   *)
(* look old at once, and ends the grace of the start, which is measured by *)
(* the same clock.                                                         *)
(*                                                                         *)
(* A tick is PET_S, the pause of the loop.  layerd, the hardware and the   *)
(* writers of the two files are not part of this code; ages are counted up *)
(* to the point where they no longer matter.                               *)
(***************************************************************************)
EXTENDS Integers

CONSTANTS
    WdTimeout,    \* WD_TIMEOUT: ticks after which the hardware resets the node
    WdGrace,      \* WD_GRACE: ticks after the start in which it is fed anyway
    FailStreak,   \* WD_FAIL_STREAK
    HbAge,        \* the age that makes the heartbeat of layerd stale
    BeaconAge,    \* the age that makes the beacon stale
    HbEvery,      \* HB_INTERVAL of layerd
    BeaconEvery,  \* the interval of the beacon, with what launching it takes
    Relaunch,     \* ticks until layerd launches a feeder that ended
    MaxWdFaults,  \* bound: corrections of the clock, feeders killed with SIGKILL
    MaxResets     \* bound: resets of the node

ASSUME WatchdogAssumption ==
    /\ {WdTimeout, WdGrace, FailStreak, HbAge, BeaconAge, HbEvery, BeaconEvery,
        Relaunch, MaxWdFaults, MaxResets} \subseteq Nat
    /\ 0 \notin {WdTimeout, FailStreak, HbAge, BeaconAge, HbEvery, BeaconEvery, Relaunch}

VARIABLES
    armFlag,  \* WATCHDOG_ARMED or ANVOS_WD_ARM
    feeder,   \* the process: its mode, its counters
    hw,       \* the hardware: is it armed, ticks since it was fed
    hb, bc,   \* age of the heartbeat and of the beacon, as the files tell it
    hbDue, bcDue, \* ticks until their writers write again
    sealed,   \* the last verdict of self_integrity is SEALED
    hung,     \* layerd makes no progress and never will
    acts,     \* is the feeder yet to act in this tick?
    down,     \* ticks since the feeder ended
    excuse,   \* since the last feeding: was layerd stuck, or the feeder, or the
              \* layer not sealed?  (not in the code: what the property needs)
    wdFaults, resets

wdVars == <<armFlag, feeder, hw, hb, bc, hbDue, bcDue, sealed, hung, acts, down,
            excuse, wdFaults, resets>>

Upto(n, max) == IF n < max THEN n ELSE max
Less(n) == IF n > 0 THEN n - 1 ELSE 0
NoFeeder == [mode |-> "none"]
Disarmed == [on |-> FALSE, since |-> 0]

WdTypeOK ==
    /\ feeder.mode \in {"none", "armed", "disarmed", "stuck"}
    /\ hw.since \in 0..WdTimeout /\ hb \in 0..HbAge /\ bc \in 0..BeaconAge
    /\ {hw.on, sealed, hung, acts, armFlag, excuse} \subseteq BOOLEAN

WdInit ==
    /\ armFlag \in BOOLEAN /\ feeder = NoFeeder /\ hw = Disarmed
    /\ hb = HbAge /\ bc = BeaconAge /\ hbDue = 1 /\ bcDue = 1
    /\ sealed = TRUE /\ hung = FALSE /\ acts = FALSE /\ down = 0 /\ excuse = FALSE
    /\ wdFaults = 0 /\ resets = 0

-----------------------------------------------------------------------------
\* What is not part of this code.  The writers write when they are due; a
\* stuck layerd writes nothing, launches nothing and no longer has the
\* beacon launched.
WriteHeartbeat ==
    /\ ~hung /\ hbDue = 0 /\ hb' = 0 /\ hbDue' = HbEvery
    /\ UNCHANGED <<excuse, armFlag, feeder, hw, bc, bcDue, sealed, hung, acts, down, wdFaults, resets>>

WriteBeacon ==
    /\ ~hung /\ bcDue = 0 /\ bc' = 0 /\ bcDue' = BeaconEvery
    /\ UNCHANGED <<excuse, armFlag, feeder, hw, hb, hbDue, sealed, hung, acts, down, wdFaults, resets>>

\* A tick passes once everybody who is due has acted.
WdTick ==
    /\ ~acts /\ (~hung => hbDue > 0 /\ bcDue > 0)
    /\ hw.since < WdTimeout /\ (feeder.mode = "none" /\ ~hung => down < Relaunch)
    /\ hw' = IF hw.on THEN [hw EXCEPT !.since = @ + 1] ELSE hw
    /\ hb' = Upto(hb + 1, HbAge) /\ bc' = Upto(bc + 1, BeaconAge)
    /\ hbDue' = Less(hbDue) /\ bcDue' = Less(bcDue)
    /\ acts' = (feeder.mode \in {"armed", "disarmed"})
    /\ down' = IF feeder.mode = "none" THEN Upto(down + 1, Relaunch) ELSE 0
    /\ feeder' = IF feeder.mode = "armed" THEN [feeder EXCEPT !.age = Upto(@ + 1, WdGrace)]
                 ELSE feeder
    /\ UNCHANGED <<excuse, armFlag, sealed, hung, wdFaults, resets>>

\* clock_sync takes the clock forward, by years.
Jump ==
    /\ wdFaults < MaxWdFaults /\ wdFaults' = wdFaults + 1
    /\ hb' = HbAge /\ bc' = BeaconAge
    /\ feeder' = IF feeder.mode = "armed" THEN [feeder EXCEPT !.age = WdGrace] ELSE feeder
    /\ UNCHANGED <<excuse, armFlag, hw, hbDue, bcDue, sealed, hung, acts, down, resets>>

Hang ==
    /\ ~hung /\ hung' = TRUE
    /\ excuse' = TRUE
    /\ UNCHANGED <<armFlag, feeder, hw, hb, bc, hbDue, bcDue, sealed, acts, down, wdFaults, resets>>

\* The feeder itself no longer runs, without having ended.
Stick ==
    /\ feeder.mode = "armed" /\ feeder' = [mode |-> "stuck"] /\ acts' = FALSE
    /\ excuse' = TRUE
    /\ UNCHANGED <<armFlag, hw, hb, bc, hbDue, bcDue, sealed, hung, down, wdFaults, resets>>

\* self_integrity finds the layer changed, or sealed again.
Attest ==
    /\ sealed' = ~sealed /\ excuse' = (excuse \/ sealed)
    /\ UNCHANGED <<armFlag, feeder, hw, hb, bc, hbDue, bcDue, hung, acts, down, wdFaults, resets>>

SetArmFlag ==
    /\ armFlag' = ~armFlag
    /\ UNCHANGED <<excuse, feeder, hw, hb, bc, hbDue, bcDue, sealed, hung, acts, down, wdFaults, resets>>

\* The hardware resets the node: files and flag stay, everything starts anew.
Reset ==
    /\ hw.on /\ hw.since = WdTimeout /\ resets < MaxResets /\ resets' = resets + 1
    /\ feeder' = NoFeeder /\ hw' = Disarmed /\ hung' = FALSE /\ acts' = FALSE /\ down' = 0
    /\ hb' = HbAge /\ bc' = BeaconAge /\ hbDue' = 1 /\ bcDue' = 1
    /\ excuse' = ~sealed
    /\ UNCHANGED <<armFlag, sealed, wdFaults>>

-----------------------------------------------------------------------------
\* layerd launches the feeder.  The flag is read once, at the import; opening
\* the device arms the hardware; without a device the run ends at once.
Launch ==
    /\ feeder.mode = "none" /\ ~hung /\ down = Relaunch
    /\ \/ ~armFlag /\ feeder' = [mode |-> "disarmed"] /\ acts' = TRUE /\ UNCHANGED hw
       \/ /\ armFlag /\ feeder' = [mode |-> "armed", age |-> 0, fails |-> 0, soltado |-> FALSE]
          /\ hw' = [on |-> TRUE, since |-> 0] /\ acts' = TRUE
       \/ armFlag /\ ~hw.on /\ acts' = FALSE /\ UNCHANGED <<feeder, hw>>
    /\ down' = 0
    /\ UNCHANGED <<excuse, armFlag, hb, bc, hbDue, bcDue, sealed, hung, wdFaults, resets>>

Alive == hb < HbAge /\ sealed /\ bc < BeaconAge

\* Whether it feeds: while alive, within the grace, and until the failures in
\* a row are FailStreak.
InGrace == feeder.age < WdGrace
Feeds(fails) == Alive \/ InGrace \/ fails < FailStreak

\* A mutant: only failures are counted, and what is counted decides.
PassArmedCountsOn ==
    /\ feeder.mode = "armed" /\ acts /\ acts' = FALSE
    /\ LET fails == IF Alive THEN feeder.fails ELSE Upto(feeder.fails + 1, FailStreak)
           feeds == InGrace \/ fails < FailStreak
       IN  /\ excuse' = IF feeds THEN hung \/ ~sealed ELSE excuse
           /\ hw' = IF feeds THEN [hw EXCEPT !.since = 0] ELSE hw
           /\ feeder' = [feeder EXCEPT !.fails = fails]
    /\ UNCHANGED <<armFlag, hb, bc, hbDue, bcDue, sealed, hung, down, wdFaults, resets>>

\* One pass of run_armed.
PassArmed ==
    /\ feeder.mode = "armed" /\ acts /\ acts' = FALSE
    /\ LET fails == IF Alive THEN 0 ELSE Upto(feeder.fails + 1, FailStreak)
       IN  /\ excuse' = IF Feeds(fails) THEN hung \/ ~sealed ELSE excuse
           /\ hw' = IF Feeds(fails) THEN [hw EXCEPT !.since = 0] ELSE hw
           /\ feeder' = [feeder EXCEPT !.fails = fails,
                                       !.soltado = ~Alive /\ (@ \/ ~Feeds(fails))]
    /\ UNCHANGED <<armFlag, hb, bc, hbDue, bcDue, sealed, hung, down, wdFaults, resets>>

\* One pass of run_disarmed, which only reports.
PassDisarmed ==
    /\ feeder.mode = "disarmed" /\ acts /\ acts' = FALSE
    /\ UNCHANGED <<excuse, armFlag, feeder, hw, hb, bc, hbDue, bcDue, sealed, hung, down,
                   wdFaults, resets>>

\* layerd stops or relieves it: the signal ends it by way of the finally,
\* which disarms.
Terminate ==
    /\ feeder.mode \in {"armed", "disarmed"}
    /\ feeder' = NoFeeder /\ hw' = Disarmed /\ acts' = FALSE /\ down' = 0
    /\ UNCHANGED <<excuse, armFlag, hb, bc, hbDue, bcDue, sealed, hung, wdFaults, resets>>

\* SIGKILL: no finally, the hardware stays armed.
KillFeeder ==
    /\ feeder.mode \in {"armed", "stuck"} /\ wdFaults < MaxWdFaults
    /\ wdFaults' = wdFaults + 1
    /\ feeder' = NoFeeder /\ acts' = FALSE /\ down' = 0
    /\ UNCHANGED <<excuse, armFlag, hw, hb, bc, hbDue, bcDue, sealed, hung, resets>>

WdEnv == WriteHeartbeat \/ WriteBeacon \/ WdTick \/ Reset
FeederStep == Launch \/ PassArmed \/ PassDisarmed
WdNext ==
    \/ WdEnv \/ FeederStep \/ Terminate \/ KillFeeder
    \/ Jump \/ Hang \/ Stick \/ Attest \/ SetArmFlag

-----------------------------------------------------------------------------
\* The hardware resets no node that is alive: not because the clock was
\* corrected, not in the start, not because the feeder was relieved or killed
\* and launched again (for the one launched with the flag gone, see below).
NoSpuriousReset ==
    hw.on /\ hw.since = WdTimeout => excuse \/ feeder.mode = "disarmed"

\* liveness_watchdog 25, "Cero riesgo: no puede reiniciar el nodo": the code
\* does not disarm what a feeder that was killed left armed.
DisarmedNeverResets == feeder.mode = "disarmed" => ~hw.on

\* A node whose layerd is stuck is reset, as long as the hardware is armed.
HangResets == hung /\ hw.on ~> ~hw.on \/ hw.since = WdTimeout
=============================================================================
