------------------------------- MODULE Clock -------------------------------
(***************************************************************************)
(* The clock of a node without a source of time: clock_sync, which jumps   *)
(* forward to the latest time it has evidence of and writes the hardware   *)
(* clock, and clock_watch, which only reports.                             *)
(*                                                                         *)
(* A tick is the half minute after which layerd kills a run.  The clock of *)
(* a board that lost its time starts at 0.  The true time, the board, the  *)
(* peers and the other writers of /persist are not part of this code.      *)
(***************************************************************************)
EXTENDS StateWatch, FiniteSetsExt

CONSTANTS
    Floor,          \* FLOOR_EPOCH: no clock is right before it
    Grace,          \* GRACE_S: a lag that is left alone
    SkewWarn,       \* SKEW_WARN_S: a difference to the peers worth a warning
    Files,          \* files whose times are looked at
    MaxReal,        \* bound: the true time
    MaxBoots,       \* bound: boots
    MaxClockFaults  \* bound: calls of date or hwclock that fail, kills,
                    \* peers that lose their time

ClockKeys == {"floor", "backward", "peers"}

ASSUME ClockAssumption ==
    /\ {Floor, MaxReal, MaxBoots, MaxClockFaults} \subseteq Nat
    /\ Floor < MaxReal /\ MaxBoots > 0
    /\ Grace \in Nat /\ Grace > 1 /\ SkewWarn \in Nat \ {0}
    /\ ClockKeys \subseteq WatchKeys

VARIABLES
    real,     \* the true time
    clock,    \* the clock of the system
    rtc,      \* the clock of the hardware
    battery,  \* does the hardware keep it without power?
    boot,     \* which boot this is
    mtime,    \* when each file was written, by the clock of then
    beacon,   \* the latest time a peer declared, 0 when there is none
    sync,     \* a run of clock_sync
    synced,   \* its last verdict
    setOk,    \* did the last call of date set the clock?
    clockFaults

clockVars == <<real, clock, rtc, battery, boot, mtime, beacon, sync, synced, setOk,
               clockFaults>>

NoSync == [pc |-> "idle"]
Own == Max({0} \cup {mtime[f] : f \in Files})
Reference == Max({Floor, Own, beacon})

ClockTypeOK ==
    /\ {real, clock, rtc, beacon} \cup {mtime[f] : f \in Files} \subseteq 0..MaxReal
    /\ battery \in BOOLEAN /\ boot \in 1..MaxBoots /\ clockFaults \in 0..MaxClockFaults
    /\ sync.pc \in {"idle", "survey", "set", "rtc"}
    /\ synced \in {"none", "RELOJ_OK", "RELOJ_CORREGIDO", "CORRECCION_PENDIENTE"}

ClockInit ==
    /\ real = Floor + 1 /\ clock \in {0, real} /\ rtc = clock /\ battery \in BOOLEAN
    /\ boot = 1 /\ mtime = [f \in Files |-> 0] /\ beacon = 0
    /\ sync = NoSync /\ synced = "none" /\ setOk = TRUE /\ clockFaults = 0

-----------------------------------------------------------------------------
\* Half a minute passes.  A run that saw one pass is killed before the next.
Tick ==
    /\ real < MaxReal /\ (sync.pc # "idle" => sync.ticks = 0)
    /\ real' = real + 1 /\ clock' = clock + 1 /\ rtc' = rtc + 1
    /\ sync' = IF sync.pc = "idle" THEN sync ELSE [sync EXCEPT !.ticks = 1]
    /\ UNCHANGED <<battery, boot, mtime, beacon, synced, setOk, clockFaults>>

\* A file is written, and dated with the clock as it is: what is rewritten
\* before the correction loses the date it had.
WriteFile ==
    /\ \E f \in Files : mtime' = [mtime EXCEPT ![f] = clock]
    /\ UNCHANGED <<real, clock, rtc, battery, boot, beacon, sync, synced, setOk, clockFaults>>

\* A peer pushes a beacon.  Its clock is right, or lost its time too.
Beacon ==
    /\ \/ beacon' = real /\ UNCHANGED clockFaults
       \/ /\ clockFaults < MaxClockFaults /\ clockFaults' = clockFaults + 1
          /\ beacon' = 0
    /\ UNCHANGED <<real, clock, rtc, battery, boot, mtime, sync, synced, setOk>>

\* The node is switched off and on: the kernel takes the time of the hardware.
Boot ==
    /\ boot < MaxBoots /\ boot' = boot + 1
    /\ rtc' = IF battery THEN rtc ELSE 0
    /\ clock' = rtc' /\ sync' = NoSync
    /\ UNCHANGED <<real, battery, mtime, beacon, synced, setOk, clockFaults>>

BatteryDies ==
    /\ battery /\ battery' = FALSE
    /\ UNCHANGED <<real, clock, rtc, boot, mtime, beacon, sync, synced, setOk, clockFaults>>

-----------------------------------------------------------------------------
StartSync ==
    /\ sync.pc = "idle"
    /\ sync' = [pc |-> "survey", now |-> clock, ref |-> 0, ticks |-> 0]
    /\ UNCHANGED <<real, clock, rtc, battery, boot, mtime, beacon, synced, setOk, clockFaults>>

\* A mutant: any difference is corrected.
Differs(now, ref) == now < ref - Grace \/ now > ref + Grace

\* The files and beacons are looked through; only a clock that lags is set.
Lags(now, ref) == now < ref - Grace
Survey ==
    /\ sync.pc = "survey"
    /\ sync' = [sync EXCEPT !.pc = IF Lags(sync.now, Reference) THEN "set" ELSE "rtc",
                            !.ref = Reference]
    /\ UNCHANGED <<real, clock, rtc, battery, boot, mtime, beacon, synced, setOk, clockFaults>>

\* date is called.  Its exit code is not looked at: a call that fails counts
\* as one that set the clock.
SetClock ==
    /\ sync.pc = "set" /\ sync' = [sync EXCEPT !.pc = "rtc"]
    /\ \/ clock' = sync.ref /\ setOk' = TRUE /\ UNCHANGED clockFaults
       \/ /\ clockFaults < MaxClockFaults /\ clockFaults' = clockFaults + 1
          /\ setOk' = FALSE /\ UNCHANGED clock
    /\ UNCHANGED <<real, rtc, battery, boot, mtime, beacon, synced>>

\* date cannot be run, or takes more than ten seconds.
SetRaises ==
    /\ sync.pc = "set" /\ clockFaults < MaxClockFaults /\ clockFaults' = clockFaults + 1
    /\ sync' = NoSync /\ synced' = "CORRECCION_PENDIENTE"
    /\ UNCHANGED <<real, clock, rtc, battery, boot, mtime, beacon, setOk>>

\* A mutant: the hardware is written in the runs that set the clock.
WriteRtcWhenSet ==
    /\ sync.pc = "rtc" /\ sync' = NoSync
    /\ \/ rtc' = (IF Lags(sync.now, sync.ref) THEN clock ELSE rtc) /\ UNCHANGED clockFaults
       \/ /\ clockFaults < MaxClockFaults /\ clockFaults' = clockFaults + 1
          /\ UNCHANGED rtc
    /\ synced' = IF Lags(sync.now, sync.ref) THEN "RELOJ_CORREGIDO" ELSE "RELOJ_OK"
    /\ UNCHANGED <<real, clock, battery, boot, mtime, beacon, setOk>>

\* The hardware is written in every run whose clock is right or was set, and
\* the verdict is given whether that worked or not.
WriteRtc ==
    /\ sync.pc = "rtc" /\ sync' = NoSync
    /\ \/ rtc' = clock /\ UNCHANGED clockFaults
       \/ /\ clockFaults < MaxClockFaults /\ clockFaults' = clockFaults + 1
          /\ UNCHANGED rtc
    /\ synced' = IF Lags(sync.now, sync.ref) THEN "RELOJ_CORREGIDO" ELSE "RELOJ_OK"
    /\ UNCHANGED <<real, clock, battery, boot, mtime, beacon, setOk>>

KillSync ==
    /\ sync.pc # "idle" /\ (sync.ticks = 1 \/ clockFaults < MaxClockFaults)
    /\ sync' = NoSync
    /\ clockFaults' = IF sync.ticks = 1 THEN clockFaults ELSE clockFaults + 1
    /\ UNCHANGED <<real, clock, rtc, battery, boot, mtime, beacon, synced, setOk>>

SyncRun == StartSync \/ Survey \/ SetClock \/ SetRaises \/ WriteRtc

-----------------------------------------------------------------------------
\* clock_watch: below the floor, behind its own files, away from the peers.
\* A file written in the second of the reading is not ahead of it.
Skew == Max({clock - beacon, beacon - clock})
Hallazgos ==
    <<<<"floor", IF clock < Floor THEN "RELOJ_BAJO_SUELO" ELSE "OK">>,
      <<"backward", IF clock < Own THEN "RELOJ_ATRASADO" ELSE "OK">>,
      <<"peers", IF beacon > 0 /\ Skew >= SkewWarn THEN "SKEW_VS_PEERS" ELSE "OK">>>>

WatchPass == BeginPass(Hallazgos) /\ UNCHANGED clockVars
WatchStep == (Compare \/ SaveState) /\ UNCHANGED clockVars

\* What happens to the clock, and what clock_watch meets between its boots.
ClockNext ==
    (Tick \/ WriteFile \/ Beacon \/ Boot \/ BatteryDies \/ SyncRun \/ KillSync)
        /\ UNCHANGED watchVars
ClockWatchNext ==
    \/ WatchPass \/ WatchStep \/ (KillPass /\ UNCHANGED clockVars)
    \/ (Tick \/ WriteFile \/ Beacon) /\ UNCHANGED watchVars

-----------------------------------------------------------------------------
\* As long as no peer is ahead of the true time, no correction takes the
\* clock, the hardware or the date of a file past it.
NeverAhead == {clock, rtc, beacon} \cup {mtime[f] : f \in Files} \subseteq 0..real

\* clock_sync 21, "nunca hacia atras": within a boot the clock does not go
\* back, although a run sets it to what it read up to half a minute before.
ForwardOnly == [][clock' < clock => boot' # boot]_clock

\* In the end: the clock is no more than Grace behind all the evidence, and the
\* hardware has it, whatever call failed on the way.
ClockSettled == clock >= Reference - Grace /\ rtc = clock

\* clock_watch's ledger tells the state of each check.
ClockIsTold == LedgerTells(ClockKeys)

\* clock_sync 126: "Devuelve True/False segun el reloj del SISTEMA".  The run
\* reports RELOJ_CORREGIDO although date failed.
CorrectedIsSet == synced = "RELOJ_CORREGIDO" => setOk
=============================================================================
