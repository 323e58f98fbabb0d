----------------------------- MODULE WatchProofs -----------------------------
(***************************************************************************)
(* Why the hardware resets no node that is alive, and why no watch and no  *)
(* channel of the node tells what is not so or takes back what it should   *)
(* keep.                                                                   *)
(*                                                                         *)
(* The first is proved for every timing in which the two writers are       *)
(* faster than their files age, everything that may delay a feeding is     *)
(* shorter than the hardware waits, and at most one of the two faults      *)
(* happens: a correction of the clock, or a feeder killed with SIGKILL.    *)
(* The argument is one of time.  After the correction of the clock a file  *)
(* looks old for no longer than its writer takes to write it again: what   *)
(* is left of that, together with what has passed since the last feeding,  *)
(* never exceeds the longer of the two intervals (Fed).  This needs that   *)
(* the feeder fed in its last pass before the correction, which holds      *)
(* because before it the files look old only in the start, for one pass    *)
(* (Fresh, Steady).  After SIGKILL the hardware waits for the next feeder, *)
(* which layerd launches in time (Ended).                                  *)
(*                                                                         *)
(* The rest needs no hypothesis.  Each part has an invariant that says     *)
(* what a run knows at each of its steps, in the sections that follow the  *)
(* watchdog; the last section puts them together (PartsInv).               *)
(***************************************************************************)
EXTENDS MCWatch, SequenceTheorems, FiniteSetTheorems, WellFoundedInduction, TLAPS

-----------------------------------------------------------------------------
(***************************************************************************)
(* What the models take the least or the greatest of has one.              *)
(***************************************************************************)
LEMMA LeastNat ==
    ASSUME NEW T \in SUBSET Nat, T # {}
    PROVE  \E n \in T : \A m \in T : n <= m
<1>1. \E n \in T : \A m \in T : ~ (<<m, n>> \in OpToRel(<, Nat))
      BY WFMin, NatLessThanWellFounded
<1>2. PICK n \in T : \A m \in T : ~ (<<m, n>> \in OpToRel(<, Nat))
      BY <1>1
<1>3. \A m \in T : ~(m < n)
      BY <1>2 DEF OpToRel
<1> QED  BY <1>3

LEMMA MinIs ==
    ASSUME NEW T \in SUBSET Nat, T # {}
    PROVE  Min(T) \in T /\ \A m \in T : Min(T) <= m
BY LeastNat DEF Min

\* What is between two bounds has a greatest.
LEMMA MaxIs ==
    ASSUME NEW a \in Int, NEW b \in Int, NEW T \in SUBSET (a..b), T # {}
    PROVE  Max(T) \in T /\ \A m \in T : Max(T) >= m
<1> DEFINE U == {b - t : t \in T}
<1>1. U \in SUBSET Nat /\ U # {}
      OBVIOUS
<1>2. PICK u \in U : \A m \in U : u <= m
      <2> HIDE DEF U
      <2> QED  BY <1>1, LeastNat
<1>3. PICK x \in T : u = b - x
      BY <1>2
<1>4. \A y \in T : x >= y
      <2> TAKE y \in T
      <2>1. b - x <= b - y
            BY <1>2, <1>3
      <2> QED  BY <2>1, <1>3
<1> QED  BY <1>4 DEF Max

LEMMA MaxOfTwo ==
    ASSUME NEW x \in Int, NEW y \in Int
    PROVE  Max({x, y}) \in {x, y} /\ Max({x, y}) >= x /\ Max({x, y}) >= y
<1>1. \E m \in {x, y} : \A n \in {x, y} : m >= n
      <2>1. CASE x >= y
            BY <2>1
      <2>2. CASE y >= x
            BY <2>2
      <2> QED  BY <2>1, <2>2
<1> QED  BY <1>1 DEF Max

LEMMA MinOfTwo ==
    ASSUME NEW x \in Int, NEW y \in Int
    PROVE  Min({x, y}) \in {x, y} /\ Min({x, y}) <= x /\ Min({x, y}) <= y
<1>1. \E m \in {x, y} : \A n \in {x, y} : m <= n
      <2>1. CASE x <= y
            BY <2>1
      <2>2. CASE y <= x
            BY <2>2
      <2> QED  BY <2>1, <2>2
<1> QED  BY <1>1 DEF Min

-----------------------------------------------------------------------------
(***************************************************************************)
(* What the timing has to satisfy.  WD_TIMEOUT = 60, PET_S = 15,           *)
(* HB_INTERVAL = 30 and WD_FAIL_STREAK = 3 do: four ticks, two and three.  *)
(* With one of the conditions on the timeout, on Relaunch or on the number *)
(* of faults dropped, or with a single failure that counts, TLC finds a    *)
(* node reset that is alive.                                               *)
(***************************************************************************)
Timely ==
    /\ HbEvery < HbAge /\ BeaconEvery < BeaconAge
    /\ HbEvery + 1 < WdTimeout /\ BeaconEvery + 1 < WdTimeout /\ Relaunch + 1 < WdTimeout
    /\ FailStreak >= 3
    /\ MaxWdFaults <= 1

\* The longer of the intervals of the two writers.
Longest == IF HbEvery > BeaconEvery THEN HbEvery ELSE BeaconEvery

\* The constants are numbers, and the intervals are not zero.
LEMMA Positive ==
    /\ WdTimeout \in Nat /\ WdGrace \in Nat /\ FailStreak \in Nat /\ HbAge \in Nat
    /\ BeaconAge \in Nat /\ HbEvery \in Nat /\ BeaconEvery \in Nat /\ Relaunch \in Nat
    /\ MaxWdFaults \in Nat
    /\ HbEvery >= 1 /\ BeaconEvery >= 1 /\ Relaunch >= 1 /\ WdTimeout >= 1
<1>1. {WdTimeout, WdGrace, FailStreak, HbAge, BeaconAge, HbEvery, BeaconEvery, Relaunch,
       MaxWdFaults, MaxResets} \subseteq Nat
      BY WatchdogAssumption
<1>2. HbEvery # 0 /\ BeaconEvery # 0 /\ Relaunch # 0 /\ WdTimeout # 0
      BY WatchdogAssumption
<1> QED  BY <1>1, <1>2

LEMMA LongestIs ==
    ASSUME Timely
    PROVE  Longest \in Nat /\ HbEvery <= Longest /\ BeaconEvery <= Longest
           /\ Longest + 1 < WdTimeout
BY WatchdogAssumption DEF Timely, Longest

-----------------------------------------------------------------------------
(***************************************************************************)
(* The invariant.                                                          *)
(***************************************************************************)
ArmedFeeder == [mode : {"armed"}, age : 0..WdGrace, fails : 0..FailStreak, soltado : BOOLEAN]
OtherFeeder == [mode : {"none", "disarmed", "stuck"}]
Armed == feeder.mode = "armed"

WdTypes ==
    /\ feeder \in ArmedFeeder \cup OtherFeeder
    /\ hw \in [on : BOOLEAN, since : 0..WdTimeout]
    /\ hb \in 0..HbAge /\ bc \in 0..BeaconAge
    /\ hbDue \in 0..HbEvery /\ bcDue \in 0..BeaconEvery
    /\ down \in 0..Relaunch /\ wdFaults \in Nat
    /\ acts \in BOOLEAN /\ sealed \in BOOLEAN /\ hung \in BOOLEAN /\ excuse \in BOOLEAN
    /\ armFlag \in BOOLEAN
    /\ acts => feeder.mode \in {"armed", "disarmed"}

\* What excuses a reset is remembered until the next feeding.
Excused ==
    /\ ~sealed => excuse
    /\ hung => excuse
    /\ feeder.mode = "stuck" => excuse

\* A file that does not look old is written again before it does.
Written ==
    ~hung => /\ hb < HbAge => hb + hbDue <= HbEvery
             /\ bc < BeaconAge => bc + bcDue <= BeaconEvery

\* Whatever looks old is written again within Longest of the last feeding.
Room ==
    /\ hb = HbAge => hw.since + hbDue <= Longest
    /\ bc = BeaconAge => hw.since + bcDue <= Longest

\* A feeder that is armed has the hardware armed, and feeds in time.
Fed ==
    Armed =>
        /\ hw.on
        /\ ~excuse => \/ Room /\ hw.since <= Longest + (IF acts THEN 1 ELSE 0)
                      \/ acts /\ hw.since <= 1 /\ feeder.fails + 1 < FailStreak

\* Before the one fault it feeds in every pass.
Steady ==
    wdFaults = 0 /\ Armed /\ ~excuse =>
        hw.since <= (IF acts THEN 1 ELSE 0) /\ feeder.fails <= 1

\* Before the fault a file looks old only when the node has just started: its
\* writer has yet to write in this tick, and the feeder to end its first pass.
Fresh ==
    wdFaults = 0 /\ ~hung =>
        /\ hb = HbAge => hbDue = 0 \/ (hbDue = 1 /\ feeder.mode = "none" /\ down = 0)
        /\ bc = BeaconAge => bcDue = 0 \/ (bcDue = 1 /\ feeder.mode = "none" /\ down = 0)
        /\ Armed /\ (hb = HbAge \/ bc = BeaconAge) =>
               feeder.fails = 0 \/ (feeder.fails = 1 /\ ~acts)

\* Only SIGKILL ends a feeder without disarming; the next one is not late.
Ended ==
    feeder.mode = "none" /\ hw.on =>
        /\ wdFaults >= 1
        /\ ~excuse => hw.since <= down + 1

WdInv == WdTypes /\ Excused /\ Written /\ Fed /\ Steady /\ Fresh /\ Ended
\* What the invariant says of a feeder that is armed.
LEMMA ArmedIs ==
    ASSUME WdTypes, Armed
    PROVE  /\ feeder \in ArmedFeeder
           /\ feeder.age \in 0..WdGrace /\ feeder.fails \in 0..FailStreak
           /\ feeder.soltado \in BOOLEAN
BY DEF WdTypes, Armed, ArmedFeeder, OtherFeeder

\* The invariant answers the property.
LEMMA NoneSpurious ==
    ASSUME Timely, WdInv
    PROVE  NoSpuriousReset
<1> USE Positive, LongestIs
<1>1. SUFFICES ASSUME hw.on, hw.since = WdTimeout, ~excuse PROVE feeder.mode = "disarmed"
      BY DEF NoSpuriousReset
<1>2. feeder.mode \in {"none", "armed", "disarmed", "stuck"}
      BY DEF WdInv, WdTypes, ArmedFeeder, OtherFeeder
<1>3. feeder.mode # "armed"
      BY <1>1 DEF WdInv, Fed, Armed, WdTypes
<1>4. feeder.mode # "none"
      BY <1>1 DEF WdInv, Ended, WdTypes, Timely
<1>5. feeder.mode # "stuck"
      BY <1>1 DEF WdInv, Excused
<1> QED  BY <1>2, <1>3, <1>4, <1>5

LEMMA WdInitInv == ASSUME Timely, WdInit PROVE WdInv
<1> USE Positive DEF WdInit, NoFeeder, Disarmed
<1>1. WdTypes
      <2>1. feeder \in OtherFeeder /\ hw \in [on : BOOLEAN, since : 0..WdTimeout]
            BY DEF OtherFeeder
      <2>2. 1 \in 0..HbEvery /\ 1 \in 0..BeaconEvery /\ HbAge \in 0..HbAge /\ BeaconAge \in 0..BeaconAge
            BY Positive
      <2>3. 0 \in 0..Relaunch
            OBVIOUS
      <2> QED  BY <2>1, <2>2, <2>3 DEF WdTypes
<1>2. Excused /\ Written /\ Fed /\ Steady /\ Ended
      BY DEF Excused, Written, Fed, Armed, Steady, Ended
<1>3. Fresh
      BY DEF Fresh, Armed
<1> QED  BY <1>1, <1>2, <1>3 DEF WdInv

-----------------------------------------------------------------------------
(***************************************************************************)
(* The writers and the time.                                               *)
(***************************************************************************)
LEMMA HeartbeatStep == ASSUME Timely, WdInv, WriteHeartbeat PROVE WdInv'
<1> USE Positive, LongestIs DEF WdInv, WriteHeartbeat, Timely
<1>1. WdTypes'    BY DEF WdTypes
<1>2. Excused'  BY DEF Excused
<1>3. Written'  BY DEF Written, WdTypes
<1>4. Fed'      BY DEF Fed, Room, Armed, WdTypes
<1>5. Steady'   BY DEF Steady, Armed
<1>6. Fresh'    BY DEF Fresh, Armed, WdTypes
<1>7. Ended'    BY DEF Ended
<1> QED  BY <1>1, <1>2, <1>3, <1>4, <1>5, <1>6, <1>7

LEMMA BeaconStep == ASSUME Timely, WdInv, WriteBeacon PROVE WdInv'
<1> USE Positive, LongestIs DEF WdInv, WriteBeacon, Timely
<1>1. WdTypes'    BY DEF WdTypes
<1>2. Excused'  BY DEF Excused
<1>3. Written'  BY DEF Written, WdTypes
<1>4. Fed'      BY DEF Fed, Room, Armed, WdTypes
<1>5. Steady'   BY DEF Steady, Armed
<1>6. Fresh'    BY DEF Fresh, Armed, WdTypes
<1>7. Ended'    BY DEF Ended
<1> QED  BY <1>1, <1>2, <1>3, <1>4, <1>5, <1>6, <1>7

\* What a tick does to an armed feeder.
LEMMA TickedFeeder ==
    ASSUME WdTypes, WdTick
    PROVE  /\ feeder'.mode = feeder.mode
           /\ feeder' \in ArmedFeeder \cup OtherFeeder
           /\ Armed => feeder'.fails = feeder.fails
<1> USE Positive
<1>1. CASE Armed
      <2>1. feeder \in ArmedFeeder /\ feeder.age \in 0..WdGrace
            BY <1>1, ArmedIs
      <2>2. Upto(feeder.age + 1, WdGrace) \in 0..WdGrace
            BY <2>1 DEF Upto
      <2>3. feeder' = [feeder EXCEPT !.age = Upto(feeder.age + 1, WdGrace)]
            BY <1>1 DEF WdTick, Armed
      <2> QED  BY <2>1, <2>2, <2>3 DEF ArmedFeeder
<1>2. CASE ~Armed
      BY <1>2 DEF WdTick, Armed, WdTypes
<1> QED  BY <1>1, <1>2

LEMMA TickStep == ASSUME Timely, WdInv, WdTick PROVE WdInv'
<1> USE Positive, LongestIs DEF WdInv
<1> USE DEF Timely
<1>1. /\ feeder'.mode = feeder.mode
      /\ feeder' \in ArmedFeeder \cup OtherFeeder
      /\ Armed => feeder'.fails = feeder.fails
      BY TickedFeeder
<1>2. Armed' <=> Armed
      BY <1>1 DEF Armed
<1>3. /\ hw'.on = hw.on
      /\ hw.on => hw'.since = hw.since + 1
      /\ hw.since \in 0..WdTimeout /\ hw'.since \in 0..WdTimeout
      /\ hw' \in [on : BOOLEAN, since : 0..WdTimeout]
      BY DEF WdTick, WdTypes
<1>4. /\ hb \in 0..HbAge /\ hb' = Upto(hb + 1, HbAge) /\ hb' \in 0..HbAge
      /\ bc \in 0..BeaconAge /\ bc' = Upto(bc + 1, BeaconAge) /\ bc' \in 0..BeaconAge
      BY DEF WdTick, WdTypes, Upto
<1>5. /\ hbDue \in 0..HbEvery /\ hbDue' = Less(hbDue) /\ hbDue' \in 0..HbEvery
      /\ bcDue \in 0..BeaconEvery /\ bcDue' = Less(bcDue) /\ bcDue' \in 0..BeaconEvery
      BY DEF WdTick, WdTypes, Less
<1>6. down' \in 0..Relaunch
      BY DEF WdTick, WdTypes, Upto
<1>7. ~hung => /\ hbDue' = hbDue - 1 /\ bcDue' = bcDue - 1
      BY <1>5 DEF WdTick, Less
<1>8. ~hung => /\ (hb' = HbAge => hb = HbAge) /\ (hb < HbAge => hb' = hb + 1)
               /\ (bc' = BeaconAge => bc = BeaconAge) /\ (bc < BeaconAge => bc' = bc + 1)
      BY <1>4, <1>5 DEF WdTick, Written, Upto
<1>9. UNCHANGED <<excuse, armFlag, sealed, hung, wdFaults>> /\ ~acts
      /\ acts' = (feeder.mode \in {"armed", "disarmed"})
      BY DEF WdTick
<1>10. WdTypes'
      BY <1>1, <1>3, <1>4, <1>5, <1>6, <1>9 DEF WdTypes
<1>11. Excused'
      BY <1>1, <1>9 DEF Excused
<1>12. Written'
      BY <1>4, <1>5, <1>7, <1>8, <1>9 DEF Written, Upto
<1>13. Fed'
      <2>1. Armed' => hw'.on /\ acts'
            BY <1>2, <1>3, <1>9 DEF Fed, Armed
      <2>2. ASSUME Armed', ~excuse' PROVE Room' /\ hw'.since <= Longest + 1
            <3>1. Armed /\ ~excuse /\ ~hung /\ hw.on
                  BY <2>2, <1>2, <1>9 DEF Excused, Fed
            <3>2. Room /\ hw.since <= Longest
                  BY <3>1, <1>9 DEF Fed
            <3> QED  BY <3>1, <3>2, <1>3, <1>4, <1>5, <1>7, <1>8 DEF Room
      <2> QED  BY <2>1, <2>2 DEF Fed
<1>14. Steady'
      BY <1>1, <1>2, <1>3, <1>9 DEF Steady, Armed, Fed
<1>15. Fresh'
      <2>1. SUFFICES ASSUME wdFaults = 0, ~hung PROVE Fresh'
            BY <1>9 DEF Fresh
      <2>2. hbDue > 0 /\ bcDue > 0
            BY <2>1 DEF WdTick
      <2>3. hb' = HbAge => feeder.mode = "none" /\ hbDue' = 0
            BY <2>1, <2>2, <1>5, <1>7, <1>8 DEF Fresh
      <2>4. bc' = BeaconAge => feeder.mode = "none" /\ bcDue' = 0
            BY <2>1, <2>2, <1>5, <1>7, <1>8 DEF Fresh
      <2> QED  BY <2>3, <2>4, <1>1 DEF Fresh, Armed
<1>16. Ended'
      BY <1>1, <1>3, <1>9 DEF Ended, WdTick, WdTypes, Upto, Excused
<1> QED  BY <1>10, <1>11, <1>12, <1>13, <1>14, <1>15, <1>16

-----------------------------------------------------------------------------
(***************************************************************************)
(* The faults, the attestation and the reset.                              *)
(***************************************************************************)
\* The clock goes forward: both files look old at once.
LEMMA JumpStep == ASSUME Timely, WdInv, Jump PROVE WdInv'
<1> USE Positive, LongestIs DEF WdInv
<1>1. UNCHANGED <<excuse, armFlag, hw, hbDue, bcDue, sealed, hung, acts, down>>
      /\ wdFaults = 0 /\ wdFaults' = 1 /\ hb' = HbAge /\ bc' = BeaconAge
      BY DEF Jump, Timely, WdTypes
<1>2. /\ feeder'.mode = feeder.mode
      /\ feeder' \in ArmedFeeder \cup OtherFeeder
      /\ Armed => feeder'.fails = feeder.fails
      <2>1. CASE Armed
            <3>1. feeder \in ArmedFeeder /\ feeder' = [feeder EXCEPT !.age = WdGrace]
                  BY <2>1, ArmedIs DEF Jump, Armed
            <3> QED  BY <3>1 DEF ArmedFeeder
      <2>2. CASE ~Armed
            BY <2>2 DEF Jump, Armed, WdTypes
      <2> QED  BY <2>1, <2>2
<1>3. WdTypes'
      BY <1>1, <1>2 DEF WdTypes
<1>4. Excused' /\ Written'
      BY <1>1, <1>2 DEF Excused, Written
<1>5. Fed'
      <2>1. SUFFICES ASSUME Armed PROVE Fed'
            BY <1>2 DEF Fed, Armed
      <2>2. hw'.on
            BY <2>1, <1>1 DEF Fed
      <2>3. ASSUME ~excuse'
            PROVE  \/ Room' /\ hw'.since <= Longest + (IF acts' THEN 1 ELSE 0)
                   \/ acts' /\ hw'.since <= 1 /\ feeder'.fails + 1 < FailStreak
            <3>1. hw.since <= (IF acts THEN 1 ELSE 0) /\ feeder.fails <= 1 /\ hw.since \in Nat
                  /\ feeder.fails \in Nat
                  BY <2>1, <2>3, <1>1, ArmedIs DEF Steady, WdTypes
            <3>2. CASE acts
                  BY <3>1, <3>2, <2>1, <1>1, <1>2 DEF Timely
            <3>3. CASE ~acts
                  BY <3>1, <3>3, <1>1 DEF Room, WdTypes
            <3> QED  BY <3>2, <3>3
      <2> QED  BY <2>2, <2>3 DEF Fed
<1>6. Steady' /\ Fresh'
      BY <1>1 DEF Steady, Fresh
<1>7. Ended'
      BY <1>1, <1>2 DEF Ended
<1> QED  BY <1>3, <1>4, <1>5, <1>6, <1>7

LEMMA HangStep == ASSUME Timely, WdInv, Hang PROVE WdInv'
<1> USE DEF WdInv, Hang
<1>1. WdTypes'                BY DEF WdTypes
<1>2. Excused' /\ Written'  BY DEF Excused, Written
<1>3. Fed'                  BY DEF Fed, Armed
<1>4. Steady' /\ Fresh'     BY DEF Steady, Fresh
<1>5. Ended'                BY DEF Ended
<1> QED  BY <1>1, <1>2, <1>3, <1>4, <1>5

LEMMA StickStep == ASSUME Timely, WdInv, Stick PROVE WdInv'
<1> USE DEF WdInv, Stick
<1>1. WdTypes'                BY DEF WdTypes, OtherFeeder
<1>2. Excused' /\ Written'  BY DEF Excused, Written
<1>3. ~Armed'               BY DEF Armed
<1>4. Fed' /\ Steady'       BY <1>3 DEF Fed, Steady
<1>5. Fresh'                BY <1>3 DEF Fresh
<1>6. Ended'                BY DEF Ended
<1> QED  BY <1>1, <1>2, <1>4, <1>5, <1>6

LEMMA AttestStep == ASSUME Timely, WdInv, Attest PROVE WdInv'
<1> USE DEF WdInv
<1>1. UNCHANGED <<armFlag, feeder, hw, hb, bc, hbDue, bcDue, hung, acts, down, wdFaults>>
      BY DEF Attest
<1>2. sealed' \in BOOLEAN /\ excuse' \in BOOLEAN
      BY DEF Attest, WdTypes
<1>3. (excuse => excuse') /\ (~sealed' => excuse')
      BY DEF Attest, WdTypes
<1>4. WdTypes'                BY <1>1, <1>2 DEF WdTypes
<1>5. Excused' /\ Written'  BY <1>1, <1>3 DEF Excused, Written
<1>6. Fed'                  BY <1>1, <1>3 DEF Fed, Room, Armed
<1>7. Steady' /\ Fresh'     BY <1>1, <1>3 DEF Steady, Fresh, Armed
<1>8. Ended'                BY <1>1, <1>3 DEF Ended
<1> QED  BY <1>4, <1>5, <1>6, <1>7, <1>8

LEMMA FlagStep == ASSUME Timely, WdInv, SetArmFlag PROVE WdInv'
<1> USE DEF WdInv, SetArmFlag
<1>1. WdTypes'                BY DEF WdTypes
<1>2. Excused' /\ Written'  BY DEF Excused, Written
<1>3. Fed'                  BY DEF Fed, Room, Armed
<1>4. Steady' /\ Fresh'     BY DEF Steady, Fresh, Armed
<1>5. Ended'                BY DEF Ended
<1> QED  BY <1>1, <1>2, <1>3, <1>4, <1>5

LEMMA ResetStep == ASSUME Timely, WdInv, Reset PROVE WdInv'
<1> USE Positive DEF WdInv
<1>1. /\ feeder' = [mode |-> "none"] /\ hw' = [on |-> FALSE, since |-> 0]
      /\ hung' = FALSE /\ acts' = FALSE /\ down' = 0 /\ hb' = HbAge /\ bc' = BeaconAge
      /\ hbDue' = 1 /\ bcDue' = 1 /\ excuse' = ~sealed
      /\ UNCHANGED <<armFlag, sealed, wdFaults>>
      BY DEF Reset, NoFeeder, Disarmed
<1>2. /\ feeder' \in OtherFeeder /\ feeder'.mode = "none"
      /\ hw' \in [on : BOOLEAN, since : 0..WdTimeout] /\ ~hw'.on
      BY <1>1 DEF OtherFeeder
<1>3. excuse' \in BOOLEAN /\ (~sealed' => excuse')
      BY <1>1 DEF WdTypes
<1>4. WdTypes'
      <2>1. 1 \in 0..HbEvery /\ 1 \in 0..BeaconEvery /\ HbAge \in 0..HbAge
            /\ BeaconAge \in 0..BeaconAge /\ 0 \in 0..Relaunch
            OBVIOUS
      <2> QED  BY <1>1, <1>2, <1>3, <2>1 DEF WdTypes
<1>5. Excused'              BY <1>1, <1>2, <1>3 DEF Excused
<1>6. Written'              BY <1>1 DEF Written
<1>7. Fed' /\ Steady'       BY <1>2 DEF Fed, Steady, Armed
<1>8. Fresh'                BY <1>1, <1>2 DEF Fresh, Armed
<1>9. Ended'                BY <1>2 DEF Ended
<1> QED  BY <1>4, <1>5, <1>6, <1>7, <1>8, <1>9

-----------------------------------------------------------------------------
(***************************************************************************)
(* The feeder.                                                             *)
(***************************************************************************)
LEMMA LaunchStep == ASSUME Timely, WdInv, Launch PROVE WdInv'
<1> USE Positive, LongestIs DEF WdInv
<1>1. UNCHANGED <<excuse, armFlag, hb, bc, hbDue, bcDue, sealed, hung, wdFaults>>
      /\ feeder.mode = "none" /\ down = Relaunch /\ down' = 0
      BY DEF Launch
<1>2. CASE armFlag /\ feeder' = [mode |-> "armed", age |-> 0, fails |-> 0, soltado |-> FALSE]
           /\ hw' = [on |-> TRUE, since |-> 0] /\ acts' = TRUE
      <2>1. feeder' \in ArmedFeeder /\ feeder'.fails = 0 /\ feeder'.mode = "armed"
            /\ hw' \in [on : BOOLEAN, since : 0..WdTimeout] /\ hw'.on /\ hw'.since = 0
            BY <1>2 DEF ArmedFeeder
      <2>2. WdTypes'                BY <1>1, <1>2, <2>1 DEF WdTypes
      <2>3. Excused' /\ Written'  BY <1>1, <2>1 DEF Excused, Written
      <2>4. Fed'                  BY <1>2, <2>1 DEF Fed, Timely
      <2>5. Steady'               BY <1>2, <2>1 DEF Steady
      <2>6. Fresh'                BY <1>1, <2>1 DEF Fresh, WdTypes
      <2>7. Ended'                BY <2>1 DEF Ended
      <2> QED  BY <2>2, <2>3, <2>4, <2>5, <2>6, <2>7
<1>3. CASE ~armFlag /\ feeder' = [mode |-> "disarmed"] /\ acts' = TRUE /\ UNCHANGED hw
      <2>1. feeder' \in OtherFeeder /\ feeder'.mode = "disarmed"
            BY <1>3 DEF OtherFeeder
      <2>2. WdTypes'                BY <1>1, <1>3, <2>1 DEF WdTypes
      <2>3. Excused' /\ Written'  BY <1>1, <2>1 DEF Excused, Written
      <2>4. Fed' /\ Steady'       BY <2>1 DEF Fed, Steady, Armed
      <2>5. Fresh'                BY <1>1, <2>1 DEF Fresh, Armed
      <2>6. Ended'                BY <2>1 DEF Ended
      <2> QED  BY <2>2, <2>3, <2>4, <2>5, <2>6
<1>4. CASE armFlag /\ ~hw.on /\ acts' = FALSE /\ UNCHANGED <<feeder, hw>>
      <2>1. WdTypes'
            <3>1. down' \in 0..Relaunch
                  BY <1>1
            <3> QED  BY <3>1, <1>1, <1>4 DEF WdTypes
      <2>2. Excused' /\ Written'  BY <1>1, <1>4 DEF Excused, Written
      <2>3. Fed' /\ Steady'       BY <1>1, <1>4 DEF Fed, Steady, Armed
      <2>4. Fresh'                BY <1>1, <1>4 DEF Fresh, Armed
      <2>5. Ended'                BY <1>4 DEF Ended
      <2> QED  BY <2>1, <2>2, <2>3, <2>4, <2>5
<1> QED  BY <1>2, <1>3, <1>4 DEF Launch

\* One pass of run_armed.  It feeds, and then what is left of the old files is
\* shorter than Longest; or it does not, and then the files looked old, and
\* so did since the last feeding.
LEMMA PassStep == ASSUME Timely, WdInv, PassArmed PROVE WdInv'
<1> USE Positive, LongestIs DEF WdInv
<1> DEFINE n == IF Alive THEN 0 ELSE Upto(feeder.fails + 1, FailStreak)
           s == ~Alive /\ (feeder.soltado \/ ~Feeds(n))
<1>1. UNCHANGED <<armFlag, hb, bc, hbDue, bcDue, sealed, hung, down, wdFaults>>
      /\ Armed /\ acts /\ acts' = FALSE
      BY DEF PassArmed, Armed
<1>2. feeder \in ArmedFeeder /\ feeder.age \in 0..WdGrace /\ feeder.fails \in 0..FailStreak
      /\ feeder.soltado \in BOOLEAN
      BY <1>1, ArmedIs
<1>3. n \in 0..FailStreak /\ (Alive => n = 0)
      /\ (~Alive /\ feeder.fails + 1 < FailStreak => n = feeder.fails + 1)
      BY <1>2 DEF Upto, Timely
<1>4. s \in BOOLEAN
      OBVIOUS
<1>5. /\ feeder' = [feeder EXCEPT !.fails = n, !.soltado = s]
      /\ excuse' = IF Feeds(n) THEN hung \/ ~sealed ELSE excuse
      /\ hw' = IF Feeds(n) THEN [hw EXCEPT !.since = 0] ELSE hw
      BY DEF PassArmed
<1> HIDE DEF n, s
<1>6. feeder' \in ArmedFeeder /\ feeder'.fails = n /\ feeder'.mode = "armed"
      BY <1>2, <1>3, <1>4, <1>5 DEF ArmedFeeder
<1>7. /\ hw' \in [on : BOOLEAN, since : 0..WdTimeout] /\ hw'.on
      /\ Feeds(n) => hw'.since = 0
      /\ ~Feeds(n) => hw'.since = hw.since
      BY <1>1, <1>5 DEF WdTypes, Fed
<1>8. /\ excuse' \in BOOLEAN
      /\ Feeds(n) => excuse' = (hung \/ ~sealed)
      /\ ~Feeds(n) => excuse' = excuse
      BY <1>5 DEF WdTypes
<1>9. ~excuse' => sealed /\ ~hung
      BY <1>8 DEF Excused, WdTypes
<1>10. WdTypes'
      BY <1>1, <1>6, <1>7, <1>8 DEF WdTypes
<1>11. Excused'
      BY <1>1, <1>6, <1>9 DEF Excused
<1>12. Written'
      BY <1>1 DEF Written
<1>13. ASSUME wdFaults = 0, ~excuse'
       PROVE  Feeds(n) /\ n <= 1
      <2>1. CASE Alive
            BY <2>1, <1>3 DEF Feeds
      <2>2. CASE ~Alive
            <3>1. sealed /\ ~hung
                  BY <1>9, <1>13
            <3>2. hb = HbAge \/ bc = BeaconAge
                  BY <2>2, <3>1 DEF Alive, WdTypes
            <3>3. feeder.fails = 0
                  BY <1>1, <1>13, <3>1, <3>2 DEF Fresh
            <3> QED  BY <2>2, <3>3, <1>3 DEF Feeds, Timely
      <2> QED  BY <2>1, <2>2
<1>14. Fed'
      <2>1. SUFFICES ASSUME ~excuse' PROVE Room' /\ hw'.since <= Longest
            BY <1>1, <1>7 DEF Fed
      <2>2. CASE Feeds(n)
            BY <2>2, <1>1, <1>7 DEF Room, WdTypes
      <2>3. CASE ~Feeds(n)
            <3>1. ~Alive /\ ~excuse /\ sealed /\ ~hung
                  BY <2>1, <2>3, <1>8, <1>9 DEF Feeds
            <3>2. hb = HbAge \/ bc = BeaconAge
                  BY <3>1 DEF Alive, WdTypes
            <3>3. ~(feeder.fails + 1 < FailStreak)
                  BY <2>3, <3>1, <1>3 DEF Feeds
            <3>4. Room /\ hw.since \in Nat
                  BY <3>1, <3>3, <1>1 DEF Fed, WdTypes
            <3>5. hw.since <= Longest
                  BY <3>2, <3>4 DEF Room, WdTypes
            <3> QED  BY <3>4, <3>5, <2>3, <1>1, <1>7 DEF Room
      <2> QED  BY <2>2, <2>3
<1>15. Steady'
      BY <1>1, <1>6, <1>7, <1>13 DEF Steady
<1>16. Fresh'
      <2>1. SUFFICES ASSUME wdFaults = 0, ~hung PROVE Fresh'
            BY <1>1 DEF Fresh
      <2>2. /\ hb' = HbAge => hbDue' = 0
            /\ bc' = BeaconAge => bcDue' = 0
            BY <2>1, <1>1 DEF Fresh, Armed
      <2>3. hb = HbAge \/ bc = BeaconAge => n = 1
            BY <2>1, <1>1, <1>3 DEF Fresh, Alive, Timely
      <2> QED  BY <2>2, <2>3, <1>1, <1>6 DEF Fresh
<1>17. Ended'
      BY <1>6 DEF Ended
<1> QED  BY <1>10, <1>11, <1>12, <1>14, <1>15, <1>16, <1>17

LEMMA ReportStep == ASSUME Timely, WdInv, PassDisarmed PROVE WdInv'
<1> USE DEF WdInv, PassDisarmed
<1>1. WdTypes'                BY DEF WdTypes
<1>2. Excused' /\ Written'  BY DEF Excused, Written
<1>3. Fed' /\ Steady'       BY DEF Fed, Steady, Armed
<1>4. Fresh'                BY DEF Fresh, Armed
<1>5. Ended'                BY DEF Ended
<1> QED  BY <1>1, <1>2, <1>3, <1>4, <1>5

LEMMA TerminateStep == ASSUME Timely, WdInv, Terminate PROVE WdInv'
<1> USE Positive DEF WdInv
<1>1. UNCHANGED <<excuse, armFlag, hb, bc, hbDue, bcDue, sealed, hung, wdFaults>>
      /\ acts' = FALSE /\ down' = 0 /\ feeder.mode # "none"
      BY DEF Terminate
<1>2. /\ feeder' \in OtherFeeder /\ feeder'.mode = "none"
      /\ hw' \in [on : BOOLEAN, since : 0..WdTimeout] /\ ~hw'.on
      BY DEF Terminate, NoFeeder, Disarmed, OtherFeeder
<1>3. WdTypes'
      <2>1. down' \in 0..Relaunch /\ wdFaults' \in Nat
            BY <1>1 DEF WdTypes
      <2> QED  BY <2>1, <1>1, <1>2 DEF WdTypes
<1>4. Excused' /\ Written'  BY <1>1, <1>2 DEF Excused, Written
<1>5. Fed' /\ Steady'       BY <1>2 DEF Fed, Steady, Armed
<1>6. Fresh'                BY <1>1, <1>2 DEF Fresh, Armed
<1>7. Ended'                BY <1>2 DEF Ended
<1> QED  BY <1>3, <1>4, <1>5, <1>6, <1>7

\* The one fault is used up by it: until then the feeder fed in every pass.
LEMMA KillStep == ASSUME Timely, WdInv, KillFeeder PROVE WdInv'
<1> USE Positive DEF WdInv
<1>1. UNCHANGED <<excuse, armFlag, hw, hb, bc, hbDue, bcDue, sealed, hung>>
      /\ wdFaults = 0 /\ wdFaults' = 1 /\ acts' = FALSE /\ down' = 0
      /\ (feeder.mode = "armed" \/ feeder.mode = "stuck")
      BY DEF KillFeeder, Timely, WdTypes
<1>2. feeder' \in OtherFeeder /\ feeder'.mode = "none"
      BY DEF KillFeeder, NoFeeder, OtherFeeder
<1>3. WdTypes'
      <2>1. down' \in 0..Relaunch /\ wdFaults' \in Nat
            BY <1>1 DEF WdTypes
      <2> QED  BY <2>1, <1>1, <1>2 DEF WdTypes
<1>4. Excused' /\ Written'  BY <1>1, <1>2 DEF Excused, Written
<1>5. Fed' /\ Steady'       BY <1>2 DEF Fed, Steady, Armed
<1>6. Fresh'                BY <1>1 DEF Fresh
<1>7. Ended'
      <2>1. ~excuse => Armed
            BY <1>1 DEF Excused, Armed
      <2>2. ~excuse => hw.since <= 1
            BY <2>1, <1>1 DEF Steady, WdTypes
      <2> QED  BY <2>2, <1>1 DEF Ended
<1> QED  BY <1>3, <1>4, <1>5, <1>6, <1>7

-----------------------------------------------------------------------------
(***************************************************************************)
(* The theorem.                                                            *)
(***************************************************************************)
LEMMA WdStep == ASSUME Timely, WdInv, WdNext PROVE WdInv'
BY HeartbeatStep, BeaconStep, TickStep, ResetStep, LaunchStep, PassStep, ReportStep,
   TerminateStep, KillStep, JumpStep, HangStep, StickStep, AttestStep, FlagStep
   DEF WdNext, WdEnv, FeederStep

LEMMA WdRests == ASSUME WdInv, UNCHANGED wdVars PROVE WdInv'
<1> USE DEF WdInv, wdVars
<1>1. WdTypes'                BY DEF WdTypes
<1>2. Excused' /\ Written'  BY DEF Excused, Written
<1>3. Fed' /\ Steady'       BY DEF Fed, Room, Steady, Armed
<1>4. Fresh'                BY DEF Fresh, Armed
<1>5. Ended'                BY DEF Ended
<1> QED  BY <1>1, <1>2, <1>3, <1>4, <1>5

\* The types hold whatever the timing is.
LEMMA WdTypesStart == WdInit => WdTypes
<1> SUFFICES ASSUME WdInit PROVE WdTypes
    OBVIOUS
<1> USE Positive DEF WdInit, NoFeeder, Disarmed
<1>1. feeder \in OtherFeeder /\ hw \in [on : BOOLEAN, since : 0..WdTimeout]
      BY DEF OtherFeeder
<1>2. 1 \in 0..HbEvery /\ 1 \in 0..BeaconEvery /\ HbAge \in 0..HbAge /\ BeaconAge \in 0..BeaconAge
      BY Positive
<1>3. 0 \in 0..Relaunch
      OBVIOUS
<1> QED  BY <1>1, <1>2, <1>3 DEF WdTypes

LEMMA WdTypesStay == ASSUME WdTypes, WdNext \/ UNCHANGED wdVars PROVE WdTypes'
<1> USE Positive DEF WdTypes
<1> DEFINE hws == [on : BOOLEAN, since : 0..WdTimeout]
           modes == ArmedFeeder \cup OtherFeeder
<1>a. /\ Disarmed \in hws /\ NoFeeder \in modes
      /\ [on |-> TRUE, since |-> 0] \in hws /\ [hw EXCEPT !.since = 0] \in hws
      BY DEF Disarmed, NoFeeder, OtherFeeder
<1>b. /\ [mode |-> "armed", age |-> 0, fails |-> 0, soltado |-> FALSE] \in modes
      /\ [mode |-> "disarmed"] \in modes
      BY DEF ArmedFeeder, OtherFeeder
<1>1. CASE WriteHeartbeat
      BY <1>1 DEF WriteHeartbeat
<1>2. CASE WriteBeacon
      BY <1>2 DEF WriteBeacon
<1>3. CASE WdTick
      <2>1. hw' \in [on : BOOLEAN, since : 0..WdTimeout]
            BY <1>3 DEF WdTick
      <2>2. feeder' \in ArmedFeeder \cup OtherFeeder /\ feeder'.mode = feeder.mode
            <3>1. CASE feeder.mode = "armed"
                  BY <1>3, <3>1 DEF WdTick, ArmedFeeder, OtherFeeder, Upto
            <3>2. CASE feeder.mode # "armed"
                  BY <1>3, <3>2 DEF WdTick
            <3> QED  BY <3>1, <3>2
      <2>3. hb' \in 0..HbAge /\ bc' \in 0..BeaconAge /\ down' \in 0..Relaunch
            BY <1>3 DEF WdTick, Upto
      <2>4. hbDue' \in 0..HbEvery /\ bcDue' \in 0..BeaconEvery
            BY <1>3 DEF WdTick, Less
      <2>5. acts' = (feeder.mode \in {"armed", "disarmed"})
            /\ UNCHANGED <<excuse, armFlag, sealed, hung, wdFaults>>
            BY <1>3 DEF WdTick
      <2> QED  BY <2>1, <2>2, <2>3, <2>4, <2>5
<1>4. CASE Reset
      <2>1. feeder' \in modes /\ hw' \in hws /\ acts' = FALSE
            BY <1>4, <1>a DEF Reset
      <2>2. hb' \in 0..HbAge /\ bc' \in 0..BeaconAge /\ down' \in 0..Relaunch
            BY <1>4 DEF Reset
      <2>3. hbDue' \in 0..HbEvery /\ bcDue' \in 0..BeaconEvery
            BY <1>4 DEF Reset
      <2>4. hung' = FALSE /\ excuse' = ~sealed /\ UNCHANGED <<armFlag, sealed, wdFaults>>
            BY <1>4 DEF Reset
      <2> HIDE DEF hws, modes
      <2>5. hung' \in BOOLEAN /\ excuse' \in BOOLEAN /\ acts' \in BOOLEAN
            BY <2>1, <2>4
      <2> QED  BY <2>1, <2>2, <2>3, <2>4, <2>5 DEF hws, modes
<1>5. CASE Launch
      <2>1. /\ feeder' \in ArmedFeeder \cup OtherFeeder
            /\ acts' \in BOOLEAN /\ (acts' => feeder'.mode \in {"armed", "disarmed"})
            <3> HIDE DEF modes
            <3>1. feeder' \in modes
                  <4>1. \/ feeder' = [mode |-> "disarmed"] \/ feeder' = feeder
                        \/ feeder' = [mode |-> "armed", age |-> 0, fails |-> 0, soltado |-> FALSE]
                        BY <1>5 DEF Launch
                  <4>2. feeder \in modes
                        BY DEF modes
                  <4> QED  BY <4>1, <4>2, <1>b
            <3>2. \/ acts' = FALSE
                  \/ acts' = TRUE /\ feeder'.mode \in {"armed", "disarmed"}
                  BY <1>5 DEF Launch
            <3> QED  BY <3>1, <3>2 DEF modes
      <2>2. hw' \in hws
            <3>1. hw' = hw \/ hw' = [on |-> TRUE, since |-> 0]
                  BY <1>5 DEF Launch
            <3> QED  BY <3>1, <1>a
      <2>3. /\ down' = 0
            /\ UNCHANGED <<excuse, armFlag, hb, bc, hbDue, bcDue, sealed, hung, wdFaults>>
            BY <1>5 DEF Launch
      <2> QED  BY <2>1, <2>2, <2>3
<1>6. CASE PassArmed
      <2>1. feeder \in ArmedFeeder /\ feeder.mode = "armed" /\ acts' = FALSE
            BY <1>6 DEF PassArmed, OtherFeeder
      <2> DEFINE fails == IF Alive THEN 0 ELSE Upto(feeder.fails + 1, FailStreak)
      <2>2. fails \in 0..FailStreak
            BY <2>1 DEF ArmedFeeder, Upto
      <2>3. PICK b \in BOOLEAN : feeder' = [feeder EXCEPT !.fails = fails, !.soltado = b]
            <3>1. (~Alive /\ (feeder.soltado \/ ~Feeds(fails))) \in BOOLEAN
                  OBVIOUS
            <3>2. feeder' = [feeder EXCEPT !.fails = fails,
                                           !.soltado = ~Alive /\ (@ \/ ~Feeds(fails))]
                  BY <1>6 DEF PassArmed
            <3> HIDE DEF fails
            <3> QED  BY <2>1, <3>1, <3>2 DEF ArmedFeeder
      <2> HIDE DEF fails
      <2>4. feeder' \in ArmedFeeder
            BY <2>1, <2>2, <2>3 DEF ArmedFeeder
      <2>5. hw' \in hws
            <3>1. hw' = hw \/ hw' = [hw EXCEPT !.since = 0]
                  BY <1>6 DEF PassArmed
            <3> QED  BY <3>1, <1>a
      <2>6. excuse' \in BOOLEAN
            <3>1. excuse' = (hung \/ ~sealed) \/ excuse' = excuse
                  BY <1>6 DEF PassArmed
            <3> QED  BY <3>1
      <2>7. UNCHANGED <<armFlag, hb, bc, hbDue, bcDue, sealed, hung, down, wdFaults>>
            BY <1>6 DEF PassArmed
      <2> QED  BY <2>1, <2>4, <2>5, <2>6, <2>7
<1>7. CASE PassDisarmed
      BY <1>7 DEF PassDisarmed
<1>8. CASE Terminate
      <2>1. /\ feeder' = NoFeeder /\ hw' = Disarmed /\ acts' = FALSE /\ down' = 0
            /\ UNCHANGED <<excuse, armFlag, hb, bc, hbDue, bcDue, sealed, hung, wdFaults>>
            BY <1>8 DEF Terminate
      <2>2. feeder' \in modes /\ hw' \in hws /\ acts' \in BOOLEAN /\ ~acts'
            BY <2>1, <1>a
      <2>3. 0 \in 0..Relaunch
            OBVIOUS
      <2> QED  BY <2>1, <2>2, <2>3
<1>9. CASE KillFeeder
      <2>1. /\ feeder' = NoFeeder /\ acts' = FALSE /\ down' = 0 /\ wdFaults' = wdFaults + 1
            /\ UNCHANGED <<excuse, armFlag, hw, hb, bc, hbDue, bcDue, sealed, hung>>
            BY <1>9 DEF KillFeeder
      <2>2. feeder' \in modes /\ acts' \in BOOLEAN /\ ~acts'
            BY <2>1, <1>a
      <2>3. 0 \in 0..Relaunch /\ wdFaults + 1 \in Nat
            OBVIOUS
      <2> QED  BY <2>1, <2>2, <2>3
<1>10. CASE Jump
      <2>1. feeder' \in ArmedFeeder \cup OtherFeeder /\ feeder'.mode = feeder.mode
            <3>1. CASE feeder.mode = "armed"
                  BY <1>10, <3>1 DEF Jump, ArmedFeeder, OtherFeeder
            <3>2. CASE feeder.mode # "armed"
                  BY <1>10, <3>2 DEF Jump
            <3> QED  BY <3>1, <3>2
      <2> QED  BY <1>10, <2>1 DEF Jump
<1>11. CASE Hang
      BY <1>11 DEF Hang
<1>14. CASE Attest
      <2>1. /\ sealed' = ~sealed /\ excuse' = (excuse \/ sealed)
            /\ UNCHANGED <<armFlag, feeder, hw, hb, bc, hbDue, bcDue, hung, acts, down, wdFaults>>
            BY <1>14 DEF Attest
      <2>2. sealed' \in BOOLEAN /\ excuse' \in BOOLEAN
            BY <2>1
      <2> QED  BY <2>1, <2>2
<1>15. CASE SetArmFlag
      <2>1. /\ armFlag' = ~armFlag
            /\ UNCHANGED <<excuse, feeder, hw, hb, bc, hbDue, bcDue, sealed, hung, acts, down, wdFaults>>
            BY <1>15 DEF SetArmFlag
      <2>2. armFlag' \in BOOLEAN
            BY <2>1
      <2> QED  BY <2>1, <2>2
<1>12. CASE Stick
      BY <1>12 DEF Stick, OtherFeeder
<1>13. CASE UNCHANGED wdVars
      BY <1>13 DEF wdVars
<1> QED  BY <1>1, <1>2, <1>3, <1>4, <1>5, <1>6, <1>7, <1>8, <1>9, <1>10, <1>11, <1>12, <1>13,
         <1>14, <1>15
         DEF WdNext, WdEnv, FeederStep

LEMMA WdTypesAreRight == WdTypes => WdTypeOK
BY DEF WdTypes, WdTypeOK, ArmedFeeder, OtherFeeder

-----------------------------------------------------------------------------
(***************************************************************************)
(* The clock.  A run of clock_sync knows the time: what it read is no more *)
(* than a tick behind, so that a clock it sets by more than Grace goes     *)
(* forward, to a time that somebody has seen.                              *)
(***************************************************************************)
Running ==
    [pc : {"survey", "set", "rtc"}, now : 0..MaxReal, ref : 0..MaxReal, ticks : 0..1]

ClockTypes ==
    /\ real \in 0..MaxReal /\ clock \in 0..MaxReal /\ rtc \in 0..MaxReal
    /\ beacon \in 0..MaxReal /\ mtime \in [Files -> 0..MaxReal]
    /\ battery \in BOOLEAN /\ boot \in 1..MaxBoots /\ clockFaults \in 0..MaxClockFaults
    /\ sync \in [pc : {"idle"}] \cup Running
    /\ synced \in {"none", "RELOJ_OK", "RELOJ_CORREGIDO", "CORRECCION_PENDIENTE"}

NoneAhead ==
    /\ Floor <= real /\ clock <= real /\ rtc <= real /\ beacon <= real
    /\ \A f \in Files : mtime[f] <= real

SyncKnows ==
    /\ sync.pc \in {"survey", "set"} => clock <= sync.now + sync.ticks
    /\ sync.pc # "idle" => sync.ref <= real
    /\ sync.pc = "set" => sync.now < sync.ref - Grace

ClockInv == ClockTypes /\ NoneAhead /\ SyncKnows

LEMMA ClockConstants ==
    /\ Floor \in Nat /\ MaxReal \in Nat /\ MaxBoots \in Nat /\ MaxClockFaults \in Nat
    /\ Floor + 1 <= MaxReal /\ MaxBoots >= 1 /\ Grace \in Nat /\ Grace >= 2
<1>1. {Floor, MaxReal, MaxBoots, MaxClockFaults} \subseteq Nat
      BY ClockAssumption
<1> QED  BY <1>1, ClockAssumption

LEMMA ClockInitInv == ClockInit => ClockInv
<1> SUFFICES ASSUME ClockInit PROVE ClockInv
    OBVIOUS
<1>1. ClockTypes
      BY ClockConstants DEF ClockInit, ClockTypes, NoSync
<1>2. NoneAhead
      BY ClockConstants DEF ClockInit, NoneAhead
<1>3. SyncKnows
      BY DEF ClockInit, SyncKnows, NoSync
<1> QED  BY <1>1, <1>2, <1>3 DEF ClockInv

\* The latest time there is evidence of is one that was.
LEMMA ReferenceIs ==
    ASSUME ClockTypes, NoneAhead
    PROVE  Own \in 0..real /\ Reference \in 0..real
<1> USE ClockConstants
<1>1. real \in Int /\ 0 \in Int /\ real \in Nat
      BY DEF ClockTypes
<1>2. {0} \cup {mtime[f] : f \in Files} \in SUBSET (0..real)
      BY <1>1 DEF ClockTypes, NoneAhead
<1>3. Own \in 0..real
      BY <1>1, <1>2, MaxIs DEF Own
<1>4. {Floor, Own, beacon} \in SUBSET (0..real)
      BY <1>1, <1>3 DEF ClockTypes, NoneAhead
<1>5. Reference \in 0..real
      BY <1>1, <1>4, MaxIs DEF Reference
<1> QED  BY <1>3, <1>5

LEMMA ClockTick == ASSUME ClockInv, Tick PROVE ClockInv' /\ clock' >= clock
<1> USE ClockConstants
<1>1. real \in Nat /\ clock \in Nat /\ rtc \in Nat /\ beacon \in Nat /\ MaxReal \in Nat
      BY DEF ClockInv, ClockTypes
<1>2. real' = real + 1 /\ clock' = clock + 1 /\ rtc' = rtc + 1 /\ real + 1 <= MaxReal
      BY <1>1 DEF Tick
<1>3. CASE sync.pc = "idle"
      <2>1. sync' = sync
            BY <1>3 DEF Tick
      <2>2. ClockTypes'
            BY <1>1, <1>2, <2>1 DEF ClockInv, ClockTypes, NoneAhead, Tick
      <2>3. NoneAhead'
            BY <1>1, <1>2 DEF ClockInv, ClockTypes, NoneAhead, Tick
      <2>4. SyncKnows'
            BY <1>3, <2>1 DEF SyncKnows
      <2> QED  BY <1>1, <1>2, <2>2, <2>3, <2>4 DEF ClockInv
<1>4. CASE sync.pc # "idle"
      <2>1. sync \in Running /\ sync.ticks = 0 /\ sync' = [sync EXCEPT !.ticks = 1]
            BY <1>4 DEF Tick, ClockInv, ClockTypes
      <2>2. /\ sync' \in Running /\ sync'.pc = sync.pc /\ sync'.now = sync.now
            /\ sync'.ref = sync.ref /\ sync'.ticks = 1
            BY <2>1 DEF Running
      <2>3. ClockTypes'
            BY <1>1, <1>2, <2>2 DEF ClockInv, ClockTypes, NoneAhead, Tick
      <2>4. NoneAhead'
            BY <1>1, <1>2 DEF ClockInv, ClockTypes, NoneAhead, Tick
      <2>5. sync.now \in Nat /\ sync.ref \in Nat
            BY <2>1 DEF Running
      <2>6. SyncKnows'
            BY <1>1, <1>2, <2>1, <2>2, <2>5 DEF ClockInv, SyncKnows
      <2> QED  BY <1>1, <1>2, <2>3, <2>4, <2>6 DEF ClockInv
<1> QED  BY <1>3, <1>4

LEMMA ClockOutside ==
    ASSUME ClockInv, WriteFile \/ Beacon \/ BatteryDies
    PROVE  ClockInv' /\ clock' = clock
<1> USE ClockConstants
<1>1. real \in Nat /\ clock \in Nat
      BY DEF ClockInv, ClockTypes
<1>2. UNCHANGED <<real, clock, rtc, boot, sync, synced>>
      BY DEF WriteFile, Beacon, BatteryDies
<1>3. CASE WriteFile
      <2>1. PICK f \in Files : mtime' = [mtime EXCEPT ![f] = clock]
            BY <1>3 DEF WriteFile
      <2>2. ClockTypes'
            BY <1>2, <1>3, <2>1 DEF ClockInv, ClockTypes, WriteFile
      <2>3. NoneAhead'
            BY <1>2, <1>3, <2>1 DEF ClockInv, ClockTypes, NoneAhead, WriteFile
      <2> QED  BY <1>2, <2>2, <2>3 DEF ClockInv, SyncKnows
<1>4. CASE Beacon
      <2>1. beacon' \in {0, real} /\ clockFaults' \in 0..MaxClockFaults
            BY <1>4 DEF Beacon, ClockInv, ClockTypes
      <2>2. ClockTypes'
            BY <1>1, <1>2, <1>4, <2>1 DEF ClockInv, ClockTypes, Beacon
      <2>3. NoneAhead'
            BY <1>1, <1>2, <1>4, <2>1 DEF ClockInv, ClockTypes, NoneAhead, Beacon
      <2> QED  BY <1>2, <2>2, <2>3 DEF ClockInv, SyncKnows
<1>5. CASE BatteryDies
      BY <1>2, <1>5 DEF ClockInv, ClockTypes, NoneAhead, SyncKnows, BatteryDies
<1> QED  BY <1>2, <1>3, <1>4, <1>5

LEMMA ClockBoot == ASSUME ClockInv, Boot PROVE ClockInv' /\ boot' # boot
<1> USE ClockConstants
<1>1. boot \in Nat /\ boot' = boot + 1 /\ boot' \in 1..MaxBoots
      BY DEF ClockInv, ClockTypes, Boot
<1>2. rtc' \in {0, rtc} /\ clock' = rtc' /\ sync' = NoSync
      BY DEF Boot
<1>3. ClockTypes'
      BY <1>1, <1>2 DEF ClockInv, ClockTypes, Boot, NoSync
<1>4. NoneAhead'
      BY <1>2 DEF ClockInv, ClockTypes, NoneAhead, Boot
<1>5. SyncKnows'
      BY <1>2 DEF SyncKnows, NoSync
<1> QED  BY <1>1, <1>3, <1>4, <1>5 DEF ClockInv

LEMMA ClockSurvey == ASSUME ClockInv, StartSync \/ Survey PROVE ClockInv' /\ clock' = clock
<1> USE ClockConstants
<1>1. UNCHANGED <<real, clock, rtc, battery, boot, mtime, beacon, synced, setOk, clockFaults>>
      BY DEF StartSync, Survey
<1>2. real \in Nat /\ clock \in Nat
      BY DEF ClockInv, ClockTypes
<1>3. CASE StartSync
      <2>1. sync' = [pc |-> "survey", now |-> clock, ref |-> 0, ticks |-> 0]
            BY <1>3 DEF StartSync
      <2>2. ClockTypes'
            BY <1>1, <2>1 DEF ClockInv, ClockTypes, Running
      <2>3. NoneAhead' /\ SyncKnows'
            BY <1>1, <1>2, <2>1 DEF ClockInv, ClockTypes, NoneAhead, SyncKnows
      <2> QED  BY <1>1, <2>2, <2>3 DEF ClockInv
<1>4. CASE Survey
      <2>1. sync \in Running /\ sync.pc = "survey"
            BY <1>4 DEF Survey, ClockInv, ClockTypes
      <2>2. Reference \in 0..real /\ Reference \in 0..MaxReal
            BY <1>2, ReferenceIs DEF ClockInv, ClockTypes
      <2>3. /\ sync'.now = sync.now /\ sync'.ticks = sync.ticks /\ sync'.ref = Reference
            /\ sync'.pc = IF Lags(sync.now, Reference) THEN "set" ELSE "rtc"
            /\ sync' \in Running
            BY <1>4, <2>1, <2>2 DEF Survey, Running
      <2>4. ClockTypes' /\ NoneAhead'
            BY <1>1, <2>3 DEF ClockInv, ClockTypes, NoneAhead
      <2>5. SyncKnows'
            BY <1>1, <2>1, <2>2, <2>3 DEF ClockInv, SyncKnows, Lags
      <2> QED  BY <1>1, <2>4, <2>5 DEF ClockInv
<1> QED  BY <1>3, <1>4

\* The step that moves the clock: forward, and to no time ahead.
LEMMA ClockSet == ASSUME ClockInv, SetClock PROVE ClockInv' /\ clock' >= clock
<1> USE ClockConstants
<1>1. sync \in Running /\ sync.pc = "set" /\ sync' = [sync EXCEPT !.pc = "rtc"]
      BY DEF SetClock, ClockInv, ClockTypes
<1>2. sync' \in Running /\ sync'.pc = "rtc" /\ sync'.ref = sync.ref
      BY <1>1 DEF Running
<1>3. /\ sync.now \in Nat /\ sync.ref \in 0..MaxReal /\ sync.ref \in Nat /\ sync.ticks \in 0..1
      /\ real \in Nat /\ clock \in Nat
      BY <1>1 DEF ClockInv, ClockTypes, Running
<1>4. clock <= sync.now + sync.ticks /\ sync.ref <= real /\ sync.now < sync.ref - Grace
      BY <1>1 DEF ClockInv, SyncKnows
<1>5. clock' \in {clock, sync.ref} /\ clockFaults' \in 0..MaxClockFaults
      BY DEF SetClock, ClockInv, ClockTypes
<1>6. sync.ref >= clock
      BY <1>3, <1>4
<1>7. UNCHANGED <<real, rtc, battery, boot, mtime, beacon, synced>>
      BY DEF SetClock
<1>8. ClockTypes'
      BY <1>2, <1>3, <1>5, <1>7 DEF ClockInv, ClockTypes
<1>9. NoneAhead'
      BY <1>4, <1>5, <1>7 DEF ClockInv, NoneAhead
<1>10. SyncKnows'
      BY <1>1, <1>2, <1>4, <1>7 DEF ClockInv, SyncKnows
<1> QED  BY <1>3, <1>5, <1>6, <1>8, <1>9, <1>10 DEF ClockInv

LEMMA ClockEnds ==
    ASSUME ClockInv, SetRaises \/ WriteRtc \/ KillSync
    PROVE  ClockInv' /\ clock' = clock
<1> USE ClockConstants
<1>1. UNCHANGED <<real, clock, battery, boot, mtime, beacon>> /\ sync' = NoSync
      BY DEF SetRaises, WriteRtc, KillSync
<1>2. /\ rtc' \in {rtc, clock} /\ clockFaults' \in 0..MaxClockFaults
      /\ synced' \in {synced, "RELOJ_OK", "RELOJ_CORREGIDO", "CORRECCION_PENDIENTE"}
      BY DEF SetRaises, WriteRtc, KillSync, ClockInv, ClockTypes
<1>3. ClockTypes'
      BY <1>1, <1>2 DEF ClockInv, ClockTypes, NoSync
<1>4. NoneAhead'
      BY <1>1, <1>2 DEF ClockInv, NoneAhead
<1>5. SyncKnows'
      BY <1>1 DEF SyncKnows, NoSync
<1> QED  BY <1>1, <1>3, <1>4, <1>5 DEF ClockInv

\* Each step of the clock, and of what clock_watch meets, keeps the invariant,
\* and takes the clock back only with a boot.
LEMMA ClockStep ==
    ASSUME ClockInv, ClockNext \/ ClockWatchNext \/ UNCHANGED clockVars
    PROVE  ClockInv' /\ (clock' < clock => boot' # boot)
<1>1. clock \in Int
      BY ClockConstants DEF ClockInv, ClockTypes
<1>2. ASSUME ClockInv' PROVE clock' \in Int
      BY <1>2, ClockConstants DEF ClockInv, ClockTypes
<1>3. CASE UNCHANGED clockVars
      BY <1>1, <1>3 DEF clockVars, ClockInv, ClockTypes, NoneAhead, SyncKnows
<1>4. CASE Tick \/ SetClock
      BY <1>1, <1>2, <1>4, ClockTick, ClockSet
<1>5. CASE Boot
      BY <1>5, ClockBoot
<1>6. CASE WriteFile \/ Beacon \/ BatteryDies \/ StartSync \/ Survey \/ SetRaises \/ WriteRtc
           \/ KillSync
      BY <1>1, <1>6, ClockOutside, ClockSurvey, ClockEnds
<1> QED  BY <1>3, <1>4, <1>5, <1>6 DEF ClockNext, ClockWatchNext, SyncRun, WatchPass, WatchStep

LEMMA ClockIsRight ==
    ClockInv => ClockTypeOK /\ NeverAhead /\ Own \in 0..real
<1> SUFFICES ASSUME ClockInv PROVE ClockTypeOK /\ NeverAhead /\ Own \in 0..real
    OBVIOUS
<1>1. ClockTypeOK
      BY ClockConstants DEF ClockInv, ClockTypes, ClockTypeOK, Running
<1>2. NeverAhead
      BY ClockConstants DEF ClockInv, ClockTypes, NoneAhead, NeverAhead
<1> QED  BY <1>1, <1>2, ReferenceIs DEF ClockInv

-----------------------------------------------------------------------------
(***************************************************************************)
(* The watches with a state file.  As long as no pass was killed, the last *)
(* record of a key is what the running pass found if it has compared the   *)
(* key already, and what the state file holds if not (Compared).  The keys *)
(* are those that are in every finding.                                    *)
(***************************************************************************)
WatchStates ==
    {"OK", "RELOJ_BAJO_SUELO", "RELOJ_ATRASADO", "SKEW_VS_PEERS", "DISCO_LLENO",
     "INODOS_BAJOS", "FICHERO_ENORME"}

OneEach(hall) == \A i, j \in DOMAIN hall : hall[i][1] = hall[j][1] => i = j

Holds(hall, keys) ==
    /\ hall \in Seq(WatchKeys \X WatchStates) /\ OneEach(hall)
    /\ \A k \in keys : \E j \in DOMAIN hall : hall[j][1] = k

WatchTypes ==
    /\ saved \in [WatchKeys -> WatchStates] /\ told \in [WatchKeys -> WatchStates]
    /\ pass \in [on : BOOLEAN, hall : Seq(WatchKeys \X WatchStates), i : Nat \ {0}]
    /\ watchKills \in Nat

Compared(keys) ==
    watchKills = 0 /\ pass.on =>
        \A j \in DOMAIN pass.hall :
            LET f == pass.hall[j]
            IN  f[1] \in keys => told[f[1]] = IF j < pass.i THEN f[2] ELSE saved[f[1]]

WatchInv(keys) ==
    /\ WatchTypes /\ LedgerTells(keys) /\ Compared(keys)
    /\ pass.on => Holds(pass.hall, keys)

LEMMA HallIs ==
    ASSUME NEW hall \in Seq(WatchKeys \X WatchStates)
    PROVE  /\ Len(hall) \in Nat /\ DOMAIN hall = 1..Len(hall)
           /\ \A j \in DOMAIN hall : hall[j][1] \in WatchKeys /\ hall[j][2] \in WatchStates
<1>1. Len(hall) \in Nat /\ DOMAIN hall = 1..Len(hall)
      BY LenProperties
<1>2. \A j \in DOMAIN hall : hall[j] \in WatchKeys \X WatchStates
      BY <1>1, ElementOfSeq
<1> QED  BY <1>1, <1>2

LEMMA WatchStarts == ASSUME StateWatchInit, NEW keys \in SUBSET WatchKeys PROVE WatchInv(keys)
<1>1. WatchTypes
      <2>1. <<>> \in Seq(WatchKeys \X WatchStates)
            BY EmptySeq
      <2> QED  BY <2>1 DEF StateWatchInit, WatchTypes, NoPass, AllOk, WatchStates
<1>2. ~pass.on /\ \A k \in keys : told[k] = saved[k]
      BY DEF StateWatchInit, NoPass
<1> QED  BY <1>1, <1>2 DEF WatchInv, LedgerTells, Compared

LEMMA PassBegins ==
    ASSUME NEW keys \in SUBSET WatchKeys, WatchInv(keys), NEW hall, Holds(hall, keys),
           BeginPass(hall)
    PROVE  WatchInv(keys)'
<1>1. /\ ~pass.on /\ pass'.on /\ pass'.hall = hall /\ pass'.i = 1
      /\ UNCHANGED <<saved, told, watchKills>>
      BY DEF BeginPass
<1>2. WatchTypes'
      BY DEF BeginPass, WatchInv, WatchTypes, Holds
<1>3. LedgerTells(keys)'
      BY <1>1 DEF LedgerTells
<1>4. Compared(keys)'
      <2>1. SUFFICES ASSUME watchKills = 0, NEW j \in DOMAIN hall, hall[j][1] \in keys
                     PROVE  told[hall[j][1]] = IF j < 1 THEN hall[j][2] ELSE saved[hall[j][1]]
            BY <1>1 DEF Compared
      <2>2. j \in Nat /\ j >= 1
            BY HallIs DEF Holds
      <2>3. told[hall[j][1]] = saved[hall[j][1]]
            BY <1>1, <2>1 DEF WatchInv, LedgerTells
      <2> QED  BY <2>2, <2>3
<1>5. Holds(hall, keys)
      OBVIOUS
<1> QED  BY <1>1, <1>2, <1>3, <1>4, <1>5 DEF WatchInv, Holds, OneEach

LEMMA PassCompares ==
    ASSUME NEW keys \in SUBSET WatchKeys, WatchInv(keys), Compare
    PROVE  WatchInv(keys)'
<1> DEFINE i == pass.i
           f == pass.hall[i]
<1>1. /\ pass.on /\ pass.hall \in Seq(WatchKeys \X WatchStates) /\ i \in Nat \ {0}
      /\ WatchTypes /\ Holds(pass.hall, keys)
      BY DEF Compare, WatchInv, WatchTypes
<1>2. /\ pass'.on /\ pass'.hall = pass.hall /\ pass'.i = i + 1
      /\ pass' \in [on : BOOLEAN, hall : Seq(WatchKeys \X WatchStates), i : Nat \ {0}]
      BY <1>1 DEF Compare, WatchTypes
<1>3. UNCHANGED <<saved, watchKills>>
      BY DEF Compare
<1>4. told' = IF saved[f[1]] # f[2] THEN [told EXCEPT ![f[1]] = f[2]] ELSE told
      BY DEF Compare
<1>5. i \in DOMAIN pass.hall /\ f[1] \in WatchKeys /\ f[2] \in WatchStates
      <2>1. Len(pass.hall) \in Nat /\ i <= Len(pass.hall) /\ i >= 1
            BY <1>1, HallIs DEF Compare
      <2>2. i \in DOMAIN pass.hall
            BY <1>1, <2>1, HallIs
      <2> QED  BY <1>1, <2>2, HallIs
<1>6. /\ told \in [WatchKeys -> WatchStates] /\ told' \in [WatchKeys -> WatchStates]
      /\ \A k \in WatchKeys : k # f[1] => told'[k] = told[k]
      /\ told'[f[1]] = IF saved[f[1]] # f[2] THEN f[2] ELSE told[f[1]]
      <2>1. told \in [WatchKeys -> WatchStates]
            BY <1>1 DEF WatchTypes
      <2> HIDE DEF f
      <2> QED  BY <1>4, <1>5, <2>1
<1>7. WatchTypes'
      BY <1>1, <1>2, <1>3, <1>6 DEF WatchTypes
<1>8. Compared(keys)'
      <2>1. SUFFICES ASSUME watchKills = 0, NEW j \in DOMAIN pass.hall,
                            pass.hall[j][1] \in keys
                     PROVE  told'[pass.hall[j][1]] =
                                IF j < i + 1 THEN pass.hall[j][2] ELSE saved[pass.hall[j][1]]
            BY <1>2, <1>3 DEF Compared
      <2>2. j \in Nat /\ pass.hall[j][1] \in WatchKeys
            BY <1>1, HallIs
      <2>3. told[pass.hall[j][1]] =
                IF j < i THEN pass.hall[j][2] ELSE saved[pass.hall[j][1]]
            BY <1>1, <2>1 DEF WatchInv, Compared
      <2>4. CASE j = i
            BY <1>1, <1>6, <2>3, <2>4
      <2>5. CASE j # i
            <3>1. pass.hall[j][1] # f[1]
                  BY <1>1, <1>5, <2>5 DEF Holds, OneEach
            <3>2. told'[pass.hall[j][1]] = told[pass.hall[j][1]]
                  BY <1>6, <2>2, <3>1
            <3>3. j < i + 1 <=> j < i
                  BY <1>1, <2>2, <2>5
            <3> QED  BY <2>3, <3>2, <3>3
      <2> QED  BY <2>4, <2>5
<1>9. LedgerTells(keys)'
      BY <1>2 DEF LedgerTells
<1> QED  BY <1>1, <1>2, <1>7, <1>8, <1>9 DEF WatchInv, Holds, OneEach

\* What the state file holds after a pass is what the pass found.
LEMMA PassSaves ==
    ASSUME NEW keys \in SUBSET WatchKeys, WatchInv(keys), SaveState
    PROVE  WatchInv(keys)'
<1> DEFINE hall == pass.hall
<1>1. /\ pass.on /\ hall \in Seq(WatchKeys \X WatchStates) /\ pass.i \in Nat
      /\ pass.i > Len(hall) /\ WatchTypes /\ Holds(hall, keys)
      BY DEF SaveState, WatchInv, WatchTypes
<1>2. pass' = NoPass /\ UNCHANGED <<told, watchKills>>
      BY DEF SaveState
<1>3. \A k \in WatchKeys :
          saved'[k] = IF \E j \in DOMAIN hall : hall[j][1] = k
                      THEN hall[CHOOSE j \in DOMAIN hall : hall[j][1] = k][2]
                      ELSE "OK"
      BY DEF SaveState
<1>4. \A j \in DOMAIN hall : saved'[hall[j][1]] = hall[j][2]
      <2> TAKE j \in DOMAIN hall
      <2>1. hall[j][1] \in WatchKeys
            BY <1>1, HallIs
      <2> DEFINE l == CHOOSE l \in DOMAIN hall : hall[l][1] = hall[j][1]
      <2>2. l \in DOMAIN hall /\ hall[l][1] = hall[j][1]
            OBVIOUS
      <2>3. l = j
            BY <1>1, <2>2 DEF Holds, OneEach
      <2>4. saved'[hall[j][1]] = hall[l][2]
            BY <1>3, <2>1
      <2> QED  BY <2>3, <2>4
<1>5. WatchTypes'
      <2>1. <<>> \in Seq(WatchKeys \X WatchStates)
            BY EmptySeq
      <2>2. \A k \in WatchKeys : saved'[k] \in WatchStates
            <3> TAKE k \in WatchKeys
            <3>1. CASE \E j \in DOMAIN hall : hall[j][1] = k
                  BY <1>1, <1>4, <3>1, HallIs
            <3>2. CASE ~\E j \in DOMAIN hall : hall[j][1] = k
                  BY <1>3, <3>2 DEF WatchStates
            <3> QED  BY <3>1, <3>2
      <2>3. saved' \in [WatchKeys -> WatchStates]
            BY <2>2 DEF SaveState
      <2> QED  BY <1>1, <1>2, <2>1, <2>3 DEF WatchTypes, NoPass
<1>6. watchKills = 0 => \A k \in keys : told[k] = saved'[k]
      <2> SUFFICES ASSUME watchKills = 0, NEW k \in keys PROVE told[k] = saved'[k]
          OBVIOUS
      <2>1. PICK j \in DOMAIN hall : hall[j][1] = k
            BY <1>1 DEF Holds
      <2>2. j \in Nat /\ j < pass.i
            BY <1>1, HallIs
      <2>3. told[k] = hall[j][2]
            BY <1>1, <2>1, <2>2 DEF WatchInv, Compared
      <2> QED  BY <1>4, <2>1, <2>3
<1>7. LedgerTells(keys)'
      BY <1>2, <1>6 DEF LedgerTells
<1>8. ~pass'.on
      BY <1>2 DEF NoPass
<1> QED  BY <1>5, <1>7, <1>8 DEF WatchInv, Compared

LEMMA PassIsKilled ==
    ASSUME NEW keys \in SUBSET WatchKeys, WatchInv(keys), KillPass
    PROVE  WatchInv(keys)'
<1>1. /\ pass' = NoPass /\ ~pass'.on /\ watchKills' = watchKills + 1
      /\ UNCHANGED <<saved, told>>
      BY DEF KillPass, NoPass
<1>2. <<>> \in Seq(WatchKeys \X WatchStates)
      BY EmptySeq
<1>3. watchKills \in Nat /\ watchKills' \in Nat /\ watchKills' # 0
      BY <1>1 DEF WatchInv, WatchTypes
<1>4. WatchTypes'
      BY <1>1, <1>2, <1>3 DEF WatchInv, WatchTypes, NoPass
<1> QED  BY <1>1, <1>3, <1>4 DEF WatchInv, LedgerTells, Compared

LEMMA WatchStutters ==
    ASSUME NEW keys \in SUBSET WatchKeys, WatchInv(keys), UNCHANGED watchVars
    PROVE  WatchInv(keys)'
BY DEF watchVars, WatchInv, WatchTypes, LedgerTells, Compared, Holds, OneEach

-----------------------------------------------------------------------------
\* What clock_watch finds has each of its keys once.
LEMMA HallazgosHold == Holds(Hallazgos, ClockKeys)
<1> DEFINE a == IF clock < Floor THEN "RELOJ_BAJO_SUELO" ELSE "OK"
           b == IF clock < Own THEN "RELOJ_ATRASADO" ELSE "OK"
           c == IF beacon > 0 /\ Skew >= SkewWarn THEN "SKEW_VS_PEERS" ELSE "OK"
<1>1. a \in WatchStates /\ b \in WatchStates /\ c \in WatchStates
      BY DEF WatchStates
<1>2. Hallazgos = <<<<"floor", a>>, <<"backward", b>>, <<"peers", c>>>>
      BY DEF Hallazgos
<1> HIDE DEF a, b, c
<1>3. {"floor", "backward", "peers"} \subseteq WatchKeys
      BY ClockAssumption DEF ClockKeys
<1>4. Hallazgos \in Seq(WatchKeys \X WatchStates)
      BY <1>1, <1>2, <1>3
<1>5. /\ DOMAIN Hallazgos = 1..3 /\ Hallazgos[1][1] = "floor"
      /\ Hallazgos[2][1] = "backward" /\ Hallazgos[3][1] = "peers"
      BY <1>2
<1>6. \A j \in DOMAIN Hallazgos : j = 1 \/ j = 2 \/ j = 3
      BY <1>5
<1>7. OneEach(Hallazgos)
      BY <1>5, <1>6 DEF OneEach
<1>8. \A k \in ClockKeys : \E j \in DOMAIN Hallazgos : Hallazgos[j][1] = k
      <2>1. 1 \in DOMAIN Hallazgos /\ 2 \in DOMAIN Hallazgos /\ 3 \in DOMAIN Hallazgos
            BY <1>5
      <2> QED  BY <1>5, <2>1 DEF ClockKeys
<1> QED  BY <1>4, <1>7, <1>8 DEF Holds

DiskKeys == {"persist"}

\* What storage_watch finds has the disk, and nothing twice.
LEMMA EvaluatedHold == Holds(Evaluated, DiskKeys)
<1> DEFINE Pairs == WatchKeys \X WatchStates
           a == IF use = "low" THEN "OK" ELSE "DISCO_LLENO"
           b == IF inodes THEN "INODOS_BAJOS" ELSE "OK"
           s == IF use = "none" THEN <<<<"persist", "OK">>>>
                ELSE <<<<"persist", a>>, <<"inodos", b>>>>
           t == IF big THEN <<<<"big", "FICHERO_ENORME">>>> ELSE <<>>
<1>1. Evaluated = s \o t
      BY DEF Evaluated
<1>2. "persist" \in WatchKeys /\ "inodos" \in WatchKeys /\ "big" \in WatchKeys
      BY StorageAssumption
<1>3. a \in WatchStates /\ b \in WatchStates /\ "OK" \in WatchStates
      /\ "FICHERO_ENORME" \in WatchStates
      BY DEF WatchStates
<1>4. /\ s \in Seq(Pairs) /\ Len(s) \in {1, 2} /\ s[1][1] = "persist"
      /\ Len(s) = 2 => s[2][1] = "inodos"
      <2> HIDE DEF a, b
      <2>1. CASE use = "none"
            <3>1. s = <<<<"persist", "OK">>>>
                  BY <2>1
            <3> HIDE DEF s
            <3> QED  BY <1>2, <1>3, <3>1
      <2>2. CASE use # "none"
            <3>1. s = <<<<"persist", a>>, <<"inodos", b>>>>
                  BY <2>2
            <3> HIDE DEF s
            <3> QED  BY <1>2, <1>3, <3>1
      <2> QED  BY <2>1, <2>2
<1>5. /\ t \in Seq(Pairs) /\ Len(t) \in {0, 1}
      /\ Len(t) = 1 => t[1][1] = "big"
      <2>1. t = <<<<"big", "FICHERO_ENORME">>>> \/ t = <<>>
            OBVIOUS
      <2> HIDE DEF t
      <2>2. CASE t = <<<<"big", "FICHERO_ENORME">>>>
            BY <1>2, <1>3, <2>2
      <2>3. CASE t = <<>>
            BY <2>3, EmptySeq
      <2> QED  BY <2>1, <2>2, <2>3
<1> HIDE DEF s, t, Pairs, a, b
<1>6. /\ Evaluated \in Seq(Pairs) /\ Len(Evaluated) = Len(s) + Len(t)
      /\ \A j \in 1..Len(s) + Len(t) :
           Evaluated[j] = IF j <= Len(s) THEN s[j] ELSE t[j - Len(s)]
      BY <1>1, <1>4, <1>5, ConcatProperties
<1>7. DOMAIN Evaluated = 1..Len(s) + Len(t)
      BY <1>6, LenProperties
<1>8. /\ 1 \in DOMAIN Evaluated /\ Evaluated[1][1] = "persist"
      /\ \A j \in DOMAIN Evaluated :
           \/ j = 1 /\ Evaluated[j][1] = "persist"
           \/ j = 2 /\ Len(s) = 2 /\ Evaluated[j][1] = "inodos"
           \/ j = Len(s) + 1 /\ Evaluated[j][1] = "big"
      <2>1. Len(s) = 1 \/ Len(s) = 2
            BY <1>4
      <2>2. Len(t) = 0 \/ Len(t) = 1
            BY <1>5
      <2>3. 1 \in DOMAIN Evaluated /\ Evaluated[1][1] = "persist"
            BY <1>4, <1>6, <1>7, <2>1, <2>2
      <2>4. ASSUME NEW j \in DOMAIN Evaluated, j # 1
            PROVE  \/ j = 2 /\ Len(s) = 2 /\ Evaluated[j][1] = "inodos"
                   \/ j = Len(s) + 1 /\ Evaluated[j][1] = "big"
            BY <1>4, <1>5, <1>6, <1>7, <2>1, <2>2, <2>4
      <2> QED  BY <2>3, <2>4
<1>9. OneEach(Evaluated)
      BY <1>8 DEF OneEach
<1> QED  BY <1>6, <1>8, <1>9 DEF Holds, DiskKeys, Pairs

-----------------------------------------------------------------------------
(***************************************************************************)
(* The calendar.  The cursor of a run vouches for what was told as the     *)
(* file does, from the start of the run: it rises to a stage only when the *)
(* line of that stage, and of an escalation the second one, is written, or *)
(* the entry is one of which an append failed.                             *)
(***************************************************************************)
Stages == 0..VENCIDO
LineIds == IdSet \cup {"calendario"}
AlertLines == [id : LineIds, stage : Stages, ts : Nat]
CycleRuns ==
    [pc : {"read", "entry", "escalate", "save"}, now : Nat, cur : [IdSet -> Stages],
     due : [IdSet -> Nat], i : Nat, line : AlertLines]

ExpiryTypes ==
    /\ day \in 0..MaxDay /\ lost \in BOOLEAN /\ due \in [IdSet -> Nat]
    /\ calSig \in {"none", "good", "bad"} /\ cursor \in [IdSet -> Stages]
    /\ alerts \in Seq(AlertLines) /\ Len(alerts) <= TailLen
    /\ escalated \in Seq(AlertLines) /\ Len(escalated) <= TailLen
    /\ worst \in [IdSet -> Stages] /\ sent \in [IdSet -> Stages] /\ regFail \subseteq IdSet
    /\ cycle \in [pc : {"idle"}] \cup CycleRuns

Vouched(c, w, s, r) ==
    \A e \in IdSet \ r :
        /\ c[e] <= w[e]
        /\ Severe(e, c[e]) => s[e] >= c[e] \/ s[e] = VENCIDO

\* The line that is about to be escalated was told, or could not be.
LineTold ==
    LET e == cycle.line.id
    IN  e \in IdSet \ regFail => cycle.line.stage <= worst[e]

CycleVouched ==
    /\ cycle.pc # "idle" => Vouched(cycle.cur, worst, sent, regFail)
    /\ cycle.pc \in {"read", "entry", "escalate"} => cycle.i \in 1..Len(Ids)
    /\ cycle.pc = "escalate" => LineTold

ExpiryInv == ExpiryTypes /\ Vouched(cursor, worst, sent, regFail) /\ CycleVouched

LEMMA ExpiryConstants ==
    /\ MaxDay \in Nat /\ TailLen \in Nat /\ TailLen >= 1
    /\ Len(Ids) \in Nat /\ Len(Ids) >= 1 /\ DOMAIN Ids = 1..Len(Ids)
    /\ \A i \in 1..Len(Ids) : Ids[i] \in IdSet
    /\ FirstDue \in [IdSet -> Nat]
    /\ Stages = 0..4 /\ VENCIDO = 4
<1>1. {MaxDay, MaxRenewals, MaxExpiryFaults} \subseteq Nat
      BY ExpiryAssumption
<1>2. Ids \in Seq(IdSet) /\ Ids # <<>>
      BY ExpiryAssumption DEF IdSet
<1>3. Len(Ids) \in Nat /\ Len(Ids) >= 1 /\ DOMAIN Ids = 1..Len(Ids)
      BY <1>2, EmptySeq, LenProperties
<1>4. \A i \in 1..Len(Ids) : Ids[i] \in IdSet
      BY <1>2, ElementOfSeq
<1> QED  BY <1>1, <1>3, <1>4, ExpiryAssumption DEF IdSet, Stages, VENCIDO

LEMMA ExpiryInitInv == ExpiryInit => ExpiryInv
<1> SUFFICES ASSUME ExpiryInit PROVE ExpiryInv
    OBVIOUS
<1> USE ExpiryConstants
<1>1. <<>> \in Seq(AlertLines) /\ Len(<<>>) = 0
      BY EmptySeq
<1>2. /\ cursor \in [IdSet -> Stages] /\ worst = cursor /\ sent = cursor /\ regFail = {}
      /\ \A e \in IdSet : cursor[e] = 0
      BY DEF ExpiryInit
<1>3. ExpiryTypes
      <2>1. alerts = <<>> /\ escalated = <<>> /\ cycle = [pc |-> "idle"] /\ lost = FALSE
            BY DEF ExpiryInit, NoCycle
      <2>2. day \in 0..MaxDay /\ due \in [IdSet -> Nat] /\ calSig \in {"none", "good", "bad"}
            BY DEF ExpiryInit
      <2>3. cycle \in [pc : {"idle"}]
            BY <2>1
      <2>4. Len(alerts) <= TailLen /\ Len(escalated) <= TailLen
            BY <1>1, <2>1
      <2> QED  BY <1>1, <1>2, <2>1, <2>2, <2>3, <2>4 DEF ExpiryTypes
<1>4. Vouched(cursor, worst, sent, regFail)
      BY <1>2 DEF Vouched
<1>5. CycleVouched
      BY DEF ExpiryInit, CycleVouched, NoCycle
<1> QED  BY <1>3, <1>4, <1>5 DEF ExpiryInv

\* What is kept of a ledger ends with its last line.
LEMMA LastOfIs ==
    ASSUME NEW S, NEW s \in Seq(S), NEW x \in S
    PROVE  /\ LastOf(Append(s, x)) \in Seq(S) /\ LastOf(Append(s, x)) # <<>>
           /\ Len(LastOf(Append(s, x))) \in Nat /\ Len(LastOf(Append(s, x))) <= TailLen
           /\ LastOf(Append(s, x))[Len(LastOf(Append(s, x)))] = x
<1> USE ExpiryConstants
<1> DEFINE a == Append(s, x)
           n == Len(a)
           m == Max({1, n - TailLen + 1})
<1>1. /\ a \in Seq(S) /\ n \in Nat /\ n >= 1 /\ a[n] = x
      /\ \A i \in 1..n : a[i] \in S
      <2>1. a \in Seq(S) /\ n = Len(s) + 1 /\ a[Len(s) + 1] = x /\ Len(s) \in Nat
            BY AppendProperties, LenProperties
      <2> HIDE DEF a
      <2> QED  BY <2>1, ElementOfSeq
<1> HIDE DEF a, n
<1>2. m \in {1, n - TailLen + 1} /\ m >= 1 /\ m >= n - TailLen + 1
      <2>1. 1 \in Int /\ n - TailLen + 1 \in Int
            BY <1>1
      <2> QED  BY <2>1, MaxOfTwo
<1> HIDE DEF m
<1>3. m \in 1..n /\ n - m + 1 <= TailLen /\ n - m + 1 >= 1
      BY <1>1, <1>2
<1> DEFINE t == SubSeq(a, m, n)
<1>4. t \in Seq(S) /\ Len(t) = n - m + 1 /\ t[n - m + 1] = a[m + (n - m + 1) - 1]
      <2>1. \A i \in m..n : a[i] \in S
            BY <1>1, <1>3
      <2>2. m \in Int /\ n \in Int
            BY <1>1, <1>3
      <2>3. /\ SubSeq(a, m, n) \in Seq(S)
            /\ Len(SubSeq(a, m, n)) = IF m <= n THEN n - m + 1 ELSE 0
            /\ \A i \in 1..n - m + 1 : SubSeq(a, m, n)[i] = a[m + i - 1]
            BY <2>1, <2>2, SubSeqProperties
      <2>4. m <= n /\ n - m + 1 \in 1..n - m + 1
            BY <1>1, <1>3
      <2> QED  BY <2>3, <2>4
<1>5. LastOf(Append(s, x)) = t
      BY DEF LastOf, a, n, m
<1> HIDE DEF t
<1>6. m + (n - m + 1) - 1 = n /\ Len(t) \in Nat /\ Len(t) >= 1
      BY <1>1, <1>3, <1>4
<1>7. t # <<>>
      BY <1>6, EmptySeq
<1> QED  BY <1>1, <1>3, <1>4, <1>5, <1>6, <1>7

\* What was told only becomes worse.
LEMMA WorseIs ==
    ASSUME NEW w \in [IdSet -> Stages], NEW e \in IdSet, NEW stage \in Stages
    PROVE  /\ Worse(w, e, stage) \in [IdSet -> Stages]
           /\ \A d \in IdSet : Worse(w, e, stage)[d] >= w[d]
           /\ \A d \in IdSet : d # e => Worse(w, e, stage)[d] = w[d]
           /\ Worse(w, e, stage)[e] >= stage
           /\ Worse(w, e, stage)[e] \in {w[e], stage}
<1> USE ExpiryConstants
<1>1. w[e] \in 0..4 /\ stage \in 0..4 /\ w[e] \in Int /\ stage \in Int
      OBVIOUS
<1> DEFINE m == Max({w[e], stage})
<1>2. m \in {w[e], stage} /\ m >= w[e] /\ m >= stage
      BY <1>1, MaxOfTwo
<1> HIDE DEF m
<1>3. Worse(w, e, stage) = [w EXCEPT ![e] = m]
      BY DEF Worse, m
<1>4. m \in Stages
      BY <1>1, <1>2
<1>5. \A d \in IdSet : w[d] \in 0..4
      OBVIOUS
<1> QED  BY <1>2, <1>3, <1>4, <1>5

\* What vouches for a cursor vouches for it when more was told.
LEMMA StillVouched ==
    ASSUME NEW c \in [IdSet -> Stages], NEW w \in [IdSet -> Stages], NEW s \in [IdSet -> Stages],
           NEW w2 \in [IdSet -> Stages], NEW s2 \in [IdSet -> Stages],
           NEW r, NEW r2, Vouched(c, w, s, r), r \subseteq r2,
           \A e \in IdSet : w2[e] >= w[e] /\ s2[e] >= s[e]
    PROVE  Vouched(c, w2, s2, r2)
<1> USE ExpiryConstants
<1> SUFFICES ASSUME NEW e \in IdSet, e \notin r2
             PROVE  /\ c[e] <= w2[e]
                    /\ Severe(e, c[e]) => s2[e] >= c[e] \/ s2[e] = VENCIDO
    BY DEF Vouched
<1>1. c[e] \in 0..4 /\ w[e] \in 0..4 /\ s[e] \in 0..4 /\ w2[e] \in 0..4 /\ s2[e] \in 0..4
      OBVIOUS
<1>2. w2[e] >= w[e] /\ s2[e] >= s[e]
      OBVIOUS
<1>3. c[e] <= w[e] /\ (Severe(e, c[e]) => s[e] >= c[e] \/ s[e] = VENCIDO)
      BY DEF Vouched
<1>4. c[e] <= w2[e]
      BY <1>1, <1>2, <1>3
<1>5. ASSUME Severe(e, c[e]) PROVE s2[e] >= c[e] \/ s2[e] = VENCIDO
      <2>1. s[e] >= c[e] \/ s[e] = VENCIDO
            BY <1>3, <1>5
      <2> QED  BY <1>1, <1>2, <2>1
<1> QED  BY <1>4, <1>5

\* A run sets the cursor of an entry, and goes to the next.
LEMMA SetCur ==
    ASSUME NEW c \in CycleRuns, NEW e \in IdSet, NEW stage \in Stages
    PROVE  /\ [c EXCEPT !.cur[e] = stage] \in CycleRuns
           /\ [c EXCEPT !.cur[e] = stage].cur = [c.cur EXCEPT ![e] = stage]
           /\ [c EXCEPT !.cur[e] = stage].i = c.i
BY DEF CycleRuns

LEMMA NextEntryIs ==
    ASSUME NEW c \in CycleRuns, cycle.i \in 1..Len(Ids), c.i = cycle.i
    PROVE  /\ NextEntry(c) \in CycleRuns /\ NextEntry(c).cur = c.cur
           /\ NextEntry(c).pc \in {"entry", "save"}
           /\ NextEntry(c).pc = "entry" => NextEntry(c).i \in 1..Len(Ids)
<1> USE ExpiryConstants
<1>1. NextEntry(c) =
          [c EXCEPT !.i = c.i + 1, !.pc = IF cycle.i = Len(Ids) THEN "save" ELSE "entry"]
      BY DEF NextEntry
<1>2. c.i + 1 \in Nat
      OBVIOUS
<1>3. /\ NextEntry(c) \in CycleRuns /\ NextEntry(c).cur = c.cur
      /\ NextEntry(c).i = c.i + 1
      /\ NextEntry(c).pc = IF cycle.i = Len(Ids) THEN "save" ELSE "entry"
      BY <1>1, <1>2 DEF CycleRuns
<1> QED  BY <1>3

LEMMA StageIs ==
    ASSUME cycle \in CycleRuns, cycle.i \in 1..Len(Ids)
    PROVE  Ids[cycle.i] \in IdSet /\ Stage \in Stages
<1> USE ExpiryConstants
<1>1. Ids[cycle.i] \in IdSet
      OBVIOUS
<1>2. cycle.due[Ids[cycle.i]] \in Nat /\ cycle.now \in Nat
      BY <1>1 DEF CycleRuns
<1>3. \A x \in Int : Etapa(x) \in 0..4
      BY DEF Etapa
<1>4. cycle.due[Ids[cycle.i]] - cycle.now \in Int
      BY <1>2
<1> QED  BY <1>1, <1>3, <1>4 DEF Stage

\* The cursor may go to a better stage at once, and to a worse one that was
\* told.
LEMMA SetIsVouched ==
    ASSUME NEW c \in [IdSet -> Stages], NEW w \in [IdSet -> Stages],
           NEW s \in [IdSet -> Stages], NEW r, Vouched(c, w, s, r),
           NEW e \in IdSet, NEW stage \in Stages,
           \/ e \in r
           \/ stage <= c[e]
           \/ stage <= w[e] /\ (Severe(e, stage) => s[e] >= stage)
    PROVE  Vouched([c EXCEPT ![e] = stage], w, s, r)
<1> USE ExpiryConstants
<1> DEFINE d == [c EXCEPT ![e] = stage]
<1>1. /\ c[e] \in 0..4 /\ w[e] \in 0..4 /\ s[e] \in 0..4 /\ stage \in 0..4
      OBVIOUS
<1>2. d[e] = stage /\ \A f \in IdSet : f # e => d[f] = c[f]
      OBVIOUS
<1> HIDE DEF d
<1>3. ASSUME e \notin r
      PROVE  stage <= w[e] /\ (Severe(e, stage) => s[e] >= stage \/ s[e] = VENCIDO)
      <2>1. c[e] <= w[e] /\ (Severe(e, c[e]) => s[e] >= c[e] \/ s[e] = VENCIDO)
            BY <1>3 DEF Vouched
      <2>2. stage <= w[e]
            BY <1>1, <1>3, <2>1
      <2>3. ASSUME Severe(e, stage) PROVE s[e] >= stage \/ s[e] = VENCIDO
            <3>1. CASE stage = c[e]
                  BY <2>1, <2>3, <3>1
            <3>2. CASE stage < c[e]
                  <4>1. stage = 3 /\ c[e] = 4
                        BY <1>1, <2>3, <3>2 DEF Severe
                  <4>2. Severe(e, c[e])
                        BY <4>1 DEF Severe
                  <4> QED  BY <1>1, <2>1, <4>1, <4>2
            <3>3. CASE ~(stage <= c[e])
                  BY <1>3, <2>3, <3>3
            <3> QED  BY <1>1, <3>1, <3>2, <3>3
      <2> QED  BY <2>2, <2>3
<1>4. Vouched(d, w, s, r)
      <2> SUFFICES ASSUME NEW f \in IdSet, f \notin r
                   PROVE  /\ d[f] <= w[f]
                          /\ Severe(f, d[f]) => s[f] >= d[f] \/ s[f] = VENCIDO
          BY DEF Vouched
      <2>1. CASE f = e
            BY <1>2, <1>3, <2>1
      <2>2. CASE f # e
            BY <1>2, <2>2 DEF Vouched
      <2> QED  BY <2>1, <2>2
<1> QED  BY <1>4 DEF d

-----------------------------------------------------------------------------
\* An append that fails is remembered of its entry.
LEMMA Appends ==
    ASSUME ExpiryInv, NEW e, AppendDone \/ AppendFails(e)
    PROVE  /\ regFail' \subseteq IdSet /\ regFail \subseteq regFail'
           /\ AppendFails(e) /\ e \in IdSet => e \in regFail'
BY DEF AppendDone, AppendFails, ExpiryInv, ExpiryTypes

LEMMA OutsideSteps ==
    ASSUME ExpiryInv, Days \/ LoseClock \/ SetDate \/ Renew \/ SignCalendar
    PROVE  ExpiryInv'
<1> USE ExpiryConstants
<1>1. UNCHANGED <<cursor, alerts, escalated, worst, sent, regFail, cycle>>
      BY DEF Days, LoseClock, SetDate, Renew, SignCalendar
<1>2. due' \in [IdSet -> Nat]
      <2>1. due \in [IdSet -> Nat]
            BY DEF ExpiryInv, ExpiryTypes
      <2>2. CASE Renew
            <3>1. PICK e \in IdSet : due' = [due EXCEPT ![e] = @ + 2]
                  BY <2>2 DEF Renew
            <3>2. due[e] + 2 \in Nat
                  BY <2>1
            <3> QED  BY <2>1, <3>1, <3>2
      <2>3. CASE due' = due
            BY <2>1, <2>3
      <2> QED  BY <2>2, <2>3 DEF Days, LoseClock, SetDate, SignCalendar
<1>3. day' \in 0..MaxDay
      BY DEF ExpiryInv, ExpiryTypes, Days, LoseClock, SetDate, Renew, SignCalendar
<1>4. lost' \in BOOLEAN
      BY DEF ExpiryInv, ExpiryTypes, Days, LoseClock, SetDate, Renew, SignCalendar
<1>5. calSig' \in {"none", "good", "bad"}
      BY DEF ExpiryInv, ExpiryTypes, Days, LoseClock, SetDate, Renew, SignCalendar
<1>6. ExpiryTypes'
      BY <1>1, <1>2, <1>3, <1>4, <1>5 DEF ExpiryInv, ExpiryTypes
<1> QED  BY <1>1, <1>6 DEF ExpiryInv, Vouched, CycleVouched, LineTold

LEMMA StartSteps == ASSUME ExpiryInv, StartCycle PROVE ExpiryInv'
<1> USE ExpiryConstants
<1>1. /\ UNCHANGED <<day, lost, due, calSig, cursor, escalated, worst, sent>>
      /\ ExpiryTypes
      BY DEF StartCycle, ExpiryInv
<1>2. Now \in Nat
      BY <1>1 DEF Now, ExpiryTypes
<1> DEFINE x == ManipLine(Now)
<1>3. x \in AlertLines /\ x.stage = 0
      BY <1>2 DEF ManipLine, AlertLines, LineIds
<1>4. cycle'.cur = cursor /\ cycle'.i = 1 /\ cycle'.line = x /\ cycle' \in CycleRuns
      <2>1. /\ cursor \in [IdSet -> Stages] /\ due \in [IdSet -> Nat]
            /\ calSig \in {"none", "good", "bad"}
            BY <1>1 DEF ExpiryTypes
      <2> DEFINE p == CASE calSig = "none" -> "save"
                        [] calSig = "bad" -> "escalate"
                        [] calSig = "good" -> "read"
      <2>2. p \in {"read", "escalate", "save"}
            BY <2>1
      <2> HIDE DEF p
      <2>3. cycle' = [pc |-> p, now |-> Now, cur |-> cursor, due |-> due, i |-> 1, line |-> x]
            BY DEF StartCycle, p
      <2> HIDE DEF x
      <2> QED  BY <1>2, <1>3, <2>1, <2>2, <2>3 DEF CycleRuns
<1>5. alerts' \in Seq(AlertLines) /\ Len(alerts') <= TailLen
      <2>1. alerts \in Seq(AlertLines) /\ Len(alerts) <= TailLen
            BY <1>1 DEF ExpiryTypes
      <2>2. alerts' = LastOf(Append(alerts, x)) \/ alerts' = alerts
            BY DEF StartCycle
      <2> HIDE DEF x
      <2>3. CASE alerts' = LastOf(Append(alerts, x))
            BY ONLY <1>3, <2>1, <2>3, LastOfIs
      <2> QED  BY <2>1, <2>2, <2>3
<1>6. regFail' \subseteq IdSet /\ regFail \subseteq regFail'
      <2>1. AppendDone \/ AppendFails("calendario")
            BY DEF StartCycle
      <2> QED  BY <2>1, Appends
<1>7. ExpiryTypes'
      BY <1>1, <1>4, <1>5, <1>6 DEF ExpiryTypes
<1>8. Vouched(cursor', worst', sent', regFail') /\ Vouched(cycle'.cur, worst', sent', regFail')
      BY <1>1, <1>4, <1>6 DEF ExpiryInv, Vouched
<1>9. LineTold'
      <2>1. \A e \in IdSet : worst'[e] \in 0..4
            BY <1>7 DEF ExpiryTypes
      <2> QED  BY <1>3, <1>4, <2>1 DEF LineTold
<1> QED  BY <1>4, <1>7, <1>8, <1>9 DEF ExpiryInv, CycleVouched

LEMMA ReadSteps == ASSUME ExpiryInv, ReadCalendar PROVE ExpiryInv'
<1> USE ExpiryConstants
<1>1. /\ UNCHANGED <<day, lost, due, calSig, cursor, alerts, escalated, worst, sent, regFail>>
      /\ ExpiryTypes /\ cycle \in CycleRuns /\ cycle.i \in 1..Len(Ids)
      BY DEF ReadCalendar, ExpiryInv, ExpiryTypes, CycleVouched
<1>2. due \in [IdSet -> Nat] /\ [e \in IdSet |-> 0] \in [IdSet -> Stages]
      BY <1>1 DEF ExpiryTypes
<1>3. /\ cycle' \in CycleRuns /\ cycle'.i = cycle.i /\ cycle'.pc \in {"entry", "save"}
      /\ cycle'.cur \in {cycle.cur, [e \in IdSet |-> 0]}
      BY <1>1, <1>2 DEF ReadCalendar, CycleRuns
<1>4. ExpiryTypes'
      BY <1>1, <1>3 DEF ExpiryTypes
<1>5. Vouched(cycle.cur, worst, sent, regFail) /\ Vouched([e \in IdSet |-> 0], worst, sent, regFail)
      <2>1. Vouched(cycle.cur, worst, sent, regFail)
            BY <1>1 DEF ReadCalendar, ExpiryInv, CycleVouched
      <2>2. \A e \in IdSet : worst[e] \in 0..4
            BY <1>1 DEF ExpiryTypes
      <2>3. \A e \in IdSet : ~Severe(e, 0)
            BY DEF Severe
      <2> QED  BY <2>1, <2>2, <2>3 DEF Vouched
<1>6. Vouched(cycle'.cur, worst, sent, regFail)
      BY <1>3, <1>5
<1>7. Vouched(cursor', worst', sent', regFail') /\ Vouched(cycle'.cur, worst', sent', regFail')
      BY <1>1, <1>6 DEF ExpiryInv, Vouched
<1> QED  BY <1>1, <1>3, <1>4, <1>7 DEF ExpiryInv, CycleVouched

LEMMA PassSteps == ASSUME ExpiryInv, PassOver PROVE ExpiryInv'
<1> USE ExpiryConstants
<1> DEFINE e == Ids[cycle.i]
           c == [cycle EXCEPT !.cur[e] = Stage]
<1>1. /\ UNCHANGED <<day, lost, due, calSig, cursor, alerts, escalated, worst, sent, regFail>>
      /\ ExpiryTypes /\ cycle \in CycleRuns /\ cycle.i \in 1..Len(Ids)
      /\ Vouched(cycle.cur, worst, sent, regFail)
      BY DEF PassOver, ExpiryInv, ExpiryTypes, CycleVouched
<1>2. e \in IdSet /\ Stage \in Stages /\ Stage <= cycle.cur[e]
      BY <1>1, StageIs DEF PassOver
<1>3. c \in CycleRuns /\ c.cur = [cycle.cur EXCEPT ![e] = Stage] /\ c.i = cycle.i
      <2> DEFINE st == Stage
      <2> HIDE DEF e, st
      <2>1. st \in Stages
            BY <1>2 DEF st
      <2>2. /\ [cycle EXCEPT !.cur[e] = st] \in CycleRuns
            /\ [cycle EXCEPT !.cur[e] = st].cur = [cycle.cur EXCEPT ![e] = st]
            /\ [cycle EXCEPT !.cur[e] = st].i = cycle.i
            BY <1>1, <1>2, <2>1 DEF CycleRuns
      <2> QED  BY <2>2 DEF st
<1>4. cycle' = NextEntry(c)
      BY DEF PassOver
<1> HIDE DEF e, c
<1>5. /\ cycle' \in CycleRuns /\ cycle'.cur = [cycle.cur EXCEPT ![e] = Stage]
      /\ cycle'.pc \in {"entry", "save"} /\ (cycle'.pc = "entry" => cycle'.i \in 1..Len(Ids))
      BY <1>1, <1>3, <1>4, NextEntryIs
<1>6. ExpiryTypes'
      BY <1>1, <1>5 DEF ExpiryTypes
<1>7. Vouched(cycle'.cur, worst, sent, regFail)
      <2>1. cycle.cur \in [IdSet -> Stages]
            BY <1>1 DEF CycleRuns
      <2> DEFINE k == cycle.cur
                 st == Stage
      <2>2. /\ k \in [IdSet -> Stages] /\ Vouched(k, worst, sent, regFail) /\ st \in Stages /\ st <= k[e]
            /\ cycle'.cur = [k EXCEPT ![e] = st]
            BY <1>1, <1>2, <1>5, <2>1
      <2> HIDE DEF k, st
      <2>3. Vouched([k EXCEPT ![e] = st], worst, sent, regFail)
            BY ONLY <1>1, <1>2, <2>2, SetIsVouched DEF ExpiryTypes
      <2> QED  BY <2>2, <2>3
<1>8. Vouched(cursor', worst', sent', regFail') /\ Vouched(cycle'.cur, worst', sent', regFail')
      BY <1>1, <1>7 DEF ExpiryInv, Vouched
<1> QED  BY <1>5, <1>6, <1>8 DEF ExpiryInv, CycleVouched

\* A line is told before the cursor remembers it, and a severe one waits for
\* its escalation.
LEMMA AnnounceSteps == ASSUME ExpiryInv, Announce PROVE ExpiryInv'
<1> USE ExpiryConstants
<1> DEFINE e == Ids[cycle.i]
           st == Stage
           x == [id |-> e, stage |-> st, ts |-> cycle.now]
<1>1. /\ UNCHANGED <<day, lost, due, calSig, cursor, escalated, sent>>
      /\ ExpiryTypes /\ cycle \in CycleRuns /\ cycle.i \in 1..Len(Ids)
      /\ Vouched(cycle.cur, worst, sent, regFail) /\ Vouched(cursor, worst, sent, regFail)
      BY DEF Announce, ExpiryInv, ExpiryTypes, CycleVouched
<1>2. e \in IdSet /\ st \in Stages
      BY <1>1, StageIs
<1>3. /\ \/ alerts' = LastOf(Append(alerts, x)) /\ worst' = Worse(worst, e, st) /\ AppendDone
         \/ AppendFails(e) /\ alerts' = alerts /\ worst' = worst
      /\ cycle' = IF Severe(e, st) THEN [cycle EXCEPT !.pc = "escalate", !.line = x]
                  ELSE NextEntry([cycle EXCEPT !.cur[e] = st])
      BY DEF Announce
<1> HIDE DEF e, st
<1>4. x \in AlertLines /\ x.id = e /\ x.stage = st
      BY <1>1, <1>2 DEF AlertLines, LineIds, CycleRuns
<1> HIDE DEF x
<1>5. alerts' \in Seq(AlertLines) /\ Len(alerts') <= TailLen
      <2>1. alerts \in Seq(AlertLines) /\ Len(alerts) <= TailLen
            BY <1>1 DEF ExpiryTypes
      <2>2. CASE alerts' = LastOf(Append(alerts, x))
            BY ONLY <1>4, <2>1, <2>2, LastOfIs
      <2> QED  BY <1>3, <2>1, <2>2
<1>6. /\ worst \in [IdSet -> Stages] /\ sent \in [IdSet -> Stages] /\ cursor \in [IdSet -> Stages]
      /\ cycle.cur \in [IdSet -> Stages]
      BY <1>1 DEF ExpiryTypes, CycleRuns
<1>7. /\ worst' \in [IdSet -> Stages] /\ (e \in regFail' \/ worst'[e] >= st)
      /\ \A d \in IdSet : worst'[d] >= worst[d]
      /\ regFail' \subseteq IdSet /\ regFail \subseteq regFail'
      <2>1. \A d \in IdSet : worst[d] \in 0..4
            BY <1>6
      <2>2. \A d \in IdSet : worst[d] >= worst[d]
            BY ONLY <2>1
      <2>3. CASE worst' = Worse(worst, e, st) /\ AppendDone
            BY <1>2, <1>6, <2>3, WorseIs, Appends
      <2>4. CASE AppendFails(e) /\ worst' = worst
            BY <1>2, <1>6, <2>2, <2>4, Appends
      <2> QED  BY <1>3, <2>3, <2>4
<1>8. Vouched(cursor, worst', sent, regFail') /\ Vouched(cycle.cur, worst', sent, regFail')
      <2>1. \A d \in IdSet : sent[d] \in 0..4
            BY <1>6
      <2>2. \A d \in IdSet : sent[d] >= sent[d]
            BY ONLY <2>1
      <2> QED  BY <1>1, <1>6, <1>7, <2>2, StillVouched
<1>9. e \in regFail' \/ st <= worst'[e]
      <2>1. st \in 0..4 /\ worst'[e] \in 0..4
            BY <1>2, <1>7
      <2> QED  BY <1>7, <2>1
<1>10. CASE Severe(e, st)
      <2>1. cycle' = [cycle EXCEPT !.pc = "escalate", !.line = x]
            BY <1>3, <1>10
      <2>2. /\ cycle' \in CycleRuns /\ cycle'.pc = "escalate" /\ cycle'.cur = cycle.cur
            /\ cycle'.i = cycle.i /\ cycle'.line = x
            BY <1>1, <1>4, <2>1 DEF CycleRuns
      <2>3. ExpiryTypes'
            BY <1>1, <1>5, <1>7, <2>2 DEF ExpiryTypes
      <2>4. LineTold'
            BY <1>4, <1>9, <2>2 DEF LineTold
      <2> QED  BY <1>1, <1>8, <2>2, <2>3, <2>4 DEF ExpiryInv, CycleVouched
<1>11. CASE ~Severe(e, st)
      <2> DEFINE c == [cycle EXCEPT !.cur[e] = st]
      <2>1. c \in CycleRuns /\ c.cur = [cycle.cur EXCEPT ![e] = st] /\ c.i = cycle.i
            BY <1>1, <1>2 DEF CycleRuns
      <2>2. cycle' = NextEntry(c)
            BY <1>3, <1>11
      <2> HIDE DEF c
      <2>3. /\ cycle' \in CycleRuns /\ cycle'.cur = [cycle.cur EXCEPT ![e] = st]
            /\ cycle'.pc \in {"entry", "save"}
            /\ cycle'.pc = "entry" => cycle'.i \in 1..Len(Ids)
            BY <1>1, <2>1, <2>2, NextEntryIs
      <2>4. ExpiryTypes'
            BY <1>1, <1>5, <1>7, <2>3 DEF ExpiryTypes
      <2>5. Vouched([cycle.cur EXCEPT ![e] = st], worst', sent, regFail')
            <3> DEFINE k == cycle.cur
            <3>1. k \in [IdSet -> Stages] /\ Vouched(k, worst', sent, regFail')
                  BY <1>6, <1>8
            <3> HIDE DEF k
            <3>2. Vouched([k EXCEPT ![e] = st], worst', sent, regFail')
                  BY ONLY <1>2, <1>6, <1>7, <1>9, <1>11, <3>1, SetIsVouched
            <3> QED  BY <3>2 DEF k
      <2> QED  BY <1>1, <1>8, <2>3, <2>4, <2>5 DEF ExpiryInv, CycleVouched
<1> QED  BY <1>10, <1>11

LEMMA EscalateSteps == ASSUME ExpiryInv, Escalate PROVE ExpiryInv'
<1> USE ExpiryConstants
<1> DEFINE line == cycle.line
           e == line.id
           st == line.stage
<1>1. /\ UNCHANGED <<day, lost, due, calSig, cursor, alerts, worst>>
      /\ ExpiryTypes /\ cycle \in CycleRuns /\ cycle.i \in 1..Len(Ids)
      /\ Vouched(cycle.cur, worst, sent, regFail) /\ Vouched(cursor, worst, sent, regFail)
      /\ LineTold
      BY DEF Escalate, ExpiryInv, ExpiryTypes, CycleVouched
<1>2. line \in AlertLines
      BY <1>1 DEF CycleRuns
<1>3. st \in Stages /\ (e \in IdSet \ regFail => st <= worst[e])
      BY <1>1, <1>2 DEF AlertLines, LineTold
<1>4. /\ \/ /\ escalated' = LastOf(Append(escalated, line))
            /\ sent' = IF e \in IdSet THEN Worse(sent, e, st) ELSE sent
            /\ AppendDone
         \/ AppendFails(e) /\ escalated' = escalated /\ sent' = sent
      /\ cycle' = IF e \in IdSet THEN NextEntry([cycle EXCEPT !.cur[e] = st])
                  ELSE [cycle EXCEPT !.pc = "save"]
      BY DEF Escalate
<1>5. escalated' \in Seq(AlertLines) /\ Len(escalated') <= TailLen
      <2> HIDE DEF line
      <2>1. escalated \in Seq(AlertLines) /\ Len(escalated) <= TailLen
            BY <1>1 DEF ExpiryTypes
      <2>2. CASE escalated' = LastOf(Append(escalated, line))
            BY ONLY <1>2, <2>1, <2>2, LastOfIs
      <2> QED  BY <1>4, <2>1, <2>2
<1> HIDE DEF e, st, line
<1>6. /\ worst \in [IdSet -> Stages] /\ sent \in [IdSet -> Stages] /\ cursor \in [IdSet -> Stages]
      /\ cycle.cur \in [IdSet -> Stages]
      BY <1>1 DEF ExpiryTypes, CycleRuns
<1>7. /\ sent' \in [IdSet -> Stages] /\ (e \in IdSet => e \in regFail' \/ sent'[e] >= st)
      /\ \A d \in IdSet : sent'[d] >= sent[d]
      /\ regFail' \subseteq IdSet /\ regFail \subseteq regFail'
      <2>1. \A d \in IdSet : sent[d] \in 0..4
            BY <1>6
      <2>2. \A d \in IdSet : sent[d] >= sent[d]
            BY ONLY <2>1
      <2>3. CASE AppendDone /\ e \in IdSet /\ sent' = Worse(sent, e, st)
            BY <1>3, <1>6, <2>3, WorseIs, Appends
      <2>4. CASE AppendDone /\ e \notin IdSet /\ sent' = sent
            BY <1>6, <2>2, <2>4, Appends
      <2>5. CASE AppendFails(e) /\ sent' = sent
            BY <1>6, <2>2, <2>5, Appends
      <2> QED  BY <1>4, <2>3, <2>4, <2>5
<1>8. Vouched(cursor, worst, sent', regFail') /\ Vouched(cycle.cur, worst, sent', regFail')
      <2>1. \A d \in IdSet : worst[d] \in 0..4
            BY <1>6
      <2>2. \A d \in IdSet : worst[d] >= worst[d]
            BY ONLY <2>1
      <2> QED  BY <1>1, <1>6, <1>7, <2>2, StillVouched
<1>9. CASE e \in IdSet
      <2> DEFINE c == [cycle EXCEPT !.cur[e] = st]
      <2>1. c \in CycleRuns /\ c.cur = [cycle.cur EXCEPT ![e] = st] /\ c.i = cycle.i
            BY <1>1, <1>3, <1>9 DEF CycleRuns
      <2>2. cycle' = NextEntry(c)
            BY <1>4, <1>9
      <2> HIDE DEF c
      <2>3. /\ cycle' \in CycleRuns /\ cycle'.cur = [cycle.cur EXCEPT ![e] = st]
            /\ cycle'.pc \in {"entry", "save"}
            /\ cycle'.pc = "entry" => cycle'.i \in 1..Len(Ids)
            BY <1>1, <2>1, <2>2, NextEntryIs
      <2>4. ExpiryTypes'
            BY <1>1, <1>5, <1>7, <2>3 DEF ExpiryTypes
      <2>5. Vouched([cycle.cur EXCEPT ![e] = st], worst, sent', regFail')
            <3> DEFINE k == cycle.cur
            <3>1. k \in [IdSet -> Stages] /\ Vouched(k, worst, sent', regFail')
                  BY <1>6, <1>8
            <3>2. e \in regFail' \/ (st <= worst[e] /\ sent'[e] >= st)
                  BY <1>3, <1>7, <1>9
            <3> HIDE DEF k
            <3>3. Vouched([k EXCEPT ![e] = st], worst, sent', regFail')
                  BY ONLY <1>3, <1>6, <1>7, <1>9, <3>1, <3>2, SetIsVouched
            <3> QED  BY <3>3 DEF k
      <2> QED  BY <1>1, <1>8, <2>3, <2>4, <2>5 DEF ExpiryInv, CycleVouched
<1>10. CASE e \notin IdSet
      <2>1. cycle' = [cycle EXCEPT !.pc = "save"]
            BY <1>4, <1>10
      <2>2. cycle' \in CycleRuns /\ cycle'.pc = "save" /\ cycle'.cur = cycle.cur
            BY <1>1, <2>1 DEF CycleRuns
      <2>3. ExpiryTypes'
            BY <1>1, <1>5, <1>7, <2>2 DEF ExpiryTypes
      <2> QED  BY <1>1, <1>8, <2>2, <2>3 DEF ExpiryInv, CycleVouched
<1> QED  BY <1>9, <1>10

LEMMA CycleEnds == ASSUME ExpiryInv, SaveCursor \/ KillCycle PROVE ExpiryInv'
<1> USE ExpiryConstants
<1>1. /\ UNCHANGED <<day, lost, due, calSig, alerts, escalated, worst, sent, regFail>>
      /\ cycle' = NoCycle
      BY DEF SaveCursor, KillCycle
<1>2. cursor' \in [IdSet -> Stages] /\ Vouched(cursor', worst, sent, regFail)
      <2>1. CASE SaveCursor
            <3>1. /\ cursor' = cycle.cur /\ cycle \in CycleRuns
                  /\ Vouched(cycle.cur, worst, sent, regFail)
                  BY <2>1 DEF SaveCursor, ExpiryInv, ExpiryTypes, CycleVouched
            <3> QED  BY <3>1 DEF CycleRuns
      <2>2. CASE KillCycle
            BY <2>2 DEF KillCycle, ExpiryInv, ExpiryTypes
      <2> QED  BY <2>1, <2>2
<1>3. cycle' \in [pc : {"idle"}] /\ cycle'.pc = "idle"
      BY <1>1 DEF NoCycle
<1>4. ExpiryTypes'
      BY <1>1, <1>2, <1>3 DEF ExpiryInv, ExpiryTypes
<1> QED  BY <1>1, <1>2, <1>3, <1>4 DEF ExpiryInv, CycleVouched

LEMMA ExpiryStep ==
    ASSUME ExpiryInv, ExpiryNext \/ UNCHANGED expiryVars
    PROVE  ExpiryInv'
<1>1. CASE UNCHANGED expiryVars
      BY <1>1 DEF expiryVars, ExpiryInv, ExpiryTypes, Vouched, CycleVouched, LineTold
<1>2. CASE ExpiryNext
      BY <1>2, OutsideSteps, StartSteps, ReadSteps, PassSteps, AnnounceSteps, EscalateSteps,
         CycleEnds DEF ExpiryNext, ExpiryCycle
<1> QED  BY <1>1, <1>2

LEMMA ExpiryIsRight == ExpiryInv => ExpiryTypeOK /\ CursorVouches
<1> SUFFICES ASSUME ExpiryInv PROVE ExpiryTypeOK /\ CursorVouches
    OBVIOUS
<1> USE ExpiryConstants
<1>1. CursorVouches
      BY DEF ExpiryInv, Vouched, CursorVouches
<1>2. {cursor[e] : e \in IdSet} \cup {worst[e] : e \in IdSet} \subseteq 0..VENCIDO
      BY DEF ExpiryInv, ExpiryTypes
<1>3. cycle.pc \in {"idle", "read", "entry", "escalate", "save"}
      BY DEF ExpiryInv, ExpiryTypes, CycleRuns
<1> QED  BY <1>1, <1>2, <1>3 DEF ExpiryInv, ExpiryTypes, ExpiryTypeOK

-----------------------------------------------------------------------------
(***************************************************************************)
(* The envelope of the alerts.  Its number follows that of the file seq;   *)
(* what is served is no further than that, unless the power was lost since *)
(* the file was last written.                                              *)
(***************************************************************************)
OutNames == {"caducidades", "escaladas", "atestacion_propia", "pares_flota"}
OutLines == [key : OutNames \X (LineIds \cup {"node", Peer}), stage : Stages, ts : Nat]
Envelopes == [seq : 0..MaxSeq, alerts : SUBSET OutLines]
NextSeq == Min({seqFile + 1, MaxSeq})

OutTypes ==
    /\ unverified \in BOOLEAN /\ discordant \in BOOLEAN
    /\ outbox \in Envelopes /\ outboxWas \in Envelopes /\ seqFile \in 0..MaxSeq
    /\ cut \in BOOLEAN
    /\ channel \in [pc : {"idle", "outbox", "seq", "sign"}, envelope : Envelopes]

Numbered ==
    /\ channel.pc \in {"outbox", "seq"} => channel.envelope.seq = NextSeq
    /\ channel.pc = "seq" => outbox.seq = channel.envelope.seq
    /\ ~cut => outbox.seq <= NextSeq

OutInv == OutTypes /\ Numbered

LEMMA NextSeqIs ==
    ASSUME seqFile \in 0..MaxSeq
    PROVE  /\ NextSeq \in 1..MaxSeq
           /\ \A n \in 0..MaxSeq : n <= seqFile + 1 => n <= NextSeq
<1>1. MaxSeq \in Nat /\ MaxSeq >= 1 /\ MaxSeq \in Int /\ seqFile + 1 \in Int
      BY OutAssumption
<1>2. /\ NextSeq \in {seqFile + 1, MaxSeq} /\ NextSeq <= seqFile + 1 /\ NextSeq <= MaxSeq
      BY <1>1, MinOfTwo DEF NextSeq
<1> QED  BY <1>1, <1>2

\* What the sources tell.
LEMMA CurrentIs == ASSUME ExpiryTypes PROVE Current \in SUBSET OutLines
<1> USE ExpiryConstants
<1>1. ASSUME NEW s \in Seq(AlertLines), NEW name \in OutNames
      PROVE  Latest(Lines(name, s)) \in SUBSET OutLines
      <2> DEFINE ls == Lines(name, s)
      <2>1. \A i \in DOMAIN s : s[i] \in AlertLines
            BY LenProperties, ElementOfSeq
      <2>2. DOMAIN ls = DOMAIN s /\ \A i \in DOMAIN s :
                ls[i] = [key |-> <<name, s[i].id>>, stage |-> s[i].stage, ts |-> s[i].ts]
            BY DEF Lines
      <2>3. \A i \in DOMAIN s : ls[i] \in OutLines
            <3> TAKE i \in DOMAIN s
            <3>1. s[i].id \in LineIds /\ s[i].stage \in Stages /\ s[i].ts \in Nat
                  BY <2>1 DEF AlertLines
            <3> HIDE DEF ls
            <3> QED  BY <2>2, <3>1 DEF OutLines
      <2> HIDE DEF ls
      <2>4. \A x \in Latest(ls) : \E i \in DOMAIN ls : x = ls[i]
            BY DEF Latest
      <2> QED  BY <2>2, <2>3, <2>4 DEF ls
<1>2. alerts \in Seq(AlertLines) /\ escalated \in Seq(AlertLines)
      BY DEF ExpiryTypes
<1>3. /\ Latest(Lines("caducidades", alerts)) \in SUBSET OutLines
      /\ Latest(Lines("escaladas", escalated)) \in SUBSET OutLines
      BY <1>1, <1>2 DEF OutNames
<1>4. /\ [key |-> <<"atestacion_propia", "node">>, stage |-> 0, ts |-> 0] \in OutLines
      /\ [key |-> <<"pares_flota", Peer>>, stage |-> 0, ts |-> 0] \in OutLines
      BY DEF OutLines, OutNames
<1> QED  BY <1>3, <1>4 DEF Current

LEMMA OutInitInv == OutInit => OutInv
<1> SUFFICES ASSUME OutInit PROVE OutInv
    OBVIOUS
<1>1. 0 \in 0..MaxSeq
      BY OutAssumption
<1>2. NoEnvelope \in Envelopes
      BY <1>1 DEF NoEnvelope, Envelopes
<1>3. OutTypes
      BY <1>1, <1>2 DEF OutInit, OutTypes, NoChannel
<1>4. Numbered
      <2>1. outbox.seq = 0 /\ seqFile = 0 /\ channel.pc = "idle"
            BY DEF OutInit, NoChannel, NoEnvelope
      <2>2. NextSeq >= 1
            BY <1>1, <2>1, NextSeqIs
      <2>3. outbox.seq <= NextSeq
            BY <1>1, <2>1, <2>2, NextSeqIs
      <2> QED  BY <2>1, <2>3 DEF Numbered
<1> QED  BY <1>3, <1>4 DEF OutInv

\* Each step of the channel keeps the invariant, and takes the number that is
\* served back only when the power is lost, or was since the file was written.
LEMMA OutStep ==
    ASSUME ExpiryTypes, OutInv, OutNext \/ UNCHANGED outVars
    PROVE  OutInv' /\ (outbox'.seq < outbox.seq => cut')
<1> USE DEF OutInv
<1>1. /\ seqFile \in 0..MaxSeq /\ outbox \in Envelopes /\ outbox.seq \in 0..MaxSeq
      /\ outboxWas \in Envelopes /\ cut \in BOOLEAN
      /\ channel \in [pc : {"idle", "outbox", "seq", "sign"}, envelope : Envelopes]
      /\ channel.envelope \in Envelopes /\ channel.envelope.seq \in 0..MaxSeq
      BY DEF OutTypes, Envelopes
<1>2. MaxSeq \in Nat /\ MaxSeq >= 1
      BY OutAssumption
<1>3. ~(outbox.seq < outbox.seq)
      BY <1>1, <1>2
<1>4. CASE UNCHANGED outVars
      <2>1. UNCHANGED <<unverified, discordant, outbox, outboxWas, seqFile, cut, channel>>
            BY <1>4 DEF outVars, outFiles
      <2> QED  BY <1>3, <2>1 DEF OutTypes, Numbered, NextSeq
<1>5. CASE Sources
      <2>1. UNCHANGED <<outbox, outboxWas, seqFile, cut, channel>>
            BY <1>5 DEF Sources, outFiles
      <2>2. unverified' \in BOOLEAN /\ discordant' \in BOOLEAN
            BY <1>5 DEF Sources, OutTypes
      <2> QED  BY <1>1, <1>3, <2>1, <2>2 DEF OutTypes, Numbered, NextSeq
<1>6. CASE ReadSources
      <2>1. /\ UNCHANGED <<unverified, discordant, outbox, outboxWas, seqFile, cut>>
            /\ channel.pc = "idle"
            /\ channel' = [pc |-> "outbox", envelope |-> [seq |-> NextSeq, alerts |-> Current]]
            BY <1>6 DEF ReadSources, NextSeq, outFiles
      <2>2. NextSeq \in 0..MaxSeq /\ Current \in SUBSET OutLines
            BY <1>1, <1>2, NextSeqIs, CurrentIs
      <2>3. /\ channel' \in [pc : {"idle", "outbox", "seq", "sign"}, envelope : Envelopes]
            /\ channel'.pc = "outbox" /\ channel'.envelope.seq = NextSeq
            BY <2>1, <2>2 DEF Envelopes
      <2>4. OutTypes' /\ Numbered'
            BY <2>1, <2>3 DEF OutTypes, Numbered, NextSeq
      <2> QED  BY <1>3, <2>1, <2>4
<1>7. CASE WriteOutbox
      <2>1. /\ UNCHANGED <<unverified, discordant, seqFile, cut>> /\ channel.pc = "outbox"
            /\ channel' = [channel EXCEPT !.pc = "seq"] /\ outbox' = channel.envelope
            /\ outboxWas' = outbox
            BY <1>7 DEF WriteOutbox
      <2>2. /\ channel' \in [pc : {"idle", "outbox", "seq", "sign"}, envelope : Envelopes]
            /\ channel'.pc = "seq" /\ channel'.envelope = channel.envelope
            BY <1>1, <2>1
      <2>3. outbox'.seq = NextSeq /\ NextSeq \in 1..MaxSeq /\ NextSeq' = NextSeq
            BY <1>1, <2>1, NextSeqIs DEF Numbered, NextSeq
      <2>4. OutTypes'
            BY <1>1, <2>1, <2>2 DEF OutTypes
      <2>5. Numbered'
            BY <1>2, <2>1, <2>2, <2>3 DEF Numbered
      <2>6. ASSUME outbox'.seq < outbox.seq PROVE cut'
            <3>1. cut
                  BY <1>1, <1>2, <2>3, <2>6 DEF Numbered
            <3> QED  BY <2>1, <3>1
      <2> QED  BY <2>4, <2>5, <2>6
<1>8. CASE WriteSeq
      <2>1. /\ UNCHANGED <<unverified, discordant, outbox, outboxWas>> /\ channel.pc = "seq"
            /\ cut' = FALSE
            /\ channel' = [channel EXCEPT !.pc = "sign"] /\ seqFile' = channel.envelope.seq
            BY <1>8 DEF WriteSeq
      <2>2. /\ channel' \in [pc : {"idle", "outbox", "seq", "sign"}, envelope : Envelopes]
            /\ channel'.pc = "sign"
            BY <1>1, <2>1
      <2>3. outbox.seq = seqFile' /\ seqFile' \in 0..MaxSeq
            BY <1>1, <2>1 DEF Numbered
      <2>4. outbox.seq <= NextSeq'
            <3>1. /\ NextSeq' = Min({seqFile' + 1, MaxSeq}) /\ seqFile' + 1 \in Int
                  /\ MaxSeq \in Int
                  BY <1>2, <2>3 DEF NextSeq
            <3>2. NextSeq' \in {seqFile' + 1, MaxSeq}
                  BY <3>1, MinOfTwo
            <3> DEFINE a == outbox.seq
                       n == NextSeq'
            <3>3. a \in 0..MaxSeq /\ n \in {a + 1, MaxSeq}
                  BY <2>3, <3>2
            <3> HIDE DEF a, n
            <3>4. a <= n
                  BY <1>2, <3>3
            <3> QED  BY <3>4 DEF a, n
      <2>5. OutTypes' /\ Numbered'
            BY <2>1, <2>2, <2>3, <2>4 DEF OutTypes, Numbered
      <2> QED  BY <1>3, <2>1, <2>5
<1>9. CASE SignOutbox \/ KillChannel
      <2>1. /\ UNCHANGED <<unverified, discordant, outbox, outboxWas, seqFile, cut>>
            /\ channel' = NoChannel
            BY <1>9 DEF SignOutbox, KillChannel, outFiles
      <2>2. /\ channel' \in [pc : {"idle", "outbox", "seq", "sign"}, envelope : Envelopes]
            /\ channel'.pc = "idle"
            BY <1>2, <2>1 DEF NoChannel, NoEnvelope, Envelopes
      <2>3. OutTypes' /\ Numbered'
            BY <2>1, <2>2 DEF OutTypes, Numbered, NextSeq
      <2> QED  BY <1>3, <2>1, <2>3
<1>10. CASE LosePower
      <2>1. /\ UNCHANGED <<unverified, discordant>> /\ channel' = NoChannel /\ cut' = TRUE
            /\ outbox' \in {outbox, outboxWas, NoEnvelope} /\ outboxWas' = outbox'
            /\ seqFile' \in 0..seqFile
            BY <1>10 DEF LosePower
      <2>2. NoEnvelope \in Envelopes /\ outbox' \in Envelopes /\ seqFile' \in 0..MaxSeq
            BY <1>1, <1>2, <2>1 DEF NoEnvelope, Envelopes
      <2>3. /\ channel' \in [pc : {"idle", "outbox", "seq", "sign"}, envelope : Envelopes]
            /\ channel'.pc = "idle"
            BY <2>1, <2>2 DEF NoChannel
      <2>4. OutTypes' /\ Numbered'
            BY <2>1, <2>2, <2>3 DEF OutTypes, Numbered
      <2> QED  BY <2>1, <2>4
<1> QED  BY <1>4, <1>5, <1>6, <1>7, <1>8, <1>9, <1>10 DEF OutNext, Publish

LEMMA OutIsRight == OutInv => OutTypeOK
BY DEF OutInv, OutTypes, OutTypeOK, Envelopes

-----------------------------------------------------------------------------
(***************************************************************************)
(* The dialogue.  What is in the entries was countersigned, unless its text*)
(* was replaced while a run looked at it (Granted), and of one finding there*)
(* is one entry at most: its file was published, or is about to be by the  *)
(* run that has the entry (Once).  A run carries what the state holds      *)
(* (Carried), and the numbers of an era go on from the envelope, which is  *)
(* at most one ahead of the state (Numbers).                               *)
(***************************************************************************)
FileStates == {"absent", "placed", "signed", "publicado", "rechazado"}
Waiting == {"placed", "signed"}
Reading == {"file", "check", "rename"}
Emits ==
    [pc : Reading \cup {"outbox", "sign", "save"}, decl : BOOLEAN, seq : 0..MaxNumber,
     era : Nat, entry : Texts \cup {<<>>}, ok : BOOLEAN, entradas : Seq(Texts),
     todo : SUBSET (DOMAIN Findings)]

DialogueTypes ==
    /\ file \in [FindingSet -> FileStates] /\ text \in [FindingSet -> 1..MaxTexts]
    /\ overtaken \in SUBSET FindingSet
    /\ approved \in SUBSET Texts /\ history \in SUBSET Texts
    /\ estado \in [era : Nat, seq : 0..MaxNumber, entradas : Seq(Texts)]
    /\ envelope \in [era : Nat, seq : 0..MaxNumber, entradas : Seq(Texts), decl : BOOLEAN]
    /\ emit \in [pc : {"idle"}] \cup Emits
    /\ eras \in Nat

Granted(es) == \A e \in es : e \in approved \/ e[1] \in overtaken
Once(s, done) ==
    /\ \A i, j \in DOMAIN s : s[i][1] = s[j][1] => i = j
    /\ \A i \in DOMAIN s : s[i][1] \in done

Done == {f \in FindingSet : file[f] = "publicado"}
EmitDone == Done \cup IF emit.pc = "rename" /\ emit.ok THEN {emit.entry[1]} ELSE {}

\* The run has read the text of a file and looks at it again.
Looking ==
    LET f == emit.entry[1]
    IN  /\ emit.entry \in Texts /\ file[f] \in Waiting
        /\ emit.entry = <<f, text[f]>> \/ f \in overtaken
        /\ \A i \in emit.todo : Findings[i] # f

Entries ==
    /\ \A f \in FindingSet : file[f] = "signed" => <<f, text[f]>> \in approved
    /\ Granted(history) /\ Granted(Range(estado.entradas))
    /\ Granted(Range(envelope.entradas))
    /\ Once(estado.entradas, Done) /\ Once(envelope.entradas, Done)
    /\ emit.pc # "idle" => Granted(Range(emit.entradas)) /\ Once(emit.entradas, EmitDone)
    /\ emit.pc \in Reading => \A i \in emit.todo : file[Findings[i]] \in Waiting
    /\ emit.pc \in {"check", "rename"} => Looking

Carried ==
    /\ estado.era = 0 => estado.entradas = <<>>
    /\ emit.pc # "idle" /\ estado.era = emit.era =>
         Range(estado.entradas) \subseteq Range(emit.entradas) \cup history

Numbers ==
    /\ estado.era <= eras /\ envelope.era <= eras
    /\ estado.era # 0 => estado.era = envelope.era /\ envelope.seq <= estado.seq + 1
    /\ emit.pc # "idle" => emit.era >= 1 /\ emit.era <= eras
    /\ emit.pc # "idle" /\ estado.era # 0 =>
         /\ estado.era = emit.era
         /\ emit.seq <= IF emit.pc \in Reading THEN estado.seq ELSE estado.seq + 1
    /\ emit.pc \in Reading \cup {"outbox"} =>
         IF emit.decl THEN emit.era > envelope.era
         ELSE emit.era = envelope.era
              /\ envelope.seq <= IF emit.pc \in Reading THEN emit.seq + 1 ELSE emit.seq
    /\ emit.pc \in {"sign", "save"} => emit.era = envelope.era /\ emit.seq = envelope.seq

DialogueInv == DialogueTypes /\ Entries /\ Carried /\ Numbers

LEMMA FindingsAre ==
    /\ MaxEntradas \in Nat /\ MaxEntradas >= 1 /\ MaxNumber \in Nat /\ MaxNumber >= 1
    /\ MaxTexts \in Nat /\ MaxTexts >= 1
    /\ DOMAIN Findings \in SUBSET Nat /\ \A i \in DOMAIN Findings : Findings[i] \in FindingSet
    /\ \A i, j \in DOMAIN Findings : Findings[i] = Findings[j] => i = j
<1>1. Findings \in Seq(FindingSet)
      BY DialogueAssumption DEF FindingSet
<1>2. DOMAIN Findings = 1..Len(Findings) /\ Len(Findings) \in Nat
      BY <1>1, LenProperties
<1> QED  BY <1>1, <1>2, ElementOfSeq, DialogueAssumption

LEMMA EntriesOf ==
    ASSUME NEW s \in Seq(Texts)
    PROVE  /\ Len(s) \in Nat /\ DOMAIN s = 1..Len(s)
           /\ \A i \in DOMAIN s : s[i] \in Texts
           /\ Range(s) = {s[i] : i \in DOMAIN s}
BY LenProperties, ElementOfSeq DEF Range

LEMMA NothingPublished ==
    /\ \A done : Once(<<>>, done)
    /\ Range(<<>>) = {} /\ <<>> \in Seq(Texts)
BY DEF Once, Range

LEMMA DialogueInitInv == DialogueInit => DialogueInv
<1> SUFFICES ASSUME DialogueInit PROVE DialogueInv
    OBVIOUS
<1> USE NothingPublished
<1>1. /\ estado = NoEstado /\ envelope = NoServed /\ emit = NoEmit /\ emit.pc = "idle"
      /\ history = {} /\ approved = {} /\ overtaken = {} /\ eras = 0
      /\ file = [f \in FindingSet |-> "absent"] /\ text = [f \in FindingSet |-> 1]
      BY DEF DialogueInit, NoEmit
<1>2. 0 \in 0..MaxNumber /\ 1 \in 1..MaxTexts
      BY FindingsAre
<1>3. DialogueTypes
      <2>1. estado \in [era : Nat, seq : 0..MaxNumber, entradas : Seq(Texts)]
            BY <1>1, <1>2 DEF NoEstado
      <2>2. envelope \in [era : Nat, seq : 0..MaxNumber, entradas : Seq(Texts),
                          decl : BOOLEAN]
            BY <1>1, <1>2 DEF NoServed
      <2>3. emit \in [pc : {"idle"}]
            BY <1>1 DEF NoEmit
      <2>4. file \in [FindingSet -> FileStates] /\ text \in [FindingSet -> 1..MaxTexts]
            BY <1>1, <1>2 DEF FileStates
      <2> QED  BY <1>1, <2>1, <2>2, <2>3, <2>4 DEF DialogueTypes
<1>4. estado.entradas = <<>> /\ envelope.entradas = <<>> /\ estado.era = 0 /\ envelope.era = 0
      BY <1>1 DEF NoEstado, NoServed
<1>5. Entries
      <2>1. \A f \in FindingSet : file[f] = "absent"
            BY <1>1
      <2> QED  BY <1>1, <1>4, <2>1 DEF Entries, Granted, Reading
<1>6. Carried /\ Numbers
      BY <1>1, <1>4 DEF Carried, Numbers, Reading
<1> QED  BY <1>3, <1>5, <1>6 DEF DialogueInv

\* What was published once stays so, and what was granted too.
LEMMA StillOnce ==
    ASSUME NEW s, NEW done, NEW more, Once(s, done), done \subseteq more
    PROVE  Once(s, more)
BY DEF Once

LEMMA StillGranted ==
    ASSUME NEW es, Granted(es), approved \subseteq approved', overtaken \subseteq overtaken'
    PROVE  Granted(es)'
BY DEF Granted

\* The operator moves the files, signs them, and replaces their texts.
LEMMA OperatorSteps ==
    ASSUME DialogueInv, Place \/ Countersign \/ Revise
    PROVE  DialogueInv'
<1> USE FindingsAre
<1>1. /\ UNCHANGED <<estado, history, envelope, emit, eras>>
      /\ DialogueTypes /\ Entries /\ Carried /\ Numbers
      BY DEF Place, Countersign, Revise, DialogueInv
<1>2. /\ file \in [FindingSet -> FileStates] /\ text \in [FindingSet -> 1..MaxTexts]
      /\ overtaken \in SUBSET FindingSet /\ approved \in SUBSET Texts
      BY <1>1 DEF DialogueTypes
<1>3. /\ file' \in [FindingSet -> FileStates] /\ text' \in [FindingSet -> 1..MaxTexts]
      /\ overtaken' \in SUBSET FindingSet /\ approved' \in SUBSET Texts
      /\ approved \subseteq approved' /\ overtaken \subseteq overtaken'
      /\ \A f \in FindingSet :
            /\ file[f] = "publicado" => file'[f] = "publicado"
            /\ file[f] \in Waiting => file'[f] \in Waiting
            /\ file'[f] = "signed" => <<f, text'[f]>> \in approved'
            /\ text'[f] = text[f]
               \/ (emit.pc \in {"check", "rename"} /\ emit.entry[1] = f => f \in overtaken')
      <2>1. CASE Place
            <3>1. PICK f \in FindingSet : file[f] = "absent"
                                          /\ file' = [file EXCEPT ![f] = "placed"]
                  BY <2>1 DEF Place
            <3>2. text' = text /\ approved' = approved /\ overtaken' = overtaken
                  BY <2>1 DEF Place
            <3>3. file' \in [FindingSet -> FileStates] /\ file'[f] = "placed"
                  /\ \A g \in FindingSet : g # f => file'[g] = file[g]
                  BY <1>2, <3>1 DEF FileStates
            <3> QED  BY <1>1, <1>2, <3>1, <3>2, <3>3 DEF Entries, Waiting
      <2>2. CASE Countersign
            <3>1. PICK f \in FindingSet :
                     /\ file[f] \in {"placed", "rechazado"}
                     /\ approved' = approved \cup {<<f, text[f]>>}
                     /\ file' = [file EXCEPT ![f] = IF @ = "placed" THEN "signed" ELSE @]
                  BY <2>2 DEF Countersign
            <3>2. text' = text /\ overtaken' = overtaken
                  BY <2>2 DEF Countersign
            <3>3. <<f, text[f]>> \in Texts
                  BY <1>2, <3>1 DEF Texts
            <3> DEFINE v == IF file[f] = "placed" THEN "signed" ELSE file[f]
            <3>4. /\ v \in FileStates /\ v \in {"signed", "rechazado"}
                  /\ file[f] = "placed" => v = "signed"
                  BY <3>1 DEF FileStates
            <3>5. file' = [file EXCEPT ![f] = v]
                  BY <1>2, <3>1
            <3> HIDE DEF v
            <3>6. file' \in [FindingSet -> FileStates] /\ file'[f] = v
                  /\ \A g \in FindingSet : g # f => file'[g] = file[g]
                  BY <1>2, <3>4, <3>5
            <3> QED  BY <1>1, <1>2, <3>1, <3>2, <3>3, <3>4, <3>6 DEF Entries, Waiting
      <2>3. CASE Revise
            <3>1. PICK f \in FindingSet :
                     /\ file[f] \in {"placed", "signed"} /\ text[f] < MaxTexts
                     /\ text' = [text EXCEPT ![f] = @ + 1]
                     /\ file' = [file EXCEPT ![f] = "placed"]
                     /\ overtaken' = IF emit.pc \in {"check", "rename"} /\ emit.entry[1] = f
                                     THEN overtaken \cup {f} ELSE overtaken
                  BY <2>3 DEF Revise
            <3>2. approved' = approved
                  BY <2>3 DEF Revise
            <3>3. /\ file' \in [FindingSet -> FileStates] /\ file'[f] = "placed"
                  /\ \A g \in FindingSet : g # f => file'[g] = file[g] /\ text'[g] = text[g]
                  BY <1>2, <3>1 DEF FileStates
            <3>4. text' \in [FindingSet -> 1..MaxTexts]
                  <4>1. text[f] + 1 \in 1..MaxTexts
                        BY <1>2, <3>1
                  <4> QED  BY <1>2, <3>1, <4>1
            <3>5. /\ overtaken' \in SUBSET FindingSet /\ overtaken \subseteq overtaken'
                  /\ emit.pc \in {"check", "rename"} /\ emit.entry[1] = f => f \in overtaken'
                  BY <1>2, <3>1
            <3> QED  BY <1>1, <1>2, <3>1, <3>2, <3>3, <3>4, <3>5 DEF Entries, Waiting
      <2> QED  BY <2>1, <2>2, <2>3
<1>4. DialogueTypes'
      BY <1>1, <1>3 DEF DialogueTypes
<1>5. Entries'
      <2>1. /\ Granted(history)' /\ Granted(Range(estado.entradas))'
            /\ Granted(Range(envelope.entradas))'
            /\ emit.pc # "idle" => Granted(Range(emit.entradas))'
            BY <1>1, <1>3 DEF Entries, Granted
      <2>2. Done \subseteq Done' /\ EmitDone \subseteq EmitDone'
            BY <1>1, <1>3 DEF Done, EmitDone
      <2>3. /\ Once(estado.entradas, Done') /\ Once(envelope.entradas, Done')
            /\ emit.pc # "idle" => Once(emit.entradas, EmitDone')
            BY <1>1, <2>2, StillOnce DEF Entries
      <2>4. ASSUME emit.pc \in Reading, NEW i \in emit.todo
            PROVE  file'[Findings[i]] \in Waiting
            <3>1. emit \in Emits
                  BY <1>1, <2>4 DEF DialogueTypes, Reading
            <3>2. Findings[i] \in FindingSet /\ file[Findings[i]] \in Waiting
                  BY <1>1, <2>4, <3>1 DEF Entries, Emits
            <3> QED  BY <1>3, <3>2
      <2>5. ASSUME emit.pc \in {"check", "rename"} PROVE Looking'
            <3>1. Looking
                  BY <1>1, <2>5 DEF Entries
            <3>2. emit.entry[1] \in FindingSet
                  BY <3>1 DEF Looking, Texts
            <3> QED  BY <1>1, <1>3, <2>5, <3>1, <3>2 DEF Looking
      <2> QED  BY <1>1, <1>3, <2>1, <2>3, <2>4, <2>5 DEF Entries
<1>6. Carried' /\ Numbers'
      BY <1>1 DEF Carried, Numbers
<1> QED  BY <1>4, <1>5, <1>6 DEF DialogueInv

\* What EntriesKept says of a step.
Kept ==
    /\ estado'.era = estado.era =>
         Range(estado.entradas) \subseteq Range(estado'.entradas) \cup history'
    /\ envelope'.era # envelope.era => envelope'.decl
    /\ envelope'.era = envelope.era => envelope'.seq >= envelope.seq

LEMMA ServedNumber == DialogueTypes => envelope.seq >= envelope.seq
BY FindingsAre DEF DialogueTypes

LEMMA LoseSteps == ASSUME DialogueInv, LoseEstado \/ KillEmit PROVE DialogueInv' /\ Kept
<1> USE FindingsAre
<1>1. /\ UNCHANGED <<file, text, approved, overtaken, history, envelope, eras>>
      /\ DialogueTypes /\ Entries /\ Carried /\ Numbers
      BY DEF LoseEstado, KillEmit, DialogueInv, atOperator
<1>2. CASE LoseEstado
      <2>1. /\ estado' = NoEstado /\ estado'.era = 0 /\ estado'.entradas = <<>> /\ emit' = emit
            /\ estado'.era # estado.era
            BY <1>1, <1>2 DEF LoseEstado, NoEstado, DialogueTypes
      <2>2. DialogueTypes'
            <3>1. estado' \in [era : Nat, seq : 0..MaxNumber, entradas : Seq(Texts)]
                  BY <2>1, NothingPublished DEF NoEstado
            <3> QED  BY <1>1, <2>1, <3>1 DEF DialogueTypes
      <2>3. Entries'
            BY <1>1, <2>1, NothingPublished DEF Entries, Granted, Done, EmitDone, Looking
      <2>4. Carried'
            BY <1>1, <2>1, NothingPublished DEF Carried
      <2>5. Numbers'
            BY <1>1, <2>1 DEF Numbers, DialogueTypes
      <2>6. Kept
            BY <1>1, <2>1, ServedNumber DEF Kept
      <2> QED  BY <2>2, <2>3, <2>4, <2>5, <2>6 DEF DialogueInv
<1>3. CASE KillEmit
      <2>1. emit' = NoEmit /\ emit'.pc = "idle" /\ estado' = estado /\ emit' \in [pc : {"idle"}]
            BY <1>3 DEF KillEmit, NoEmit
      <2>2. DialogueTypes'
            BY <1>1, <2>1 DEF DialogueTypes
      <2>3. Entries'
            BY <1>1, <2>1 DEF Entries, Granted, Done, Reading
      <2>4. Carried' /\ Numbers'
            BY <1>1, <2>1 DEF Carried, Numbers, Reading
      <2>5. Kept
            BY <1>1, <2>1, ServedNumber DEF Kept
      <2> QED  BY <2>2, <2>3, <2>4, <2>5 DEF DialogueInv
<1> QED  BY <1>2, <1>3

\* A run takes the entries and the number of the state, or begins an era.
LEMMA EmitStarts == ASSUME DialogueInv, StartEmit PROVE DialogueInv' /\ Kept
<1> USE FindingsAre
<1>1. /\ UNCHANGED <<file, text, approved, overtaken, estado, history, envelope>>
      /\ emit.pc = "idle" /\ DialogueTypes /\ Entries /\ Carried /\ Numbers
      BY DEF StartEmit, DialogueInv, atOperator
<1> DEFINE new == estado.era = 0
           todo == {i \in DOMAIN Findings : file[Findings[i]] \in {"placed", "signed"}}
<1>2. /\ eras' = IF new THEN eras + 1 ELSE eras
      /\ emit' = [pc |-> "file", decl |-> new, seq |-> estado.seq,
                  era |-> IF new THEN eras + 1 ELSE estado.era, entry |-> <<>>, ok |-> FALSE,
                  entradas |-> estado.entradas, todo |-> todo]
      BY DEF StartEmit
<1>3. /\ eras \in Nat /\ estado.era \in Nat /\ estado.seq \in 0..MaxNumber
      /\ estado.entradas \in Seq(Texts) /\ envelope.era \in Nat /\ new \in BOOLEAN
      /\ estado.era <= eras /\ envelope.era <= eras
      BY <1>1 DEF DialogueTypes, Numbers
<1>4. todo \in SUBSET (DOMAIN Findings)
      OBVIOUS
<1>5. /\ emit'.pc = "file" /\ emit'.decl = new /\ emit'.seq = estado.seq
      /\ emit'.era = IF new THEN eras + 1 ELSE estado.era
      /\ emit'.entradas = estado.entradas /\ emit'.todo = todo
      BY <1>2
<1>6. eras' \in Nat /\ emit'.era \in Nat
      BY <1>2, <1>3, <1>5
<1>7. emit' \in Emits
      BY <1>2, <1>3, <1>4, <1>5, <1>6 DEF Emits, Reading
<1>8. DialogueTypes'
      BY <1>1, <1>6, <1>7 DEF DialogueTypes
<1>9. Entries'
      <2>1. Done' = Done /\ EmitDone' = Done
            BY <1>1, <1>5 DEF Done, EmitDone
      <2>2. \A i \in todo : file[Findings[i]] \in Waiting
            BY DEF Waiting
      <2> HIDE DEF todo
      <2> QED  BY <1>1, <1>5, <2>1, <2>2 DEF Entries, Granted
<1>10. Carried'
      BY <1>1, <1>5 DEF Carried
<1>11. Numbers'
      <2>1. CASE estado.era = 0
            <3>1. /\ emit'.era = eras + 1 /\ eras' = eras + 1 /\ emit'.decl = TRUE
                  BY <1>2, <1>5, <2>1
            <3> QED  BY <1>1, <1>3, <1>5, <2>1, <3>1 DEF Numbers, Reading
      <2>2. CASE estado.era # 0
            <3>1. /\ emit'.era = estado.era /\ eras' = eras /\ emit'.decl = FALSE
                  BY <1>2, <1>5, <2>2
            <3>2. estado.era = envelope.era /\ envelope.seq <= estado.seq + 1
                  BY <1>1, <2>2 DEF Numbers
            <3> QED  BY <1>1, <1>3, <1>5, <2>2, <3>1, <3>2 DEF Numbers, Reading
      <2> QED  BY <2>1, <2>2
<1>12. Kept
      BY <1>1, ServedNumber DEF Kept
<1> QED  BY <1>8, <1>9, <1>10, <1>11, <1>12 DEF DialogueInv

\* The text of a file is read, and the file is then looked at again.
LEMMA ReadFileSteps == ASSUME DialogueInv, ReadFile PROVE DialogueInv' /\ Kept
<1> USE FindingsAre
<1> DEFINE i == Min(emit.todo)
           f == Findings[i]
<1>1. /\ UNCHANGED <<file, text, approved, overtaken, estado, history, envelope, eras>>
      /\ DialogueTypes /\ Entries /\ Carried /\ Numbers
      /\ emit.pc = "file" /\ emit \in Emits
      BY DEF ReadFile, DialogueInv, DialogueTypes, atOperator
<1>2. i \in emit.todo /\ i \in DOMAIN Findings /\ f \in FindingSet
      <2>1. emit.todo \in SUBSET Nat /\ emit.todo # {} /\ emit.todo \in SUBSET (DOMAIN Findings)
            BY <1>1 DEF ReadFile, Emits
      <2>2. Min(emit.todo) \in emit.todo
            BY <2>1, MinIs
      <2> QED  BY <2>1, <2>2
<1>3. \/ emit' = [emit EXCEPT !.pc = "check", !.todo = @ \ {i}, !.entry = <<f, text[f]>>]
      \/ emit' = [emit EXCEPT !.todo = @ \ {i}]
      BY DEF ReadFile
<1>4. <<f, text[f]>> \in Texts /\ file[f] \in Waiting
      BY <1>1, <1>2 DEF DialogueTypes, Texts, Entries, Reading
<1> HIDE DEF i
<1>5. \A k \in emit.todo \ {i} : Findings[k] # f
      BY <1>1, <1>2 DEF Emits
<1> HIDE DEF f
<1>6. /\ emit' \in Emits /\ emit'.todo = emit.todo \ {i}
      /\ emit'.pc = "file" \/ (emit'.pc = "check" /\ emit'.entry = <<f, text[f]>>)
      /\ emit'.entradas = emit.entradas /\ emit'.decl = emit.decl /\ emit'.seq = emit.seq
      /\ emit'.era = emit.era
      <2>1. CASE emit' = [emit EXCEPT !.pc = "check", !.todo = @ \ {i}, !.entry = <<f, text[f]>>]
            BY <1>1, <1>4, <2>1 DEF Emits, Reading
      <2>2. CASE emit' = [emit EXCEPT !.todo = @ \ {i}]
            BY <1>1, <2>2 DEF Emits, Reading
      <2> QED  BY <1>3, <2>1, <2>2
<1>7. DialogueTypes'
      BY <1>1, <1>6 DEF DialogueTypes
<1>8. Entries'
      <2>1. Done' = Done /\ EmitDone' = EmitDone
            BY <1>1, <1>6 DEF Done, EmitDone
      <2>2. emit'.pc = "check" => Looking'
            BY <1>1, <1>4, <1>5, <1>6 DEF Looking
      <2>3. \A k \in emit'.todo : file[Findings[k]] \in Waiting
            BY <1>1, <1>6 DEF Entries, Reading
      <2> QED  BY <1>1, <1>6, <2>1, <2>2, <2>3 DEF Entries, Granted
<1>9. Carried' /\ Numbers'
      BY <1>1, <1>6 DEF Carried, Numbers, Reading
<1>10. Kept
      BY <1>1, ServedNumber DEF Kept
<1> QED  BY <1>7, <1>8, <1>9, <1>10 DEF DialogueInv

\* What is accepted was countersigned as it was read, or overtaken; and no
\* entry before it was of the same finding, whose file was not published.
LEMMA CheckFileSteps == ASSUME DialogueInv, CheckFile PROVE DialogueInv' /\ Kept
<1> USE FindingsAre
<1> DEFINE e == emit.entry
           s == emit.entradas
           ok == Verified(e[1])
           es == IF ok THEN Append(s, e) ELSE s
<1>1. /\ UNCHANGED <<file, text, approved, overtaken, estado, history, envelope, eras>>
      /\ DialogueTypes /\ Entries /\ Carried /\ Numbers
      /\ emit.pc = "check" /\ emit \in Emits /\ Looking
      BY DEF CheckFile, DialogueInv, DialogueTypes, atOperator, Entries
<1>2. emit' = [emit EXCEPT !.pc = "rename", !.ok = ok, !.entradas = es]
      BY <1>1 DEF CheckFile
<1>3. /\ e \in Texts /\ e[1] \in FindingSet /\ file[e[1]] \in Waiting /\ s \in Seq(Texts)
      /\ ok \in BOOLEAN
      /\ ok => e \in approved \/ e[1] \in overtaken
      BY <1>1 DEF Looking, Texts, Emits, Verified, Entries
<1>4. Once(s, Done) /\ Granted(Range(s)) /\ e[1] \notin Done
      BY <1>1, <1>3 DEF Entries, EmitDone, Done, Waiting
<1> HIDE DEF e, s, ok
<1>5. /\ es \in Seq(Texts) /\ Range(s) \subseteq Range(es) /\ Granted(Range(es))
      /\ Once(es, Done \cup IF ok THEN {e[1]} ELSE {})
      <2>1. CASE ok
            <3>1. /\ DOMAIN s = 1..Len(s) /\ Len(s) \in Nat
                  /\ es \in Seq(Texts) /\ DOMAIN es = 1..Len(s) + 1 /\ es[Len(s) + 1] = e
                  /\ \A k \in 1..Len(s) : es[k] = s[k]
                  BY <1>3, <2>1, AppendProperties, LenProperties
            <3> HIDE DEF es
            <3>2. \A k \in DOMAIN es : (k \in DOMAIN s /\ es[k] = s[k]) \/ (k = Len(s) + 1 /\ es[k] = e)
                  BY <3>1
            <3>3. Range(s) \subseteq Range(es)
                  <4>1. \A k \in DOMAIN s : k \in DOMAIN es /\ es[k] = s[k]
                        BY <3>1
                  <4> QED  BY <4>1 DEF Range
            <3>4. Granted(Range(es))
                  <4>1. Range(es) \subseteq Range(s) \cup {e}
                        BY <3>2 DEF Range
                  <4> QED  BY <1>3, <1>4, <2>1, <4>1 DEF Granted
            <3>5. \A k \in DOMAIN s : s[k][1] # e[1]
                  BY <1>4 DEF Once
            <3>6. Once(es, Done \cup {e[1]})
                  BY <1>4, <3>2, <3>5 DEF Once
            <3> QED  BY <2>1, <3>1, <3>3, <3>4, <3>6
      <2>2. CASE ~ok
            BY <1>3, <1>4, <2>2
      <2> QED  BY <2>1, <2>2
<1> HIDE DEF es
<1>6. /\ emit' \in Emits /\ emit'.pc = "rename" /\ emit'.todo = emit.todo /\ emit'.entry = e
      /\ emit'.ok = ok /\ emit'.entradas = es /\ emit'.decl = emit.decl
      /\ emit'.seq = emit.seq /\ emit'.era = emit.era
      BY <1>1, <1>2, <1>3, <1>5 DEF Emits, Reading, e
<1>7. DialogueTypes'
      BY <1>1, <1>6 DEF DialogueTypes
<1>8. Entries'
      <2>1. Done' = Done /\ EmitDone' = Done \cup IF ok THEN {e[1]} ELSE {}
            BY <1>1, <1>6 DEF Done, EmitDone
      <2>2. Looking'
            BY <1>1, <1>6 DEF Looking, e
      <2>3. \A k \in emit'.todo : file[Findings[k]] \in Waiting
            BY <1>1, <1>6 DEF Entries, Reading
      <2> QED  BY <1>1, <1>5, <1>6, <2>1, <2>2, <2>3 DEF Entries, Granted
<1>9. Carried'
      BY <1>1, <1>5, <1>6 DEF Carried, s
<1>10. Numbers'
      BY <1>1, <1>6 DEF Numbers, Reading
<1>11. Kept
      BY <1>1, ServedNumber DEF Kept
<1> QED  BY <1>7, <1>8, <1>9, <1>10, <1>11 DEF DialogueInv

LEMMA RenameFileSteps == ASSUME DialogueInv, RenameFile PROVE DialogueInv' /\ Kept
<1> USE FindingsAre
<1> DEFINE f == emit.entry[1]
           v == IF emit.ok THEN "publicado" ELSE "rechazado"
<1>1. /\ UNCHANGED <<text, approved, overtaken, estado, history, envelope, eras>>
      /\ DialogueTypes /\ Entries /\ Carried /\ Numbers
      /\ emit.pc = "rename" /\ emit \in Emits /\ Looking
      BY DEF RenameFile, DialogueInv, DialogueTypes, Entries
<1>2. file' = [file EXCEPT ![f] = v] /\ emit' = [emit EXCEPT !.pc = "file"]
      BY DEF RenameFile
<1>3. /\ f \in FindingSet /\ file[f] \in Waiting /\ \A i \in emit.todo : Findings[i] # f
      /\ v \in FileStates /\ v # "signed" /\ (emit.ok => v = "publicado")
      BY <1>1 DEF Looking, Texts, FileStates
<1>4. /\ emit' \in Emits /\ emit'.pc = "file" /\ emit'.todo = emit.todo
      /\ emit'.entradas = emit.entradas /\ emit'.decl = emit.decl
      /\ emit'.seq = emit.seq /\ emit'.era = emit.era
      BY <1>1, <1>2 DEF Emits, Reading
<1> HIDE DEF v
<1>5. /\ file' \in [FindingSet -> FileStates] /\ file'[f] = v
      /\ \A g \in FindingSet : g # f => file'[g] = file[g]
      BY <1>1, <1>2, <1>3 DEF DialogueTypes
<1>6. DialogueTypes'
      BY <1>1, <1>4, <1>5 DEF DialogueTypes
<1>7. Entries'
      <2>1. Done \subseteq Done'
            BY <1>3, <1>5 DEF Done, Waiting
      <2>2. EmitDone \subseteq Done' /\ EmitDone' = Done'
            BY <1>1, <1>3, <1>4, <1>5, <2>1 DEF Done, EmitDone
      <2>3. /\ Once(estado.entradas, Done') /\ Once(envelope.entradas, Done')
            /\ Once(emit.entradas, EmitDone')
            BY <1>1, <2>1, <2>2, StillOnce DEF Entries
      <2>4. \A k \in emit.todo : file'[Findings[k]] \in Waiting
            <3>1. \A k \in emit.todo : Findings[k] \in FindingSet /\ file[Findings[k]] \in Waiting
                  BY <1>1 DEF Entries, Emits, Reading
            <3> QED  BY <1>3, <1>5, <3>1
      <2>5. \A g \in FindingSet : file'[g] = "signed" => <<g, text[g]>> \in approved
            <3> HIDE DEF f
            <3> QED  BY <1>1, <1>3, <1>5 DEF Entries
      <2> QED  BY <1>1, <1>4, <2>3, <2>4, <2>5 DEF Entries, Granted
<1>8. Carried' /\ Numbers'
      BY <1>1, <1>4 DEF Carried, Numbers, Reading
<1>9. Kept
      BY <1>1, ServedNumber DEF Kept
<1> QED  BY <1>6, <1>7, <1>8, <1>9 DEF DialogueInv

\* What does not stay in the entries goes to the history.
LEMMA RotateSteps == ASSUME DialogueInv, Rotate PROVE DialogueInv' /\ Kept
<1> USE FindingsAre
<1> DEFINE s == emit.entradas
           n == Len(s)
           k == Max({0, n - MaxEntradas})
           m == Min({emit.seq + 1, MaxNumber})
           gone == SubSeq(s, 1, k)
           rest == SubSeq(s, k + 1, n)
<1>1. /\ UNCHANGED <<file, text, approved, overtaken, estado, envelope, eras>>
      /\ DialogueTypes /\ Entries /\ Carried /\ Numbers
      /\ emit.pc = "file" /\ emit \in Emits
      BY DEF Rotate, DialogueInv, DialogueTypes, atOperator
<1>2. /\ history' = history \cup Range(gone)
      /\ emit' = [emit EXCEPT !.pc = "outbox", !.entradas = rest, !.seq = m]
      BY DEF Rotate
<1>3. /\ s \in Seq(Texts) /\ n \in Nat /\ DOMAIN s = 1..n /\ emit.seq \in 0..MaxNumber
      /\ \A j \in DOMAIN s : s[j] \in Texts
      /\ Range(s) = {s[j] : j \in DOMAIN s}
      BY <1>1, EntriesOf DEF Emits
<1>4. k \in 0..n
      <2>1. 0 \in Int /\ n - MaxEntradas \in Int
            BY <1>3
      <2>2. k \in {0, n - MaxEntradas} /\ k >= 0
            BY <2>1, MaxOfTwo
      <2> HIDE DEF k
      <2> QED  BY <1>3, <2>2
<1>5. m \in {emit.seq + 1, MaxNumber} /\ m \in 0..MaxNumber /\ m <= emit.seq + 1
      <2>1. emit.seq + 1 \in Int /\ MaxNumber \in Int
            BY <1>3
      <2>2. m \in {emit.seq + 1, MaxNumber} /\ m <= MaxNumber /\ m <= emit.seq + 1
            BY <2>1, MinOfTwo
      <2> HIDE DEF m
      <2> QED  BY <1>3, <2>2
<1> HIDE DEF s, n, k, m
<1>6. /\ gone \in Seq(Texts) /\ Len(gone) = k /\ \A j \in 1..k : gone[j] = s[j]
      <2>1. \A j \in 1..k : s[j] \in Texts
            BY <1>3, <1>4
      <2>2. 1 \in Int /\ k \in Int
            BY <1>3, <1>4
      <2>3. /\ gone \in Seq(Texts) /\ Len(gone) = IF 1 <= k THEN k - 1 + 1 ELSE 0
            /\ \A j \in 1..k - 1 + 1 : gone[j] = s[1 + j - 1]
            BY <2>1, <2>2, SubSeqProperties
      <2> HIDE DEF gone
      <2>4. \A j \in 1..k : j \in 1..k - 1 + 1 /\ 1 + j - 1 = j
            BY <1>3, <1>4
      <2> QED  BY <1>3, <1>4, <2>3, <2>4
<1>7. /\ rest \in Seq(Texts) /\ Len(rest) = n - k
      /\ \A j \in 1..n - k : rest[j] = s[k + j] /\ k + j \in 1..n
      <2>1. \A j \in k + 1..n : s[j] \in Texts
            BY <1>3, <1>4
      <2>2. k + 1 \in Int /\ n \in Int
            BY <1>3, <1>4
      <2>3. /\ rest \in Seq(Texts)
            /\ Len(rest) = IF k + 1 <= n THEN n - (k + 1) + 1 ELSE 0
            /\ \A j \in 1..n - (k + 1) + 1 : rest[j] = s[k + 1 + j - 1]
            BY <2>1, <2>2, SubSeqProperties
      <2> HIDE DEF rest
      <2>4. \A j \in 1..n - k : j \in 1..n - (k + 1) + 1 /\ k + 1 + j - 1 = k + j /\ k + j \in 1..n
            BY <1>3, <1>4
      <2> QED  BY <1>3, <1>4, <2>3, <2>4
<1> HIDE DEF gone, rest
<1>8. DOMAIN gone = 1..k /\ DOMAIN rest = 1..n - k
      BY <1>6, <1>7, EntriesOf
<1>9. Once(s, Done) /\ Granted(Range(s))
      BY <1>1 DEF Entries, EmitDone, s
<1>10. Once(rest, Done) /\ Granted(Range(rest))
      <2>1. \A j, l \in 1..n - k : k + j = k + l => j = l
            BY <1>3, <1>4
      <2>2. Once(rest, Done)
            BY <1>3, <1>7, <1>8, <1>9, <2>1 DEF Once
      <2>3. \A j \in DOMAIN rest : rest[j] \in Range(s)
            BY <1>3, <1>7, <1>8
      <2>4. Range(rest) \subseteq Range(s)
            BY <2>3 DEF Range
      <2> QED  BY <1>9, <2>2, <2>4 DEF Granted
<1>11. Range(s) \subseteq Range(rest) \cup Range(gone)
      <2> SUFFICES ASSUME NEW j \in DOMAIN s PROVE s[j] \in Range(rest) \cup Range(gone)
          BY <1>3
      <2>1. CASE j <= k
            <3>1. j \in DOMAIN gone /\ gone[j] = s[j]
                  BY <1>3, <1>4, <1>6, <1>8, <2>1
            <3> QED  BY <3>1 DEF Range
      <2>2. CASE j > k
            <3>1. j - k \in 1..n - k /\ k + (j - k) = j
                  BY <1>3, <1>4, <2>2
            <3>2. j - k \in DOMAIN rest /\ rest[j - k] = s[j]
                  BY <1>7, <1>8, <3>1
            <3> QED  BY <3>2 DEF Range
      <2> QED  BY <1>3, <1>4, <2>1, <2>2
<1>12. Range(gone) \subseteq Texts /\ Granted(Range(gone))
      <2>1. \A j \in DOMAIN gone : gone[j] \in Range(s) /\ gone[j] \in Texts
            BY <1>3, <1>4, <1>6, <1>8
      <2>2. Range(gone) \subseteq Range(s) /\ Range(gone) \subseteq Texts
            BY <2>1 DEF Range
      <2> QED  BY <1>9, <2>2 DEF Granted
<1>13. /\ emit' \in Emits /\ emit'.pc = "outbox" /\ emit'.entradas = rest /\ emit'.seq = m
       /\ emit'.decl = emit.decl /\ emit'.era = emit.era
      BY <1>1, <1>2, <1>5, <1>7 DEF Emits, Reading
<1>14. history \in SUBSET Texts
      BY <1>1 DEF DialogueTypes
<1>15. DialogueTypes'
      BY <1>1, <1>2, <1>12, <1>13, <1>14 DEF DialogueTypes
<1>16. Entries'
      <2>1. Done' = Done /\ EmitDone' = Done
            BY <1>1, <1>13 DEF Done, EmitDone
      <2>2. Granted(history')
            BY <1>1, <1>2, <1>12 DEF Entries, Granted
      <2> QED  BY <1>1, <1>10, <1>13, <2>1, <2>2 DEF Entries, Granted, Reading
<1>17. Carried'
      <2>1. Range(s) \cup history \subseteq Range(rest) \cup history'
            BY <1>2, <1>11
      <2> QED  BY <1>1, <1>13, <2>1 DEF Carried, s
<1>18. Numbers'
      <2>1. ~emit.decl => emit.era = envelope.era /\ envelope.seq <= emit.seq + 1
            BY <1>1 DEF Numbers, Reading
      <2>2. envelope.seq \in 0..MaxNumber
            BY <1>1 DEF DialogueTypes
      <2>3. ~emit.decl => envelope.seq <= m
            BY <1>3, <1>5, <2>1, <2>2
      <2>4. emit.decl => emit.era > envelope.era
            BY <1>1 DEF Numbers, Reading
      <2>5. estado.era # 0 => estado.era = emit.era /\ m <= estado.seq + 1
            <3>1. estado.era # 0 => estado.era = emit.era /\ emit.seq <= estado.seq
                  BY <1>1 DEF Numbers, Reading
            <3>2. estado.seq \in 0..MaxNumber
                  BY <1>1 DEF DialogueTypes
            <3> QED  BY <1>3, <1>5, <3>1, <3>2
      <2> QED  BY <1>1, <1>13, <2>1, <2>3, <2>4, <2>5 DEF Numbers, Reading
<1>19. Kept
      <2>1. history \subseteq history'
            BY <1>2
      <2> QED  BY <1>1, ServedNumber DEF Kept
<1> QED  BY <1>15, <1>16, <1>17, <1>18, <1>19 DEF DialogueInv

LEMMA ServeSteps ==
    ASSUME DialogueInv, WriteEnvelope \/ SignEnvelope
    PROVE  DialogueInv' /\ Kept
<1> USE FindingsAre
<1>1. /\ UNCHANGED <<file, text, approved, overtaken, estado, history, eras>>
      /\ DialogueTypes /\ Entries /\ Carried /\ Numbers /\ emit \in Emits
      BY DEF WriteEnvelope, SignEnvelope, DialogueInv, DialogueTypes, atOperator
<1>2. CASE WriteEnvelope
      <2>1. /\ emit.pc = "outbox" /\ emit' = [emit EXCEPT !.pc = "sign"]
            /\ envelope' = [era |-> emit.era, seq |-> emit.seq, entradas |-> emit.entradas,
                            decl |-> emit.decl]
            BY <1>2 DEF WriteEnvelope
      <2>2. /\ emit' \in Emits /\ emit'.pc = "sign" /\ emit'.entradas = emit.entradas
            /\ emit'.era = emit.era /\ emit'.seq = emit.seq
            BY <1>1, <2>1 DEF Emits, Reading
      <2>3. /\ envelope'.era = emit.era /\ envelope'.seq = emit.seq
            /\ envelope'.entradas = emit.entradas /\ envelope'.decl = emit.decl
            /\ envelope' \in [era : Nat, seq : 0..MaxNumber, entradas : Seq(Texts),
                              decl : BOOLEAN]
            BY <1>1, <2>1 DEF Emits, Reading
      <2>4. DialogueTypes'
            BY <1>1, <2>2, <2>3 DEF DialogueTypes
      <2>5. Entries' /\ Carried'
            <3>1. Done' = Done /\ EmitDone = Done /\ EmitDone' = Done
                  BY <1>1, <2>1, <2>2 DEF Done, EmitDone
            <3> QED  BY <1>1, <2>1, <2>2, <2>3, <3>1 DEF Entries, Carried, Granted, Reading
      <2>6. /\ emit.decl => emit.era > envelope.era
            /\ ~emit.decl => emit.era = envelope.era /\ envelope.seq <= emit.seq
            BY <1>1, <2>1 DEF Numbers, Reading
      <2>7. /\ emit.era \in Nat /\ envelope.era \in Nat /\ emit.seq \in Nat /\ envelope.seq \in Nat
            BY <1>1 DEF Emits, DialogueTypes
      <2>8. Numbers'
            <3>1. estado.era # 0 => estado.era = emit.era /\ emit.seq <= estado.seq + 1
                  BY <1>1, <2>1 DEF Numbers, Reading
            <3> QED  BY <1>1, <2>1, <2>2, <2>3, <3>1 DEF Numbers, Reading
      <2>9. Kept
            BY <1>1, <2>3, <2>6, <2>7 DEF Kept
      <2> QED  BY <2>4, <2>5, <2>8, <2>9 DEF DialogueInv
<1>3. CASE SignEnvelope
      <2>1. /\ emit.pc = "sign" /\ emit' = [emit EXCEPT !.pc = "save"] /\ envelope' = envelope
            BY <1>3 DEF SignEnvelope
      <2>2. /\ emit' \in Emits /\ emit'.pc = "save" /\ emit'.entradas = emit.entradas
            /\ emit'.era = emit.era /\ emit'.seq = emit.seq
            BY <1>1, <2>1 DEF Emits, Reading
      <2>3. DialogueTypes'
            BY <1>1, <2>1, <2>2 DEF DialogueTypes
      <2>4. Entries' /\ Carried'
            <3>1. Done' = Done /\ EmitDone = Done /\ EmitDone' = Done
                  BY <1>1, <2>1, <2>2 DEF Done, EmitDone
            <3> QED  BY <1>1, <2>1, <2>2, <3>1 DEF Entries, Carried, Granted, Reading
      <2>5. Numbers'
            BY <1>1, <2>1, <2>2 DEF Numbers, Reading
      <2>6. Kept
            BY <1>1, <2>1, ServedNumber DEF Kept
      <2> QED  BY <2>3, <2>4, <2>5, <2>6 DEF DialogueInv
<1> QED  BY <1>2, <1>3

LEMMA SaveSteps == ASSUME DialogueInv, SaveEstado PROVE DialogueInv' /\ Kept
<1> USE FindingsAre
<1>1. /\ UNCHANGED <<file, text, approved, overtaken, history, envelope, eras>>
      /\ emit.pc = "save" /\ DialogueTypes /\ Entries /\ Carried /\ Numbers /\ emit \in Emits
      BY DEF SaveEstado, DialogueInv, DialogueTypes, atOperator
<1>2. /\ estado' = [era |-> emit.era, seq |-> emit.seq, entradas |-> emit.entradas]
      /\ emit' = NoEmit /\ emit'.pc = "idle" /\ emit' \in [pc : {"idle"}]
      BY DEF SaveEstado, NoEmit
<1>3. /\ estado' \in [era : Nat, seq : 0..MaxNumber, entradas : Seq(Texts)]
      /\ estado'.era = emit.era /\ estado'.seq = emit.seq /\ estado'.entradas = emit.entradas
      BY <1>1, <1>2 DEF Emits
<1>4. DialogueTypes'
      BY <1>1, <1>2, <1>3 DEF DialogueTypes
<1>5. Entries'
      <2>1. Done' = Done /\ EmitDone = Done
            BY <1>1 DEF Done, EmitDone
      <2> QED  BY <1>1, <1>2, <1>3, <2>1 DEF Entries, Granted, Reading
<1>6. /\ emit.era >= 1 /\ emit.era <= eras /\ emit.era = envelope.era /\ emit.seq = envelope.seq
      /\ emit.era \in Nat /\ emit.seq \in Nat
      BY <1>1 DEF Numbers, Emits
<1>7. Carried'
      BY <1>2, <1>3, <1>6 DEF Carried
<1>8. Numbers'
      BY <1>1, <1>2, <1>3, <1>6 DEF Numbers, Reading
<1>9. Kept
      <2>1. estado'.era = estado.era =>
                Range(estado.entradas) \subseteq Range(estado'.entradas) \cup history'
            BY <1>1, <1>3 DEF Carried
      <2> QED  BY <1>1, <2>1, ServedNumber DEF Kept
<1> QED  BY <1>4, <1>5, <1>7, <1>8, <1>9 DEF DialogueInv

LEMMA DialogueStep ==
    ASSUME DialogueInv, DialogueNext \/ UNCHANGED dialogueVars
    PROVE  DialogueInv' /\ Kept
<1>1. CASE UNCHANGED dialogueVars
      <2>1. UNCHANGED <<file, text, approved, overtaken, estado, history, envelope, emit, eras>>
            BY <1>1 DEF dialogueVars, atOperator
      <2>2. DialogueTypes /\ Entries /\ Carried /\ Numbers
            BY DEF DialogueInv
      <2>3. DialogueTypes' /\ Entries' /\ Carried' /\ Numbers'
            BY <2>1, <2>2 DEF DialogueTypes, Entries, Carried, Numbers, Granted, Done, EmitDone,
                               Looking
      <2> QED  BY <2>1, <2>2, <2>3, ServedNumber DEF DialogueInv, Kept
<1>2. CASE Place \/ Countersign \/ Revise
      <2>1. UNCHANGED <<estado, history, envelope>> /\ DialogueTypes
            BY <1>2 DEF Place, Countersign, Revise, DialogueInv
      <2>2. Kept
            BY <2>1, ServedNumber DEF Kept
      <2> QED  BY <1>2, <2>2, OperatorSteps
<1>3. CASE LoseEstado \/ KillEmit \/ EmitRun
      BY <1>3, LoseSteps, EmitStarts, ReadFileSteps, CheckFileSteps, RenameFileSteps, RotateSteps,
         ServeSteps, SaveSteps DEF EmitRun
<1> QED  BY <1>1, <1>2, <1>3 DEF DialogueNext

LEMMA DialogueIsRight == DialogueInv => DialogueTypeOK /\ OnlyApproved
<1> SUFFICES ASSUME DialogueInv PROVE DialogueTypeOK /\ OnlyApproved
    OBVIOUS
<1>1. DialogueTypes /\ Entries /\ Numbers
      BY DEF DialogueInv
<1>2. DialogueTypeOK
      <2>1. emit.pc \in {"idle", "file", "check", "rename", "outbox", "sign", "save"}
            BY <1>1 DEF DialogueTypes, Emits, Reading
      <2>2. estado.era \in 0..eras
            BY <1>1 DEF DialogueTypes, Numbers
      <2>3. \A f \in FindingSet : file[f] \in FileStates
            BY <1>1 DEF DialogueTypes
      <2>4. /\ approved \cup history \subseteq Texts /\ overtaken \subseteq FindingSet
            /\ text \in [FindingSet -> 1..MaxTexts]
            BY <1>1 DEF DialogueTypes
      <2> QED  BY <2>1, <2>2, <2>3, <2>4 DEF DialogueTypeOK, FileStates
<1>3. Granted(Public)
      BY <1>1 DEF Entries, Granted, Public
<1>4. \A i, j \in DOMAIN envelope.entradas :
          envelope.entradas[i] = envelope.entradas[j] => i = j
      BY <1>1 DEF Entries, Once
<1> QED  BY <1>2, <1>3, <1>4 DEF OnlyApproved, Granted

-----------------------------------------------------------------------------
(***************************************************************************)
(* What is learnt from the ledgers.  In a ledger that lost no line the     *)
(* numbers of the lines are their places, no cursor is further than the    *)
(* ledger (InLedger), and what is behind a cursor was read (Covered): by a *)
(* run before, or by the one that has the cursor, which keeps it in new.   *)
(***************************************************************************)
LineKinds(s) == KindsIn(s) \cup {"healthy", "bad"}
LinesIn(s) == [id : 1..MaxBorn, seq : 0..MaxBorn, kind : LineKinds(s)]
AnyLine == LinesIn("events") \cup LinesIn("alerts")
Cursors == [Names -> 0..MaxBorn]
Learns == [pc : {"events", "alerts", "draft", "save"}, upto : Cursors, new : SUBSET AnyLine]

SourcesOk(src, n) ==
    /\ src \in [Names -> Seq(AnyLine)]
    /\ \A s \in Names : src[s] \in Seq(LinesIn(s)) /\ Len(src[s]) <= n

LearnTypes ==
    /\ SourcesOk(sources, born) /\ born \in 0..MaxBorn
    /\ reached \in Cursors /\ shrunk \in SUBSET Names
    /\ shown \in SUBSET (1..MaxBorn) /\ passedOver \in SUBSET (1..MaxBorn)
    /\ learn \in [pc : {"idle"}] \cup Learns

Ordered(src, shr) ==
    "events" \notin shr => \A i \in DOMAIN src["events"] : src["events"][i].seq = i - 1

InLedger(c, src, shr) ==
    /\ "events" \notin shr => c["events"] = 0 \/ c["events"] < Len(src["events"])
    /\ "alerts" \notin shr => c["alerts"] <= Len(src["alerts"])

Covered(c, src, shr, ids) ==
    /\ "events" \notin shr =>
         \A i \in DOMAIN src["events"] :
             LET x == src["events"][i]
             IN  Significant(x) /\ x.seq <= c["events"] => x.id \in ids \/ x.seq = 0
    /\ "alerts" \notin shr =>
         \A i \in DOMAIN src["alerts"] :
             LET x == src["alerts"][i]
             IN  Significant(x) /\ i <= c["alerts"] => x.id \in ids

WasRead == shown \cup passedOver

LearnInv ==
    /\ LearnTypes /\ Ordered(sources, shrunk)
    /\ InLedger(reached, sources, shrunk) /\ Covered(reached, sources, shrunk, WasRead)
    /\ learn.pc # "idle" =>
         /\ InLedger(learn.upto, sources, shrunk)
         /\ Covered(learn.upto, sources, shrunk, WasRead \cup IdsOf(learn.new))
    /\ learn.pc = "events" => learn.new = {}

LEMMA LearnConstants == MaxBorn \in Nat /\ MaxShown \in Nat
BY LearnAssumption

LEMMA SourceIs ==
    ASSUME NEW src, NEW n, SourcesOk(src, n), NEW s \in Names
    PROVE  /\ Len(src[s]) \in Nat /\ Len(src[s]) <= n /\ DOMAIN src[s] = 1..Len(src[s])
           /\ src[s] \in Seq(LinesIn(s))
           /\ \A i \in DOMAIN src[s] :
                /\ src[s][i] \in LinesIn(s) /\ src[s][i] \in AnyLine
                /\ src[s][i].id \in 1..MaxBorn /\ src[s][i].seq \in 0..MaxBorn
                /\ src[s][i].kind \in LineKinds(s)
<1>1. src[s] \in Seq(LinesIn(s)) /\ Len(src[s]) <= n
      BY DEF SourcesOk
<1>2. Len(src[s]) \in Nat /\ DOMAIN src[s] = 1..Len(src[s])
      BY <1>1, LenProperties
<1>3. \A i \in DOMAIN src[s] : src[s][i] \in LinesIn(s)
      BY <1>1, <1>2, ElementOfSeq
<1>4. LinesIn(s) \subseteq AnyLine
      BY DEF Names, AnyLine
<1>5. \A x \in LinesIn(s) : x.id \in 1..MaxBorn /\ x.seq \in 0..MaxBorn /\ x.kind \in LineKinds(s)
      BY DEF LinesIn
<1> QED  BY <1>1, <1>2, <1>3, <1>4, <1>5

\* Another ledger in the place of one of them.
LEMMA OtherSource ==
    ASSUME NEW src, NEW n \in Nat, SourcesOk(src, n), NEW s \in Names,
           NEW m \in Nat, n <= m, NEW ls \in Seq(LinesIn(s)), Len(ls) <= m
    PROVE  /\ SourcesOk([src EXCEPT ![s] = ls], m)
           /\ [src EXCEPT ![s] = ls][s] = ls
           /\ \A t \in Names : t # s => [src EXCEPT ![s] = ls][t] = src[t]
<1> DEFINE new == [src EXCEPT ![s] = ls]
<1>1. src \in [Names -> Seq(AnyLine)]
      BY DEF SourcesOk
<1>2. ls \in Seq(AnyLine)
      <2>1. LinesIn(s) \subseteq AnyLine
            BY DEF Names, AnyLine
      <2> QED  BY <2>1, SeqMonotonic
<1>3. /\ new \in [Names -> Seq(AnyLine)] /\ new[s] = ls
      /\ \A t \in Names : t # s => new[t] = src[t]
      BY <1>1, <1>2
<1> HIDE DEF new
<1>4. \A t \in Names : new[t] \in Seq(LinesIn(t)) /\ Len(new[t]) <= m
      <2> TAKE t \in Names
      <2>1. CASE t = s
            BY <1>3, <2>1
      <2>2. CASE t # s
            <3>1. Len(src[t]) \in Nat /\ Len(src[t]) <= n /\ src[t] \in Seq(LinesIn(t))
                  BY SourceIs
            <3> QED  BY <1>3, <2>2, <3>1
      <2> QED  BY <2>1, <2>2
<1> QED  BY <1>3, <1>4 DEF SourcesOk, new

LEMMA LearnInitInv == LearnInit => LearnInv
<1> SUFFICES ASSUME LearnInit PROVE LearnInv
    OBVIOUS
<1> USE LearnConstants
<1>1. /\ \A s \in Names : sources[s] = <<>> /\ reached[s] = 0
      /\ learn.pc = "idle" /\ learn \in [pc : {"idle"}] /\ born = 0
      /\ shown = {} /\ passedOver = {} /\ shrunk = {}
      /\ "events" \in Names /\ "alerts" \in Names
      BY DEF LearnInit, NoLearn, Names
<1>2. /\ Len(<<>>) = 0 /\ DOMAIN <<>> = {} /\ <<>> \in Seq(AnyLine)
      /\ \A s \in Names : <<>> \in Seq(LinesIn(s))
      BY EmptySeq
<1>3. SourcesOk(sources, born)
      <2>1. sources \in [Names -> Seq(AnyLine)]
            BY <1>2 DEF LearnInit
      <2> QED  BY <1>1, <1>2, <2>1 DEF SourcesOk
<1>4. reached \in Cursors
      BY DEF LearnInit, Cursors
<1>5. LearnTypes
      BY <1>1, <1>3, <1>4 DEF LearnTypes
<1>6. Ordered(sources, shrunk) /\ InLedger(reached, sources, shrunk)
      BY <1>1, <1>2 DEF Ordered, InLedger
<1>7. Covered(reached, sources, shrunk, WasRead)
      BY <1>1, <1>2 DEF Covered
<1> QED  BY <1>1, <1>5, <1>6, <1>7 DEF LearnInv

-----------------------------------------------------------------------------
\* A line that is appended is behind no cursor, but for the first transition.
LEMMA AppendCovers ==
    ASSUME NEW src, NEW n \in Nat, SourcesOk(src, n), NEW s \in Names, NEW shr,
           NEW x \in LinesIn(s), x.seq = Len(src[s]), NEW c \in Cursors, NEW ids,
           Ordered(src, shr), InLedger(c, src, shr), Covered(c, src, shr, ids)
    PROVE  LET new == [src EXCEPT ![s] = Append(src[s], x)]
           IN  Ordered(new, shr) /\ InLedger(c, new, shr) /\ Covered(c, new, shr, ids)
<1> USE LearnConstants
<1> DEFINE ls == Append(src[s], x)
           new == [src EXCEPT ![s] = ls]
<1>1. /\ Len(src[s]) \in Nat /\ src[s] \in Seq(LinesIn(s)) /\ DOMAIN src[s] = 1..Len(src[s])
      BY SourceIs
<1>2. /\ ls \in Seq(LinesIn(s)) /\ Len(ls) = Len(src[s]) + 1 /\ ls[Len(src[s]) + 1] = x
      /\ \A i \in 1..Len(src[s]) : ls[i] = src[s][i]
      BY <1>1, AppendProperties
<1>3. DOMAIN ls = 1..Len(src[s]) + 1
      <2> HIDE DEF ls
      <2> QED  BY <1>2, LenProperties
<1>4. new[s] = ls /\ \A t \in Names : t # s => new[t] = src[t]
      <2> HIDE DEF ls
      <2> QED  BY DEF SourcesOk
<1> HIDE DEF ls, new
<1>5. \A i \in DOMAIN ls : (i \in DOMAIN src[s] /\ ls[i] = src[s][i]) \/ (i = Len(src[s]) + 1 /\ ls[i] = x)
      BY <1>1, <1>2, <1>3
<1>6. c["events"] \in Nat /\ c["alerts"] \in Nat /\ "events" \in Names /\ "alerts" \in Names
      BY DEF Cursors, Names
<1>7. CASE s = "events"
      <2>1. new["alerts"] = src["alerts"] /\ new["events"] = ls
            BY <1>4, <1>6, <1>7
      <2>2. Ordered(new, shr)
            BY <1>1, <1>5, <1>7, <2>1 DEF Ordered
      <2>3. InLedger(c, new, shr)
            BY <1>1, <1>2, <1>6, <1>7, <2>1 DEF InLedger
      <2>4. "events" \notin shr => (x.seq <= c["events"] => x.seq = 0)
            BY <1>1, <1>6, <1>7 DEF InLedger
      <2>5. Covered(c, new, shr, ids)
            BY <1>5, <1>7, <2>1, <2>4 DEF Covered
      <2> QED  BY <2>2, <2>3, <2>5 DEF new, ls
<1>8. CASE s = "alerts"
      <2>1. new["events"] = src["events"] /\ new["alerts"] = ls
            BY <1>4, <1>6, <1>8
      <2>2. Ordered(new, shr)
            BY <2>1 DEF Ordered
      <2>3. InLedger(c, new, shr)
            BY <1>1, <1>2, <1>6, <1>8, <2>1 DEF InLedger
      <2>4. "alerts" \notin shr => ~(Len(src[s]) + 1 <= c["alerts"])
            BY <1>1, <1>6, <1>8 DEF InLedger
      <2>5. Covered(c, new, shr, ids)
            BY <1>5, <1>8, <2>1, <2>4 DEF Covered
      <2> QED  BY <2>2, <2>3, <2>5 DEF new, ls
<1> QED  BY <1>7, <1>8 DEF Names

LEMMA AppendSteps == ASSUME LearnInv, NEW s \in Names, AppendLine(s) PROVE LearnInv'
<1> USE LearnConstants
<1>1. /\ UNCHANGED <<reached, learn, shown, passedOver, shrunk>> /\ born' = born + 1
      /\ born < MaxBorn /\ LearnTypes /\ SourcesOk(sources, born) /\ born \in Nat
      BY DEF AppendLine, LearnInv, LearnTypes
<1>2. PICK k \in KindsIn(s) \cup {"healthy"} :
          sources' = [sources EXCEPT ![s] =
              Append(@, [id |-> born + 1, seq |-> Len(@), kind |-> k])]
      BY DEF AppendLine
<1>3. Len(sources[s]) \in Nat /\ Len(sources[s]) <= born /\ sources[s] \in Seq(LinesIn(s))
      BY <1>1, SourceIs
<1> DEFINE x == [id |-> born + 1, seq |-> Len(sources[s]), kind |-> k]
<1>4. x \in LinesIn(s) /\ x.seq = Len(sources[s])
      <2>1. born + 1 \in 1..MaxBorn /\ Len(sources[s]) \in 0..MaxBorn
            BY <1>1, <1>3
      <2> QED  BY <2>1 DEF LinesIn, LineKinds
<1>5. sources' = [sources EXCEPT ![s] = Append(sources[s], x)]
      BY <1>1, <1>2 DEF SourcesOk
<1> HIDE DEF x
<1>6. SourcesOk(sources', born')
      <2>1. Append(sources[s], x) \in Seq(LinesIn(s))
            /\ Len(Append(sources[s], x)) = Len(sources[s]) + 1
            BY <1>3, <1>4, AppendProperties
      <2>2. born' \in Nat /\ born <= born' /\ Len(Append(sources[s], x)) <= born'
            BY <1>1, <1>3, <2>1
      <2> QED  BY <1>1, <1>5, <2>1, <2>2, OtherSource
<1>7. LearnTypes'
      BY <1>1, <1>6 DEF LearnTypes
<1>8. /\ Ordered(sources', shrunk) /\ InLedger(reached, sources', shrunk)
      /\ Covered(reached, sources', shrunk, WasRead)
      <2>1. reached \in Cursors
            BY <1>1 DEF LearnTypes
      <2> QED  BY <1>1, <1>4, <1>5, <2>1, AppendCovers DEF LearnInv
<1>9. ASSUME learn.pc # "idle"
      PROVE  /\ InLedger(learn.upto, sources', shrunk)
             /\ Covered(learn.upto, sources', shrunk, WasRead \cup IdsOf(learn.new))
      <2>1. learn.upto \in Cursors
            BY <1>1, <1>9 DEF LearnTypes, Learns
      <2> QED  BY <1>1, <1>4, <1>5, <1>9, <2>1, AppendCovers DEF LearnInv
<1> QED  BY <1>1, <1>7, <1>8, <1>9 DEF LearnInv, WasRead

\* Of a ledger that lost a line nothing is said, and more may be read.
LEMMA LossCovers ==
    ASSUME NEW src, NEW src2, NEW c, NEW shr, NEW shr2, NEW ids, NEW ids2,
           shr \subseteq shr2, ids \subseteq ids2,
           \A s \in Names : s \notin shr2 => src2[s] = src[s]
    PROVE  /\ Ordered(src, shr) => Ordered(src2, shr2)
           /\ InLedger(c, src, shr) => InLedger(c, src2, shr2)
           /\ Covered(c, src, shr, ids) => Covered(c, src2, shr2, ids2)
<1>1. "events" \in Names /\ "alerts" \in Names
      BY DEF Names
<1>2. Ordered(src, shr) => Ordered(src2, shr2)
      BY <1>1 DEF Ordered
<1>3. InLedger(c, src, shr) => InLedger(c, src2, shr2)
      BY <1>1 DEF InLedger
<1>4. Covered(c, src, shr, ids) => Covered(c, src2, shr2, ids2)
      BY <1>1 DEF Covered
<1> QED  BY <1>2, <1>3, <1>4

LEMMA LearnStutters ==
    ASSUME LearnInv, UNCHANGED <<sources, shrunk, shown, passedOver>>
    PROVE  /\ Ordered(sources', shrunk') /\ WasRead' = WasRead
           /\ \A c, ids : /\ InLedger(c, sources, shrunk) => InLedger(c, sources', shrunk')
                          /\ Covered(c, sources, shrunk, ids) => Covered(c, sources', shrunk', ids)
BY DEF LearnInv, WasRead

\* A ledger that loses lines.
LEMMA LosingSteps ==
    ASSUME LearnInv, NEW s \in Names, NEW ls \in Seq(LinesIn(s)), Len(ls) <= Len(sources[s]),
           sources' = [sources EXCEPT ![s] = ls], shrunk' = shrunk \cup {s},
           UNCHANGED <<reached, learn, shown, passedOver, born>>
    PROVE  LearnInv'
<1>1. LearnTypes /\ SourcesOk(sources, born) /\ born \in Nat
      BY LearnConstants DEF LearnInv, LearnTypes
<1>2. Len(ls) <= born /\ Len(ls) \in Nat
      <2>1. Len(sources[s]) \in Nat /\ Len(sources[s]) <= born /\ Len(ls) \in Nat
            BY <1>1, SourceIs, LenProperties
      <2> QED  BY <1>1, <2>1
<1>3. /\ SourcesOk(sources', born) /\ \A t \in Names : t # s => sources'[t] = sources[t]
      <2>1. born <= born
            BY <1>1
      <2>2. ls \in Seq(LinesIn(s)) /\ Len(ls) <= born /\ s \in Names
            BY <1>2
      <2>3. LET new == [sources EXCEPT ![s] = ls]
            IN  SourcesOk(new, born) /\ \A t \in Names : t # s => new[t] = sources[t]
            BY ONLY <1>1, <2>1, <2>2, OtherSource
      <2> QED  BY <2>3
<1>4. LearnTypes'
      BY <1>1, <1>3 DEF LearnTypes
<1>5. /\ shrunk \subseteq shrunk'
      /\ \A t \in Names : t \notin shrunk' => sources'[t] = sources[t]
      BY <1>3
<1>6. Ordered(sources', shrunk') /\ InLedger(reached, sources', shrunk')
      BY <1>5, LossCovers DEF LearnInv
<1>7. Covered(reached, sources', shrunk', WasRead)
      BY <1>5, LossCovers DEF LearnInv
<1>8. ASSUME learn.pc # "idle"
      PROVE  /\ InLedger(learn.upto, sources', shrunk')
             /\ Covered(learn.upto, sources', shrunk', WasRead \cup IdsOf(learn.new))
      <2> DEFINE c == learn.upto
                 ids == WasRead \cup IdsOf(learn.new)
      <2>1. Ordered(sources, shrunk) /\ InLedger(c, sources, shrunk) /\ Covered(c, sources, shrunk, ids)
            BY <1>8 DEF LearnInv
      <2>2. ids \subseteq ids
            OBVIOUS
      <2> HIDE DEF c, ids
      <2>3. InLedger(c, sources', shrunk') /\ Covered(c, sources', shrunk', ids)
            BY ONLY <1>5, <2>1, <2>2, LossCovers
      <2> QED  BY <2>3 DEF c, ids
<1>9. /\ reached' = reached /\ learn' = learn /\ WasRead' = WasRead
      BY DEF WasRead
<1> QED  BY <1>4, <1>6, <1>7, <1>8, <1>9 DEF LearnInv

LEMMA CureSteps == ASSUME LearnInv, NEW s \in Names, Cure(s) PROVE LearnInv'
<1> DEFINE ls == sources[s]
<1>1. /\ Len(ls) \in Nat /\ ls \in Seq(LinesIn(s)) /\ DOMAIN ls = 1..Len(ls)
      /\ \A i \in DOMAIN ls : ls[i] \in LinesIn(s)
      BY SourceIs DEF LearnInv, LearnTypes
<1>2. PICK rest \in IF s = "events" THEN {SubSeq(ls, 1, SelectInSeq(ls, Bad) - 1)}
                    ELSE ReadableIn(ls) :
          sources' = [sources EXCEPT ![s] = rest]
      BY DEF Cure
<1>3. rest \in Seq(LinesIn(s)) /\ Len(rest) <= Len(ls)
      <2>1. CASE s = "events"
            <3> DEFINE bad == {i \in 1..Len(ls) : Bad(ls[i])}
                       n == SelectInSeq(ls, Bad)
            <3>1. n = IF bad # {} THEN Min(bad) ELSE 0
                  BY DEF SelectInSeq
            <3>2. n \in 0..Len(ls)
                  <4>1. bad \in SUBSET Nat /\ bad \in SUBSET (1..Len(ls))
                        BY <1>1
                  <4>2. bad # {} => Min(bad) \in bad
                        <5> HIDE DEF bad
                        <5> QED  BY <4>1, MinIs
                  <4> HIDE DEF bad, n
                  <4>3. CASE bad = {}
                        BY <1>1, <3>1, <4>3
                  <4>4. CASE bad # {}
                        <5>1. n \in 1..Len(ls)
                              BY <3>1, <4>1, <4>2, <4>4
                        <5> HIDE DEF ls
                        <5> QED  BY <1>1, <5>1
                  <4> QED  BY <4>3, <4>4
            <3> HIDE DEF n, ls
            <3>3. rest = SubSeq(ls, 1, n - 1)
                  BY <1>2, <2>1 DEF n
            <3>4. \A i \in 1..n - 1 : ls[i] \in LinesIn(s)
                  BY <1>1, <3>2
            <3>5. 1 \in Int /\ n - 1 \in Int
                  BY <1>1, <3>2
            <3>6. /\ rest \in Seq(LinesIn(s))
                  /\ Len(rest) = IF 1 <= n - 1 THEN n - 1 - 1 + 1 ELSE 0
                  BY <3>3, <3>4, <3>5, SubSeqProperties
            <3> QED  BY <1>1, <3>2, <3>6
      <2>2. CASE s # "events"
            <3> DEFINE at == {i \in DOMAIN ls : ~Bad(ls[i])}
                       n == Cardinality(at)
            <3>1. n \in Nat /\ n <= Len(ls)
                  <4>1. IsFiniteSet(1..Len(ls)) /\ Cardinality(1..Len(ls)) = Len(ls)
                        BY <1>1, FS_Interval
                  <4>2. at \in SUBSET (1..Len(ls))
                        BY <1>1
                  <4> HIDE DEF at
                  <4> QED  BY <4>1, <4>2, FS_Subset, FS_CardinalityType
            <3>2. PICK o \in [1..n -> at] : rest = [k \in 1..n |-> ls[o[k]]]
                  BY <1>2, <2>2 DEF ReadableIn
            <3>3. \A k \in 1..n : ls[o[k]] \in LinesIn(s)
                  BY <1>1
            <3> HIDE DEF n, at, ls
            <3>4. rest \in [1..n -> LinesIn(s)]
                  BY <3>2, <3>3
            <3>5. rest \in Seq(LinesIn(s))
                  BY <3>1, <3>4, SeqDef
            <3>6. Len(rest) = n
                  BY <3>1, <3>4, <3>5, LenProperties
            <3> QED  BY <3>1, <3>5, <3>6
      <2> QED  BY <2>1, <2>2
<1> QED  BY <1>2, <1>3, LosingSteps DEF Cure

LEMMA HealSteps == ASSUME LearnInv, HealEvents PROVE LearnInv'
<1> DEFINE s == "events"
           ls == sources[s]
           rest == SubSeq(ls, 1, Len(ls) - 1)
<1>1. /\ Len(ls) \in Nat /\ ls \in Seq(LinesIn(s)) /\ DOMAIN ls = 1..Len(ls) /\ s \in Names
      /\ \A i \in DOMAIN ls : ls[i] \in LinesIn(s)
      BY SourceIs DEF LearnInv, LearnTypes, Names
<1>2. ls # <<>> /\ sources' = [sources EXCEPT ![s] = rest] /\ shrunk' = shrunk \cup {s}
      BY DEF HealEvents, Front, LearnInv, LearnTypes, SourcesOk, Names
<1>3. rest \in Seq(LinesIn(s)) /\ Len(rest) <= Len(ls)
      <2>1. \A i \in 1..Len(ls) - 1 : ls[i] \in LinesIn(s)
            BY <1>1
      <2>2. 1 \in Int /\ Len(ls) - 1 \in Int
            BY <1>1
      <2>3. /\ rest \in Seq(LinesIn(s))
            /\ Len(rest) = IF 1 <= Len(ls) - 1 THEN Len(ls) - 1 - 1 + 1 ELSE 0
            BY <2>1, <2>2, SubSeqProperties
      <2> HIDE DEF rest
      <2> QED  BY <1>1, <2>3
<1>4. UNCHANGED <<reached, learn, shown, passedOver, born>>
      BY DEF HealEvents
<1> HIDE DEF rest
<1> QED  BY <1>1, <1>2, <1>3, <1>4, LosingSteps

\* After a power cut no run is on, and a line or a cursor is lost.
LEMMA CutSteps == ASSUME LearnInv, PowerCut PROVE LearnInv'
<1> USE LearnConstants
<1>1. /\ UNCHANGED <<shown, passedOver, shrunk, born>> /\ learn' = NoLearn /\ learn'.pc = "idle"
      /\ LearnTypes /\ SourcesOk(sources, born) /\ born \in Nat /\ learn' \in [pc : {"idle"}]
      BY DEF PowerCut, LearnInv, LearnTypes, NoLearn
<1>2. CASE reached' = [s \in Names |-> 0] /\ UNCHANGED sources
      <2>1. reached' \in Cursors /\ reached'["events"] = 0 /\ reached'["alerts"] = 0
            BY <1>2 DEF Cursors, Names
      <2>2. LearnTypes'
            BY <1>1, <1>2, <2>1 DEF LearnTypes
      <2>3. /\ "events" \in Names /\ "alerts" \in Names
            BY DEF Names
      <2>4. InLedger(reached', sources, shrunk)
            BY <1>1, <2>1, <2>3, SourceIs DEF InLedger
      <2>5. Covered(reached', sources, shrunk, WasRead)
            <3>1. \A i \in DOMAIN sources["events"] : sources["events"][i].seq \in Nat
                  BY <1>1, <2>3, SourceIs
            <3>2. \A i \in DOMAIN sources["alerts"] : ~(i <= 0)
                  BY <1>1, <2>3, SourceIs
            <3> QED  BY <2>1, <3>1, <3>2 DEF Covered
      <2> QED  BY <1>1, <1>2, <2>2, <2>4, <2>5 DEF LearnInv, WasRead
<1>3. CASE /\ \E s \in Names :
                 /\ sources[s] # <<>>
                 /\ sources' = [sources EXCEPT ![s][Len(sources[s])].kind = "bad"]
           /\ UNCHANGED reached
      <2>1. PICK s \in Names :
                 /\ sources[s] # <<>>
                 /\ sources' = [sources EXCEPT ![s][Len(sources[s])].kind = "bad"]
            BY <1>3
      <2> DEFINE ls == sources[s]
                 n == Len(ls)
                 x == [ls[n] EXCEPT !.kind = "bad"]
                 torn == [ls EXCEPT ![n] = x]
      <2>2. /\ n \in Nat /\ n <= born /\ ls \in Seq(LinesIn(s)) /\ DOMAIN ls = 1..n
            BY <1>1, SourceIs
      <2>3. n \in 1..n
            BY <2>1, <2>2, EmptySeq
      <2>4. ls[n] \in LinesIn(s)
            BY <2>2, <2>3, ElementOfSeq
      <2>5. x \in LinesIn(s) /\ x.kind = "bad" /\ x.seq = ls[n].seq
            BY <2>4 DEF LinesIn, LineKinds
      <2>6. sources' = [sources EXCEPT ![s] = torn]
            BY <1>1, <2>1 DEF SourcesOk
      <2> HIDE DEF x
      <2>7. /\ torn \in Seq(LinesIn(s)) /\ Len(torn) = n
            /\ \A i \in 1..n : torn[i] = IF i = n THEN x ELSE ls[i]
            BY <2>2, <2>3, <2>5, ExceptSeq
      <2>8. DOMAIN torn = 1..n
            <3> HIDE DEF torn
            <3> QED  BY <2>7, LenProperties
      <2> HIDE DEF torn, n, ls
      <2>9. /\ SourcesOk(sources', born) /\ sources'[s] = torn
            /\ \A t \in Names : t # s => sources'[t] = sources[t]
            <3>1. born <= born
                  BY <1>1
            <3>2. torn \in Seq(LinesIn(s)) /\ Len(torn) <= born /\ s \in Names
                  BY <2>1, <2>2, <2>7 DEF n
            <3>3. LET new == [sources EXCEPT ![s] = torn]
                  IN  /\ SourcesOk(new, born) /\ new[s] = torn
                      /\ \A t \in Names : t # s => new[t] = sources[t]
                  BY ONLY <1>1, <3>1, <3>2, OtherSource
            <3> QED  BY <2>6, <3>3
      <2>10. \A i \in 1..n : /\ torn[i].seq = ls[i].seq
                             /\ Significant(torn[i]) => Significant(ls[i]) /\ torn[i] = ls[i]
            BY <2>5, <2>7 DEF Significant
      <2>11. \A t \in Names : /\ DOMAIN sources'[t] = DOMAIN sources[t]
                              /\ Len(sources'[t]) = Len(sources[t])
                              /\ \A i \in DOMAIN sources[t] :
                                   LET y == sources[t][i]  z == sources'[t][i]
                                   IN  z.seq = y.seq /\ (Significant(z) => z = y)
            BY <2>2, <2>7, <2>8, <2>9, <2>10 DEF ls, n
      <2>12. "events" \in Names /\ "alerts" \in Names
            BY DEF Names
      <2>13. LearnTypes'
            BY <1>1, <1>3, <2>9 DEF LearnTypes
      <2>14. Ordered(sources', shrunk)
            BY <2>11, <2>12 DEF LearnInv, Ordered
      <2>15. InLedger(reached, sources', shrunk)
            BY <2>11, <2>12 DEF LearnInv, InLedger
      <2>16. Covered(reached, sources', shrunk, WasRead)
            BY <2>11, <2>12 DEF LearnInv, Covered
      <2> QED  BY <1>1, <1>3, <2>13, <2>14, <2>15, <2>16 DEF LearnInv, WasRead
<1> QED  BY <1>2, <1>3 DEF PowerCut

-----------------------------------------------------------------------------
\* A run that starts has the cursor and nothing else.
LEMMA LearnStarts == ASSUME LearnInv, StartLearn PROVE LearnInv'
<1>1. /\ UNCHANGED <<sources, reached, shown, passedOver, shrunk, born>>
      /\ learn' = [pc |-> "events", upto |-> reached, new |-> {}]
      BY DEF StartLearn
<1>2. LearnTypes'
      <2>1. learn' \in Learns
            BY <1>1 DEF Learns, LearnInv, LearnTypes
      <2> QED  BY <1>1, <2>1 DEF LearnInv, LearnTypes
<1>3. WasRead' = WasRead /\ WasRead \cup IdsOf({}) = WasRead
      BY <1>1 DEF WasRead, IdsOf
<1>4. learn'.upto = reached /\ learn'.new = {} /\ learn'.pc = "events"
      BY <1>1
<1> QED  BY <1>1, <1>2, <1>3, <1>4 DEF LearnInv

\* The greatest number that is read is the cursor's or a line's.
LEMMA GreatestIs ==
    ASSUME NEW n \in Nat, SourcesOk(sources, n), NEW from \in 0..MaxBorn
    PROVE  LET ls == sources["events"]  g == GreatestSeq(ls, from)
           IN  /\ g \in 0..MaxBorn
               /\ g = from \/ \E i \in DOMAIN ls : ls[i].seq = g
               /\ \A i \in DOMAIN ls : ~Bad(ls[i]) => ls[i].seq <= g
<1> USE LearnConstants
<1> DEFINE ls == sources["events"]
           T == {from} \cup {ls[i].seq : i \in {j \in DOMAIN ls : ~Bad(ls[j])}}
<1>1. \A i \in DOMAIN ls : ls[i].seq \in 0..MaxBorn
      BY SourceIs DEF Names
<1>2. T \in SUBSET (0..MaxBorn) /\ T # {}
      BY <1>1
<1>3. Max(T) \in T /\ \A m \in T : Max(T) >= m
      <2>1. 0 \in Int /\ MaxBorn \in Int
            OBVIOUS
      <2> HIDE DEF T
      <2> QED  BY ONLY <1>2, <2>1, MaxIs
<1>4. GreatestSeq(ls, from) = Max(T)
      BY DEF GreatestSeq
<1>5. Max(T) \in 0..MaxBorn
      BY <1>2, <1>3
<1>6. Max(T) = from \/ \E i \in DOMAIN ls : ls[i].seq = Max(T)
      BY <1>3
<1>7. \A i \in DOMAIN ls : ~Bad(ls[i]) => ls[i].seq <= Max(T)
      <2> TAKE i \in DOMAIN ls
      <2> HAVE ~Bad(ls[i])
      <2>1. ls[i].seq \in T
            OBVIOUS
      <2>2. ls[i].seq \in Int /\ Max(T) \in Int
            BY <1>1, <1>5
      <2> HIDE DEF T
      <2> QED  BY <1>3, <2>1, <2>2
<1> QED  BY <1>4, <1>5, <1>6, <1>7

LEMMA ReadsEvents == ASSUME LearnInv, ReadEvents PROVE LearnInv'
<1> USE LearnConstants
<1> DEFINE ls == sources["events"]
           c == learn.upto
           from == c["events"]
           g == GreatestSeq(ls, from)
           found == {x \in Range(ls) : Significant(x) /\ x.seq > from}
<1>1. /\ UNCHANGED <<sources, reached, shown, passedOver, shrunk, born>> /\ learn.pc = "events"
      /\ learn' = [learn EXCEPT !.pc = "alerts", !.new = found, !.upto["events"] = g]
      BY DEF ReadEvents
<1>2. /\ LearnTypes /\ SourcesOk(sources, born) /\ born \in Nat /\ learn \in Learns
      /\ c \in Cursors /\ from \in 0..MaxBorn /\ "events" \in Names /\ "alerts" \in Names
      BY <1>1 DEF LearnInv, LearnTypes, Learns, Cursors, Names
<1>3. /\ g \in 0..MaxBorn
      /\ g = from \/ \E i \in DOMAIN ls : ls[i].seq = g
      /\ \A i \in DOMAIN ls : ~Bad(ls[i]) => ls[i].seq <= g
      <2> HIDE DEF from
      <2> QED  BY ONLY <1>2, GreatestIs
<1>4. \A i \in DOMAIN ls : ls[i] \in AnyLine /\ ls[i].seq \in 0..MaxBorn
      BY <1>2, SourceIs
<1>5. found \in SUBSET AnyLine
      BY <1>4 DEF Range
<1> HIDE DEF g, found
<1>6. /\ learn' \in Learns /\ learn'.pc = "alerts" /\ learn'.new = found
      /\ learn'.upto["events"] = g /\ learn'.upto["alerts"] = c["alerts"]
      BY <1>1, <1>2, <1>3, <1>5 DEF Learns, Cursors
<1>7. LearnTypes'
      BY <1>1, <1>2, <1>6 DEF LearnTypes
<1>8. InLedger(learn'.upto, sources, shrunk)
      <2>1. InLedger(c, sources, shrunk) /\ Ordered(sources, shrunk)
            BY <1>1 DEF LearnInv
      <2>2. Len(ls) \in Nat /\ DOMAIN ls = 1..Len(ls)
            BY <1>2, SourceIs
      <2>3. ASSUME "events" \notin shrunk PROVE g = 0 \/ g < Len(ls)
            <3>1. CASE g = from
                  BY <2>1, <2>3, <3>1 DEF InLedger
            <3>2. CASE \E i \in DOMAIN ls : ls[i].seq = g
                  BY <2>1, <2>2, <2>3, <3>2 DEF Ordered
            <3> QED  BY <1>3, <3>1, <3>2
      <2> QED  BY <1>6, <2>1, <2>3 DEF InLedger
<1>9. Covered(learn'.upto, sources, shrunk, WasRead \cup IdsOf(found))
      <2>1. Covered(c, sources, shrunk, WasRead)
            <3>1. Covered(c, sources, shrunk, WasRead \cup IdsOf(learn.new)) /\ learn.new = {}
                  BY <1>1 DEF LearnInv
            <3>2. WasRead \cup IdsOf({}) = WasRead
                  BY DEF IdsOf
            <3> QED  BY <3>1, <3>2
      <2>2. ASSUME "events" \notin shrunk, NEW i \in DOMAIN ls, Significant(ls[i]), ls[i].seq <= g
            PROVE  ls[i].id \in WasRead \cup IdsOf(found) \/ ls[i].seq = 0
            <3>1. CASE ls[i].seq <= from
                  BY <2>1, <2>2, <3>1 DEF Covered
            <3>2. CASE ls[i].seq > from
                  BY <2>2, <3>2 DEF found, IdsOf, Range
            <3> QED  BY <1>2, <1>4, <3>1, <3>2
      <2> QED  BY <1>6, <2>1, <2>2 DEF Covered
<1>10. WasRead' = WasRead
      BY <1>1 DEF WasRead
<1> QED  BY <1>1, <1>6, <1>7, <1>8, <1>9, <1>10 DEF LearnInv

LEMMA ReadsAlerts == ASSUME LearnInv, ReadAlerts PROVE LearnInv'
<1> USE LearnConstants
<1> DEFINE ls == sources["alerts"]
           c == learn.upto
           from == c["alerts"]
           g == IF ls = <<>> THEN from ELSE Len(ls)
           more == {ls[i] : i \in {j \in DOMAIN ls : j > from}}
           found == learn.new \cup {x \in more : Significant(x)}
<1>1. /\ UNCHANGED <<sources, reached, shown, passedOver, shrunk, born>> /\ learn.pc = "alerts"
      /\ learn' = [learn EXCEPT !.pc = "draft",
                                !.new = @ \cup {x \in more : Significant(x)},
                                !.upto["alerts"] = g]
      BY DEF ReadAlerts
<1>2. /\ LearnTypes /\ SourcesOk(sources, born) /\ born \in 0..MaxBorn /\ learn \in Learns
      /\ c \in Cursors /\ from \in 0..MaxBorn /\ "events" \in Names /\ "alerts" \in Names
      BY <1>1 DEF LearnInv, LearnTypes, Learns, Cursors, Names
<1>3. /\ Len(ls) \in Nat /\ Len(ls) <= born /\ DOMAIN ls = 1..Len(ls)
      /\ \A i \in DOMAIN ls : ls[i] \in AnyLine
      BY <1>2, SourceIs
<1>4. g \in 0..MaxBorn
      BY <1>2, <1>3
<1>5. found \in SUBSET AnyLine
      BY <1>2, <1>3 DEF Learns
<1>6. /\ learn' \in Learns /\ learn'.pc = "draft" /\ learn'.new = found
      /\ learn'.upto["alerts"] = g /\ learn'.upto["events"] = c["events"]
      <2> HIDE DEF g
      <2> QED  BY <1>1, <1>2, <1>4, <1>5 DEF Learns, Cursors
<1>7. LearnTypes'
      BY <1>1, <1>2, <1>6 DEF LearnTypes
<1>8. InLedger(learn'.upto, sources, shrunk)
      <2>1. InLedger(c, sources, shrunk)
            BY <1>1 DEF LearnInv
      <2>2. "alerts" \notin shrunk => g <= Len(ls)
            BY <1>3, <2>1 DEF InLedger
      <2> HIDE DEF g
      <2> QED  BY <1>6, <2>1, <2>2 DEF InLedger
<1>9. Covered(learn'.upto, sources, shrunk, WasRead \cup IdsOf(found))
      <2>1. Covered(c, sources, shrunk, WasRead \cup IdsOf(learn.new))
            BY <1>1 DEF LearnInv
      <2>2. ASSUME "alerts" \notin shrunk, NEW i \in DOMAIN ls, Significant(ls[i])
            PROVE  ls[i].id \in WasRead \cup IdsOf(found)
            <3>1. CASE i <= from
                  BY <2>1, <2>2, <3>1 DEF Covered, IdsOf
            <3>2. CASE i > from
                  BY <2>2, <3>2 DEF IdsOf
            <3> QED  BY <1>2, <1>3, <3>1, <3>2
      <2>3. IdsOf(learn.new) \subseteq IdsOf(found)
            BY DEF IdsOf
      <2> HIDE DEF found, g
      <2> QED  BY <1>6, <2>1, <2>2, <2>3 DEF Covered
<1>10. WasRead' = WasRead
      BY <1>1 DEF WasRead
<1> HIDE DEF found
<1> QED  BY <1>1, <1>6, <1>7, <1>8, <1>9, <1>10 DEF LearnInv

\* A draft shows lines that the run has read.
LEMMA DraftIsRead ==
    ASSUME NEW new \in SUBSET AnyLine
    PROVE  IdsOf(FirstOf(Largest(new))) \subseteq IdsOf(new) /\ IdsOf(new) \subseteq 1..MaxBorn
<1>1. FirstOf(Largest(new)) \subseteq new
      BY DEF FirstOf, Largest, Group
<1>2. \A x \in AnyLine : x.id \in 1..MaxBorn
      BY DEF AnyLine, LinesIn
<1> HIDE DEF FirstOf, Largest
<1> QED  BY <1>1, <1>2 DEF IdsOf

LEMMA DraftIsWritten == ASSUME LearnInv, WriteDraft PROVE LearnInv'
<1>1. /\ UNCHANGED <<sources, reached, passedOver, shrunk, born>> /\ learn.pc = "draft"
      BY DEF WriteDraft
<1>2. learn \in Learns /\ LearnTypes
      BY <1>1 DEF LearnInv, LearnTypes
<1>3. shown \subseteq shown' /\ shown' \in SUBSET (1..MaxBorn)
      <2>1. learn.new \in SUBSET AnyLine /\ shown \in SUBSET (1..MaxBorn)
            BY <1>2 DEF Learns, LearnTypes
      <2> DEFINE ids == IdsOf(FirstOf(Largest(learn.new)))
      <2>2. ids \subseteq 1..MaxBorn
            BY <2>1, DraftIsRead
      <2>3. shown' = shown \/ shown' = shown \cup ids
            BY DEF WriteDraft
      <2> HIDE DEF ids
      <2> QED  BY <2>1, <2>2, <2>3
<1>4. \/ learn' = NoLearn
      \/ learn' = [learn EXCEPT !.pc = "save"]
      BY DEF WriteDraft
<1>5. \/ learn'.pc = "idle" /\ learn' \in [pc : {"idle"}]
      \/ /\ learn' \in Learns /\ learn'.pc = "save"
         /\ learn'.upto = learn.upto /\ learn'.new = learn.new
      BY <1>2, <1>4 DEF NoLearn, Learns
<1>6. LearnTypes'
      BY <1>1, <1>2, <1>3, <1>5 DEF LearnTypes
<1>7. WasRead \subseteq WasRead'
      BY <1>1, <1>3 DEF WasRead
<1>8. \A s \in Names : s \notin shrunk => sources[s] = sources[s]
      OBVIOUS
<1>9. Covered(reached, sources, shrunk, WasRead')
      <2>1. Covered(reached, sources, shrunk, WasRead)
            BY DEF LearnInv
      <2> QED  BY <1>7, <2>1 DEF Covered
<1>10. ASSUME learn'.pc = "save"
       PROVE  Covered(learn.upto, sources, shrunk, WasRead' \cup IdsOf(learn.new))
      <2>1. Covered(learn.upto, sources, shrunk, WasRead \cup IdsOf(learn.new))
            BY <1>1 DEF LearnInv
      <2> QED  BY <1>7, <2>1 DEF Covered
<1>11. learn.pc # "idle"
      BY <1>1
<1> QED  BY <1>1, <1>5, <1>6, <1>9, <1>10, <1>11 DEF LearnInv

\* What the run had read is read when the cursor gets behind it.
LEMMA CursorIsSaved == ASSUME LearnInv, SaveReached PROVE LearnInv'
<1>1. /\ UNCHANGED <<sources, shown, shrunk, born>> /\ learn.pc = "save"
      /\ learn' = NoLearn /\ learn'.pc = "idle" /\ learn' \in [pc : {"idle"}]
      BY DEF SaveReached, NoLearn
<1>2. LearnTypes /\ learn \in Learns
      BY <1>1 DEF LearnInv, LearnTypes
<1>3. CASE UNCHANGED <<reached, passedOver>>
      BY <1>1, <1>3 DEF LearnInv, LearnTypes, WasRead
<1>4. CASE reached' = learn.upto /\ passedOver' = passedOver \cup (IdsOf(learn.new) \ shown)
      <2>1. reached' \in Cursors /\ learn.new \in SUBSET AnyLine
            BY <1>2, <1>4 DEF Learns
      <2>2. IdsOf(learn.new) \subseteq 1..MaxBorn
            BY <2>1, DraftIsRead
      <2>3. LearnTypes'
            BY <1>1, <1>2, <1>4, <2>1, <2>2 DEF LearnTypes
      <2>4. WasRead' = WasRead \cup IdsOf(learn.new)
            BY <1>1, <1>4 DEF WasRead
      <2>5. /\ Ordered(sources, shrunk) /\ InLedger(learn.upto, sources, shrunk)
            /\ Covered(learn.upto, sources, shrunk, WasRead \cup IdsOf(learn.new))
            BY <1>1 DEF LearnInv
      <2> QED  BY <1>1, <1>4, <2>3, <2>4, <2>5 DEF LearnInv
<1> QED  BY <1>3, <1>4 DEF SaveReached

LEMMA LearnRests ==
    ASSUME LearnInv, UNCHANGED <<sources, reached, shown, passedOver, shrunk, born>>,
           learn' = learn \/ learn' = NoLearn
    PROVE  LearnInv'
<1>1. CASE learn' = learn
      BY <1>1 DEF LearnInv, LearnTypes, WasRead
<1>2. CASE learn' = NoLearn
      BY <1>2 DEF LearnInv, LearnTypes, WasRead, NoLearn
<1> QED  BY <1>1, <1>2

LEMMA LearnStep == ASSUME LearnInv, LearnNext \/ UNCHANGED learnVars PROVE LearnInv'
<1>1. ASSUME NEW s \in Names, AppendLine(s) \/ Cure(s) PROVE LearnInv'
      BY <1>1, AppendSteps, CureSteps
<1>2. CASE PowerCut
      BY <1>2, CutSteps
<1>3. CASE HealEvents
      BY <1>3, HealSteps
<1>4. CASE LearnRun
      BY <1>4, LearnStarts, ReadsEvents, ReadsAlerts, DraftIsWritten, CursorIsSaved DEF LearnRun
<1>5. CASE KillLearn
      BY <1>5, LearnRests DEF KillLearn
<1>6. CASE UNCHANGED learnVars
      BY <1>6, LearnRests DEF learnVars
<1> QED  BY <1>1, <1>2, <1>3, <1>4, <1>5, <1>6 DEF LearnNext

LEMMA LearnIsRight == LearnInv => LearnTypeOK /\ NoneSkipped
<1> SUFFICES ASSUME LearnInv PROVE LearnTypeOK /\ NoneSkipped
    OBVIOUS
<1>1. LearnTypes /\ SourcesOk(sources, born)
      BY DEF LearnInv, LearnTypes
<1>2. LearnTypeOK
      <2>1. \A s \in Names : \A i \in DOMAIN sources[s] : sources[s][i].kind \in LineKinds(s)
            BY <1>1, SourceIs
      <2>2. learn.pc \in {"idle", "events", "alerts", "draft", "save"}
            BY <1>1 DEF LearnTypes, Learns
      <2> QED  BY <1>1, <2>1, <2>2 DEF LearnTypeOK, LearnTypes, LineKinds, Cursors
<1>3. NoneSkipped
      <2> SUFFICES ASSUME NEW s \in Names \ shrunk, NEW x \in Behind(s)
                   PROVE  Read(x) \/ (s = "events" /\ x.seq = 0)
          BY DEF NoneSkipped
      <2>1. Covered(reached, sources, shrunk, WasRead)
            BY DEF LearnInv
      <2>2. CASE s = "events"
            BY <2>1, <2>2 DEF Covered, Behind, Read, WasRead
      <2>3. CASE s = "alerts"
            BY <2>1, <2>3 DEF Covered, Behind, Read, WasRead
      <2> QED  BY <2>2, <2>3 DEF Names
<1> QED  BY <1>2, <1>3

-----------------------------------------------------------------------------
\* The hardware watchdog resets no node that is alive (run_armed,
\* liveness): not because clock_sync corrected the clock, not in the
\* start, not because its feeder was relieved or killed, whatever the
\* intervals are, as long as they are Timely.
THEOREM NoNodeAliveIsReset ==
    ASSUME Timely
    PROVE  Spec => []NoSpuriousReset
<1>1. Init => WdInv
      BY WdInitInv DEF Init
<1>2. WdInv /\ [Next]_vars => WdInv'
      <2>1. ASSUME WdInv, Next PROVE WdInv'
            <3>1. WdNext \/ UNCHANGED wdVars
                  BY <2>1 DEF Next, InPart, NotClock, NotStorage, NotExpiry, NotOut,
                              NotDialogue, NotLearn
            <3> QED  BY <2>1, <3>1, WdStep, WdRests
      <2>2. ASSUME WdInv, UNCHANGED vars PROVE WdInv'
            BY <2>2, WdRests DEF vars
      <2> QED  BY <2>1, <2>2
<1>3. WdInv => NoSpuriousReset
      BY NoneSpurious
<1> QED  BY <1>1, <1>2, <1>3, PTL DEF Spec

-----------------------------------------------------------------------------
(***************************************************************************)
(* Each part has its invariant, which the steps of the others leave as it  *)
(* is.  Only the watches of the clock and of the disk share the variables  *)
(* of a state file, and a behaviour has one of them.                       *)
(***************************************************************************)
PartsInv ==
    /\ ClockInv /\ WdTypes /\ ExpiryInv /\ OutInv /\ DialogueInv /\ LearnInv
    /\ part = "watch" => WatchInv(ClockKeys)
    /\ part = "storage" => WatchInv(DiskKeys)

LEMMA KeysAreWatched == ClockKeys \in SUBSET WatchKeys /\ DiskKeys \in SUBSET WatchKeys
BY ClockAssumption, StorageAssumption DEF DiskKeys

LEMMA PartsInit == Init => PartsInv
<1> SUFFICES ASSUME Init PROVE PartsInv
    OBVIOUS
<1>1. ClockInv /\ WdTypes /\ ExpiryInv /\ OutInv /\ DialogueInv /\ LearnInv
      BY ClockInitInv, WdTypesStart, ExpiryInitInv, OutInitInv, DialogueInitInv, LearnInitInv
         DEF Init
<1>2. WatchInv(ClockKeys) /\ WatchInv(DiskKeys)
      BY WatchStarts, KeysAreWatched DEF Init
<1> QED  BY <1>1, <1>2 DEF PartsInv

\* What a step does to the variables of each part.
LEMMA StepOfAPart ==
    ASSUME [Next]_vars
    PROVE  /\ ClockNext \/ ClockWatchNext \/ UNCHANGED clockVars
           /\ WdNext \/ UNCHANGED wdVars
           /\ ExpiryNext \/ UNCHANGED expiryVars
           /\ OutNext \/ UNCHANGED outVars
           /\ DialogueNext \/ UNCHANGED dialogueVars
           /\ LearnNext \/ UNCHANGED learnVars
           /\ part' = part
           /\ part = "watch" => ClockWatchNext \/ UNCHANGED watchVars
           /\ part = "storage" => StorageNext \/ UNCHANGED watchVars
<1> USE DEF InPart, NotClock, NotWd, NotStorage, NotExpiry, NotOut, NotDialogue, NotLearn
<1>1. CASE UNCHANGED vars
      BY <1>1 DEF vars
<1>2. CASE InPart("clock", ClockNext, NotClock) \/ InPart("watch", ClockWatchNext, NotClock)
      BY <1>2
<1>3. CASE InPart("storage", StorageNext, NotStorage) \/ InPart("watchdog", WdNext, NotWd)
      BY <1>3
<1>4. CASE InPart("expiry", ExpiryNext, NotExpiry) \/ InPart("alerts", ExpiryCycle, NotExpiry)
      BY <1>4 DEF ExpiryNext
<1>5. CASE InPart("alerts", OutNext, NotOut) \/ InPart("dialogue", DialogueNext, NotDialogue)
      BY <1>5
<1>6. CASE InPart("learn", LearnNext, NotLearn)
      BY <1>6
<1> QED  BY <1>1, <1>2, <1>3, <1>4, <1>5, <1>6 DEF Next

LEMMA WatchingStep ==
    ASSUME WatchInv(ClockKeys), ClockWatchNext \/ UNCHANGED watchVars
    PROVE  WatchInv(ClockKeys)'
<1> DEFINE keys == ClockKeys
<1>1. keys \in SUBSET WatchKeys
      BY KeysAreWatched
<1>2. CASE UNCHANGED watchVars
      BY <1>1, <1>2, WatchStutters
<1>3. CASE WatchPass
      BY <1>1, <1>3, HallazgosHold, PassBegins DEF WatchPass
<1>4. CASE Compare \/ SaveState \/ KillPass
      BY <1>1, <1>4, PassCompares, PassSaves, PassIsKilled
<1> QED  BY <1>2, <1>3, <1>4 DEF ClockWatchNext, WatchStep

LEMMA StoringStep ==
    ASSUME WatchInv(DiskKeys), StorageNext \/ UNCHANGED watchVars
    PROVE  WatchInv(DiskKeys)'
<1>1. DiskKeys \in SUBSET WatchKeys
      BY KeysAreWatched
<1>2. CASE UNCHANGED watchVars
      BY <1>1, <1>2, WatchStutters
<1>3. CASE StoragePass
      BY <1>1, <1>3, EvaluatedHold, PassBegins DEF StoragePass
<1>4. CASE Compare \/ SaveState \/ KillPass
      BY <1>1, <1>4, PassCompares, PassSaves, PassIsKilled
<1>5. CASE Fill
      BY <1>1, <1>5, WatchStutters DEF Fill
<1> QED  BY <1>2, <1>3, <1>4, <1>5 DEF StorageNext

LEMMA PartsStep ==
    ASSUME PartsInv, [Next]_vars
    PROVE  /\ PartsInv' /\ Kept
           /\ clock' < clock => boot' # boot
           /\ outbox'.seq < outbox.seq => cut'
<1>1. ClockInv' /\ (clock' < clock => boot' # boot)
      BY StepOfAPart, ClockStep DEF PartsInv
<1>2. WdTypes'
      BY StepOfAPart, WdTypesStay DEF PartsInv
<1>3. ExpiryInv'
      BY StepOfAPart, ExpiryStep DEF PartsInv
<1>4. OutInv' /\ (outbox'.seq < outbox.seq => cut')
      BY StepOfAPart, OutStep DEF PartsInv, ExpiryInv
<1>5. DialogueInv' /\ Kept
      BY StepOfAPart, DialogueStep DEF PartsInv
<1>6. LearnInv'
      BY StepOfAPart, LearnStep DEF PartsInv
<1>7. (part = "watch" => WatchInv(ClockKeys))'
      BY StepOfAPart, WatchingStep DEF PartsInv
<1>8. (part = "storage" => WatchInv(DiskKeys))'
      BY StepOfAPart, StoringStep DEF PartsInv
<1> QED  BY <1>1, <1>2, <1>3, <1>4, <1>5, <1>6, <1>7, <1>8 DEF PartsInv

\* No watch and no channel tells what is not so (clock_sync, clock_watch,
\* storage_watch, liveness_watchdog, caducidad_watch, alerts_channel,
\* hallazgo_channel, event_learn), whatever is killed or lost on the way; but
\* for an entry of which an append failed, and a finding whose text was replaced
\* while a run looked at it.  For any files, calendar, findings, keys and bounds.
THEOREM NothingIsMistold == Spec => []NothingMistold
<1>1. PartsInv => NothingMistold
      <2> SUFFICES ASSUME PartsInv PROVE NothingMistold
          OBVIOUS
      <2>1. ClockTypeOK /\ NeverAhead /\ WdTypeOK
            BY ClockIsRight, WdTypesAreRight DEF PartsInv
      <2>2. ExpiryTypeOK /\ CursorVouches /\ OutTypeOK
            BY ExpiryIsRight, OutIsRight DEF PartsInv
      <2>3. DialogueTypeOK /\ OnlyApproved /\ LearnTypeOK /\ NoneSkipped
            BY DialogueIsRight, LearnIsRight DEF PartsInv
      <2>4. (part = "watch" => ClockIsTold) /\ (part = "storage" => DiskIsTold)
            BY DEF PartsInv, WatchInv, ClockIsTold, DiskIsTold, DiskKeys
      <2> QED  BY <2>1, <2>2, <2>3, <2>4 DEF NothingMistold
<1>2. PartsInv /\ [Next]_vars => PartsInv'
      BY PartsStep
<1> QED  BY PartsInit, <1>1, <1>2, PTL DEF Spec

\* What must not go back does not: the clock goes back in no boot, the numbers
\* of the envelopes only by a loss of power, or after one when their file was
\* not written since, and what the dialogue has stays in it or goes to the
\* history.
THEOREM NothingGoesBack == Spec => NeverBackwards
<1>1. PartsInv /\ [Next]_vars => PartsInv'
      BY PartsStep
<1>2. PartsInv /\ [Next]_vars => [clock' < clock => boot' # boot]_clock
      BY PartsStep
<1>3. PartsInv /\ [Next]_vars =>
          [outbox'.seq < outbox.seq => cut']_outbox
      BY PartsStep
<1>4. PartsInv /\ [Next]_vars =>
          [/\ estado'.era = estado.era =>
                 Range(estado.entradas) \subseteq Range(estado'.entradas) \cup history'
           /\ envelope'.era # envelope.era => envelope'.decl
           /\ envelope'.era = envelope.era => envelope'.seq >= envelope.seq]_dialogueVars
      BY PartsStep DEF Kept
<1>5. Spec => [][clock' < clock => boot' # boot]_clock
      BY PartsInit, <1>1, <1>2, PTL DEF Spec
<1>6. Spec => [][outbox'.seq < outbox.seq => cut']_outbox
      BY PartsInit, <1>1, <1>3, PTL DEF Spec
<1>7. Spec =>
          [][/\ estado'.era = estado.era =>
                   Range(estado.entradas) \subseteq Range(estado'.entradas) \cup history'
             /\ envelope'.era # envelope.era => envelope'.decl
             /\ envelope'.era = envelope.era => envelope'.seq >= envelope.seq]_dialogueVars
      BY PartsInit, <1>1, <1>4, PTL DEF Spec
<1> QED  BY <1>5, <1>6, <1>7, PTL DEF NeverBackwards, ForwardOnly, SeqForward, EntriesKept

=============================================================================
