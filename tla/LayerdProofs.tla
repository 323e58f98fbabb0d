---------------------------- MODULE LayerdProofs ----------------------------
(***************************************************************************)
(* Theorems about the supervisor, for every number of services and every   *)
(* value of the intervals and bounds.                                      *)
(*                                                                         *)
(* The argument for the heartbeat: inside a pass the lag is at most one    *)
(* verification per visited service, and the age the heartbeat had when    *)
(* the pass read the clock is at most HbInterval plus one whole pass.      *)
(* last_hb moves on although a write failed, so the age of the last line   *)
(* grows by at most that span for every failed write.                      *)
(***************************************************************************)
EXTENDS Layerd, FiniteSetTheorems, TLAPS

Assumptions == N \in Nat \ {0} /\ Iv \in [Services -> Nat]
               /\ VerifyMax \in Nat /\ Stagger \in Nat /\ MaxRuntime \in Nat
               /\ HbInterval \in Nat \ {0}
               /\ BackoffBase \in Nat \ {0} /\ BackoffMax \in Nat
               /\ BackoffBase <= BackoffMax
               /\ Long \subseteq Services /\ Optional \subseteq Services

\* Time the first c verifications of a pass may take.
Slack(c) == VerifyMax * c

LagInv ==
    /\ phase = "visit" => lag <= Slack(cur - 1)
    /\ phase = "spawn" => cur \in Services /\ lag <= Slack(cur)
    /\ phase = "sleep" => lag <= Slack(N)

AgeInv ==
    /\ phase \in {"visit", "spawn"} => sinceBeat <= lag + HbInterval + Slack(N)
    /\ phase = "sleep" => sinceBeat < lag + HbInterval
    /\ phase = "down" => sinceBeat = HbInterval /\ lag = 0 /\ cur = 1

-----------------------------------------------------------------------------
LEMMA AssumptionsHold == Assumptions
  BY NAssumption, KindAssumption, IvAssumption, TimeAssumption,
     BackoffAssumption DEF Assumptions

\* The time a pass may take grows with the services it visits.
LEMMA SlackStep ==
  ASSUME NEW c \in Nat, VerifyMax \in Nat
  PROVE  Slack(c) \in Nat /\ Slack(c + 1) = Slack(c) + VerifyMax
  BY DEF Slack

LEMMA SlackMonotone ==
  ASSUME NEW c \in Nat, NEW e \in Nat, c <= e, VerifyMax \in Nat
  PROVE  Slack(c) <= Slack(e)
<1> DEFINE k == e - c
<1>1. k \in Nat /\ e = c + k
  OBVIOUS
<1> HIDE DEF k
<1>2. VerifyMax * k \in Nat
  BY <1>1
<1>3. VerifyMax * (c + k) = VerifyMax * c + VerifyMax * k
  BY <1>1
<1> QED
  BY <1>1, <1>2, <1>3 DEF Slack

\* The stagger of the first starts never exceeds one slot per service.
LEMMA StaggerBound ==
  ASSUME NEW L \in SUBSET Services, NEW i \in Services, N \in Nat,
         Stagger \in Nat
  PROVE  LET c == Cardinality({j \in L : j < i})
         IN  Stagger * c \in Nat /\ Stagger * c <= Stagger * N
<1> DEFINE S == {j \in L : j < i}
           c == Cardinality(S)
<1>1. IsFiniteSet(Services) /\ Cardinality(Services) = N
  BY FS_Interval DEF Services
<1>2. S \subseteq Services
  OBVIOUS
<1>3. c \in Nat /\ c <= N
  BY <1>1, <1>2, FS_Subset, FS_CardinalityType
<1> HIDE DEF c
<1> DEFINE k == N - c
<1>4. k \in Nat /\ N = c + k
  BY <1>3
<1> HIDE DEF k
<1>5. Stagger * k \in Nat /\ Stagger * c \in Nat
  BY <1>3, <1>4
<1>6. Stagger * (c + k) = Stagger * c + Stagger * k
  BY <1>3, <1>4
<1>7. Stagger * c \in Nat /\ Stagger * c <= Stagger * N
  BY <1>4, <1>5, <1>6
<1> QED
  BY <1>7 DEF c

-----------------------------------------------------------------------------
(***************************************************************************)
(* Type correctness.                                                       *)
(***************************************************************************)
LEMMA DoubledInRange ==
  ASSUME Assumptions, NEW b \in BackoffBase..BackoffMax
  PROVE  Doubled(b) \in BackoffBase..BackoffMax
  BY DEF Assumptions, Doubled, Lesser

LEMMA GreaterIsNat ==
  ASSUME NEW a \in Nat, NEW b \in Nat
  PROVE  Greater(a, b) \in Nat /\ Greater(a, b) >= a /\ Greater(a, b) >= b
  BY DEF Greater

LEMMA MinusIsNat ==
  ASSUME NEW a \in Nat, NEW b \in Nat
  PROVE  Minus(a, b) \in Nat /\ Minus(a, b) <= a
  BY DEF Minus

LEMMA InitType == Init => TypeOK
<1> SUFFICES ASSUME Init PROVE TypeOK
  OBVIOUS
<1>1. cur \in 1..(N + 1) /\ HbInterval \in Nat
  BY AssumptionsHold DEF Init, Assumptions
<1>2. backoff \in [Services -> BackoffBase..BackoffMax]
  BY AssumptionsHold DEF Init, Assumptions, All
<1>3. copies \in [Services -> Int] /\ lag \in Nat /\ silent \in Nat /\ misses \in Nat
  BY DEF Init, All
<1> QED
  BY <1>1, <1>2, <1>3 DEF Init, TypeOK, All, Phases, Procs, Verdicts

\* A process that goes down leaves well-typed memory.
LEMMA GoDownType ==
  ASSUME TypeOK, GoDown, Assumptions
  PROVE  /\ phase' \in Phases /\ cur' \in 1..(N + 1)
         /\ loaded' \subseteq Services
         /\ stopReq' \in BOOLEAN /\ lag' \in Nat /\ sinceBeat' \in Nat
         /\ silent' \in Nat /\ misses' \in Nat /\ seen' \in Verdicts
         /\ proc' \in [Services -> Procs]
         /\ wait' \in [Services -> Nat] /\ left' \in [Services -> Nat]
         /\ backoff' \in [Services -> BackoffBase..BackoffMax]
         /\ sigOk' \in [Services -> Verdicts]
<1>1. cur' \in 1..(N + 1) /\ HbInterval \in Nat
  BY DEF GoDown, Assumptions
<1>2. backoff' \in [Services -> BackoffBase..BackoffMax]
  BY DEF GoDown, Assumptions, All
<1> QED
  BY <1>1, <1>2 DEF GoDown, All, Phases, Procs, Verdicts

LEMMA RetireType ==
  ASSUME TypeOK, Assumptions, NEW i \in Services, NEW failed \in BOOLEAN,
         Retire(i, failed), cur = i, copies' \in [Services -> Int]
  PROVE  TypeOK'
<1>1. Doubled(backoff[i]) \in BackoffBase..BackoffMax
  BY DoubledInRange DEF TypeOK
<1>2. backoff' \in [Services -> BackoffBase..BackoffMax]
  BY <1>1 DEF Retire, TypeOK, Assumptions
<1>3. wait' \in [Services -> Nat]
  BY <1>2 DEF Retire, TypeOK, Assumptions
<1>4. cur' \in 1..(N + 1)
  BY DEF Retire, Advance, Services, Assumptions
<1>5. proc' \in [Services -> Procs] /\ left' \in [Services -> Nat]
  BY DEF Retire, TypeOK, Procs
<1> QED
  BY <1>2, <1>3, <1>4, <1>5 DEF Retire, Advance, TypeOK, timeVars

LEMMA TypeStep == TypeOK /\ [Next]_vars => TypeOK'
<1> SUFFICES ASSUME TypeOK, [Next]_vars PROVE TypeOK'
  OBVIOUS
<1>a. Assumptions
  BY AssumptionsHold
<1> USE DEF loopVars, timeVars, svcVars, envVars
<1>1. ASSUME NEW i \in Services, Skip(i) PROVE TypeOK'
  <2>1. cur' \in 1..(N + 1)
    BY <1>1, <1>a DEF Skip, Advance, Services, Assumptions
  <2> QED
    BY <1>1, <2>1 DEF Skip, Advance, TypeOK
<1>2. ASSUME NEW i \in Services, NEW d \in 0..VerifyMax, VerifyAccepts(i, d)
      PROVE  TypeOK'
  BY <1>2, <1>a
  DEF VerifyAccepts, Due, Here, Elapse, TypeOK, Phases, Verdicts, Assumptions
<1>3. ASSUME NEW i \in Services, NEW d \in 0..VerifyMax, VerifyBlocks(i, d)
      PROVE  TypeOK'
  <2>1. lag' \in Nat /\ sinceBeat' \in Nat /\ silent' \in Nat
    BY <1>3, <1>a DEF VerifyBlocks, Elapse, TypeOK, Assumptions
  <2>2. Greater(Iv[i], BackoffBase) \in Nat /\ backoff[i] \in Nat
    BY <1>a, GreaterIsNat DEF TypeOK, Assumptions
  <2>3. wait' \in [Services -> Nat]
    BY <1>3, <2>1, <2>2 DEF VerifyBlocks, TypeOK
  <2>4. cur' \in 1..(N + 1)
    BY <1>3, <1>a DEF VerifyBlocks, Due, Here, Advance, Services, Assumptions
  <2> QED
    BY <1>3, <2>1, <2>3, <2>4 DEF VerifyBlocks, Elapse, Advance, TypeOK
<1>4. ASSUME NEW i \in Services, Popen(i) PROVE TypeOK'
  <2>1. left' \in [Services -> Nat]
    BY <1>4, <1>a DEF Popen, TypeOK, Assumptions
  <2>2. cur' \in 1..(N + 1)
    BY <1>4, <1>a DEF Popen, Advance, Services, Assumptions
  <2>3. copies' \in [Services -> Int] /\ seen' \in Verdicts
    BY <1>4 DEF Popen, TypeOK, Verdicts
  <2> QED
    BY <1>4, <2>1, <2>2, <2>3 DEF Popen, Advance, TypeOK, Phases, Procs
<1>5. ASSUME NEW i \in Services, PopenFails(i) PROVE TypeOK'
  <2>1. Doubled(backoff[i]) \in BackoffBase..BackoffMax
    BY <1>a, DoubledInRange DEF TypeOK
  <2>2. backoff' \in [Services -> BackoffBase..BackoffMax]
    BY <1>5, <2>1 DEF PopenFails, TypeOK
  <2>3. wait' \in [Services -> Nat]
    BY <1>5, <2>2, <1>a DEF PopenFails, TypeOK, Assumptions
  <2>4. cur' \in 1..(N + 1)
    BY <1>5, <1>a DEF PopenFails, Advance, Services, Assumptions
  <2> QED
    BY <1>5, <2>2, <2>3, <2>4 DEF PopenFails, Advance, TypeOK, Phases, Verdicts
<1>6. ASSUME NEW i \in Services, Reap(i) \/ KillHung(i) PROVE TypeOK'
  <2>1. copies' \in [Services -> Int]
    <3>1. CASE Reap(i)
      BY <3>1 DEF Reap, TypeOK
    <3>2. CASE KillHung(i)
      BY <3>2 DEF KillHung, TypeOK
    <3> QED
      BY <1>6, <3>1, <3>2
  <2> QED
    BY <1>6, <1>a, <2>1, RetireType DEF Reap, KillHung, Here
<1>7. CASE EndPass
  <2>1. sinceBeat' \in Nat /\ silent' \in Nat /\ misses' \in Nat
    BY <1>7 DEF EndPass, Heartbeat, TypeOK
  <2> QED
    BY <1>7, <2>1 DEF EndPass, TypeOK, Phases
<1>8. CASE NextPass
  <2>1. \A a \in Nat : Minus(a, lag + 1) \in Nat
    <3> TAKE a \in Nat
    <3>1. lag + 1 \in Nat
      BY DEF TypeOK
    <3> QED
      BY <3>1, MinusIsNat
  <2>2. wait' \in [Services -> Nat] /\ left' \in [Services -> Nat]
    BY <1>8, <2>1 DEF NextPass, TypeOK
  <2> QED
    BY <1>8, <1>a, <2>2 DEF NextPass, TypeOK, Phases, Assumptions
<1>9. CASE Terminate
  BY <1>9 DEF Terminate, TypeOK, Phases
<1>10. CASE KillSurvivors
  <2>1. copies' \in [Services -> Int]
    BY <1>10 DEF KillSurvivors, Held, TypeOK
  <2> QED
    BY <1>10, <1>a, <2>1, GoDownType DEF KillSurvivors, TypeOK
<1>11. CASE Boot
  <2>1. loaded' \in SUBSET Services
    BY <1>11, <1>a DEF Boot, Assumptions
  <2>2. wait' \in [Services -> Nat]
    BY <1>11, <1>a, <2>1, StaggerBound DEF Boot, Assumptions
  <2> QED
    BY <1>11, <2>1, <2>2 DEF Boot, TypeOK, Phases
<1>12. CASE Crash
  BY <1>12, <1>a, GoDownType DEF Crash, TypeOK
<1>13. CASE StopSignal
  BY <1>13 DEF StopSignal, TypeOK
<1>14. ASSUME NEW i \in Services, OrphanEnds(i) PROVE TypeOK'
  <2>1. copies' \in [Services -> Int]
    BY <1>14 DEF OrphanEnds, TypeOK
  <2> QED
    BY <1>14, <2>1 DEF OrphanEnds, TypeOK
<1>15. ASSUME NEW i \in Services, NEW rc \in Ended, ServiceEnds(i, rc)
       PROVE  TypeOK'
  <2>1. copies' \in [Services -> Int]
    BY <1>15 DEF ServiceEnds, TypeOK
  <2> QED
    BY <1>15, <2>1 DEF ServiceEnds, TypeOK, Procs
<1>16. ASSUME NEW i \in Services, NEW v \in Verdicts, FilesChange(i, v)
       PROVE  TypeOK'
  BY <1>16 DEF FilesChange, TypeOK
<1>17. CASE UNCHANGED vars
  BY <1>17 DEF vars, TypeOK
<1> QED
  BY <1>1, <1>2, <1>3, <1>4, <1>5, <1>6, <1>7, <1>8, <1>9, <1>10, <1>11,
     <1>12, <1>13, <1>14, <1>15, <1>16, <1>17 DEF Next, Loop, Visit, Env

\* Every reachable state of the supervisor is well typed (the loop's record
\* of each service, lines 303-310).
THEOREM TypeCorrect == Spec => []TypeOK
<1> QED
  BY InitType, TypeStep, PTL DEF Spec

-----------------------------------------------------------------------------
(***************************************************************************)
(* The heartbeat.  LagInv and AgeInv are what HeartbeatBound lacks to be   *)
(* inductive: how the time of a pass is made of its verifications, and how *)
(* old the heartbeat is when the pass reads the clock.                     *)
(***************************************************************************)
TimeInv == LagInv /\ AgeInv

LEMMA InitTime == Init => TimeInv
  BY DEF Init, TimeInv, LagInv, AgeInv

LEMMA TimeStep == TypeOK /\ TimeInv /\ [Next]_vars => TimeInv'
<1> SUFFICES ASSUME TypeOK, TimeInv, [Next]_vars PROVE TimeInv'
  OBVIOUS
<1>a. Assumptions
  BY AssumptionsHold
<1>b. /\ cur \in 1..(N + 1) /\ lag \in Nat /\ sinceBeat \in Nat
      /\ N \in Nat \ {0} /\ VerifyMax \in Nat /\ HbInterval \in Nat \ {0}
  BY <1>a DEF TypeOK, Assumptions
<1>c. /\ Slack(cur - 1) \in Nat /\ Slack(cur) = Slack(cur - 1) + VerifyMax
      /\ Slack(cur) \in Nat /\ Slack(N) \in Nat /\ Slack(0) = 0
  <2>1. cur - 1 \in Nat /\ (cur - 1) + 1 = cur
    BY <1>b
  <2>2. Slack(cur - 1) \in Nat /\ Slack((cur - 1) + 1) = Slack(cur - 1) + VerifyMax
    BY <1>b, <2>1, SlackStep
  <2>3. Slack(N) \in Nat
    BY <1>b, SlackStep
  <2>4. Slack(0) = 0
    BY <1>b DEF Slack
  <2> QED
    BY <1>b, <2>1, <2>2, <2>3, <2>4
<1>d. phase \in {"visit", "spawn"} => lag \in Nat
  BY <1>b
<1> USE DEF loopVars, timeVars, svcVars, envVars
\* A visit that takes no time and moves on to the next service.
<1>1. ASSUME phase = "visit", phase' = "visit", cur' = cur + 1,
             lag' = lag, sinceBeat' = sinceBeat
      PROVE  TimeInv'
  <2>1. Slack(cur' - 1) = Slack(cur)
    BY <1>1, <1>b
  <2> QED
    BY <1>1, <1>b, <1>c, <2>1 DEF TimeInv, LagInv, AgeInv, Slack
<1>2. ASSUME NEW i \in Services, NEW d \in 0..VerifyMax, VerifyAccepts(i, d)
      PROVE  TimeInv'
  <2>1. /\ phase = "visit" /\ phase' = "spawn" /\ cur' = cur /\ cur = i
        /\ lag' = lag + d /\ sinceBeat' = sinceBeat + d
        /\ d \in Nat /\ d <= VerifyMax
    BY <1>2, <1>b DEF VerifyAccepts, Due, Here, Elapse
  <2>2. lag' <= Slack(cur')
    BY <2>1, <1>b, <1>c DEF TimeInv, LagInv
  <2>3. sinceBeat' <= lag' + HbInterval + Slack(N)
    BY <2>1, <1>b, <1>c DEF TimeInv, AgeInv
  <2>4. Slack(N)' = Slack(N) /\ Slack(cur)' = Slack(cur')
    BY DEF Slack
  <2> QED
    BY <2>1, <2>2, <2>3, <2>4 DEF TimeInv, LagInv, AgeInv
<1>3. ASSUME NEW i \in Services, NEW d \in 0..VerifyMax, VerifyBlocks(i, d)
      PROVE  TimeInv'
  <2>1. /\ phase = "visit" /\ phase' = "visit" /\ cur' = cur + 1
        /\ lag' = lag + d /\ sinceBeat' = sinceBeat + d
        /\ d \in Nat /\ d <= VerifyMax
    BY <1>3, <1>b DEF VerifyBlocks, Due, Here, Elapse, Advance
  <2>2. lag' <= Slack(cur' - 1)
    <3>1. cur' - 1 = cur
      BY <2>1, <1>b
    <3> QED
      BY <2>1, <3>1, <1>b, <1>c DEF TimeInv, LagInv
  <2>3. sinceBeat' <= lag' + HbInterval + Slack(N)
    BY <2>1, <1>b, <1>c DEF TimeInv, AgeInv
  <2>4. Slack(N)' = Slack(N) /\ Slack(cur - 1)' = Slack(cur' - 1)
    BY DEF Slack
  <2> QED
    BY <2>1, <2>2, <2>3, <2>4 DEF TimeInv, LagInv, AgeInv
<1>4. ASSUME NEW i \in Services, Popen(i) \/ PopenFails(i)
      PROVE  TimeInv'
  <2>1. /\ phase = "spawn" /\ phase' = "visit" /\ cur' = cur + 1
        /\ lag' = lag /\ sinceBeat' = sinceBeat
    BY <1>4 DEF Popen, PopenFails, Advance
  <2>2. lag' <= Slack(cur' - 1)
    <3>1. cur' - 1 = cur
      BY <2>1, <1>b
    <3> QED
      BY <2>1, <3>1, <1>b, <1>c DEF TimeInv, LagInv
  <2>3. Slack(N)' = Slack(N) /\ Slack(cur - 1)' = Slack(cur' - 1)
    BY DEF Slack
  <2> QED
    BY <2>1, <2>2, <2>3 DEF TimeInv, LagInv, AgeInv
<1>5. ASSUME NEW i \in Services, Skip(i) PROVE TimeInv'
  BY <1>1, <1>5 DEF Skip, Advance
<1>6. ASSUME NEW i \in Services, Reap(i) \/ KillHung(i) PROVE TimeInv'
  BY <1>1, <1>6 DEF Reap, KillHung, Retire, Here, Advance
<1>7. CASE EndPass
  <2>1. /\ phase = "visit" /\ cur = N + 1 /\ phase' = "sleep" /\ lag' = lag
        /\ sinceBeat' = IF BeatDue THEN lag ELSE sinceBeat
    BY <1>7 DEF EndPass, Heartbeat
  <2>2. lag' <= Slack(N)
    <3>1. cur - 1 = N
      BY <2>1, <1>b
    <3> QED
      BY <2>1, <3>1 DEF TimeInv, LagInv
  <2>3. sinceBeat' < lag' + HbInterval
    BY <2>1, <1>b DEF BeatDue
  <2>4. Slack(N)' = Slack(N)
    BY DEF Slack
  <2> QED
    BY <2>1, <2>2, <2>3, <2>4 DEF TimeInv, LagInv, AgeInv
<1>8. CASE NextPass
  <2>1. /\ phase = "sleep" /\ phase' = "visit" /\ cur' = 1 /\ lag' = 0
        /\ sinceBeat' = sinceBeat + 1
    BY <1>8 DEF NextPass
  <2>2. lag <= Slack(N) /\ sinceBeat < lag + HbInterval
    BY <2>1 DEF TimeInv, LagInv, AgeInv
  <2>3. sinceBeat' <= lag' + HbInterval + Slack(N)
    BY <2>1, <2>2, <1>b, <1>c
  <2>4. Slack(N)' = Slack(N) /\ Slack(cur - 1)' = Slack(0)
    BY <2>1 DEF Slack
  <2> QED
    BY <2>1, <2>3, <2>4, <1>c DEF TimeInv, LagInv, AgeInv
<1>9. CASE Boot
  <2>1. /\ phase = "down" /\ phase' = "visit" /\ cur' = cur /\ lag' = lag
        /\ sinceBeat' = sinceBeat
    BY <1>9 DEF Boot
  <2>2. cur = 1 /\ lag = 0 /\ sinceBeat = HbInterval
    BY <2>1 DEF TimeInv, AgeInv
  <2>3. Slack(N)' = Slack(N) /\ Slack(cur - 1)' = Slack(0)
    BY <2>1, <2>2 DEF Slack
  <2> QED
    BY <2>1, <2>2, <2>3, <1>b, <1>c DEF TimeInv, LagInv, AgeInv
<1>10. CASE Terminate
  BY <1>10 DEF Terminate, TimeInv, LagInv, AgeInv
<1>11. CASE KillSurvivors \/ Crash
  BY <1>11 DEF KillSurvivors, Crash, GoDown, TimeInv, LagInv, AgeInv
<1>12. ASSUME UNCHANGED <<phase, cur, lag, sinceBeat>> PROVE TimeInv'
  BY <1>12 DEF TimeInv, LagInv, AgeInv, Slack
<1>13. CASE StopSignal
  BY <1>12, <1>13 DEF StopSignal
<1>14. ASSUME NEW i \in Services,
              \/ OrphanEnds(i) \/ \E rc \in Ended : ServiceEnds(i, rc)
              \/ \E v \in Verdicts : FilesChange(i, v)
       PROVE  TimeInv'
  BY <1>12, <1>14 DEF OrphanEnds, ServiceEnds, FilesChange
<1>15. CASE UNCHANGED vars
  BY <1>12, <1>15 DEF vars
<1> QED
  BY <1>2, <1>3, <1>4, <1>5, <1>6, <1>7, <1>8, <1>9, <1>10, <1>11, <1>13,
     <1>14, <1>15 DEF Next, Loop, Visit, Env

LEMMA LagBound ==
  ASSUME TypeOK, TimeInv, phase \in {"visit", "spawn", "sleep"}
  PROVE  lag <= Slack(N) /\ Slack(N) = N * VerifyMax /\ Slack(N) \in Nat
<1>1. /\ cur \in 1..(N + 1) /\ lag \in Nat /\ N \in Nat /\ VerifyMax \in Nat
  BY AssumptionsHold DEF TypeOK, Assumptions
<1>2. Slack(N) = N * VerifyMax /\ Slack(N) \in Nat
  BY <1>1, SlackStep DEF Slack
<1>3. CASE phase = "visit"
  <2>1. cur - 1 \in Nat /\ cur - 1 <= N
    BY <1>1
  <2>2. Slack(cur - 1) <= Slack(N) /\ Slack(cur - 1) \in Nat
    BY <1>1, <2>1, SlackMonotone, SlackStep
  <2> QED
    BY <1>1, <1>2, <1>3, <2>2 DEF TimeInv, LagInv
<1>4. CASE phase = "spawn"
  <2>1. cur \in Nat /\ cur <= N
    BY <1>1, <1>4 DEF TimeInv, LagInv, Services
  <2>2. Slack(cur) <= Slack(N) /\ Slack(cur) \in Nat
    BY <1>1, <2>1, SlackMonotone, SlackStep
  <2> QED
    BY <1>1, <1>2, <1>4, <2>2 DEF TimeInv, LagInv
<1>5. CASE phase = "sleep"
  BY <1>2, <1>5 DEF TimeInv, LagInv
<1> QED
  BY <1>3, <1>4, <1>5

\* The age of the last line: that of last_hb, and a span for every write that
\* failed since.
SilentInv == silent <= sinceBeat + misses * BeatSpan

LEMMA SpanIsNat == Assumptions => BeatSpan \in Nat
<1> SUFFICES ASSUME Assumptions PROVE BeatSpan \in Nat
  OBVIOUS
<1>1. N * VerifyMax \in Nat /\ HbInterval \in Nat
  BY DEF Assumptions
<1> QED
  BY <1>1 DEF BeatSpan

LEMMA TimesSucc ==
  ASSUME NEW a \in Nat, NEW b \in Nat
  PROVE  a * b \in Nat /\ (a + 1) * b = a * b + b
  OBVIOUS

LEMMA BeatIsYoung ==
  ASSUME TypeOK, TimeInv, phase \in {"visit", "spawn", "sleep"}
  PROVE  sinceBeat <= BeatSpan
<1>1. lag \in Nat /\ sinceBeat \in Nat /\ HbInterval \in Nat
  BY AssumptionsHold DEF TypeOK, Assumptions
<1>2. lag <= Slack(N) /\ Slack(N) = N * VerifyMax /\ Slack(N) \in Nat
  BY LagBound
<1>3. sinceBeat <= lag + HbInterval + Slack(N)
  BY <1>1, <1>2 DEF TimeInv, AgeInv
<1> QED
  BY <1>1, <1>2, <1>3 DEF BeatSpan

LEMMA SilentStep == TypeOK /\ TimeInv /\ SilentInv /\ [Next]_vars => SilentInv'
<1> SUFFICES ASSUME TypeOK, TimeInv, SilentInv, [Next]_vars PROVE SilentInv'
  OBVIOUS
<1> DEFINE s == BeatSpan
<1>a. s \in Nat /\ s' = s
  BY AssumptionsHold, SpanIsNat DEF BeatSpan
<1>b. /\ lag \in Nat /\ sinceBeat \in Nat /\ silent \in Nat /\ misses \in Nat
      /\ HbInterval \in Nat
  BY AssumptionsHold DEF TypeOK, Assumptions
<1>c. silent <= sinceBeat + misses * s
  BY DEF SilentInv
<1>d. sinceBeat <= s \/ phase \notin {"visit", "spawn", "sleep"}
  BY BeatIsYoung
<1>e. misses * s \in Nat /\ (misses + 1) * s = misses * s + s /\ 0 * s = 0
  BY <1>a, <1>b, TimesSucc
<1>f. SilentInv' = (silent' <= sinceBeat' + misses' * s)
  BY <1>a DEF SilentInv
<1> HIDE DEF s
\* The clock goes on.
<1>1. ASSUME NEW d \in Nat, sinceBeat' = sinceBeat + d, silent' = silent + d,
             misses' = misses
      PROVE  SilentInv'
  <2>1. misses' * s = misses * s
    BY <1>1
  <2> DEFINE q == misses * s
  <2>2. q \in Nat /\ silent <= sinceBeat + q
    BY <1>c, <1>e
  <2> HIDE DEF q
  <2>3. silent + d <= sinceBeat + d + q
    BY <2>2, <1>b
  <2> QED
    BY <2>1, <2>3, <1>1, <1>f DEF q
<1>2. ASSUME UNCHANGED <<sinceBeat, silent, misses>> PROVE SilentInv'
  BY <1>2, <1>b, <1>c, <1>f
<1>3. ASSUME silent' = 0, misses' = 0, sinceBeat' = HbInterval PROVE SilentInv'
  <2> DEFINE q == misses' * s
  <2>1. q = 0
    BY <1>3, <1>e
  <2> HIDE DEF q
  <2>2. silent' <= sinceBeat' + q
    BY <2>1, <1>3, <1>b
  <2> QED
    BY <2>2, <1>f DEF q
<1>4. CASE EndPass
  <2>1. CASE silent' = lag /\ misses' = 0 /\ sinceBeat' = lag
    <3> DEFINE q == misses' * s
    <3>1. q = 0
      BY <2>1, <1>e
    <3> HIDE DEF q
    <3>2. silent' <= sinceBeat' + q
      BY <2>1, <3>1, <1>b
    <3> QED
      BY <3>2, <1>f DEF q
  <2>2. CASE misses' = misses + 1 /\ silent' = silent /\ sinceBeat' = lag
    <3>1. sinceBeat <= s
      BY <1>4, <1>d DEF EndPass
    <3>2. silent <= lag + (misses * s + s)
      BY <3>1, <1>a, <1>b, <1>c, <1>e
    <3>3. silent' <= sinceBeat' + misses' * s
      BY <2>2, <3>2, <1>e
    <3> QED
      BY <3>3, <1>f
  <2> QED
    BY <1>4, <2>1, <2>2, <1>2 DEF EndPass, Heartbeat
<1>5. ASSUME NEW i \in Services, NEW d \in 0..VerifyMax,
             VerifyAccepts(i, d) \/ VerifyBlocks(i, d)
      PROVE  SilentInv'
  <2>1. d \in Nat
    BY AssumptionsHold DEF Assumptions
  <2> QED
    BY <1>5, <2>1, <1>1 DEF VerifyAccepts, VerifyBlocks, Elapse
<1>6. CASE NextPass
  BY <1>6, <1>1 DEF NextPass
<1>7. CASE KillSurvivors \/ Crash
  BY <1>7, <1>3 DEF KillSurvivors, Crash, GoDown
<1>8. ASSUME NEW i \in Services,
             \/ Skip(i) \/ Reap(i) \/ KillHung(i) \/ Popen(i) \/ PopenFails(i)
             \/ OrphanEnds(i)
             \/ \E rc \in Ended : ServiceEnds(i, rc)
             \/ \E v \in Verdicts : FilesChange(i, v)
      PROVE  SilentInv'
  BY <1>8, <1>2
  DEF Skip, Reap, KillHung, Retire, Popen, PopenFails, OrphanEnds,
      ServiceEnds, FilesChange, timeVars
<1>9. CASE Boot \/ Terminate \/ StopSignal \/ UNCHANGED vars
  BY <1>9, <1>2 DEF Boot, Terminate, StopSignal, vars, timeVars
<1> QED
  BY <1>4, <1>5, <1>6, <1>7, <1>8, <1>9 DEF Next, Loop, Visit, Env

LEMMA SilentBound == TypeOK /\ TimeInv /\ SilentInv => HeartbeatBound
<1> SUFFICES ASSUME TypeOK, TimeInv, SilentInv,
                    phase \in {"visit", "spawn", "sleep"}
             PROVE  silent <= (misses + 1) * BeatSpan
  BY DEF HeartbeatBound
<1> DEFINE s == BeatSpan
<1>1. s \in Nat /\ sinceBeat <= s /\ silent <= sinceBeat + misses * s
  BY AssumptionsHold, SpanIsNat, BeatIsYoung DEF SilentInv
<1>2. sinceBeat \in Nat /\ silent \in Nat /\ misses \in Nat
  BY DEF TypeOK
<1> HIDE DEF s
<1>3. misses * s \in Nat /\ (misses + 1) * s = misses * s + s
  BY <1>1, <1>2, TimesSucc
<1>4. silent <= (misses + 1) * s
  BY <1>1, <1>2, <1>3
<1> QED
  BY <1>4 DEF s

\* However long verifications take and services misbehave, the last line of a
\* live supervisor is no older than HbInterval and the time of two passes, for
\* every write that failed since and one more.
THEOREM HeartbeatIsFresh == Spec => []HeartbeatBound
<1>1. TypeOK /\ TimeInv /\ SilentInv /\ [Next]_vars
        => (TypeOK /\ TimeInv /\ SilentInv)'
  BY TypeStep, TimeStep, SilentStep
<1>2. Init => SilentInv
  <2> SUFFICES ASSUME Init PROVE silent <= sinceBeat + misses * BeatSpan
    BY DEF SilentInv
  <2>1. silent = 0 /\ misses = 0 /\ sinceBeat \in Nat /\ BeatSpan \in Nat
    BY AssumptionsHold, SpanIsNat DEF Init, Assumptions
  <2>2. 0 * BeatSpan = 0
    BY <2>1
  <2> QED
    BY <2>1, <2>2
<1> QED
  BY InitType, InitTime, <1>1, <1>2, SilentBound, PTL DEF Spec

-----------------------------------------------------------------------------
(***************************************************************************)
(* What runs on the machine, fail-closed starts and the retry date.        *)
(***************************************************************************)
\* What the supervisor holds does run, so that killing it is one less.
CopiesInv == \A i \in Services : Held(i) <= copies[i] /\ copies[i] <= crashes + Held(i)

\* A slot is empty or ended when a start is under way.
FreeInv == phase = "spawn" => cur \in Services /\ proc[cur] # "run"

LEMMA FreeStep == TypeOK /\ FreeInv /\ [Next]_vars => FreeInv'
<1> SUFFICES ASSUME TypeOK, FreeInv, [Next]_vars PROVE FreeInv'
  OBVIOUS
<1> USE DEF FreeInv
<1>1. ASSUME NEW i \in Services, NEW d \in 0..VerifyMax, VerifyAccepts(i, d)
      PROVE  FreeInv'
  BY <1>1 DEF VerifyAccepts, Due, Here
<1>2. ASSUME phase' # "spawn" PROVE FreeInv'
  BY <1>2
<1>3. ASSUME UNCHANGED <<phase, cur, proc>> PROVE FreeInv'
  BY <1>3
<1>4. ASSUME NEW i \in Services,
             \/ Skip(i) \/ Reap(i) \/ KillHung(i) \/ Popen(i) \/ PopenFails(i)
             \/ \E d \in 0..VerifyMax : VerifyBlocks(i, d)
      PROVE  FreeInv'
  BY <1>2, <1>4
  DEF Skip, Reap, KillHung, Here, Retire, Popen, PopenFails, VerifyBlocks, Due
<1>5. CASE EndPass \/ NextPass \/ Terminate \/ KillSurvivors \/ Boot \/ Crash
  BY <1>2, <1>5
  DEF EndPass, NextPass, Terminate, KillSurvivors, Boot, Crash, GoDown
<1>6. ASSUME NEW i \in Services, NEW rc \in Ended, ServiceEnds(i, rc)
      PROVE  FreeInv'
  BY <1>6 DEF ServiceEnds, Ended, loopVars, TypeOK
<1>7. ASSUME NEW i \in Services,
             OrphanEnds(i) \/ \E v \in Verdicts : FilesChange(i, v)
      PROVE  FreeInv'
  BY <1>3, <1>7 DEF OrphanEnds, FilesChange, loopVars, svcVars
<1>8. CASE StopSignal \/ UNCHANGED vars
  BY <1>3, <1>8 DEF StopSignal, vars, loopVars, svcVars
<1> QED
  BY <1>1, <1>4, <1>5, <1>6, <1>7, <1>8 DEF Next, Loop, Visit, Env

LEMMA CopiesStep ==
  TypeOK /\ FreeInv /\ CopiesInv /\ [Next]_vars => CopiesInv'
<1> SUFFICES ASSUME TypeOK, FreeInv, CopiesInv, [Next]_vars, NEW k \in Services
             PROVE  Held(k)' <= copies'[k] /\ copies'[k] <= crashes' + Held(k)'
  BY DEF CopiesInv
<1> DEFINE Goal == Held(k)' <= copies'[k] /\ copies'[k] <= crashes' + Held(k)'
<1>a. /\ copies[k] \in Int /\ crashes \in Nat /\ Held(k) \in {0, 1}
      /\ Held(k) <= copies[k] /\ copies[k] <= crashes + Held(k)
  BY DEF CopiesInv, TypeOK, Held
<1>b. Held(k) = (IF proc[k] = "run" THEN 1 ELSE 0)
      /\ Held(k)' = (IF proc'[k] = "run" THEN 1 ELSE 0)
  BY DEF Held
\* The machine and the supervisor gain or lose the same process of service k.
<1>1. ASSUME crashes' = crashes, copies'[k] - copies[k] = Held(k)' - Held(k)
      PROVE  Goal
  <2>1. Held(k)' \in {0, 1} /\ copies'[k] \in Int
    BY <1>b, TypeStep DEF TypeOK
  <2> QED
    BY <1>1, <2>1, <1>a
<1>2. ASSUME UNCHANGED <<copies, crashes>>,
             proc'[k] = proc[k] \/ (proc[k] # "run" /\ proc'[k] # "run")
      PROVE  Goal
  BY <1>2, <1>a, <1>b
<1>3. ASSUME NEW i \in Services, Popen(i) PROVE Goal
  <2>1. proc[i] # "run" /\ crashes' = crashes
    BY <1>3 DEF Popen, FreeInv
  <2>2. CASE k = i
    <3>1. copies'[k] = copies[k] + 1 /\ proc'[k] = "run"
      BY <1>3, <2>2 DEF Popen, TypeOK
    <3> QED
      BY <2>1, <2>2, <3>1, <1>a, <1>b
  <2>3. CASE k # i
    <3>1. copies'[k] = copies[k] /\ proc'[k] = proc[k]
      BY <1>3, <2>3 DEF Popen, TypeOK
    <3> QED
      BY <2>1, <3>1, <1>a, <1>b
  <2> QED
    BY <2>2, <2>3
<1>4. ASSUME NEW i \in Services,
             KillHung(i) \/ \E rc \in Ended : ServiceEnds(i, rc)
      PROVE  Goal
  <2>1. proc[i] = "run" /\ proc'[i] # "run" /\ crashes' = crashes
        /\ copies' = [copies EXCEPT ![i] = copies[i] - 1]
        /\ (k # i => proc'[k] = proc[k])
    BY <1>4 DEF KillHung, Retire, ServiceEnds, Ended, TypeOK
  <2>2. CASE k = i
    <3>1. copies'[k] = copies[k] - 1
      BY <2>1, <2>2 DEF TypeOK
    <3> QED
      BY <2>1, <2>2, <3>1, <1>a, <1>b
  <2>3. CASE k # i
    <3>1. copies'[k] = copies[k]
      BY <2>1, <2>3 DEF TypeOK
    <3> QED
      BY <2>1, <2>3, <3>1, <1>a, <1>b
  <2> QED
    BY <2>2, <2>3
<1>5. ASSUME NEW i \in Services, OrphanEnds(i) PROVE Goal
  <2>1. crashes' = crashes /\ proc' = proc /\ copies[i] > Held(i)
        /\ copies' = [copies EXCEPT ![i] = copies[i] - 1]
    BY <1>5 DEF OrphanEnds, svcVars
  <2>2. copies'[k] = copies[k] \/ (copies'[k] = copies[k] - 1 /\ copies[k] > Held(k))
    BY <2>1 DEF TypeOK
  <2>3. Held(k)' = Held(k)
    BY <2>1, <1>b
  <2> QED
    BY <2>1, <2>2, <2>3, <1>a
<1>6. CASE KillSurvivors
  <2>1. copies'[k] = copies[k] - Held(k) /\ proc'[k] = "none" /\ crashes' = crashes
    BY <1>6 DEF KillSurvivors, GoDown, All
  <2> QED
    BY <2>1, <1>a, <1>b
<1>7. CASE Crash
  <2>1. copies'[k] = copies[k] /\ proc'[k] = "none" /\ crashes' = crashes + 1
    BY <1>7 DEF Crash, GoDown, All
  <2> QED
    BY <2>1, <1>a, <1>b
<1>8. ASSUME NEW i \in Services, Reap(i) PROVE Goal
  BY <1>8, <1>2 DEF Reap, Retire, Ended, TypeOK
<1>9. ASSUME NEW i \in Services,
             \/ Skip(i) \/ PopenFails(i)
             \/ \E d \in 0..VerifyMax : VerifyAccepts(i, d) \/ VerifyBlocks(i, d)
             \/ \E v \in Verdicts : FilesChange(i, v)
      PROVE  Goal
  BY <1>9, <1>2
  DEF Skip, PopenFails, VerifyAccepts, VerifyBlocks, FilesChange, svcVars, envVars
<1>10. CASE \/ EndPass \/ NextPass \/ Terminate \/ Boot \/ StopSignal
            \/ UNCHANGED vars
  BY <1>10, <1>2
  DEF EndPass, NextPass, Terminate, Boot, StopSignal, vars, svcVars, envVars
<1> QED
  BY <1>3, <1>4, <1>5, <1>6, <1>7, <1>8, <1>9, <1>10 DEF Next, Loop, Visit, Env

\* For any number of crashes, restarts and stops of the supervisor, a service
\* runs once, plus at most once for every crash.
THEOREM NoServiceRunsTwice == Spec => []CopiesBounded
<1>1. Init => CopiesInv /\ FreeInv
  BY DEF Init, CopiesInv, FreeInv, Held, All
<1>2. CopiesInv => CopiesBounded
  BY DEF CopiesInv, CopiesBounded
<1> QED
  BY <1>1, <1>2, InitType, TypeStep, FreeStep, CopiesStep, PTL DEF Spec

\* Between the verification and Popen, what was seen of the files let the
\* start through.
SpawnInv == phase = "spawn" => seen = "valid"

LEMMA SpawnStep == TypeOK /\ SpawnInv /\ [Next]_vars => SpawnInv'
<1> SUFFICES ASSUME TypeOK, SpawnInv, [Next]_vars PROVE SpawnInv'
  OBVIOUS
<1> USE DEF SpawnInv
<1>1. ASSUME NEW i \in Services, NEW d \in 0..VerifyMax, VerifyAccepts(i, d)
      PROVE  SpawnInv'
  BY <1>1 DEF VerifyAccepts, Due, Here, TypeOK
<1>2. ASSUME phase' # "spawn" PROVE SpawnInv'
  BY <1>2
<1>3. ASSUME UNCHANGED <<phase, seen>> PROVE SpawnInv'
  BY <1>3
<1>4. ASSUME NEW i \in Services,
             \/ Skip(i) \/ Reap(i) \/ KillHung(i) \/ Popen(i) \/ PopenFails(i)
             \/ \E d \in 0..VerifyMax : VerifyBlocks(i, d)
      PROVE  SpawnInv'
  BY <1>2, <1>4
  DEF Skip, Reap, KillHung, Here, Retire, Popen, PopenFails, VerifyBlocks, Due
<1>5. CASE EndPass \/ NextPass \/ Terminate \/ KillSurvivors \/ Boot \/ Crash
  BY <1>2, <1>5
  DEF EndPass, NextPass, Terminate, KillSurvivors, Boot, Crash, GoDown
<1>6. CASE StopSignal
  BY <1>3, <1>6 DEF StopSignal, svcVars
<1>7. ASSUME NEW i \in Services,
             \/ OrphanEnds(i)
             \/ \E rc \in Ended : ServiceEnds(i, rc)
             \/ \E v \in Verdicts : FilesChange(i, v)
      PROVE  SpawnInv'
  BY <1>3, <1>7 DEF OrphanEnds, ServiceEnds, FilesChange, loopVars, svcVars
<1>8. CASE UNCHANGED vars
  BY <1>3, <1>8 DEF vars, loopVars, svcVars
<1> QED
  BY <1>1, <1>4, <1>5, <1>6, <1>7, <1>8 DEF Next, Loop, Visit, Env

\* A start is the Popen of the service the spawn phase verified.
LEMMA StartsAreVerified ==
  ASSUME TypeOK, SpawnInv, [Next]_vars, NEW i \in Services,
         proc[i] # "run", proc'[i] = "run"
  PROVE  seen = "valid"
<1>1. ASSUME NEW k \in Services, Popen(k) PROVE seen = "valid"
  BY <1>1 DEF Popen, SpawnInv, TypeOK
<1>2. ASSUME UNCHANGED proc PROVE FALSE
  BY <1>2
<1>3. ASSUME NEW k \in Services, Reap(k) \/ KillHung(k) PROVE FALSE
  BY <1>3 DEF Reap, KillHung, Retire, TypeOK
<1>4. ASSUME NEW k \in Services,
             \/ Skip(k) \/ PopenFails(k)
             \/ \E d \in 0..VerifyMax : VerifyAccepts(k, d) \/ VerifyBlocks(k, d)
      PROVE  FALSE
  BY <1>2, <1>4
  DEF Skip, PopenFails, VerifyAccepts, VerifyBlocks, svcVars
<1>5. CASE EndPass \/ NextPass \/ Terminate \/ Boot \/ StopSignal
  BY <1>2, <1>5 DEF EndPass, NextPass, Terminate, Boot, StopSignal, svcVars
<1>6. CASE KillSurvivors \/ Crash
  BY <1>6 DEF KillSurvivors, Crash, GoDown, All
<1>7. ASSUME NEW k \in Services, NEW rc \in Ended, ServiceEnds(k, rc)
      PROVE  FALSE
  BY <1>7 DEF ServiceEnds, Ended, TypeOK
<1>8. ASSUME NEW k \in Services,
             OrphanEnds(k) \/ \E v \in Verdicts : FilesChange(k, v)
      PROVE  FALSE
  BY <1>2, <1>8 DEF OrphanEnds, FilesChange, svcVars
<1>9. CASE UNCHANGED vars
  BY <1>2, <1>9 DEF vars, svcVars
<1> QED
  BY <1>1, <1>3, <1>4, <1>5, <1>6, <1>7, <1>8, <1>9 DEF Next, Loop, Visit, Env

\* No process is ever started unless its files were looked at for this start
\* and found valid.
THEOREM StartsFailClosed == Spec => FailClosed
<1>1. Init => SpawnInv
  BY DEF Init, SpawnInv
<1>2. TypeOK /\ SpawnInv /\ [Next]_vars
        => [\A i \in Services :
              (proc[i] # "run" /\ proc'[i] = "run") => seen = "valid"]_vars
  BY StartsAreVerified
<1> QED
  BY <1>1, <1>2, InitType, TypeStep, SpawnStep, PTL DEF Spec, FailClosed

-----------------------------------------------------------------------------
(***************************************************************************)
(* The retry date.                                                         *)
(***************************************************************************)
Horizon(i) == Greater(Stagger * N,
                      N * VerifyMax + Greater(Iv[i], BackoffMax))

\* What the loop can assign to a retry date lies inside the horizon.
LEMMA InsideHorizon ==
  ASSUME Assumptions, NEW i \in Services, NEW w \in Nat,
         \/ w <= Stagger * N
         \/ w <= N * VerifyMax + Iv[i]
         \/ w <= N * VerifyMax + BackoffMax
  PROVE  w <= Horizon(i)
<1> DEFINE a == Stagger * N
           b == N * VerifyMax
           c == Iv[i]
<1>1. a \in Nat /\ b \in Nat /\ c \in Nat /\ BackoffMax \in Nat
  BY DEF Assumptions
<1> HIDE DEF a, b, c
<1>2. w <= a \/ w <= b + c \/ w <= b + BackoffMax
  BY DEF a, b, c
<1>3. w <= Greater(a, b + Greater(c, BackoffMax))
  BY <1>1, <1>2 DEF Greater
<1> QED
  BY <1>3 DEF Horizon, a, b, c

\* A bound that ignores the lag.
LEMMA InsideHorizonNow ==
  ASSUME Assumptions, NEW i \in Services, NEW w \in Nat,
         w <= Iv[i] \/ w <= BackoffMax
  PROVE  w <= Horizon(i)
<1>1. N * VerifyMax \in Nat /\ Iv[i] \in Nat /\ BackoffMax \in Nat
  BY DEF Assumptions
<1>2. w <= N * VerifyMax + Iv[i] \/ w <= N * VerifyMax + BackoffMax
  BY <1>1
<1> QED
  BY <1>2, InsideHorizon

LEMMA RetryStep ==
  TypeOK /\ TimeInv /\ RetryBound /\ [Next]_vars => RetryBound'
<1> SUFFICES ASSUME TypeOK, TimeInv, RetryBound, [Next]_vars,
                    NEW k \in Services
             PROVE  wait'[k] <= Horizon(k)
  BY DEF RetryBound, Horizon
<1>a. Assumptions
  BY AssumptionsHold
<1>b. wait[k] <= Horizon(k) /\ wait[k] \in Nat /\ lag \in Nat
  BY DEF RetryBound, Horizon, TypeOK
<1>c. wait' \in [Services -> Nat] /\ backoff' \in [Services -> BackoffBase..BackoffMax]
  BY TypeStep DEF TypeOK
<1>1. ASSUME NEW i \in Services, NEW d \in 0..VerifyMax, VerifyBlocks(i, d)
      PROVE  wait'[k] <= Horizon(k)
  <2>1. CASE k # i
    BY <1>1, <1>b, <2>1 DEF VerifyBlocks, TypeOK
  <2>2. CASE k = i /\ i \in Long
    <3>1. wait'[k] = backoff[k] /\ backoff[k] <= BackoffMax
      BY <1>1, <1>a, <2>2 DEF VerifyBlocks, TypeOK, Assumptions
    <3> QED
      BY <3>1, <1>a, <1>c, InsideHorizonNow
  <2>3. CASE k = i /\ i \notin Long
    <3>1. wait'[k] = lag' + Greater(Iv[k], BackoffBase)
      BY <1>1, <2>3 DEF VerifyBlocks, TypeOK
    <3>2. lag' <= N * VerifyMax /\ lag' \in Nat
      <4>1. /\ phase = "visit" /\ cur = i /\ lag' = lag + d
            /\ d \in Nat /\ d <= VerifyMax
        BY <1>1, <1>a DEF VerifyBlocks, Due, Here, Elapse, Assumptions
      <4>2. i \in Nat /\ i - 1 \in Nat /\ i <= N /\ (i - 1) + 1 = i
        BY <1>a DEF Services, Assumptions
      <4>3. /\ Slack(i - 1) \in Nat /\ Slack((i - 1) + 1) = Slack(i - 1) + VerifyMax
            /\ Slack(i) <= Slack(N) /\ Slack(N) \in Nat
        BY <1>a, <4>2, SlackStep, SlackMonotone DEF Assumptions
      <4>4. lag <= Slack(i - 1)
        BY <4>1 DEF TimeInv, LagInv
      <4>5. VerifyMax \in Nat /\ Slack(i) = Slack(i - 1) + VerifyMax
        BY <1>a, <4>2, <4>3 DEF Assumptions
      <4>6. Slack(N) = N * VerifyMax
        BY <1>a DEF Slack, Assumptions
      <4> QED
        BY <1>b, <4>1, <4>3, <4>4, <4>5, <4>6
    <3>3. \/ wait'[k] <= N * VerifyMax + Iv[k]
          \/ wait'[k] <= N * VerifyMax + BackoffMax
      <4> DEFINE m == N * VerifyMax
                 c == Iv[k]
      <4>1. m \in Nat /\ c \in Nat /\ BackoffBase \in Nat /\ BackoffMax \in Nat
            /\ BackoffBase <= BackoffMax
        BY <1>a DEF Assumptions
      <4>2. /\ wait'[k] = lag' + Greater(c, BackoffBase)
            /\ lag' <= m /\ lag' \in Nat
        BY <3>1, <3>2
      <4> HIDE DEF m, c
      <4>3. \/ Greater(c, BackoffBase) = c
            \/ Greater(c, BackoffBase) = BackoffBase
        BY DEF Greater
      <4>4. wait'[k] <= m + c \/ wait'[k] <= m + BackoffMax
        BY <4>1, <4>2, <4>3
      <4> QED
        BY <4>4 DEF m, c
    <3> QED
      BY <3>3, <1>a, <1>c, InsideHorizon
  <2> QED
    BY <2>1, <2>2, <2>3
<1>2. ASSUME NEW i \in Services, PopenFails(i)
      PROVE  wait'[k] <= Horizon(k)
  <2>1. CASE k # i
    BY <1>2, <1>b, <2>1 DEF PopenFails, TypeOK
  <2>2. CASE k = i
    <3>1. wait'[k] = backoff'[k] \/ wait'[k] = lag + backoff'[k]
      BY <1>2, <2>2 DEF PopenFails, TypeOK
    <3>2. backoff'[k] <= BackoffMax /\ backoff'[k] \in Nat
      BY <1>a, <1>c DEF Assumptions
    <3>3. lag <= N * VerifyMax
      BY <1>2, LagBound DEF PopenFails
    <3>4. wait'[k] <= BackoffMax \/ wait'[k] <= N * VerifyMax + BackoffMax
      <4>1. N * VerifyMax \in Nat /\ BackoffMax \in Nat
        BY <1>a DEF Assumptions
      <4> QED
        BY <1>b, <3>1, <3>2, <3>3, <4>1
    <3> QED
      BY <3>4, <1>a, <1>c, InsideHorizon, InsideHorizonNow
  <2> QED
    BY <2>1, <2>2
<1>3. ASSUME NEW i \in Services, Reap(i) \/ KillHung(i)
      PROVE  wait'[k] <= Horizon(k)
  <2>1. CASE k # i
    BY <1>3, <1>b, <2>1 DEF Reap, KillHung, Retire, TypeOK
  <2>2. CASE k = i
    <3>1. wait'[k] = backoff'[k] \/ wait'[k] = Iv[k]
      BY <1>3, <2>2 DEF Reap, KillHung, Retire, TypeOK
    <3>2. backoff'[k] <= BackoffMax /\ Iv[k] \in Nat
      BY <1>a, <1>c DEF Assumptions
    <3> QED
      BY <3>1, <3>2, <1>a, <1>c, InsideHorizonNow
  <2> QED
    BY <2>1, <2>2
<1>4. CASE NextPass
  <2>1. wait'[k] = Minus(wait[k], lag + 1) /\ lag + 1 \in Nat
    BY <1>4, <1>b DEF NextPass
  <2>2. Minus(wait[k], lag + 1) <= wait[k] /\ Minus(wait[k], lag + 1) \in Nat
    BY <1>b, <2>1, MinusIsNat
  <2>3. Horizon(k) \in Nat
    <3>1. Stagger * N \in Nat /\ N * VerifyMax \in Nat
      BY <1>a DEF Assumptions
    <3>2. Greater(Iv[k], BackoffMax) \in Nat
      BY <1>a, GreaterIsNat DEF Assumptions
    <3>3. N * VerifyMax + Greater(Iv[k], BackoffMax) \in Nat
      BY <3>1, <3>2
    <3> QED
      BY <3>1, <3>3, GreaterIsNat DEF Horizon
  <2> QED
    BY <1>b, <2>1, <2>2, <2>3
<1>5. CASE Boot
  <2>1. loaded' \in SUBSET Services
    BY <1>5, <1>a DEF Boot, Assumptions
  <2>2. wait'[k] <= Stagger * N
    BY <1>5, <1>a, <2>1, StaggerBound DEF Boot, Assumptions
  <2> QED
    BY <2>2, <1>a, <1>c, InsideHorizon
<1>6. CASE KillSurvivors \/ Crash
  <2>1. wait'[k] = 0
    BY <1>6 DEF KillSurvivors, Crash, GoDown, All
  <2>2. wait'[k] <= BackoffMax
    BY <2>1, <1>a DEF Assumptions
  <2> QED
    BY <2>2, <1>a, <1>c, InsideHorizonNow
<1>7. ASSUME UNCHANGED wait PROVE wait'[k] <= Horizon(k)
  BY <1>b, <1>7
<1>8. ASSUME NEW i \in Services,
             \/ Skip(i) \/ Popen(i) \/ OrphanEnds(i)
             \/ \E d \in 0..VerifyMax : VerifyAccepts(i, d)
             \/ \E rc \in Ended : ServiceEnds(i, rc)
             \/ \E v \in Verdicts : FilesChange(i, v)
      PROVE  wait'[k] <= Horizon(k)
  BY <1>7, <1>8
  DEF Skip, Popen, OrphanEnds, VerifyAccepts, ServiceEnds, FilesChange, svcVars
<1>9. CASE EndPass \/ Terminate \/ StopSignal \/ UNCHANGED vars
  BY <1>7, <1>9 DEF EndPass, Terminate, StopSignal, vars, svcVars
<1> QED
  BY <1>1, <1>2, <1>3, <1>4, <1>5, <1>6, <1>8, <1>9
  DEF Next, Loop, Visit, Env

\* Whatever fails, and however often, the next attempt at every service stays
\* within the greater of its interval and BackoffMax, plus the time of a pass
\* (or within the stagger of the first starts).
THEOREM RetryStaysInReach == Spec => []RetryBound
<1>1. Init => RetryBound
  <2> SUFFICES ASSUME Init, NEW i \in Services PROVE wait[i] <= Horizon(i)
    BY DEF RetryBound, Horizon
  <2>1. wait[i] = 0 /\ 0 <= BackoffMax /\ 0 \in Nat
    BY AssumptionsHold DEF Init, All, Assumptions
  <2> QED
    BY <2>1, AssumptionsHold, InsideHorizonNow
<1>2. TypeOK /\ TimeInv /\ RetryBound /\ [Next]_vars
        => (TypeOK /\ TimeInv /\ RetryBound)'
  BY TypeStep, TimeStep, RetryStep
<1> QED
  BY <1>1, <1>2, InitType, InitTime, PTL DEF Spec

=============================================================================
