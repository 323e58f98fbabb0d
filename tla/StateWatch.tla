----------------------------- MODULE StateWatch -----------------------------
(***************************************************************************)
(* The pass of a watch that keeps a state file next to a ledger of         *)
(* transitions, as clock_watch and storage_watch do: what was found is     *)
(* compared with the state of the pass before, each difference is appended *)
(* to the ledger, and the state is saved last.  A key that the state file  *)
(* does not hold counts as OK.                                             *)
(***************************************************************************)
EXTENDS Integers, Sequences

CONSTANTS
    WatchKeys,     \* the keys of the checks
    MaxWatchKills  \* bound: passes that were killed

ASSUME MaxWatchKills \in Nat

VARIABLES
    saved,      \* the state file
    told,       \* the last state that the ledger records of each key
    pass,       \* the findings of the running pass that are still to be compared
    watchKills

watchVars == <<saved, told, pass, watchKills>>

\* A finding is a key and its state; hall is what _evaluar returned.
NoPass == [on |-> FALSE, hall |-> <<>>, i |-> 1]
AllOk == [k \in WatchKeys |-> "OK"]

StateWatchInit ==
    saved = AllOk /\ told = AllOk /\ pass = NoPass /\ watchKills = 0

BeginPass(hall) ==
    /\ ~pass.on /\ pass' = [on |-> TRUE, hall |-> hall, i |-> 1]
    /\ UNCHANGED <<saved, told, watchKills>>

\* A mutant: only what is not OK is recorded.
CompareBad ==
    /\ pass.on /\ pass.i <= Len(pass.hall)
    /\ LET f == pass.hall[pass.i]
       IN  told' = IF saved[f[1]] # f[2] /\ f[2] # "OK" THEN [told EXCEPT ![f[1]] = f[2]]
                   ELSE told
    /\ pass' = [pass EXCEPT !.i = @ + 1]
    /\ UNCHANGED <<saved, watchKills>>

\* A state that differs from that of the pass before is recorded.
Compare ==
    /\ pass.on /\ pass.i <= Len(pass.hall)
    /\ LET f == pass.hall[pass.i]
       IN  told' = IF saved[f[1]] # f[2] THEN [told EXCEPT ![f[1]] = f[2]] ELSE told
    /\ pass' = [pass EXCEPT !.i = @ + 1]
    /\ UNCHANGED <<saved, watchKills>>

\* The new state holds what was found, and nothing else.
SaveState ==
    /\ pass.on /\ pass.i > Len(pass.hall)
    /\ saved' = [k \in WatchKeys |->
                   IF \E j \in DOMAIN pass.hall : pass.hall[j][1] = k
                   THEN LET j == CHOOSE j \in DOMAIN pass.hall : pass.hall[j][1] = k
                        IN  pass.hall[j][2]
                   ELSE "OK"]
    /\ pass' = NoPass
    /\ UNCHANGED <<told, watchKills>>

KillPass ==
    /\ pass.on /\ watchKills < MaxWatchKills
    /\ pass' = NoPass /\ watchKills' = watchKills + 1
    /\ UNCHANGED <<saved, told>>

PassGoesOn == Compare \/ SaveState

-----------------------------------------------------------------------------
\* The ledger of transitions tells the state of each of the keys: after any
\* sequence of passes that were not killed, the last record of a key is the
\* state the watch saw last.
LedgerTells(keys) ==
    ~pass.on /\ watchKills = 0 => \A k \in keys : told[k] = saved[k]
=============================================================================
