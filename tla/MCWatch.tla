------------------------------ MODULE MCWatch ------------------------------
(***************************************************************************)
(* One instance for the watches of a node and what leaves it: the clock    *)
(* and its watch, the disk, the hardware watchdog, the calendar, the       *)
(* envelope of the alerts, the dialogue of the operator and what is learnt *)
(* from the ledgers.  A behaviour exercises one of them, and the others    *)
(* rest; the alerts are exercised together with the calendar that feeds    *)
(* them.                                                                   *)
(***************************************************************************)
EXTENDS Clock, Storage, Watchdog, AlertsOut, Dialogue, EventLearn

VARIABLE part

vars == <<part, watchVars, clockVars, storageVars, wdVars, expiryVars, outVars, dialogueVars,
          learnVars>>

MCIds == <<"a", "b">>
MCFirstDue == [a |-> 2, b |-> 3]
MCFindings == <<"f", "g">>

Init ==
    /\ part \in {"clock", "watch", "storage", "watchdog", "expiry", "alerts", "dialogue", "learn"}
    /\ StateWatchInit /\ ClockInit /\ StorageInit /\ WdInit
    /\ ExpiryInit /\ OutInit /\ DialogueInit /\ LearnInit
    /\ part \notin {"clock", "watch"} => clock = real
    /\ part # "clock" => battery = TRUE
    /\ part # "watchdog" => armFlag = FALSE
    /\ day = IF part = "alerts" THEN MaxDay ELSE 0
    /\ expiryFaults = IF part = "alerts" THEN MaxExpiryFaults ELSE 0
    /\ part # "expiry" => calSig = "good"

\* A step of one part; rest is what only the other parts have.
InPart(p, A, rest) == part = p /\ A /\ UNCHANGED <<part, rest>>

NotClock == <<storageVars, wdVars, expiryVars, outVars, dialogueVars, learnVars>>
NotWd == <<watchVars, clockVars, storageVars, expiryVars, outVars, dialogueVars, learnVars>>
NotStorage == <<clockVars, wdVars, expiryVars, outVars, dialogueVars, learnVars>>
NotExpiry == <<watchVars, clockVars, storageVars, wdVars, outVars, dialogueVars, learnVars>>
NotOut == <<watchVars, clockVars, storageVars, wdVars, expiryVars, dialogueVars, learnVars>>
NotDialogue == <<watchVars, clockVars, storageVars, wdVars, expiryVars, outVars, learnVars>>
NotLearn == <<watchVars, clockVars, storageVars, wdVars, expiryVars, outVars, dialogueVars>>

Next ==
    \/ InPart("clock", ClockNext, NotClock)
    \/ InPart("watch", ClockWatchNext, NotClock)
    \/ InPart("storage", StorageNext, NotStorage)
    \/ InPart("watchdog", WdNext, NotWd)
    \/ InPart("expiry", ExpiryNext, NotExpiry)
    \/ InPart("alerts", ExpiryCycle, NotExpiry)
    \/ InPart("alerts", OutNext, NotOut)
    \/ InPart("dialogue", DialogueNext, NotDialogue)
    \/ InPart("learn", LearnNext, NotLearn)

Spec == Init /\ [][Next]_vars

\* layerd launches the watches and the channels for ever, as long as it is not
\* stuck; time passes; the clock and the signature of the calendar come back.
\* (A behaviour exercises one part: one condition serves several.)
FairSpec ==
    /\ Spec
    /\ WF_vars(\/ InPart("clock", SyncRun /\ UNCHANGED watchVars, NotClock)
               \/ InPart("watchdog", WdEnv, NotWd)
               \/ InPart("expiry", ExpiryCycle, NotExpiry)
               \/ InPart("alerts", Publish, NotOut)
               \/ InPart("dialogue", EmitRun, NotDialogue)
               \/ InPart("learn", LearnRun, NotLearn))
    /\ WF_vars(\/ InPart("watchdog", FeederStep, NotWd)
               \/ InPart("expiry", SetDate \/ SignCalendar, NotExpiry)
               \/ InPart("alerts", ExpiryCycle, NotExpiry))

-----------------------------------------------------------------------------
\* No watch and no channel tells anything that is not so, or forgets to tell
\* what changed: the clock never gets ahead, the ledgers of the two watches
\* agree with their states, the cursor of the calendar vouches for what was
\* told or reported as a failed append, nothing is published that nobody
\* approved unless it was replaced while it was looked at, and nothing that is
\* learnt from is skipped.
NothingMistold ==
    /\ part \in {"clock", "watch"} => ClockTypeOK /\ NeverAhead
    /\ part = "watch" => ClockIsTold
    /\ part = "storage" => DiskIsTold
    /\ part = "watchdog" => WdTypeOK
    /\ part \in {"expiry", "alerts"} => ExpiryTypeOK /\ CursorVouches
    /\ part = "alerts" => OutTypeOK
    /\ part = "dialogue" => DialogueTypeOK /\ OnlyApproved
    /\ part = "learn" => LearnTypeOK /\ NoneSkipped

\* What must not go back does not: the clock within a boot, the numbers of the
\* envelopes, the entries of the dialogue.
NeverBackwards == ForwardOnly /\ SeqForward /\ EntriesKept

\* The clock, the hardware, the calendar, the alerts and the dialogue get
\* where they should: the clock to the evidence, a stuck node to a reset, what
\* is due to the escalations, the sources to the envelope, what is approved to
\* the public, the cursors to the ends of the ledgers.
WatchesSettle ==
    /\ <>[](/\ part = "clock" => ClockSettled
            /\ part = "alerts" => OutboxSettled
            /\ part = "learn" => LearnSettled
            /\ ExpiryTold /\ ApprovedServed)
    /\ HangResets
=============================================================================
