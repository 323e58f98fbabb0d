----------------------------- MODULE SealedLog -----------------------------
(***************************************************************************)
(* A plain ledger (beacon.jsonl), the service that seals it and the one    *)
(* that cures it.                                                          *)
(*                                                                         *)
(* chain_integrity chains the lines it reads and keeps a head: the hash of *)
(* the chain and how many lines it covers.  The next run recomputes the    *)
(* hash at that many lines.  crash_recovery drops the lines a power cut    *)
(* left unreadable.                                                        *)
(*                                                                         *)
(* A line is the number of the record it begins with and its bytes: the    *)
(* pieces of records it holds.  A whole record alone is a sane line.  A    *)
(* power cut may take bytes off the end, newline first, or leave zeros in  *)
(* their place; the next record is then written onto the same line, and a  *)
(* further cut may take it off again.  The hash of a prefix of the ledger  *)
(* is that prefix; like the code it does not see the last newline.         *)
(***************************************************************************)
EXTENDS Integers, Sequences, SequencesExt

CONSTANTS
    LineBytes,    \* bytes of a record before its newline
    MaxLines,     \* bound: records written
    MaxCuts,      \* bound: power cuts
    MaxSealKills  \* bound: runs killed by layerd

ASSUME SealedLogAssumption ==
    {MaxLines, MaxCuts, MaxSealKills} \subseteq Nat /\ LineBytes \in Nat \ {0}

VARIABLES
    log,      \* the ledger
    open,     \* does its last line lack the newline?
    written,  \* records written so far
    quiet,    \* was it last written more than QUIESCE_S ago?
    seal,     \* beacon.head
    sealWas,  \* its contents before it was last saved
    ci,       \* a run of chain_integrity: what it read
    verified, \* the last verdict: "TRUE", "FALSE", "None"
    alarm,    \* was the verdict "FALSE" since the last power cut, or the last
              \* time the head could not be read?
    cr,       \* a run of crash_recovery
    cuts, sealKills

logVars == <<log, open, written, quiet, seal, sealWas, ci, verified, alarm, cr,
             cuts, sealKills>>

\* A piece of a record: which one, and how many of its bytes; 0 for zeros.
Pieces == (1..MaxLines) \X (0..LineBytes)
NoSeal == [lines |-> -1, hash |-> <<>>]
NotRunning == [pc |-> "idle"]

SealedLogTypeOK ==
    /\ log \in Seq((1..MaxLines) \X Seq(Pieces)) /\ written \in 0..MaxLines
    /\ open \in BOOLEAN /\ (log = <<>> => ~open)
    /\ verified \in {"TRUE", "FALSE", "None"} /\ alarm \in BOOLEAN
    /\ \A s \in {seal, sealWas} : s.lines = Len(s.hash) \/ s = NoSeal
    /\ ci.pc \in {"idle", "save"} /\ cr.pc \in {"idle", "cure", "rename"}

SealedLogInit ==
    /\ log = <<>> /\ open = FALSE /\ written = 0 /\ quiet = FALSE
    /\ seal = NoSeal /\ sealWas = NoSeal
    /\ ci = NotRunning /\ verified = "None" /\ alarm = FALSE /\ cr = NotRunning
    /\ cuts = 0 /\ sealKills = 0

-----------------------------------------------------------------------------
Whole(n) == <<n, LineBytes>>

\* A service of the node writes one line; nothing of it is fsynced.
WriteLine ==
    /\ written < MaxLines /\ written' = written + 1 /\ quiet' = FALSE
    /\ log' = IF open
              THEN Append(Front(log), <<Last(log)[1], Append(Last(log)[2], Whole(written'))>>)
              ELSE Append(log, <<written', <<Whole(written')>>>>)
    /\ open' = FALSE
    /\ UNCHANGED <<seal, sealWas, ci, verified, alarm, cr, cuts, sealKills>>

GoQuiet ==
    /\ ~quiet /\ quiet' = TRUE
    /\ UNCHANGED <<log, open, written, seal, sealWas, ci, verified, alarm, cr,
                   cuts, sealKills>>

\* A power cut loses, cuts or zeroes the tail that was not written back, may
\* empty the head file or bring its old contents back, and ends every process.
LosePower ==
    /\ cuts < MaxCuts /\ cuts' = cuts + 1
    /\ \E n \in 0..Len(log) :
          \/ log' = SubSeq(log, 1, n) /\ open' = (open /\ n = Len(log) /\ n > 0)
          \/ /\ n > 0 /\ open' = TRUE
             /\ LET text == log[n][2]
                IN  \E i \in DOMAIN text : \E k \in 0..text[i][2] :
                       log' = Append(SubSeq(log, 1, n - 1),
                                     <<log[n][1], Append(SubSeq(text, 1, i - 1), <<text[i][1], k>>)>>)
    /\ seal' \in {seal, sealWas, NoSeal} /\ sealWas' = seal'
    /\ ci' = NotRunning /\ cr' = NotRunning /\ alarm' = FALSE
    /\ UNCHANGED <<written, quiet, verified, sealKills>>

-----------------------------------------------------------------------------
(***************************************************************************)
(* chain_integrity: _chain_ledger().                                       *)
(***************************************************************************)
\* Mutant of Compare: the head of before against the ledger of now.
CompareWhole(l, s) ==
    CASE s = NoSeal -> "None"
      [] s # NoSeal /\ Len(l) < s.lines -> "FALSE"
      [] s # NoSeal /\ s.lines = 0 -> "None"
      [] OTHER -> IF l = s.hash THEN "TRUE" ELSE "FALSE"

\* The prefix that was sealed must still give the head that was kept.
Compare(l, s) ==
    CASE s = NoSeal -> "None"
      [] s # NoSeal /\ Len(l) < s.lines -> "FALSE"
      [] s # NoSeal /\ s.lines = 0 -> "None"
      [] OTHER -> IF SubSeq(l, 1, s.lines) = s.hash THEN "TRUE" ELSE "FALSE"

\* Without a ledger there is nothing to seal.  A head that cannot be read is
\* none.
ReadLedger ==
    /\ ci.pc = "idle" /\ written > 0
    /\ \E s \in {seal, NoSeal} :
          /\ ci' = [pc |-> "save", lines |-> log, verdict |-> Compare(log, s)]
          /\ alarm' = (alarm /\ s = seal)
    /\ UNCHANGED <<log, open, written, quiet, seal, sealWas, verified, cr, cuts,
                   sealKills>>

\* The ledger cannot be read: no verdict, and the head stays.
LedgerUnreadable ==
    /\ ci.pc = "idle" /\ written > 0
    /\ verified' = "None"
    /\ UNCHANGED <<log, open, written, quiet, seal, sealWas, ci, alarm, cr, cuts,
                   sealKills>>

\* Mutant of SaveSeal: the head is saved whatever the verdict.
SaveSealAlways ==
    /\ ci.pc = "save"
    /\ seal' = [lines |-> Len(ci.lines), hash |-> ci.lines] /\ sealWas' = seal
    /\ verified' = ci.verdict /\ alarm' = (alarm \/ ci.verdict = "FALSE")
    /\ ci' = NotRunning
    /\ UNCHANGED <<log, open, written, quiet, cr, cuts, sealKills>>

\* A failed verification keeps the head of before, as evidence; so does, in
\* silence, a write of the head that fails.  The verdict is printed last.
SaveSeal ==
    /\ ci.pc = "save"
    /\ \/ /\ ci.verdict # "FALSE"
          /\ seal' = [lines |-> Len(ci.lines), hash |-> ci.lines] /\ sealWas' = seal
       \/ UNCHANGED <<seal, sealWas>>
    /\ verified' = ci.verdict /\ alarm' = (alarm \/ ci.verdict = "FALSE")
    /\ ci' = NotRunning
    /\ UNCHANGED <<log, open, written, quiet, cr, cuts, sealKills>>

-----------------------------------------------------------------------------
(***************************************************************************)
(* crash_recovery of a ledger whose lines are independent.                 *)
(***************************************************************************)
Sane(x) == x[2] = <<Whole(x[1])>>
HasNul(x) == \E i \in DOMAIN x[2] : x[2][i][2] = 0

\* The fast path looks for zeros and at the last line.
Suspect(l) ==
    (\E i \in DOMAIN l : HasNul(l[i])) \/ (l # <<>> /\ ~Sane(Last(l)))

\* In a ledger of lines only the last one may be unreadable without zeros:
\* anything else is some other format and is not touched.
IsLines(l) ==
    \A i \in DOMAIN l : i < Len(l) => Sane(l[i]) \/ HasNul(l[i])

\* The sane lines of a ledger in their order, which is that of the numbers.
SaneLines(l) ==
    CHOOSE s \in BoundedSeq(Range(l), Len(l)) :
        /\ Range(s) = {x \in Range(l) : Sane(x)}
        /\ \A i, j \in DOMAIN s : i < j => s[i][1] < s[j][1]

\* A ledger that was not written lately is scanned.
ScanLedger ==
    /\ cr.pc = "idle" /\ quiet
    /\ Suspect(log) /\ IsLines(log)
    /\ cr' = [pc |-> "cure"]
    /\ UNCHANGED <<log, open, written, quiet, seal, sealWas, ci, verified, alarm,
                   cuts, sealKills>>

\* Quiescence is looked at once more, then the sane lines are copied ...
CureLedger ==
    /\ cr.pc = "cure"
    /\ cr' = IF quiet THEN [pc |-> "rename", sane |-> SaneLines(log)]
             ELSE NotRunning
    /\ UNCHANGED <<log, open, written, quiet, seal, sealWas, ci, verified, alarm,
                   cuts, sealKills>>

\* ... fsynced and renamed over the ledger, whatever was written meanwhile.
RenameLedger ==
    /\ cr.pc = "rename"
    /\ log' = cr.sane /\ open' = FALSE /\ cr' = NotRunning /\ quiet' = FALSE
    /\ UNCHANGED <<written, seal, sealWas, ci, verified, alarm, cuts, sealKills>>

KillSealer ==
    /\ sealKills < MaxSealKills /\ sealKills' = sealKills + 1
    /\ \/ ci.pc # "idle" /\ ci' = NotRunning /\ UNCHANGED cr
       \/ cr.pc # "idle" /\ cr' = NotRunning /\ UNCHANGED ci
    /\ UNCHANGED <<log, open, written, quiet, seal, sealWas, verified, alarm, cuts>>

SealedLogNext ==
    \/ WriteLine \/ GoQuiet \/ LosePower \/ ReadLedger \/ LedgerUnreadable
    \/ SaveSeal \/ ScanLedger \/ CureLedger \/ RenameLedger \/ KillSealer

-----------------------------------------------------------------------------
\* A ledger that only grew is never reported as tampered with, whenever it is
\* written, sealed or scanned and whatever is killed or cannot be read:
\* without a power cut there is no alarm.
NoFalseAlarm == cuts = 0 => verified # "FALSE"

\* An alarm lasts: what was sealed and is gone never counts as verified
\* again, neither after more lines, nor after a cure, nor after a run that
\* could not read the ledger or save the head.  Only a power cut, which may
\* take off what was written onto a sealed line, or a head that cannot be
\* read, ends it.
AlarmLasts == alarm => verified # "TRUE"
=============================================================================
