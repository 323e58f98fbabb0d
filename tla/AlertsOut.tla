----------------------------- MODULE AlertsOut -----------------------------
(***************************************************************************)
(* alerts_channel: what the local sources tell, one entry for each key, is *)
(* written into an envelope with the next sequence number, which is served *)
(* with its signature; an envelope without alerts is the heartbeat.  The   *)
(* sources are the two ledgers of Expiry and the last record of the node's *)
(* own attestation and of its verdict on the peers.                        *)
(***************************************************************************)
EXTENDS Expiry

CONSTANT MaxSeq  \* bound: the number of the envelopes stays there

ASSUME OutAssumption == MaxSeq \in Nat \ {0}

VARIABLES
    unverified, \* the last record of node_attest says that it does not verify
    discordant, \* the peers that the last record of fleet_attest finds discordant
    outbox,     \* outbox.json: its number and its alerts by key
    outboxWas,  \* its contents before it was last written
    seqFile,    \* the file seq
    cut,        \* was the power lost since the file seq was last written?
    sigOf,      \* the envelope that the signature file belongs to
    channel,    \* a run of alerts_channel
    outFaults

outFiles == <<outbox, outboxWas, seqFile, cut>>
outVars == <<unverified, discordant, outFiles, sigOf, channel, outFaults>>

Peer == "par"
NoEnvelope == [seq |-> 0, alerts |-> {}]
NoChannel == [pc |-> "idle", envelope |-> NoEnvelope]

OutTypeOK ==
    /\ {unverified, discordant} \subseteq BOOLEAN
    /\ channel.pc \in {"idle", "outbox", "seq", "sign"}
    /\ {outbox.seq, outboxWas.seq, seqFile} \subseteq 0..MaxSeq
    /\ cut \in BOOLEAN

OutInit ==
    /\ unverified = FALSE /\ discordant = FALSE /\ outbox = NoEnvelope /\ seqFile = 0
    /\ outboxWas = outbox /\ cut = FALSE
    /\ sigOf = NoEnvelope /\ channel = NoChannel /\ outFaults = 0

-----------------------------------------------------------------------------
\* node_attest and fleet_attest append their records.
Sources ==
    /\ \/ unverified' = ~unverified /\ UNCHANGED discordant
       \/ discordant' = ~discordant /\ UNCHANGED unverified
    /\ outFaults < MaxExpiryFaults /\ outFaults' = outFaults + 1
    /\ UNCHANGED <<outFiles, sigOf, channel>>

\* Of the lines with one key the latest by date stays, of those with one date
\* the last.
Lines(name, s) == [i \in DOMAIN s |-> [key |-> <<name, s[i].id>>, stage |-> s[i].stage,
                                       ts |-> s[i].ts]]
Latest(s) ==
    {s[i] : i \in {i \in DOMAIN s :
        \A j \in DOMAIN s : s[j].key = s[i].key =>
            s[j].ts < s[i].ts \/ (s[j].ts = s[i].ts /\ j <= i)}}

Current ==
    Latest(Lines("caducidades", alerts)) \cup Latest(Lines("escaladas", escalated))
    \cup (IF unverified THEN {[key |-> <<"atestacion_propia", "node">>, stage |-> 0, ts |-> 0]}
          ELSE {})
    \cup (IF discordant THEN {[key |-> <<"pares_flota", Peer>>, stage |-> 0, ts |-> 0]}
          ELSE {})

\* A run reads the sources and the number of the envelope before.
ReadSources ==
    /\ channel.pc = "idle"
    /\ channel' = [pc |-> "outbox",
                   envelope |-> [seq |-> Min({seqFile + 1, MaxSeq}), alerts |-> Current]]
    /\ UNCHANGED <<unverified, discordant, outFiles, sigOf, outFaults>>

\* The envelope is served from here on, next to the signature of the one
\* before.
WriteOutbox ==
    /\ channel.pc = "outbox" /\ channel' = [channel EXCEPT !.pc = "seq"]
    /\ outbox' = channel.envelope /\ outboxWas' = outbox
    /\ UNCHANGED <<unverified, discordant, seqFile, cut, sigOf, outFaults>>

WriteSeq ==
    /\ channel.pc = "seq" /\ channel' = [channel EXCEPT !.pc = "sign"]
    /\ seqFile' = channel.envelope.seq /\ cut' = FALSE
    /\ UNCHANGED <<unverified, discordant, outbox, outboxWas, sigOf, outFaults>>

\* The outbox is signed, or cannot be: it stays published.
SignOutbox ==
    /\ channel.pc = "sign" /\ channel' = NoChannel
    /\ \/ sigOf' = outbox /\ UNCHANGED outFaults
       \/ /\ outFaults < MaxExpiryFaults /\ outFaults' = outFaults + 1
          /\ UNCHANGED sigOf
    /\ UNCHANGED <<unverified, discordant, outFiles>>

\* A run is killed; a write that fails ends it as well.
KillChannel ==
    /\ channel.pc # "idle" /\ channel' = NoChannel
    /\ outFaults < MaxExpiryFaults /\ outFaults' = outFaults + 1
    /\ UNCHANGED <<unverified, discordant, outFiles, sigOf>>

\* None of the files is flushed to the disk: a loss of power may empty each of
\* them or bring its old contents back.
LosePower ==
    /\ outFaults < MaxExpiryFaults /\ outFaults' = outFaults + 1
    /\ outbox' \in {outbox, outboxWas, NoEnvelope} /\ outboxWas' = outbox'
    /\ seqFile' \in 0..seqFile
    /\ sigOf' \in {sigOf, NoEnvelope}
    /\ cut' = TRUE /\ channel' = NoChannel
    /\ UNCHANGED <<unverified, discordant>>

Publish == ReadSources \/ WriteOutbox \/ WriteSeq \/ SignOutbox
OutNext == Sources \/ Publish \/ KillChannel \/ LosePower

-----------------------------------------------------------------------------
\* What /alerts serves: the envelope, and whether its signature verifies.
Served == [seq |-> outbox.seq, alerts |-> outbox.alerts, signed |-> sigOf = outbox]

\* The numbers a poller sees go back when the power is lost, or once after
\* that because the file seq was lost or older, and at no other time.
SeqForward == [][outbox'.seq < outbox.seq => cut']_outbox

\* In the end: what is served is signed and tells the sources as they are; an
\* alert that is still there is in it, one that is gone is not.
OutboxSettled == Served.signed /\ Served.alerts = Current

\* alerts_channel 171, "secuencia monotona: permite al poller detectar sobres
\* perdidos o repetidos".  A run killed between the envelope and the file seq
\* has its number used again.
SeqNamesOne == [][outbox'.seq = outbox.seq => outbox' = outbox]_outbox

\* alerts_channel 17, "la ultima aparicion gana": of what the ledger still tells
\* of an entry the last line is the one served.  The code takes the greatest
\* date instead: a calendar that was read while it was edited empties the
\* cursor, and what the next runs tell with the clock lost has a lesser date.
LastAppearanceWins ==
    \A a \in Latest(Lines("caducidades", alerts)) : \A i \in DOMAIN alerts :
        (alerts[i].id = a.key[2] /\ \A j \in i + 1..Len(alerts) : alerts[j].id # alerts[i].id)
            => alerts[i].stage = a.stage

\* alerts_channel 17, "un aviso repetido en cada ciclo del vigia es UNA alerta,
\* no cincuenta".  The lines are cut before they are merged: a calendar that
\* does not verify for TailLen runs pushes out what is still due.
DueStaysServed ==
    \A e \in IdSet :
        [](worst[e] = VENCIDO =>
             \E i \in DOMAIN alerts : alerts[i].id = e)
=============================================================================
