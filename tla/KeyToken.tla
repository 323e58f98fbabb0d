----------------------------- MODULE KeyToken ------------------------------
(***************************************************************************)
(* The key the node has plugged in (services/llave_local.py).              *)
(*                                                                         *)
(* A command opens a channel with the key, asks it for something and reads *)
(* the answer: "inform", which the layer launches again and again, and     *)
(* "create", "sign" and "verify", which the operator gives.  Creating and  *)
(* signing wait for a touch.  The kernel hands every answer of the key to  *)
(* every process that has the interface open, and the code takes the next  *)
(* one for its own.                                                        *)
(*                                                                         *)
(* A content is its version; a signature is the pair of the credential and *)
(* the content.  Whether one verifies is Curve's matter.                   *)
(***************************************************************************)
EXTENDS Integers, Sequences, SequencesExt

CONSTANTS
    Ifaces,        \* the interfaces of /dev/hidraw*, in their order
    MaxContents,   \* bound: versions of the file that is signed
    MaxCredentials, \* bound: credentials created
    MaxCommands,   \* bound: commands of the operator
    MaxInforms,    \* bound: launches of "inform"
    MaxKeyFaults   \* bound: unplugs, kills

ASSUME KeyAssumption ==
    /\ Ifaces \in Seq(STRING)
    /\ {MaxContents, MaxCredentials} \subseteq Nat \ {0}
    /\ {MaxCommands, MaxInforms, MaxKeyFaults} \subseteq Nat

VARIABLES
    plugged,   \* the interface at which the key answers, or "none"
    asked,     \* the request that waits for a touch
    made,      \* credentials the key has made
    touched,   \* what it signed, each time with a touch
    doc,       \* the file: its version, 0 when it is gone
    credFile,  \* credencial_nodo.json
    seal,      \* <file>.llave
    hint,      \* ultima_interfaz
    proc,      \* the two processes
    result,    \* how the operator's last command ended
    informed,  \* what the last "inform" said, and whether it ran undisturbed
    commands, informs, keyFaults

keySide == <<plugged, asked, made, touched>>
keyFiles == <<doc, credFile, seal, hint>>
outcome == <<result, informed>>
keyBounds == <<commands, informs, keyFaults>>
keyVars == <<keySide, keyFiles, proc, outcome, keyBounds>>

Procs == {"op", "layer"}
Places == {Ifaces[i] : i \in DOMAIN Ifaces}
Torn == -1
NoSeal == [sha |-> 0, sig |-> <<>>]
TornSeal == [sha |-> Torn, sig |-> <<>>]
Ended == [pc |-> "none", cmd |-> "none", todo |-> <<>>, inbox |-> <<>>,
          arg |-> 0, clean |-> FALSE]
Nobody == <<"nobody", "none", 0>>

KeyTypeOK ==
    /\ plugged \in {"none"} \cup Places /\ hint \in {"none"} \cup Places
    /\ made \in 0..MaxCredentials /\ doc \in 0..MaxContents
    /\ touched \subseteq (1..MaxCredentials) \X (1..MaxContents)
    /\ credFile \in {Torn} \cup 0..made
    /\ \A p \in Procs : proc[p].pc \in {"none", "search", "init", "ask", "write"}

KeyInit ==
    /\ plugged \in Places /\ asked = Nobody /\ touched = {}
    /\ made \in 0..1 /\ credFile = made
    /\ doc = 1 /\ seal = NoSeal /\ hint = "none"
    /\ proc = [p \in Procs |-> Ended]
    /\ result = [cmd |-> "none", exit |-> "none", content |-> 0, sig |-> <<>>]
    /\ informed = [said |-> "none", clean |-> FALSE]
    /\ commands = 0 /\ informs = 0 /\ keyFaults = 0

-----------------------------------------------------------------------------
(***************************************************************************)
(* The key and the kernel, which are not part of the code.                 *)
(***************************************************************************)
Hears(pr, q) == pr[q].pc \in {"init", "ask"} /\ Head(pr[q].todo) = plugged

\* An answer goes to every process that reads the interface of the key.
Deliver(pr, a) ==
    [q \in Procs |-> IF Hears(pr, q) THEN [pr[q] EXCEPT !.inbox = Append(@, a)]
                     ELSE pr[q]]

\* The layer's run is not alone with the key any more.
Disturbed(pr) == [pr EXCEPT !["layer"].clean = FALSE]

\* The person touches: the key does what it was asked, whoever still waits.
Touch ==
    /\ asked # Nobody /\ plugged # "none" /\ asked' = Nobody
    /\ \/ /\ asked[2] = "create" /\ made < MaxCredentials
          /\ made' = made + 1 /\ UNCHANGED touched
          /\ proc' = Deliver(Disturbed(proc), <<"cred", made + 1>>)
       \/ /\ asked[2] = "sign"
          /\ touched' = touched \cup {asked[3]} /\ UNCHANGED made
          /\ proc' = Deliver(Disturbed(proc), <<"sig", asked[3]>>)
    /\ UNCHANGED <<plugged, keyFiles, outcome, keyBounds>>

\* The key stops waiting for a touch by itself.
GiveUp ==
    /\ asked # Nobody /\ asked' = Nobody
    /\ UNCHANGED <<plugged, made, touched, keyFiles, proc, outcome, keyBounds>>

\* The key is pulled out, or put in again, perhaps at another interface.
Replug ==
    /\ keyFaults < MaxKeyFaults /\ keyFaults' = keyFaults + 1
    /\ plugged' \in ({"none"} \cup Places) \ {plugged} /\ asked' = Nobody
    /\ proc' = Disturbed(proc)
    /\ UNCHANGED <<made, touched, keyFiles, outcome, commands, informs>>

EditFile ==
    /\ doc > 0 /\ doc' \in {0, doc + 1} /\ doc' <= MaxContents
    /\ UNCHANGED <<keySide, credFile, seal, hint, proc, outcome, keyBounds>>

-----------------------------------------------------------------------------
(***************************************************************************)
(* _buscar(): every interface is tried, the one that answered last first.  *)
(***************************************************************************)
\* Mutant of TryOrder: only the interface that is remembered, if there is one.
OnlyHint(h) == IF h \in Places THEN <<h>> ELSE Ifaces

TryOrder(h) ==
    IF h \in Places THEN <<h>> \o RemoveFirst(Ifaces, h) ELSE Ifaces

Start(p, cmd) ==
    proc' = [Disturbed(proc) EXCEPT
               ![p] = [Ended EXCEPT !.pc = "search", !.cmd = cmd,
                         !.todo = TryOrder(hint),
                         !.clean = /\ plugged # "none" /\ asked = Nobody
                                   /\ proc["op"] = Ended]]

End(p, said) ==
    /\ proc' = [proc EXCEPT ![p] = Ended]
    /\ IF p = "op"
       THEN /\ result' = [cmd |-> proc[p].cmd, exit |-> said, content |-> 0,
                          sig |-> <<>>]
            /\ UNCHANGED informed
       ELSE /\ informed' = [said |-> said, clean |-> proc[p].clean]
            /\ UNCHANGED result

Inform ==
    /\ proc["layer"] = Ended /\ informs < MaxInforms /\ informs' = informs + 1
    /\ Start("layer", "inform")
    /\ UNCHANGED <<keySide, keyFiles, outcome, commands, keyFaults>>

\* sign needs the file and a credential that can be read.
Command ==
    /\ proc["op"] = Ended /\ commands < MaxCommands /\ commands' = commands + 1
    /\ Start("op", "create") \/ (doc > 0 /\ credFile > 0 /\ Start("op", "sign"))
    /\ UNCHANGED <<keySide, keyFiles, outcome, informs, keyFaults>>

SignRefused ==
    /\ proc["op"] = Ended /\ commands < MaxCommands /\ commands' = commands + 1
    /\ doc = 0 \/ credFile \in {0, Torn}
    /\ result' = [cmd |-> "sign", exit |-> "refused", content |-> 0, sig |-> <<>>]
    /\ UNCHANGED <<keySide, keyFiles, proc, informed, informs, keyFaults>>

\* An interface is opened and asked for a channel; only the key answers.
OpenChannel(p) ==
    /\ proc[p].pc = "search" /\ proc[p].todo # <<>>
    /\ LET opened == [proc EXCEPT ![p].pc = "init", ![p].inbox = <<>>]
       IN  proc' = IF Head(proc[p].todo) = plugged
                   THEN Deliver(opened, <<"init", p>>) ELSE opened
    /\ UNCHANGED <<keySide, keyFiles, outcome, keyBounds>>

NoKey(p) ==
    /\ proc[p].pc = "search" /\ proc[p].todo = <<>>
    /\ End(p, "no key")
    /\ UNCHANGED <<keySide, keyFiles, keyBounds>>

GotChannel(p) == proc[p].inbox # <<>> /\ Head(proc[p].inbox) = <<"init", p>>

\* No answer in two seconds, or the answer to somebody else's question.
ChannelRefused(p) ==
    /\ proc[p].pc = "init" /\ ~GotChannel(p)
    /\ proc' = [proc EXCEPT ![p].pc = "search", ![p].todo = Tail(@),
                            ![p].inbox = <<>>]
    /\ UNCHANGED <<keySide, keyFiles, outcome, keyBounds>>

\* The channel is there, the interface is remembered and the request follows.
\* A key that waits for a touch answers an error to anything else.
Request(p) ==
    /\ proc[p].pc = "init" /\ GotChannel(p)
    /\ proc[p].cmd = "sign" => doc > 0
    /\ hint' = Head(proc[p].todo)
    /\ LET cmd == proc[p].cmd
           content == IF cmd = "sign" THEN <<credFile, doc>> ELSE 0
           sent == [proc EXCEPT ![p].pc = "ask", ![p].inbox = Tail(@),
                                ![p].arg = content]
           here == Head(proc[p].todo) = plugged
       IN  /\ proc' = CASE ~here -> sent
                        [] here /\ asked # Nobody -> Deliver(sent, <<"error">>)
                        [] OTHER -> IF cmd = "inform" THEN Deliver(sent, <<"info">>)
                                    ELSE sent
           /\ asked' = IF here /\ asked = Nobody /\ cmd # "inform"
                       THEN <<p, cmd, content>> ELSE asked
    /\ UNCHANGED <<plugged, made, touched, doc, credFile, seal, outcome, keyBounds>>

\* The file went away while the key was looked for.
FileGone ==
    /\ proc["op"].pc = "init" /\ GotChannel("op")
    /\ proc["op"].cmd = "sign" /\ doc = 0
    /\ hint' = Head(proc["op"].todo) /\ End("op", "not signed")
    /\ UNCHANGED <<keySide, doc, credFile, seal, keyBounds>>

-----------------------------------------------------------------------------
(***************************************************************************)
(* The answer, as the command that reads it takes it.                      *)
(***************************************************************************)
Asks(cmd) == \E p \in Procs : proc[p].pc = "ask" /\ proc[p].cmd = cmd
Answer(p) == Head(proc[p].inbox)

\* What _cbor_lee() makes of an answer: the model of the key stands where a
\* signature would.
SignatureIn(a) ==
    CASE a[1] = "sig" -> a[2] [] a[1] = "info" -> <<"model">> [] OTHER -> <<>>

Informed ==
    /\ Asks("inform")
    /\ End("layer", IF proc["layer"].inbox # <<>> /\ Answer("layer")[1] = "info"
                    THEN "present" ELSE "no answer")
    /\ UNCHANGED <<keySide, keyFiles, keyBounds>>

\* The file is opened, which empties it, and then written.
Created ==
    /\ Asks("create") /\ proc["op"].inbox # <<>>
    /\ IF Answer("op")[1] = "cred"
       THEN /\ proc' = [proc EXCEPT !["op"].pc = "write",
                                    !["op"].arg = Answer("op")[2]]
            /\ credFile' = Torn /\ UNCHANGED outcome
       ELSE /\ End("op", "not created") /\ UNCHANGED credFile
    /\ UNCHANGED <<keySide, doc, seal, hint, keyBounds>>

WriteCred ==
    /\ proc["op"].pc = "write" /\ proc["op"].cmd = "create"
    /\ credFile' = proc["op"].arg /\ End("op", "created")
    /\ UNCHANGED <<keySide, doc, seal, hint, keyBounds>>

Signed ==
    /\ Asks("sign") /\ proc["op"].inbox # <<>>
    /\ LET sig == SignatureIn(Answer("op"))
       IN  IF sig = <<>>
           THEN End("op", "not signed") /\ UNCHANGED seal
           ELSE /\ proc' = [proc EXCEPT !["op"].pc = "write", !["op"].inbox = <<sig>>]
                /\ seal' = TornSeal /\ UNCHANGED outcome
    /\ UNCHANGED <<keySide, doc, credFile, hint, keyBounds>>

WriteSeal ==
    /\ proc["op"].pc = "write" /\ proc["op"].cmd = "sign"
    /\ LET sha == proc["op"].arg[2] IN
       /\ seal' = [sha |-> sha, sig |-> Answer("op")]
       /\ result' = [cmd |-> "sign", exit |-> "signed", content |-> sha,
                     sig |-> Answer("op")]
    /\ proc' = [proc EXCEPT !["op"] = Ended]
    /\ UNCHANGED <<keySide, doc, credFile, hint, informed, keyBounds>>

\* Sixty seconds without an answer; the key may still be waiting.
NoTouch ==
    /\ Asks("create") \/ Asks("sign")
    /\ proc["op"].inbox = <<>> /\ End("op", "no touch")
    /\ UNCHANGED <<keySide, keyFiles, keyBounds>>

KillCommand(p) ==
    /\ proc[p] # Ended /\ keyFaults < MaxKeyFaults /\ keyFaults' = keyFaults + 1
    /\ proc' = [proc EXCEPT ![p] = Ended]
    /\ UNCHANGED <<keySide, keyFiles, outcome, commands, informs>>

-----------------------------------------------------------------------------
\* Mutant of Hashed: the content is the one the seal declares.
Declared == seal.sha

\* The content that verify hashes: the file, or what the seal says of it if
\* the file is gone.
Hashed == IF doc > 0 THEN doc ELSE seal.sha

\* verify asks the key for nothing.
Verify ==
    /\ proc["op"] = Ended /\ commands < MaxCommands /\ commands' = commands + 1
    /\ LET ok == seal.sig = <<credFile, Hashed>>
           exit == CASE seal = NoSeal -> "no seal"
                     [] seal # NoSeal /\ credFile = 0 -> "no credential"
                     [] OTHER ->
                          IF credFile = Torn \/ seal = TornSeal THEN "crash"
                          ELSE IF ~ok THEN "not valid"
                          ELSE IF Hashed # seal.sha THEN "incoherent" ELSE "valid"
       IN  result' = [cmd |-> "verify", exit |-> exit, content |-> doc,
                      sig |-> seal.sig]
    /\ UNCHANGED <<keySide, keyFiles, proc, informed, informs, keyFaults>>

KeyNext ==
    \/ Touch \/ GiveUp \/ Replug \/ EditFile
    \/ Inform \/ Command \/ SignRefused \/ Verify
    \/ \E p \in Procs : \/ OpenChannel(p) \/ NoKey(p) \/ ChannelRefused(p)
                       \/ Request(p) \/ KillCommand(p)
    \/ FileGone \/ Informed \/ Created \/ WriteCred \/ Signed \/ WriteSeal \/ NoTouch

-----------------------------------------------------------------------------
\* What verify calls valid was signed by this node's key, with a touch, and
\* it is the very content that is on the disk, if it still is there: whatever
\* the other process read or was told meanwhile, and whatever was killed.
ValidMeansSigned ==
    result.cmd = "verify" /\ result.exit = "valid" =>
        /\ result.sig \in touched
        /\ result.content > 0 => result.sig[2] = result.content

\* The interface that is remembered is a hint: a run that is alone with the
\* key finds it, wherever it was plugged in meanwhile.
KeyIsFound == informed.clean => informed.said = "present"

\* A command that says it signed wrote a signature of the file.  (Not checked
\* by a run: the code takes the answer to another process for its own.)
SignedMeansSigned ==
    result.cmd = "sign" /\ result.exit = "signed" => result.sig \in touched
=============================================================================
