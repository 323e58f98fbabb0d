------------------------------ MODULE Dialogue ------------------------------
(***************************************************************************)
(* hallazgo_channel: what the operator of the node approved, with a        *)
(* countersignature next to the file, is moved into an envelope that the   *)
(* node signs and serves; what is too much for the envelope goes to the    *)
(* history.  The state with the entries is saved last.                     *)
(*                                                                         *)
(* A finding is a model value with the number of its text, which its author*)
(* may replace as long as the file is there; a countersignature is of one  *)
(* text.  An era is its number, in the code the date of its beginning.  The*)
(* operator is not part of the code.                                       *)
(***************************************************************************)
EXTENDS Integers, Sequences, SequencesExt

CONSTANTS
    Findings,    \* the findings, in the order of their file names
    MaxEntradas, \* MAX_ENTRADAS
    MaxNumber,   \* bound: the number of the envelopes of an era stays there
    MaxTexts,    \* bound: texts of a finding
    MaxDialogueFaults \* bound: kills, losses of the state, signatures that fail

ASSUME DialogueAssumption ==
    /\ MaxEntradas \in Nat \ {0} /\ MaxNumber \in Nat \ {0}
    /\ MaxTexts \in Nat \ {0} /\ MaxDialogueFaults \in Nat
    /\ Findings \in Seq(Range(Findings))
    /\ \A i, j \in DOMAIN Findings : Findings[i] = Findings[j] => i = j

VARIABLES
    file,     \* what there is of each finding in aprobados/
    text,     \* the text of each finding
    approved, \* the findings that the operator countersigned, with their texts
    overtaken,\* the findings of which a text was replaced after a run had read
              \* it and before the run had renamed the file
    estado,   \* .estado.json: era, number and entries; era 0 when there is none
    history,  \* the entries in the lots of historico/
    envelope, \* outbox.json: era, number, entries, whether it declares the era
    envSig,   \* the envelope that the signature file belongs to
    emit,     \* a run of hallazgo_channel
    eras,     \* eras begun so far
    dialogueFaults

atOperator == <<file, text, approved, overtaken>>
dialogueVars == <<atOperator, estado, history, envelope, envSig, emit, eras,
                  dialogueFaults>>

FindingSet == Range(Findings)
Texts == FindingSet \X (1..MaxTexts)
NoEstado == [era |-> 0, seq |-> 0, entradas |-> <<>>]
NoEmit == [pc |-> "idle"]
NoServed == [era |-> 0, seq |-> 0, entradas |-> <<>>, decl |-> FALSE]

DialogueTypeOK ==
    /\ \A f \in FindingSet :
         file[f] \in {"absent", "placed", "signed", "publicado", "rechazado"}
    /\ text \in [FindingSet -> 1..MaxTexts] /\ overtaken \subseteq FindingSet
    /\ approved \cup history \subseteq Texts /\ estado.era \in 0..eras
    /\ emit.pc \in {"idle", "file", "check", "rename", "outbox", "sign", "save"}

DialogueInit ==
    /\ file = [f \in FindingSet |-> "absent"] /\ text = [f \in FindingSet |-> 1]
    /\ approved = {} /\ overtaken = {} /\ estado = NoEstado
    /\ history = {} /\ envelope = NoServed /\ envSig = NoServed /\ emit = NoEmit
    /\ eras = 0 /\ dialogueFaults = 0

-----------------------------------------------------------------------------
\* The operator moves a finding to aprobados/, and countersigns its text.
Place ==
    /\ \E f \in FindingSet : file[f] = "absent" /\ file' = [file EXCEPT ![f] = "placed"]
    /\ UNCHANGED <<text, approved, overtaken, estado, history, envelope, envSig, emit,
                   eras, dialogueFaults>>

Countersign ==
    /\ \E f \in FindingSet :
         /\ file[f] \in {"placed", "rechazado"}
         /\ approved' = approved \cup {<<f, text[f]>>}
         /\ file' = [file EXCEPT ![f] = IF @ = "placed" THEN "signed" ELSE @]
    /\ UNCHANGED <<text, overtaken, estado, history, envelope, envSig, emit, eras,
                   dialogueFaults>>

\* The text of a finding is replaced; a countersignature of it is no longer
\* one of the file.
Revise ==
    /\ \E f \in FindingSet :
         /\ file[f] \in {"placed", "signed"} /\ text[f] < MaxTexts
         /\ text' = [text EXCEPT ![f] = @ + 1]
         /\ file' = [file EXCEPT ![f] = "placed"]
         /\ overtaken' = IF emit.pc \in {"check", "rename"} /\ emit.entry[1] = f
                         THEN overtaken \cup {f} ELSE overtaken
    /\ UNCHANGED <<approved, estado, history, envelope, envSig, emit, eras, dialogueFaults>>

\* A power cut, or a person, leaves a state that cannot be read.
LoseEstado ==
    /\ estado.era > 0 /\ estado' = NoEstado
    /\ dialogueFaults < MaxDialogueFaults /\ dialogueFaults' = dialogueFaults + 1
    /\ UNCHANGED <<atOperator, history, envelope, envSig, emit, eras>>

-----------------------------------------------------------------------------
\* A run loads the state, or begins an era and will say so; and it lists the
\* files there are, by their places in the order of the names.
StartEmit ==
    /\ emit.pc = "idle"
    /\ LET new == estado.era = 0
       IN  /\ eras' = IF new THEN eras + 1 ELSE eras
           /\ emit' = [pc |-> "file", decl |-> new, seq |-> estado.seq,
                       era |-> IF new THEN eras + 1 ELSE estado.era, entry |-> <<>>,
                       ok |-> FALSE,
                       entradas |-> estado.entradas,
                       todo |-> {i \in DOMAIN Findings : file[Findings[i]] \in {"placed", "signed"}}]
    /\ UNCHANGED <<atOperator, estado, history, envelope, envSig, dialogueFaults>>

\* The first file is read; one that cannot be parsed yet is passed over ...
ReadFile ==
    /\ emit.pc = "file" /\ emit.todo # {}
    /\ LET i == Min(emit.todo)  f == Findings[i]
       IN  \/ emit' = [emit EXCEPT !.pc = "check", !.todo = @ \ {i}, !.entry = <<f, text[f]>>]
           \/ file[f] = "placed" /\ emit' = [emit EXCEPT !.todo = @ \ {i}]
    /\ UNCHANGED <<atOperator, estado, history, envelope, envSig, eras, dialogueFaults>>

\* ... then its countersignature is verified on the file as it is now: with it
\* what was read goes to the entries ...
Verified(f) == file[f] = "signed"
CheckFile ==
    /\ emit.pc = "check"
    /\ LET ok == Verified(emit.entry[1])
       IN  emit' = [emit EXCEPT !.pc = "rename", !.ok = ok,
                                !.entradas = IF ok THEN Append(@, emit.entry) ELSE @]
    /\ UNCHANGED <<atOperator, estado, history, envelope, envSig, eras, dialogueFaults>>

\* ... and the file is renamed and never looked at again, with it or without.
RenameFile ==
    /\ emit.pc = "rename" /\ emit' = [emit EXCEPT !.pc = "file"]
    /\ file' = [file EXCEPT ![emit.entry[1]] = IF emit.ok THEN "publicado" ELSE "rechazado"]
    /\ UNCHANGED <<text, approved, overtaken, estado, history, envelope, envSig, eras,
                   dialogueFaults>>

\* What exceeds MAX_ENTRADAS is written to a lot; the latest stay.
Rotate ==
    /\ emit.pc = "file" /\ emit.todo = {}
    /\ LET n == Len(emit.entradas)  k == Max({0, n - MaxEntradas})
       IN  /\ history' = history \cup Range(SubSeq(emit.entradas, 1, k))
           /\ emit' = [emit EXCEPT !.pc = "outbox", !.entradas = SubSeq(@, k + 1, n),
                                   !.seq = Min({@ + 1, MaxNumber})]
    /\ UNCHANGED <<atOperator, estado, envelope, envSig, eras, dialogueFaults>>

WriteEnvelope ==
    /\ emit.pc = "outbox" /\ emit' = [emit EXCEPT !.pc = "sign"]
    /\ envelope' = [era |-> emit.era, seq |-> emit.seq, entradas |-> emit.entradas,
                    decl |-> emit.decl]
    /\ UNCHANGED <<atOperator, estado, history, envSig, eras, dialogueFaults>>

SignEnvelope ==
    /\ emit.pc = "sign" /\ emit' = [emit EXCEPT !.pc = "save"]
    /\ \/ envSig' = envelope /\ UNCHANGED dialogueFaults
       \/ /\ dialogueFaults < MaxDialogueFaults /\ dialogueFaults' = dialogueFaults + 1
          /\ UNCHANGED envSig
    /\ UNCHANGED <<atOperator, estado, history, envelope, eras>>

SaveEstado ==
    /\ emit.pc = "save" /\ emit' = NoEmit
    /\ estado' = [era |-> emit.era, seq |-> emit.seq, entradas |-> emit.entradas]
    /\ UNCHANGED <<atOperator, history, envelope, envSig, eras, dialogueFaults>>

KillEmit ==
    /\ emit.pc # "idle" /\ emit' = NoEmit
    /\ dialogueFaults < MaxDialogueFaults /\ dialogueFaults' = dialogueFaults + 1
    /\ UNCHANGED <<atOperator, estado, history, envelope, envSig, eras>>

EmitRun ==
    \/ StartEmit \/ ReadFile \/ CheckFile \/ RenameFile
    \/ Rotate \/ WriteEnvelope \/ SignEnvelope \/ SaveEstado
DialogueNext == Place \/ Countersign \/ Revise \/ LoseEstado \/ EmitRun \/ KillEmit

-----------------------------------------------------------------------------
Public == Range(envelope.entradas) \cup history

\* Nothing is served or archived that the operator did not countersign, but
\* for a text that was replaced between being read and being verified; and
\* nothing is served twice in one envelope.
OnlyApproved ==
    /\ \A e \in Public : e \in approved \/ e[1] \in overtaken
    /\ \A i, j \in DOMAIN envelope.entradas :
         envelope.entradas[i] = envelope.entradas[j] => i = j

\* What the state holds stays in it or goes to the history, until an era ends
\* (a loss of the state); an era that begins is declared in the envelope; and
\* within an era the numbers do not go back.
EntriesKept ==
    [][/\ estado'.era = estado.era =>
            Range(estado.entradas) \subseteq Range(estado'.entradas) \cup history'
       /\ envelope'.era # envelope.era => envelope'.decl
       /\ envelope'.era = envelope.era => envelope'.seq >= envelope.seq]_dialogueVars

\* In the end: what was approved when a run found it is served or archived,
\* unless it was replaced under that run, a run was killed or the state lost.
ApprovedServed ==
    \A f \in FindingSet :
        file[f] \in {"signed", "publicado"} =>
            <<f, text[f]>> \in Public \/ f \in overtaken \/ dialogueFaults > 0

\* hallazgo_channel 102-104, "solo entra lo que el operador del nodo
\* CONTRAFIRMO": what is served was countersigned.
OnlyCountersigned == Public \subseteq approved

\* hallazgo_channel 9, 11: what the operator approved enters the envelope.  A
\* file that a run finds before its countersignature is rejected for good, and
\* a run killed after the renaming takes the entry along.
EveryApprovalServed == \A e \in Texts : e \in approved ~> e \in Public

\* hallazgo_channel 19, "un renacer es senal, no silencio": what was served
\* leaves for the history or with an era.  A run killed before it saves the
\* state has its entries vanish from the next envelope of the same era.
ServedIsKept ==
    [][envelope'.era = envelope.era =>
         Range(envelope.entradas) \subseteq Range(envelope'.entradas) \cup history']_envelope
=============================================================================
