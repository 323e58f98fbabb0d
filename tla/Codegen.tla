------------------------------ MODULE Codegen ------------------------------
(***************************************************************************)
(* codegen_nodo: the node writes code for the tasks of the operator with   *)
(* its own model, tries it, has the policy look at it and signs that it is *)
(* the author.  A contract then waits for the operator to admit it, and a  *)
(* chained ledger records the task.                                        *)
(*                                                                         *)
(* The service is resident: layerd starts one, and one more after a crash  *)
(* of its own, because it does not know the children of the layerd before. *)
(* A piece of code is [n, quality]: its number and how far it gets, among  *)
(* Qualities.  A signature is over the content of the moment; the hash of  *)
(* a line of the ledger is the line and those before it.                   *)
(***************************************************************************)
EXTENDS Integers, Sequences, SequencesExt, FiniteSets

CONSTANTS
    Tasks,
    Workers,         \* the processes of the service
    ATTEMPTS,
    MaxPieces,       \* bound: pieces of code the model returns
    MaxCodegenFaults \* bound: kills, power cuts, failing signatures

ASSUME CodegenAssumption ==
    ATTEMPTS \in Nat \ {0} /\ {MaxPieces, MaxCodegenFaults} \subseteq Nat

VARIABLES
    queued,    \* the tasks in TASKS; the others are in .hechas
    identity,  \* are the key of authorship and its certificate there?
    artefact,  \* the file of each task in its workspace
    signature, \* the signature next to it: the content that was signed
    contract,  \* the contract of each task in pending_admision: a content
    lineage,   \* codegen_ledger.jsonl
    worker,    \* what each process does
    pieces, codegenFaults

codegenVars == <<queued, identity, artefact, signature, contract, lineage, worker, pieces,
                 codegenFaults>>

Qualities == {"syntax", "fails", "vetoed", "good"}
NoCode == [n |-> 0, quality |-> "none"]
Waiting == [pc |-> "idle"]
Contents == [n : 1..MaxPieces, quality : Qualities] \cup {NoCode}

CodegenTypeOK ==
    /\ queued \subseteq Tasks /\ identity \in BOOLEAN
    /\ \A f \in {artefact, signature, contract} : f \in [Tasks -> Contents]
    /\ \A w \in Workers :
          worker[w].pc \in {"idle", "ask", "compile", "bench", "policy", "digest", "sign",
                            "contract", "ledger", "append", "rename"}

CodegenInit ==
    /\ queued = Tasks /\ identity \in BOOLEAN
    /\ artefact = [t \in Tasks |-> NoCode] /\ signature = artefact /\ contract = artefact
    /\ lineage = <<>> /\ worker = [w \in Workers |-> Waiting]
    /\ pieces = 0 /\ codegenFaults = 0

-----------------------------------------------------------------------------
CodegenFault == codegenFaults < MaxCodegenFaults /\ codegenFaults' = codegenFaults + 1

Goto(w, pc) == worker' = [worker EXCEPT ![w].pc = pc]

\* The next attempt, or the end of the task without a result.
Again(w) ==
    worker' = [worker EXCEPT ![w].pc = IF worker[w].tries < ATTEMPTS THEN "ask" ELSE "ledger"]

\* The operator installs the key of authorship and its certificate.
Install ==
    /\ ~identity /\ identity' = TRUE
    /\ UNCHANGED <<queued, artefact, signature, contract, lineage, worker, pieces, codegenFaults>>

\* Without an identity nothing is processed.
Take(w, t) ==
    /\ worker[w].pc = "idle" /\ identity /\ t \in queued
    /\ worker' = [worker EXCEPT ![w] =
           [pc |-> "ask", task |-> t, tries |-> 0, digest |-> NoCode, prev |-> <<>>]]
    /\ UNCHANGED <<queued, identity, artefact, signature, contract, lineage, pieces, codegenFaults>>

\* The model returns a piece of code, which is written into the workspace over
\* what is there, or it fails.
Ask(w) ==
    LET me == worker[w]  tried == [me EXCEPT !.tries = @ + 1]
    IN  /\ me.pc = "ask"
        /\ \/ /\ pieces < MaxPieces /\ pieces' = pieces + 1
              /\ \E q \in Qualities : artefact' = [artefact EXCEPT ![me.task] =
                                                       [n |-> pieces + 1, quality |-> q]]
              /\ worker' = [worker EXCEPT ![w] = [tried EXCEPT !.pc = "compile"]]
           \/ /\ UNCHANGED <<artefact, pieces>>
              /\ worker' = [worker EXCEPT ![w] =
                     [tried EXCEPT !.pc = IF tried.tries < ATTEMPTS THEN "ask" ELSE "ledger"]]
        /\ UNCHANGED <<queued, identity, signature, contract, lineage, codegenFaults>>

Mine(w) == artefact[worker[w].task]

\* gate_compila, banco, gate_policy: each looks at the file as it is now.
Gate(w, at, to, refused) ==
    /\ worker[w].pc = at
    /\ IF Mine(w).quality \in refused THEN Again(w) ELSE Goto(w, to)
    /\ UNCHANGED <<queued, identity, artefact, signature, contract, lineage, pieces, codegenFaults>>

Compile(w) == Gate(w, "compile", "bench", {"syntax"})
Bench(w) == Gate(w, "bench", "policy", {"syntax", "fails"})
\* Mutant of Policy: a veto is logged and forgotten.
PolicyLogs(w) == Gate(w, "policy", "digest", {})
Policy(w) == Gate(w, "policy", "digest", {"vetoed"})

Digest(w) ==
    /\ worker[w].pc = "digest"
    /\ worker' = [worker EXCEPT ![w].digest = Mine(w), ![w].pc = "sign"]
    /\ UNCHANGED <<queued, identity, artefact, signature, contract, lineage, pieces, codegenFaults>>

\* The signature is made and verified at once; one that fails ends the task.
Sign(w) ==
    /\ worker[w].pc = "sign"
    /\ \/ /\ signature' = [signature EXCEPT ![worker[w].task] = Mine(w)]
          /\ Goto(w, "contract") /\ UNCHANGED codegenFaults
       \/ CodegenFault /\ Goto(w, "ledger") /\ UNCHANGED signature
    /\ UNCHANGED <<queued, identity, artefact, contract, lineage, pieces>>

WriteContract(w) ==
    /\ worker[w].pc = "contract" /\ Goto(w, "ledger")
    /\ contract' = [contract EXCEPT ![worker[w].task] = worker[w].digest]
    /\ UNCHANGED <<queued, identity, artefact, signature, lineage, pieces, codegenFaults>>

-----------------------------------------------------------------------------
(***************************************************************************)
(* The ledger and the end of a task.                                       *)
(***************************************************************************)
TornLineage(l) == l # <<>> /\ ~Last(l).sound
HashOf(l) == IF l = <<>> THEN <<>> ELSE Append(Last(l).prev, Last(l).task)

\* Mutant of ReadLineage: a line that cannot be read counts as none.
ReadLineageLoose(w) ==
    /\ worker[w].pc = "ledger"
    /\ worker' = [worker EXCEPT ![w].pc = "append",
                                ![w].prev = IF TornLineage(lineage) THEN <<>> ELSE HashOf(lineage)]
    /\ UNCHANGED <<queued, identity, artefact, signature, contract, lineage, pieces, codegenFaults>>

\* The hash of the last line; if that cannot be read the task is given up and
\* stays in the queue.
ReadLineage(w) ==
    /\ worker[w].pc = "ledger"
    /\ worker' = [worker EXCEPT ![w] = IF TornLineage(lineage) THEN Waiting
                                       ELSE [@ EXCEPT !.pc = "append", !.prev = HashOf(lineage)]]
    /\ UNCHANGED <<queued, identity, artefact, signature, contract, lineage, pieces, codegenFaults>>

AppendLineage(w) ==
    /\ worker[w].pc = "append" /\ Goto(w, "rename")
    /\ lineage' = Append(lineage,
           [task |-> worker[w].task, prev |-> worker[w].prev, sound |-> TRUE])
    /\ UNCHANGED <<queued, identity, artefact, signature, contract, pieces, codegenFaults>>

\* The task is moved to those that are done; if another process has moved it
\* already the exception is logged.
Finish(w) ==
    /\ worker[w].pc = "rename" /\ worker' = [worker EXCEPT ![w] = Waiting]
    /\ queued' = queued \ {worker[w].task}
    /\ UNCHANGED <<identity, artefact, signature, contract, lineage, pieces, codegenFaults>>

\* A process is killed, and layerd starts another in its place; or a command
\* takes too long, and the exception gives the task up.
KillWorker(w) ==
    /\ worker[w].pc # "idle" /\ CodegenFault /\ worker' = [worker EXCEPT ![w] = Waiting]
    /\ UNCHANGED <<queued, identity, artefact, signature, contract, lineage, pieces>>

\* A power cut tears the last line of the ledger; crash_recovery takes it away.
TearLineage ==
    /\ lineage # <<>> /\ ~TornLineage(lineage) /\ CodegenFault
    /\ lineage' = [lineage EXCEPT ![Len(lineage)].sound = FALSE]
    /\ worker' = [w \in Workers |-> Waiting]
    /\ UNCHANGED <<queued, identity, artefact, signature, contract, pieces>>

CureLineage ==
    /\ TornLineage(lineage) /\ lineage' = Front(lineage)
    /\ UNCHANGED <<queued, identity, artefact, signature, contract, worker, pieces, codegenFaults>>

WorkerStep(w) ==
    \/ \E t \in Tasks : Take(w, t)
    \/ Ask(w) \/ Compile(w) \/ Bench(w) \/ Policy(w) \/ Digest(w) \/ Sign(w)
    \/ WriteContract(w) \/ ReadLineage(w) \/ AppendLineage(w) \/ Finish(w)

CodegenNext ==
    \/ Install \/ TearLineage \/ CureLineage
    \/ \E w \in Workers : WorkerStep(w) \/ KillWorker(w)

-----------------------------------------------------------------------------
\* Of one process: whatever is killed, only code that compiled, passed its
\* tests and was not vetoed is ever signed, and a contract is about such code.
SignedPassed ==
    \A t \in Tasks : {signature[t].quality, contract[t].quality} \subseteq {"good", "none"}

\* The ledger is one chain, whatever is torn and cured: every line is linked
\* to the one before it.
LineageChained ==
    \A i \in DOMAIN lineage : lineage[i].prev = HashOf(SubSeq(lineage, 1, i - 1))

\* In the end: every task leaves the queue once there is an identity, although
\* a torn line stops the service until it is cured.
TasksFinish == identity => queued = {}

\* Not so: what is signed is what the contract is about, and what the file
\* holds.  A task that is taken up again after a kill overwrites the file.
ContractIntact == \A t \in Tasks : contract[t] \in {NoCode, artefact[t]}
=============================================================================
