---------------------------- MODULE TrustProofs ----------------------------
(***************************************************************************)
(* Why nothing counts as proved that was not: for every order of the       *)
(* interfaces, every number of credentials, keys, registers, packs and     *)
(* tasks, every age a verdict may have and every number of faults.         *)
(*                                                                         *)
(* Every part has an invariant that says what a run knows at each of its   *)
(* steps, and that nobody undoes it meanwhile.                             *)
(*   - The key of the operator: a seal bears a signature of a credential   *)
(*     and a content that the key made, or the answer to another process,  *)
(*     which is none (KeyTypes); a run of "inform" that nothing disturbs   *)
(*     has the answers to its own questions in its channel (Alone), and    *)
(*     every interface is tried, whichever is remembered (AllAreTried).    *)
(*   - The quote of the TPM: what is published was signed by the key next  *)
(*     to it over the registers next to it (RunIs, Published).             *)
(*   - The realm: while nothing is copied, a run knows at each step more   *)
(*     of what lies in the directory (RunKnows).                           *)
(*   - The code of the node: of the one process, what passed is what the   *)
(*     digest and the signature are over (Knows), and the ledger is linked *)
(*     line by line (Linked).  That there is one process, which layerd     *)
(*     keeps as long as it does not crash, is a hypothesis of the theorem; *)
(*     no other part needs it (NothingElseUnproved).                       *)
(*   - The verdict of governance: it bears a time near one at which the    *)
(*     node was governed (GovKnown).                                       *)
(*   - The arithmetic of a signature: the loop that doubles and adds keeps *)
(*     a sum (Loop), and the equation of a signature has one solution,     *)
(*     which is what the verification computes (OneSolution, SolutionIs).  *)
(*     That the multiples of the generator are a group is an assumption on *)
(*     the parameters (GroupAssumption).                                   *)
(* The last section puts them together (OtherInv).                         *)
(***************************************************************************)
EXTENDS MCTrust, SequenceTheorems, WellFoundedInduction, TLAPS

-----------------------------------------------------------------------------
\* A set of naturals has a least element.
LEMMA LeastNat ==
    ASSUME NEW T \in SUBSET Nat, T # {}
    PROVE  \E n \in T : \A m \in T : n <= m
<1>1. \E n \in T : \A m \in T : ~ (<<m, n>> \in OpToRel(<, Nat))
      BY WFMin, NatLessThanWellFounded
<1>2. PICK n \in T : \A m \in T : ~ (<<m, n>> \in OpToRel(<, Nat))
      BY <1>1
<1>3. \A m \in T : ~(m < n)
      BY <1>2 DEF OpToRel
<1> QED  BY <1>3

-----------------------------------------------------------------------------
(***************************************************************************)
(* The key of the operator.                                                *)
(***************************************************************************)
Kinds(p) == IF p = "op" THEN {"create", "sign"} ELSE {"inform"}
Pairs == (1..MaxCredentials) \X (1..MaxContents)
Args == (0..MaxCredentials) \cup Pairs
Signatures(T) == T \cup {<<"model">>}

\* What the key may have answered when it has made n credentials and signed T.
Answers(n, T) ==
    {<<"init", p>> : p \in Procs} \cup {<<"error">>, <<"info">>}
    \cup {<<"cred", c>> : c \in 1..n} \cup {<<"sig", s>> : s \in T}

Listening(p, n, T) ==
    [pc : {"search", "init", "ask"}, cmd : Kinds(p), todo : Seq(Places),
     inbox : Seq(Answers(n, T)), arg : Args, clean : BOOLEAN]
Creating(n, T) ==
    [pc : {"write"}, cmd : {"create"}, todo : Seq(Places), inbox : Seq(Answers(n, T)),
     arg : 1..n, clean : BOOLEAN]
Signing(T) ==
    [pc : {"write"}, cmd : {"sign"}, todo : Seq(Places), inbox : {<<s>> : s \in Signatures(T)},
     arg : Args, clean : BOOLEAN]
Runs(p, n, T) ==
    {Ended} \cup {r \in Listening(p, n, T) : r.pc \in {"init", "ask"} => r.todo # <<>>}
    \cup IF p = "op" THEN Creating(n, T) \cup Signing(T) ELSE {}

RunsOk(pr, n, T) == pr = [p \in Procs |-> pr[p]] /\ \A p \in Procs : pr[p] \in Runs(p, n, T)

Requests == {Nobody, <<"op", "create", 0>>} \cup {<<"op", "sign", s>> : s \in Pairs}

KeyTypes ==
    /\ KeyTypeOK /\ RunsOk(proc, made, touched)
    /\ asked \in Requests /\ seal.sig \in {<<>>} \cup Signatures(touched)
    /\ proc["op"].cmd = "sign" => credFile \in 1..made

\* A run of "inform" that nothing disturbed is alone with the key.
Alone ==
    LET r == proc["layer"] IN
    r.clean =>
        /\ plugged # "none" /\ asked = Nobody /\ proc["op"] = Ended /\ r.cmd = "inform"
        /\ r.pc \in {"search", "init"} => \E i \in DOMAIN r.todo : r.todo[i] = plugged
        /\ r.pc = "init" =>
               r.inbox = IF Head(r.todo) = plugged THEN <<<<"init", "layer">>>> ELSE <<>>
        /\ r.pc = "ask" => r.inbox = <<<<"info">>>>

KeyInv == KeyTypes /\ Alone /\ KeyIsFound /\ ValidMeansSigned

-----------------------------------------------------------------------------
LEMMA PlacesListed == Ifaces \in Seq(Places) /\ Len(Ifaces) \in Nat /\ DOMAIN Ifaces = 1..Len(Ifaces)
<1>1. Ifaces \in Seq(STRING)
      BY KeyAssumption
<1>2. Len(Ifaces) \in Nat /\ DOMAIN Ifaces = 1..Len(Ifaces)
      BY <1>1, LenProperties
<1>3. Ifaces \in [1..Len(Ifaces) -> Places]
      <2>1. Ifaces = [i \in 1..Len(Ifaces) |-> Ifaces[i]]
            BY <1>1, <1>2
      <2> QED  BY <1>2, <2>1 DEF Places
<1> QED  BY <1>2, <1>3, SeqDef

\* Every interface is tried, whichever is remembered (_buscar).
LEMMA AllAreTried ==
    ASSUME NEW h
    PROVE  /\ TryOrder(h) \in Seq(Places)
           /\ \A d \in Places : \E i \in DOMAIN TryOrder(h) : TryOrder(h)[i] = d
<1> DEFINE n == Len(Ifaces)
<1>0. Ifaces \in Seq(Places) /\ n \in Nat /\ DOMAIN Ifaces = 1..n
      BY PlacesListed
<1>1. CASE h \notin Places
      BY <1>0, <1>1 DEF TryOrder, Places
<1>2. CASE h \in Places
      <2> DEFINE I == {i \in 1..n : Ifaces[i] = h}  at == Min(I)
      <2>1. I # {} /\ I \in SUBSET Nat
            BY <1>0, <1>2 DEF Places
      <2>2. at \in I
            <3> HIDE DEF I
            <3> QED  BY <2>1, LeastNat DEF Min
      <2>3. at \in 1..n /\ Ifaces[at] = h
            BY <2>2
      <2>4. RemoveFirst(Ifaces, h) = RemoveAt(Ifaces, at)
            BY <2>1 DEF RemoveFirst, SelectInSeq
      <2> HIDE DEF at, n
      <2> DEFINE a == SubSeq(Ifaces, 1, at - 1)  b == SubSeq(Ifaces, at + 1, Len(Ifaces))
      <2>5. TryOrder(h) = <<h>> \o (a \o b)
            BY <1>2, <2>4 DEF TryOrder, RemoveAt
      <2>6. /\ a \in Seq(Places) /\ b \in Seq(Places) /\ <<h>> \in Seq(Places)
            /\ Len(a) = at - 1 /\ Len(b) = n - at
            /\ \A i \in 1..at - 1 : a[i] = Ifaces[i]
            /\ \A i \in 1..n - at : b[i] = Ifaces[at + i]
            <3>1. at \in 1..Len(Ifaces) /\ Len(Ifaces) \in Nat
                  BY <1>0, <2>3 DEF n
            <3>2. 1 \in 1..Len(Ifaces) + 1 /\ at - 1 \in 1 - 1..Len(Ifaces)
                  BY <3>1
            <3>3. at + 1 \in 1..Len(Ifaces) + 1 /\ Len(Ifaces) \in (at + 1) - 1..Len(Ifaces)
                  BY <3>1
            <3>4. /\ a \in Seq(Places) /\ Len(a) = (at - 1) - 1 + 1
                  /\ \A i \in 1..(at - 1) - 1 + 1 : a[i] = Ifaces[1 + i - 1]
                  BY <1>0, <3>2, SubSeqProperties
            <3>5. /\ b \in Seq(Places) /\ Len(b) = Len(Ifaces) - (at + 1) + 1
                  /\ \A i \in 1..Len(Ifaces) - (at + 1) + 1 : b[i] = Ifaces[(at + 1) + i - 1]
                  BY <1>0, <3>3, SubSeqProperties
            <3> HIDE DEF a, b
            <3>6. (at - 1) - 1 + 1 = at - 1 /\ Len(Ifaces) - (at + 1) + 1 = n - at
                  BY <3>1 DEF n
            <3>7. /\ \A i \in 1..at - 1 : 1 + i - 1 = i
                  /\ \A i \in 1..n - at : (at + 1) + i - 1 = at + i
                  BY <3>1 DEF n
            <3> QED  BY <1>2, <3>4, <3>5, <3>6, <3>7
      <2> DEFINE c == a \o b  t == <<h>> \o c
      <2> HIDE DEF a, b
      <2>7. /\ c \in Seq(Places) /\ Len(c) = (at - 1) + (n - at)
            /\ \A i \in 1..(at - 1) + (n - at) :
                   c[i] = IF i <= at - 1 THEN a[i] ELSE b[i - (at - 1)]
            <3>1. /\ c \in Seq(Places) /\ Len(c) = Len(a) + Len(b)
                  /\ \A i \in 1..Len(a) + Len(b) :
                         c[i] = IF i <= Len(a) THEN a[i] ELSE b[i - Len(a)]
                  BY <2>6, ConcatProperties
            <3> HIDE DEF c
            <3> QED  BY <2>6, <3>1
      <2> HIDE DEF c
      <2>8. /\ t \in Seq(Places) /\ Len(t) = 1 + Len(c)
            /\ \A i \in 1..1 + Len(c) : t[i] = IF i <= 1 THEN <<h>>[i] ELSE c[i - 1]
            BY <2>6, <2>7, ConcatProperties
      <2>9. TryOrder(h) = t
            BY <2>5 DEF c
      <2> HIDE DEF t
      <2>10. ASSUME NEW d \in Places
             PROVE  \E i \in DOMAIN t : t[i] = d
            <3>0. DOMAIN t = 1..1 + Len(c) /\ Len(c) = n - 1
                  BY <1>0, <2>3, <2>7, <2>8, LenProperties
            <3>1. PICK k \in 1..n : Ifaces[k] = d
                  BY <1>0 DEF Places
            <3>2. CASE k = at
                  <4>1. 1 \in DOMAIN t /\ 1 \in 1..1 + Len(c)
                        BY <1>0, <2>3, <3>0
                  <4>2. t[1] = h
                        BY <2>8, <4>1
                  <4> QED  BY <2>3, <3>1, <3>2, <4>1, <4>2
            <3>3. CASE k < at
                  <4>1. k \in 1..at - 1 /\ k \in 1..(at - 1) + (n - at) /\ k <= at - 1
                        BY <1>0, <2>3, <3>3
                  <4>2. c[k] = d
                        BY <2>6, <2>7, <3>1, <4>1
                  <4>3. k + 1 \in DOMAIN t /\ t[k + 1] = c[(k + 1) - 1] /\ (k + 1) - 1 = k
                        BY <1>0, <2>3, <2>8, <3>0, <4>1
                  <4> QED  BY <4>2, <4>3
            <3>4. CASE k > at
                  <4>1. k - at \in 1..n - at /\ at + (k - at) = k
                        BY <1>0, <2>3, <3>4
                  <4>2. b[k - at] = d
                        BY <2>6, <3>1, <4>1
                  <4>3. /\ k - 1 \in 1..(at - 1) + (n - at) /\ ~(k - 1 <= at - 1)
                        /\ (k - 1) - (at - 1) = k - at
                        BY <1>0, <2>3, <3>4
                  <4>4. c[k - 1] = d
                        BY <2>7, <4>2, <4>3
                  <4>5. k \in DOMAIN t /\ ~(k <= 1)
                        BY <1>0, <2>3, <3>0, <3>4
                  <4> QED  BY <2>8, <3>0, <4>4, <4>5
            <3> QED  BY <1>0, <2>3, <3>2, <3>3, <3>4
      <2> QED  BY <2>8, <2>9, <2>10
<1> QED  BY <1>1, <1>2

-----------------------------------------------------------------------------
LEMMA AnswersGrow ==
    ASSUME NEW n \in Nat, NEW m \in Nat, n <= m, NEW T, NEW U, T \subseteq U,
           NEW p, NEW r \in Runs(p, n, T)
    PROVE  r \in Runs(p, m, U)
<1>1. 1..n \subseteq 1..m
      OBVIOUS
<1>2. Answers(n, T) \subseteq Answers(m, U)
      BY <1>1 DEF Answers
<1>3. Seq(Answers(n, T)) \subseteq Seq(Answers(m, U))
      BY <1>2, SeqMonotonic
<1>4. CASE r \in Listening(p, n, T) /\ (r.pc \in {"init", "ask"} => r.todo # <<>>)
      BY <1>3, <1>4 DEF Runs, Listening
<1>5. CASE p = "op" /\ r \in Creating(n, T)
      BY <1>1, <1>3, <1>5 DEF Runs, Creating
<1>6. CASE p = "op" /\ r \in Signing(T)
      BY <1>6 DEF Runs, Signing, Signatures
<1>7. CASE r = Ended
      BY <1>7 DEF Runs
<1> QED  BY <1>4, <1>5, <1>6, <1>7 DEF Runs

LEMMA EndedRuns ==
    ASSUME NEW n, NEW T, NEW p \in Procs
    PROVE  Ended \in Runs(p, n, T)
BY DEF Runs

\* One process changes and the other does not.
LEMMA OneRuns ==
    ASSUME NEW pr, NEW n, NEW T, RunsOk(pr, n, T), NEW p \in Procs, NEW r \in Runs(p, n, T)
    PROVE  RunsOk([pr EXCEPT ![p] = r], n, T)
BY DEF RunsOk

LEMMA HeardRuns ==
    ASSUME NEW n, NEW T, NEW p, NEW r \in Runs(p, n, T), r.pc \in {"init", "ask"},
           NEW a \in Answers(n, T)
    PROVE  [r EXCEPT !.inbox = Append(@, a)] \in Runs(p, n, T)
<1>1. r \in Listening(p, n, T) /\ r.todo # <<>>
      BY DEF Runs, Creating, Signing, Ended
<1>2. Append(r.inbox, a) \in Seq(Answers(n, T))
      BY <1>1, AppendProperties DEF Listening
<1> QED  BY <1>1, <1>2 DEF Runs, Listening

LEMMA DeliverRuns ==
    ASSUME NEW pr, NEW n, NEW T, RunsOk(pr, n, T), NEW a \in Answers(n, T)
    PROVE  RunsOk(Deliver(pr, a), n, T)
<1> SUFFICES ASSUME NEW q \in Procs PROVE Deliver(pr, a)[q] \in Runs(q, n, T)
    BY DEF RunsOk, Deliver
<1>1. pr[q] \in Runs(q, n, T)
      BY DEF RunsOk
<1>2. CASE Hears(pr, q)
      BY <1>1, <1>2, HeardRuns DEF Deliver, Hears
<1>3. CASE ~Hears(pr, q)
      BY <1>1, <1>3 DEF Deliver
<1> QED  BY <1>2, <1>3

LEMMA DisturbedRuns ==
    ASSUME NEW pr, NEW n, NEW T, RunsOk(pr, n, T)
    PROVE  /\ RunsOk(Disturbed(pr), n, T) /\ Disturbed(pr)["op"] = pr["op"]
           /\ ~Disturbed(pr)["layer"].clean
<1>1. "layer" \in Procs /\ "op" \in Procs /\ "layer" # "op"
      BY DEF Procs
<1> DEFINE r == [pr["layer"] EXCEPT !.clean = FALSE]
<1>2. pr["layer"] = Ended \/ pr["layer"] \in Listening("layer", n, T)
      BY <1>1 DEF RunsOk, Runs
<1>3. r \in Runs("layer", n, T) /\ ~r.clean
      <2>1. CASE pr["layer"] = Ended
            <3>1. r = Ended /\ ~Ended.clean
                  <4>1. r = [Ended EXCEPT !.clean = FALSE]
                        BY <2>1
                  <4> DEFINE E == [pc : {"none"}, cmd : {"none"}, todo : {<<>>},
                                   inbox : {<<>>}, arg : {0}, clean : {FALSE}]
                  <4>2. [Ended EXCEPT !.clean = FALSE] \in E /\ Ended \in E
                        BY DEF Ended
                  <4>3. \A x \in E : x = [pc |-> x.pc, cmd |-> x.cmd, todo |-> x.todo,
                                         inbox |-> x.inbox, arg |-> x.arg, clean |-> x.clean]
                        OBVIOUS
                  <4>4. \A x \in E : /\ x.pc = "none" /\ x.cmd = "none" /\ x.todo = <<>>
                                     /\ x.inbox = <<>> /\ x.arg = 0 /\ x.clean = FALSE
                        OBVIOUS
                  <4>5. \A x \in E : x = Ended
                        <5> HIDE DEF E
                        <5> QED  BY <4>3, <4>4 DEF Ended
                  <4>6. ~Ended.clean
                        BY DEF Ended
                  <4> HIDE DEF E
                  <4> QED  BY <4>1, <4>2, <4>5, <4>6
            <3> QED  BY <3>1 DEF Runs
      <2>2. CASE pr["layer"] \in Listening("layer", n, T)
            <3>1. pr["layer"].pc \in {"init", "ask"} => pr["layer"].todo # <<>>
                  BY <1>1 DEF RunsOk, Runs, Ended
            <3>2. /\ r \in Listening("layer", n, T) /\ ~r.clean
                  /\ r.pc = pr["layer"].pc /\ r.todo = pr["layer"].todo
                  BY <2>2 DEF Listening
            <3> QED  BY <3>1, <3>2 DEF Runs
      <2> QED  BY <1>2, <2>1, <2>2
<1>4. Disturbed(pr) = [pr EXCEPT !["layer"] = r]
      BY DEF Disturbed
<1> HIDE DEF r
<1> QED  BY <1>1, <1>3, <1>4, OneRuns DEF RunsOk

LEMMA StartRuns ==
    ASSUME KeyTypes, NEW p \in Procs, NEW c \in Kinds(p), Start(p, c)
    PROVE  /\ RunsOk(proc', made, touched)
           /\ proc'[p].cmd = c
           /\ p # "op" => proc'["op"] = proc["op"]
<1> DEFINE r == [Ended EXCEPT !.pc = "search", !.cmd = c, !.todo = TryOrder(hint),
                              !.clean = /\ plugged # "none" /\ asked = Nobody
                                        /\ proc["op"] = Ended]
<1>1. TryOrder(hint) \in Seq(Places)
      BY AllAreTried
<1>2. r \in Runs(p, made, touched) /\ r.cmd = c
      <2>1. <<>> \in Seq(Answers(made, touched)) /\ 0 \in Args
            BY EmptySeq, KeyAssumption DEF Args
      <2>2. r \in Listening(p, made, touched) /\ r.pc = "search"
            BY <1>1, <2>1 DEF Ended, Listening
      <2> QED  BY <2>2 DEF Runs, Ended
<1>3. RunsOk(Disturbed(proc), made, touched) /\ Disturbed(proc)["op"] = proc["op"]
      BY DisturbedRuns DEF KeyTypes
<1>4. proc' = [Disturbed(proc) EXCEPT ![p] = r]
      BY DEF Start
<1> HIDE DEF r
<1> QED  BY <1>2, <1>3, <1>4, OneRuns DEF RunsOk, Procs

LEMMA EndRuns ==
    ASSUME KeyTypes, NEW p \in Procs, proc' = [proc EXCEPT ![p] = Ended]
    PROVE  /\ RunsOk(proc', made, touched)
           /\ p = "op" => proc'["op"].cmd = "none"
           /\ p # "op" => proc'["op"] = proc["op"]
<1>1. RunsOk(proc', made, touched)
      BY EndedRuns, OneRuns DEF KeyTypes
<1> QED  BY <1>1 DEF KeyTypes, RunsOk, Ended, Procs

-----------------------------------------------------------------------------
LEMMA ProcsAre == Procs = {"op", "layer"}
BY DEF Procs

LEMMA RunPcs ==
    ASSUME NEW pr, NEW n, NEW T, RunsOk(pr, n, T)
    PROVE  \A p \in Procs : pr[p].pc \in {"none", "search", "init", "ask", "write"}
BY DEF RunsOk, Runs, Listening, Creating, Signing, Ended

LEMMA TouchTypes == KeyTypes /\ Touch => KeyTypes'
<1> SUFFICES ASSUME KeyTypes, Touch PROVE KeyTypes'
    OBVIOUS
<1>1. made \in Nat /\ made <= MaxCredentials /\ MaxCredentials \in Nat
      BY KeyAssumption DEF KeyTypes, KeyTypeOK
<1>2. RunsOk(Disturbed(proc), made, touched) /\ Disturbed(proc)["op"] = proc["op"]
      BY DisturbedRuns DEF KeyTypes
<1>3. CASE asked[2] = "create" /\ made < MaxCredentials /\ made' = made + 1
           /\ UNCHANGED touched /\ proc' = Deliver(Disturbed(proc), <<"cred", made + 1>>)
      <2>1. RunsOk(Disturbed(proc), made', touched')
            BY <1>1, <1>2, <1>3, AnswersGrow DEF RunsOk
      <2>2. <<"cred", made + 1>> \in Answers(made', touched')
            BY <1>1, <1>3 DEF Answers
      <2>3. RunsOk(proc', made', touched')
            BY <1>3, <2>1, <2>2, DeliverRuns
      <2>4. proc'["op"].cmd = proc["op"].cmd
            BY <1>2, <1>3, ProcsAre DEF Deliver, RunsOk, Runs, Listening, Creating, Signing, Ended, Hears
      <2>5. KeyTypeOK'
            <3>1. \A p \in Procs : proc'[p].pc \in {"none", "search", "init", "ask", "write"}
                  BY <2>3, RunPcs
            <3>2. /\ UNCHANGED <<plugged, hint, doc, credFile, touched>>
                  /\ made' \in 0..MaxCredentials /\ 0..made \subseteq 0..made'
                  BY <1>1, <1>3 DEF Touch, keyFiles
            <3> QED  BY <3>1, <3>2 DEF KeyTypes, KeyTypeOK
      <2> QED  BY <1>1, <1>3, <2>3, <2>4, <2>5 DEF Touch, KeyTypes, keyFiles, Requests
<1>4. CASE asked[2] = "sign" /\ touched' = touched \cup {asked[3]} /\ UNCHANGED made
           /\ proc' = Deliver(Disturbed(proc), <<"sig", asked[3]>>)
      <2>0. asked[3] \in Pairs
            BY <1>4 DEF KeyTypes, Requests, Nobody, Touch
      <2>1. RunsOk(Disturbed(proc), made', touched')
            <3>1. made <= made
                  BY <1>1
            <3> QED  BY <1>1, <1>2, <1>4, <3>1, AnswersGrow DEF RunsOk
      <2>2. <<"sig", asked[3]>> \in Answers(made', touched')
            BY <1>4 DEF Answers
      <2>3. RunsOk(proc', made', touched')
            BY <1>4, <2>1, <2>2, DeliverRuns
      <2>4. proc'["op"].cmd = proc["op"].cmd
            BY <1>2, <1>4, ProcsAre DEF Deliver, RunsOk, Runs, Listening, Creating, Signing, Ended, Hears
      <2>5. KeyTypeOK'
            <3>1. \A p \in Procs : proc'[p].pc \in {"none", "search", "init", "ask", "write"}
                  BY <2>3, RunPcs
            <3>2. /\ UNCHANGED <<plugged, hint, doc, credFile, made>>
                  /\ touched' \subseteq (1..MaxCredentials) \X (1..MaxContents)
                  BY <1>4, <2>0 DEF Touch, keyFiles, Pairs, KeyTypes, KeyTypeOK
            <3> QED  BY <3>1, <3>2 DEF KeyTypes, KeyTypeOK
      <2> QED  BY <1>1, <1>4, <2>3, <2>4, <2>5 DEF Touch, KeyTypes, keyFiles, Requests, Signatures
<1> QED  BY <1>3, <1>4 DEF Touch

\* An action of the processes keeps the types if it keeps those of its runs.
LEMMA RunsKeepTypes ==
    ASSUME KeyTypes, RunsOk(proc', made, touched), UNCHANGED <<made, touched>>,
           plugged' \in {"none"} \cup Places, hint' \in {"none"} \cup Places,
           doc' \in 0..MaxContents, credFile' \in {Torn} \cup 0..made,
           asked' \in Requests, seal'.sig \in {<<>>} \cup Signatures(touched),
           proc'["op"].cmd = "sign" => credFile' \in 1..made
    PROVE  KeyTypes'
<1>1. \A p \in Procs : proc'[p].pc \in {"none", "search", "init", "ask", "write"}
      BY RunPcs
<1> QED  BY <1>1 DEF KeyTypes, KeyTypeOK

LEMMA WorldTypes ==
    KeyTypes /\ (GiveUp \/ Replug \/ EditFile \/ SignRefused \/ Verify) => KeyTypes'
<1> SUFFICES ASSUME KeyTypes, GiveUp \/ Replug \/ EditFile \/ SignRefused \/ Verify
             PROVE  KeyTypes'
    OBVIOUS
<1>1. RunsOk(Disturbed(proc), made, touched) /\ Disturbed(proc)["op"] = proc["op"]
      BY DisturbedRuns DEF KeyTypes
<1>2. /\ UNCHANGED <<made, touched, credFile, seal, hint>>
      /\ proc' = proc \/ proc' = Disturbed(proc)
      /\ asked' \in {asked, Nobody} /\ plugged' \in {"none", plugged} \cup Places
      /\ doc' = doc \/ (doc > 0 /\ doc' \in {0, doc + 1} /\ doc' <= MaxContents)
      <2>1. CASE GiveUp
            BY <2>1 DEF GiveUp, keyFiles
      <2>2. CASE Replug
            BY <2>2 DEF Replug, keyFiles
      <2>3. CASE EditFile
            BY <2>3 DEF EditFile, keySide
      <2>4. CASE SignRefused \/ Verify
            BY <2>4 DEF SignRefused, Verify, keySide, keyFiles
      <2> QED  BY <2>1, <2>2, <2>3, <2>4
<1>3. doc' \in 0..MaxContents
      BY <1>2, KeyAssumption DEF KeyTypes, KeyTypeOK
<1> QED  BY <1>1, <1>2, <1>3, RunsKeepTypes DEF KeyTypes, KeyTypeOK, Requests

LEMMA StartTypes == KeyTypes /\ (Inform \/ Command) => KeyTypes'
<1> SUFFICES ASSUME KeyTypes, Inform \/ Command PROVE KeyTypes'
    OBVIOUS
<1>1. UNCHANGED <<keySide, keyFiles>>
      BY DEF Inform, Command
<1>2. CASE Inform
      BY <1>1, <1>2, StartRuns, RunsKeepTypes
         DEF Inform, KeyTypes, KeyTypeOK, Kinds, Procs, keySide, keyFiles
<1>3. CASE Command
      <2>1. CASE Start("op", "create")
            BY <1>1, <2>1, StartRuns, RunsKeepTypes
               DEF KeyTypes, KeyTypeOK, Kinds, Procs, keySide, keyFiles
      <2>2. CASE doc > 0 /\ credFile > 0 /\ Start("op", "sign")
            <3>1. credFile \in 1..made
                  BY <2>2, KeyAssumption DEF KeyTypes, KeyTypeOK, Torn
            <3> QED  BY <1>1, <2>2, <3>1, StartRuns, RunsKeepTypes
                     DEF KeyTypes, KeyTypeOK, Kinds, Procs, keySide, keyFiles
      <2> QED  BY <1>3, <2>1, <2>2 DEF Command
<1> QED  BY <1>2, <1>3

-----------------------------------------------------------------------------
\* A run that waits for an answer, or looks for the key, in its parts.
LEMMA ListeningIs ==
    ASSUME KeyTypes, NEW p \in Procs, proc[p].pc \in {"search", "init", "ask"}
    PROVE  /\ proc[p] \in Listening(p, made, touched)
           /\ proc[p].pc \in {"init", "ask"} => proc[p].todo # <<>>
BY DEF KeyTypes, RunsOk, Runs, Creating, Signing, Ended

LEMMA OpenChannelRuns ==
    ASSUME KeyTypes, NEW p \in Procs, proc[p].pc = "search", proc[p].todo # <<>>
    PROVE  LET r == [proc[p] EXCEPT !.pc = "init", !.inbox = <<>>]
           IN  /\ [proc EXCEPT ![p].pc = "init", ![p].inbox = <<>>] = [proc EXCEPT ![p] = r]
               /\ r \in Runs(p, made, touched) /\ r.cmd = proc[p].cmd
<1>1. proc = [q \in Procs |-> proc[q]]
      BY DEF KeyTypes, RunsOk
<1>2. proc[p] \in Listening(p, made, touched)
      BY ListeningIs
<1>3. <<>> \in Seq(Answers(made, touched))
      BY EmptySeq
<1> DEFINE r == [proc[p] EXCEPT !.pc = "init", !.inbox = <<>>]
<1>4. r \in Runs(p, made, touched) /\ r.cmd = proc[p].cmd
      BY <1>2, <1>3 DEF Listening, Runs
<1>5. [proc EXCEPT ![p].pc = "init", ![p].inbox = <<>>] = [proc EXCEPT ![p] = r]
      BY <1>1
<1> QED  BY <1>4, <1>5

LEMMA OpenChannelTypes == KeyTypes /\ (\E p \in Procs : OpenChannel(p)) => KeyTypes'
<1> SUFFICES ASSUME KeyTypes, NEW p \in Procs, OpenChannel(p) PROVE KeyTypes'
    OBVIOUS
<1> DEFINE r == [proc[p] EXCEPT !.pc = "init", !.inbox = <<>>]
           opened == [proc EXCEPT ![p] = r]
<1>1. /\ r \in Runs(p, made, touched) /\ r.cmd = proc[p].cmd
      /\ [proc EXCEPT ![p].pc = "init", ![p].inbox = <<>>] = opened
      BY OpenChannelRuns DEF OpenChannel
<1>2. proc' = opened \/ proc' = Deliver(opened, <<"init", p>>)
      BY <1>1 DEF OpenChannel
<1> HIDE DEF r
<1>3. RunsOk(opened, made, touched) /\ opened["op"].cmd = proc["op"].cmd
      BY <1>1, OneRuns DEF KeyTypes, RunsOk, Procs
<1>4. RunsOk(Deliver(opened, <<"init", p>>), made, touched)
      BY <1>3, DeliverRuns DEF Answers
<1>5. Deliver(opened, <<"init", p>>)["op"].cmd = opened["op"].cmd
      BY <1>3, ProcsAre DEF Deliver, RunsOk, Runs, Listening, Creating, Signing, Ended
<1> HIDE DEF opened
<1> QED  BY <1>2, <1>3, <1>4, <1>5, RunsKeepTypes
         DEF OpenChannel, keySide, keyFiles, KeyTypes, KeyTypeOK

LEMMA EndTypes ==
    ASSUME KeyTypes, NEW p \in Procs, proc' = [proc EXCEPT ![p] = Ended],
           UNCHANGED <<keySide, doc>>, hint' \in {"none"} \cup Places,
           \/ UNCHANGED <<credFile, seal>>
           \/ p = "op" /\ credFile' \in {Torn} \cup 0..made /\ UNCHANGED seal
           \/ p = "op" /\ seal'.sig \in Signatures(touched) /\ UNCHANGED credFile
    PROVE  KeyTypes'
BY EndRuns, RunsKeepTypes DEF KeyTypes, KeyTypeOK, keySide, Procs

LEMMA EndingTypes ==
    KeyTypes /\ ((\E p \in Procs : NoKey(p) \/ KillCommand(p)) \/ Informed \/ NoTouch) => KeyTypes'
<1> SUFFICES ASSUME KeyTypes, NEW p \in Procs, NoKey(p) \/ KillCommand(p) \/ Informed \/ NoTouch
             PROVE  KeyTypes'
    BY DEF Procs
<1>1. PICK q \in Procs : proc' = [proc EXCEPT ![q] = Ended] /\ UNCHANGED <<keySide, keyFiles>>
      BY DEF NoKey, KillCommand, Informed, NoTouch, End, Procs
<1> QED  BY <1>1, EndTypes DEF keyFiles, KeyTypes, KeyTypeOK

LEMMA ChannelRefusedRuns ==
    ASSUME KeyTypes, NEW p \in Procs, ChannelRefused(p)
    PROVE  LET r == [proc[p] EXCEPT !.pc = "search", !.todo = Tail(@), !.inbox = <<>>]
           IN  /\ proc' = [proc EXCEPT ![p] = r]
               /\ r \in Runs(p, made, touched) /\ r.cmd = proc[p].cmd
<1>1. proc = [q \in Procs |-> proc[q]]
      BY DEF KeyTypes, RunsOk
<1>2. proc[p] \in Listening(p, made, touched) /\ proc[p].todo # <<>>
      BY ListeningIs DEF ChannelRefused
<1>3. <<>> \in Seq(Answers(made, touched)) /\ Tail(proc[p].todo) \in Seq(Places)
      BY <1>2, EmptySeq, HeadTailProperties DEF Listening
<1> DEFINE r == [proc[p] EXCEPT !.pc = "search", !.todo = Tail(@), !.inbox = <<>>]
<1>4. r \in Runs(p, made, touched) /\ r.cmd = proc[p].cmd
      BY <1>2, <1>3 DEF Listening, Runs
<1>5. proc' = [proc EXCEPT ![p] = r]
      BY <1>1 DEF ChannelRefused
<1> QED  BY <1>4, <1>5

LEMMA ChannelRefusedTypes == KeyTypes /\ (\E p \in Procs : ChannelRefused(p)) => KeyTypes'
<1> SUFFICES ASSUME KeyTypes, NEW p \in Procs, ChannelRefused(p) PROVE KeyTypes'
    OBVIOUS
<1> DEFINE r == [proc[p] EXCEPT !.pc = "search", !.todo = Tail(@), !.inbox = <<>>]
<1>1. proc' = [proc EXCEPT ![p] = r] /\ r \in Runs(p, made, touched) /\ r.cmd = proc[p].cmd
      BY ChannelRefusedRuns
<1> HIDE DEF r
<1>2. RunsOk(proc', made, touched) /\ proc'["op"].cmd = proc["op"].cmd
      BY <1>1, OneRuns DEF KeyTypes, RunsOk, Procs
<1> QED  BY <1>2, RunsKeepTypes DEF ChannelRefused, keySide, keyFiles, KeyTypes, KeyTypeOK

-----------------------------------------------------------------------------
LEMMA RequestTypes == KeyTypes /\ (\E p \in Procs : Request(p)) => KeyTypes'
<1> SUFFICES ASSUME KeyTypes, NEW p \in Procs, Request(p) PROVE KeyTypes'
    OBVIOUS
<1>0. proc = [q \in Procs |-> proc[q]] /\ RunsOk(proc, made, touched)
      BY DEF KeyTypes, RunsOk
<1>1. /\ proc[p] \in Listening(p, made, touched) /\ proc[p].todo # <<>>
      /\ proc[p].inbox # <<>>
      BY ListeningIs DEF Request, GotChannel
<1> DEFINE content == IF proc[p].cmd = "sign" THEN <<credFile, doc>> ELSE 0
<1>2. /\ proc[p].cmd = "sign" => p = "op" /\ content \in Pairs
      /\ content \in Args
      /\ proc[p].cmd # "inform" => <<p, proc[p].cmd, content>> \in Requests
      <2>1. proc[p].cmd \in Kinds(p)
            BY <1>1 DEF Listening
      <2>2. proc[p].cmd = "sign" => p = "op" /\ credFile \in 1..made /\ doc \in 1..MaxContents
            BY <2>1, KeyAssumption DEF Kinds, Request, KeyTypes, KeyTypeOK
      <2>3. made \in Nat /\ made <= MaxCredentials /\ MaxCredentials \in Nat
            BY KeyAssumption DEF KeyTypes, KeyTypeOK
      <2>4. proc[p].cmd = "sign" => p = "op" /\ content \in Pairs
            BY <2>2, <2>3 DEF Pairs
      <2>5. content \in Args
            BY <2>3, <2>4 DEF Args
      <2>6. proc[p].cmd # "inform" => <<p, proc[p].cmd, content>> \in Requests
            BY <2>1, <2>4 DEF Kinds, Requests
      <2> QED  BY <2>4, <2>5, <2>6
<1>3. hint' \in Places /\ Tail(proc[p].inbox) \in Seq(Answers(made, touched))
      BY <1>1, HeadTailProperties DEF Request, Listening
<1> DEFINE r == [proc[p] EXCEPT !.pc = "ask", !.inbox = Tail(@), !.arg = content]
           sent == [proc EXCEPT ![p] = r]
<1>4. r \in Runs(p, made, touched) /\ r.cmd = proc[p].cmd
      <2> HIDE DEF content
      <2> QED  BY <1>1, <1>2, <1>3 DEF Listening, Runs
<1>5. [proc EXCEPT ![p].pc = "ask", ![p].inbox = Tail(@), ![p].arg = content] = sent
      <2> HIDE DEF content
      <2> QED  BY <1>0
<1>6. /\ proc' \in {sent, Deliver(sent, <<"error">>), Deliver(sent, <<"info">>)}
      /\ asked' \in Requests
      <2>1. asked' = asked \/ (proc[p].cmd # "inform" /\ asked' = <<p, proc[p].cmd, content>>)
            BY DEF Request
      <2>2. asked' \in Requests
            BY <1>2, <2>1 DEF KeyTypes
      <2> HIDE DEF sent
      <2> QED  BY <1>5, <2>2 DEF Request
<1> HIDE DEF r
<1>7. RunsOk(sent, made, touched) /\ sent["op"].cmd = proc["op"].cmd
      BY <1>0, <1>4, OneRuns DEF RunsOk, Procs
<1> HIDE DEF sent
<1>8. /\ RunsOk(Deliver(sent, <<"error">>), made, touched)
      /\ RunsOk(Deliver(sent, <<"info">>), made, touched)
      BY <1>7, DeliverRuns DEF Answers
<1>9. \A a : Deliver(sent, a)["op"].cmd = sent["op"].cmd
      BY <1>7, ProcsAre DEF Deliver, RunsOk, Runs, Listening, Creating, Signing, Ended
<1>10. RunsOk(proc', made, touched) /\ proc'["op"].cmd = proc["op"].cmd
      BY <1>6, <1>7, <1>8, <1>9
<1> QED  BY <1>3, <1>6, <1>10, RunsKeepTypes DEF Request, KeyTypes, KeyTypeOK

LEMMA FileGoneTypes == KeyTypes /\ FileGone => KeyTypes'
<1> SUFFICES ASSUME KeyTypes, FileGone PROVE KeyTypes'
    OBVIOUS
<1>1. proc["op"] \in Listening("op", made, touched) /\ proc["op"].todo # <<>>
      BY ListeningIs DEF FileGone, Procs
<1>2. hint' \in Places
      BY <1>1, HeadTailProperties DEF FileGone, Listening
<1> QED  BY <1>2, EndTypes DEF FileGone, End, Procs

\* Only the operator's process creates and signs.
LEMMA AsksIs ==
    ASSUME KeyTypes, Asks("create") \/ Asks("sign")
    PROVE  \/ Asks("create") /\ proc["op"].cmd = "create"
           \/ Asks("sign") /\ proc["op"].cmd = "sign"
<1>1. PICK p \in Procs : proc[p].pc = "ask" /\ proc[p].cmd \in {"create", "sign"}
      BY DEF Asks
<1>2. proc[p].cmd \in Kinds(p)
      BY <1>1, ListeningIs DEF Listening
<1> QED  BY <1>1, <1>2 DEF Kinds, Asks, Procs

\* What an answer says to the one who reads it.
LEMMA AnswerSays ==
    ASSUME KeyTypes, NEW p \in Procs, proc[p].pc = "ask", proc[p].inbox # <<>>
    PROVE  /\ Answer(p) \in Answers(made, touched)
           /\ Answer(p)[1] = "cred" => Answer(p)[2] \in 1..made
           /\ SignatureIn(Answer(p)) \in {<<>>} \cup Signatures(touched)
<1>1. Answer(p) \in Answers(made, touched)
      BY ListeningIs, HeadTailProperties DEF Listening, Answer
<1>2. Answer(p)[1] = "cred" => Answer(p)[2] \in 1..made
      BY <1>1 DEF Answers
<1>3. SignatureIn(Answer(p)) \in {<<>>} \cup Signatures(touched)
      BY <1>1 DEF Answers, SignatureIn, Signatures
<1> QED  BY <1>1, <1>2, <1>3

LEMMA CreatedTypes == KeyTypes /\ Created => KeyTypes'
<1> SUFFICES ASSUME KeyTypes, Created PROVE KeyTypes'
    OBVIOUS
<1>0. "op" \in Procs /\ proc = [q \in Procs |-> proc[q]]
      BY DEF Procs, KeyTypes, RunsOk
<1>1. PICK q \in Procs : proc[q].pc = "ask" /\ proc[q].cmd = "create"
      BY DEF Created, Asks
<1>2. q = "op"
      BY <1>1, ListeningIs DEF Listening, Kinds
<1>3. proc["op"] \in Listening("op", made, touched)
      BY <1>1, <1>2, ListeningIs
<1>4. CASE Answer("op")[1] = "cred"
      <2>1. Answer("op")[2] \in 1..made
            BY <1>0, <1>1, <1>2, <1>4, AnswerSays DEF Created
      <2> DEFINE r == [proc["op"] EXCEPT !.pc = "write", !.arg = Answer("op")[2]]
      <2>2. r \in Creating(made, touched) /\ r.cmd = "create"
            BY <1>1, <1>2, <1>3, <2>1 DEF Listening, Creating
      <2>3. proc' = [proc EXCEPT !["op"] = r]
            BY <1>0, <1>4 DEF Created
      <2> HIDE DEF r
      <2>4. RunsOk(proc', made, touched) /\ proc'["op"].cmd = "create"
            BY <1>0, <2>2, <2>3, OneRuns DEF KeyTypes, Runs
      <2> QED  BY <1>4, <2>4, RunsKeepTypes DEF Created, keySide, KeyTypes, KeyTypeOK
<1>5. CASE Answer("op")[1] # "cred"
      BY <1>0, <1>5, EndTypes DEF Created, End, KeyTypes, KeyTypeOK
<1> QED  BY <1>4, <1>5

LEMMA SignedTypes == KeyTypes /\ Signed => KeyTypes'
<1> SUFFICES ASSUME KeyTypes, Signed PROVE KeyTypes'
    OBVIOUS
<1>0. "op" \in Procs /\ proc = [q \in Procs |-> proc[q]]
      BY DEF Procs, KeyTypes, RunsOk
<1>1. PICK q \in Procs : proc[q].pc = "ask" /\ proc[q].cmd = "sign"
      BY DEF Signed, Asks
<1>2. q = "op"
      BY <1>1, ListeningIs DEF Listening, Kinds
<1>3. proc["op"] \in Listening("op", made, touched)
      BY <1>1, <1>2, ListeningIs
<1> DEFINE sig == SignatureIn(Answer("op"))
<1>4. sig \in {<<>>} \cup Signatures(touched)
      BY <1>0, <1>1, <1>2, AnswerSays DEF Signed
<1>5. CASE sig = <<>>
      BY <1>0, <1>5, EndTypes DEF Signed, End, KeyTypes, KeyTypeOK
<1>6. CASE sig # <<>>
      <2> DEFINE r == [proc["op"] EXCEPT !.pc = "write", !.inbox = <<sig>>]
      <2>0. sig \in Signatures(touched)
            BY <1>4, <1>6
      <2>1. proc' = [proc EXCEPT !["op"] = r] /\ seal' = TornSeal
            BY <1>0, <1>6 DEF Signed
      <2> HIDE DEF sig
      <2>2. r \in Signing(touched) /\ r.cmd = "sign"
            BY <1>1, <1>2, <1>3, <2>0 DEF Listening, Signing
      <2> HIDE DEF r
      <2>3. RunsOk(proc', made, touched) /\ proc'["op"].cmd = "sign"
            BY <1>0, <2>1, <2>2, OneRuns DEF KeyTypes, Runs
      <2>4. credFile \in 1..made /\ seal'.sig = <<>>
            BY <1>1, <1>2, <2>1 DEF KeyTypes, TornSeal
      <2> QED  BY <2>3, <2>4, RunsKeepTypes DEF Signed, keySide, KeyTypes, KeyTypeOK
<1> QED  BY <1>5, <1>6

LEMMA WriteTypes == KeyTypes /\ (WriteCred \/ WriteSeal) => KeyTypes'
<1> SUFFICES ASSUME KeyTypes, WriteCred \/ WriteSeal PROVE KeyTypes'
    OBVIOUS
<1>0. "op" \in Procs /\ made \in Nat
      BY KeyAssumption DEF Procs, KeyTypes, KeyTypeOK
<1>1. CASE WriteCred
      <2>1. proc["op"].arg \in 1..made
            BY <1>0, <1>1 DEF WriteCred, KeyTypes, RunsOk, Runs, Listening, Creating, Signing, Ended
      <2>2. credFile' \in 0..made
            BY <1>0, <1>1, <2>1 DEF WriteCred
      <2> QED  BY <1>0, <1>1, <2>2, EndTypes DEF WriteCred, End, KeyTypes, KeyTypeOK
<1>2. CASE WriteSeal
      <2>1. proc["op"].inbox \in {<<s>> : s \in Signatures(touched)}
            BY <1>0, <1>2 DEF WriteSeal, KeyTypes, RunsOk, Runs, Listening, Creating, Signing, Ended
      <2>2. Answer("op") \in Signatures(touched)
            BY <2>1 DEF Answer
      <2>3. seal'.sig = Answer("op")
            BY <1>2 DEF WriteSeal
      <2> QED  BY <1>0, <1>2, <2>2, <2>3, EndTypes DEF WriteSeal, KeyTypes, KeyTypeOK
<1> QED  BY <1>1, <1>2

LEMMA KeyTypesInit == KeyInit => KeyTypes
<1> SUFFICES ASSUME KeyInit PROVE KeyTypes
    OBVIOUS
<1>1. RunsOk(proc, made, touched)
      BY EndedRuns DEF KeyInit, RunsOk
<1>2. proc["op"].cmd = "none"
      BY DEF KeyInit, Ended, Procs
<1>3. \A p \in Procs : proc[p].pc \in {"none", "search", "init", "ask", "write"}
      BY <1>1, RunPcs
<1>4. MaxCredentials \in Nat \ {0} /\ MaxContents \in Nat \ {0}
      BY KeyAssumption
<1>5. made \in 0..MaxCredentials /\ credFile \in 0..made /\ doc \in 0..MaxContents
      BY <1>4 DEF KeyInit
<1> QED  BY <1>1, <1>2, <1>3, <1>5 DEF KeyTypes, KeyTypeOK, KeyInit, Requests, NoSeal

LEMMA KeyTypesStep == KeyTypes /\ [KeyNext]_keyVars => KeyTypes'
<1> SUFFICES ASSUME KeyTypes, [KeyNext]_keyVars PROVE KeyTypes'
    OBVIOUS
<1>1. CASE UNCHANGED keyVars
      BY <1>1 DEF keyVars, keySide, keyFiles, KeyTypes, KeyTypeOK, RunsOk, Places
<1>2. CASE Touch \/ GiveUp \/ Replug \/ EditFile
      BY <1>2, TouchTypes, WorldTypes
<1>3. CASE Inform \/ Command \/ SignRefused \/ Verify
      BY <1>3, StartTypes, WorldTypes
<1>4. CASE \E p \in Procs : \/ OpenChannel(p) \/ NoKey(p) \/ ChannelRefused(p)
                           \/ Request(p) \/ KillCommand(p)
      BY <1>4, OpenChannelTypes, EndingTypes, ChannelRefusedTypes, RequestTypes
<1>5. CASE FileGone \/ Informed \/ Created \/ WriteCred \/ Signed \/ WriteSeal \/ NoTouch
      BY <1>5, FileGoneTypes, EndingTypes, CreatedTypes, WriteTypes, SignedTypes
<1> QED  BY <1>1, <1>2, <1>3, <1>4, <1>5 DEF KeyNext

-----------------------------------------------------------------------------
\* What is delivered disturbs nobody's record of being alone.
LEMMA DeliverClean ==
    ASSUME NEW pr, NEW n, NEW T, RunsOk(pr, n, T), NEW a, NEW q \in Procs
    PROVE  Deliver(pr, a)[q].clean = pr[q].clean
<1>1. pr[q] \in Runs(q, n, T)
      BY DEF RunsOk
<1>2. pr[q] = Ended \/ pr[q] \in [pc : {pr[q].pc}, cmd : {pr[q].cmd}, todo : {pr[q].todo},
                                         inbox : {pr[q].inbox}, arg : {pr[q].arg}, clean : {pr[q].clean}]
      BY <1>1 DEF Runs, Listening, Creating, Signing
<1>3. [pr[q] EXCEPT !.inbox = Append(@, a)].clean = pr[q].clean
      BY <1>2 DEF Ended
<1> QED  BY <1>3 DEF Deliver

LEMMA NotAlone == (Alone /\ proc["op"] # Ended => ~proc["layer"].clean)
BY DEF Alone

\* While the operator's process does something the layer's is not alone.
LEMMA OperatorActs ==
    ASSUME KeyTypes, Alone,
           \/ OpenChannel("op") \/ NoKey("op") \/ ChannelRefused("op") \/ Request("op")
           \/ KillCommand("op") \/ FileGone \/ Created \/ WriteCred \/ Signed \/ WriteSeal
           \/ NoTouch
    PROVE  ~proc'["layer"].clean
<1>0. "op" \in Procs /\ "layer" \in Procs /\ RunsOk(proc, made, touched)
      BY DEF Procs, KeyTypes
<1>1. proc = [q \in Procs |-> proc[q]]
      BY <1>0 DEF RunsOk
<1>2. proc["op"] # Ended
      <2>1. CASE KillCommand("op")
            BY <2>1 DEF KillCommand
      <2>2. CASE Created \/ Signed \/ NoTouch
            <3>1. Asks("create") \/ Asks("sign")
                  BY <2>2 DEF Created, Signed, NoTouch
            <3>2. PICK p \in Procs : proc[p].pc = "ask" /\ proc[p].cmd \in {"create", "sign"}
                  BY <3>1 DEF Asks
            <3>3. p = "op"
                  BY <3>2, ListeningIs DEF Listening, Kinds
            <3> QED  BY <3>2, <3>3 DEF Ended
      <2>3. CASE OpenChannel("op") \/ NoKey("op") \/ ChannelRefused("op") \/ Request("op")
                 \/ FileGone \/ WriteCred \/ WriteSeal
            <3>1. proc["op"].pc \in {"search", "init", "write"}
                  <4>1. CASE OpenChannel("op") \/ NoKey("op")
                        BY <4>1 DEF OpenChannel, NoKey
                  <4>2. CASE ChannelRefused("op") \/ FileGone
                        BY <4>2 DEF ChannelRefused, FileGone
                  <4>3. CASE Request("op")
                        BY <4>3 DEF Request
                  <4>4. CASE WriteCred \/ WriteSeal
                        BY <4>4 DEF WriteCred, WriteSeal
                  <4> QED  BY <2>3, <4>1, <4>2, <4>3, <4>4
            <3> QED  BY <3>1 DEF Ended
      <2> QED  BY <2>1, <2>2, <2>3
<1>3. ~proc["layer"].clean
      BY <1>2, NotAlone
<1>4. ASSUME NEW r, NEW a
      PROVE  LET sent == [proc EXCEPT !["op"] = r]
             IN  sent["layer"].clean = proc["layer"].clean
      BY <1>1, <1>0
<1>5. CASE OpenChannel("op")
      <2> DEFINE r == [proc["op"] EXCEPT !.pc = "init", !.inbox = <<>>]
                 opened == [proc EXCEPT !["op"] = r]
      <2>1. /\ r \in Runs("op", made, touched)
            /\ [proc EXCEPT !["op"].pc = "init", !["op"].inbox = <<>>] = opened
            BY <1>0, <1>5, OpenChannelRuns DEF OpenChannel
      <2>2. proc' = opened \/ proc' = Deliver(opened, <<"init", "op">>)
            BY <1>5, <2>1 DEF OpenChannel
      <2> HIDE DEF r
      <2>3. RunsOk(opened, made, touched) /\ opened["layer"] = proc["layer"]
            BY <1>0, <1>1, <2>1, OneRuns
      <2> HIDE DEF opened
      <2> QED  BY <1>0, <1>3, <2>2, <2>3, DeliverClean
<1>6. CASE ChannelRefused("op")
      <2> DEFINE r == [proc["op"] EXCEPT !.pc = "search", !.todo = Tail(@), !.inbox = <<>>]
      <2>1. proc' = [proc EXCEPT !["op"] = r]
            BY <1>0, <1>6, ChannelRefusedRuns
      <2> HIDE DEF r
      <2> QED  BY <1>0, <1>1, <1>3, <2>1
<1>7. CASE Request("op")
      <2> DEFINE content == IF proc["op"].cmd = "sign" THEN <<credFile, doc>> ELSE 0
                 sent == [proc EXCEPT !["op"].pc = "ask", !["op"].inbox = Tail(@), !["op"].arg = content]
      <2>1. sent["layer"] = proc["layer"] /\ sent = [q \in Procs |-> sent[q]]
            <3> HIDE DEF content
            <3> QED  BY <1>0, <1>1
      <2>2. proc' \in {sent, Deliver(sent, <<"error">>), Deliver(sent, <<"info">>)}
            <3>1. [proc EXCEPT !["op"].pc = "ask", !["op"].inbox = Tail(@), !["op"].arg = content] = sent
                  OBVIOUS
            <3> HIDE DEF sent
            <3> QED  BY <1>7, <3>1 DEF Request
      <2> HIDE DEF sent
      <2>3. \A a : [sent["layer"] EXCEPT !.inbox = Append(@, a)].clean = sent["layer"].clean
            <3> TAKE a
            <3>1. Deliver(proc, a)["layer"].clean = proc["layer"].clean
                  BY <1>0, DeliverClean
            <3>2. proc["layer"] = Ended \/ proc["layer"] \in Listening("layer", made, touched)
                  BY <1>0 DEF RunsOk, Runs
            <3> QED  BY <2>1, <3>2 DEF Ended, Listening
      <2>4. \A a : Deliver(sent, a)["layer"].clean = sent["layer"].clean
            BY <1>0, <2>3 DEF Deliver
      <2> QED  BY <1>3, <2>1, <2>2, <2>4
<1>8. CASE NoKey("op") \/ KillCommand("op") \/ FileGone \/ WriteCred \/ WriteSeal \/ NoTouch
      <2>1. proc' = [proc EXCEPT !["op"] = Ended]
            BY <1>8 DEF NoKey, KillCommand, FileGone, WriteCred, WriteSeal, NoTouch, End
      <2> QED  BY <1>0, <1>1, <1>3, <2>1
<1>9. CASE Created
      <2>1. proc'["layer"] = proc["layer"]
            BY <1>0, <1>1, <1>9 DEF Created, End
      <2> QED  BY <1>3, <2>1
<1>10. CASE Signed
      <2> DEFINE sig == SignatureIn(Answer("op"))
      <2>1. \/ proc' = [proc EXCEPT !["op"] = Ended]
            \/ proc' = [proc EXCEPT !["op"].pc = "write", !["op"].inbox = <<sig>>]
            <3> HIDE DEF sig
            <3> QED  BY <1>10 DEF Signed, End, sig
      <2> HIDE DEF sig
      <2> QED  BY <1>0, <1>1, <1>3, <2>1
<1> QED  BY <1>5, <1>6, <1>7, <1>8, <1>9, <1>10

\* A delivery to a run that listens where the key answers, and to none else.
LEMMA DeliveredTo ==
    ASSUME NEW pr, NEW n, NEW T, pr["op"] = Ended, NEW a, NEW r \in Listening("layer", n, T),
           pr["layer"] = r, r.pc \in {"init", "ask"}, Head(r.todo) = plugged,
           NEW d, d = Deliver(pr, a)
    PROVE  /\ d["op"] = Ended
           /\ d["layer"].pc = r.pc /\ d["layer"].cmd = r.cmd /\ d["layer"].todo = r.todo
           /\ d["layer"].inbox = Append(r.inbox, a)
<1>1. d["op"] = Ended
      BY DEF Deliver, Hears, Ended, Procs
<1>2. Hears(pr, "layer")
      BY DEF Hears
<1>3. d["layer"] = [pr["layer"] EXCEPT !.inbox = Append(@, a)]
      BY <1>2 DEF Deliver, Procs
<1>4. pr["layer"] \in Listening("layer", n, T)
      OBVIOUS
<1>5. /\ d["layer"].pc = pr["layer"].pc /\ d["layer"].cmd = pr["layer"].cmd
      /\ d["layer"].todo = pr["layer"].todo
      /\ d["layer"].inbox = Append(pr["layer"].inbox, a)
      BY <1>3, <1>4 DEF Listening
<1> QED  BY <1>1, <1>5

LEMMA LayerActs ==
    ASSUME KeyTypes, Alone,
           \/ OpenChannel("layer") \/ NoKey("layer") \/ ChannelRefused("layer")
           \/ Request("layer") \/ KillCommand("layer") \/ Informed
    PROVE  Alone'
<1> DEFINE me == proc["layer"]
<1>0. "op" \in Procs /\ "layer" \in Procs /\ RunsOk(proc, made, touched)
      BY DEF Procs, KeyTypes
<1>1. proc = [q \in Procs |-> proc[q]]
      BY <1>0 DEF RunsOk
<1>2. CASE NoKey("layer") \/ KillCommand("layer") \/ Informed
      <2>1. proc' = [proc EXCEPT !["layer"] = Ended]
            BY <1>2 DEF NoKey, KillCommand, Informed, End
      <2>2. ~proc'["layer"].clean
            BY <1>0, <1>1, <2>1 DEF Ended
      <2> QED  BY <2>2 DEF Alone
<1>3. CASE OpenChannel("layer")
      <2> DEFINE r == [me EXCEPT !.pc = "init", !.inbox = <<>>]
                 opened == [proc EXCEPT !["layer"] = r]
      <2>1. /\ r \in Runs("layer", made, touched)
            /\ [proc EXCEPT !["layer"].pc = "init", !["layer"].inbox = <<>>] = opened
            BY <1>0, <1>3, OpenChannelRuns DEF OpenChannel
      <2>2. me \in Listening("layer", made, touched) /\ me.todo # <<>> /\ me.pc = "search"
            BY <1>0, <1>3, ListeningIs DEF OpenChannel
      <2>3. /\ r.pc = "init" /\ r.inbox = <<>> /\ r.todo = me.todo /\ r.clean = me.clean
            /\ r.cmd = me.cmd
            BY <2>2 DEF Listening
      <2>a. r \in Listening("layer", made, touched)
            BY <2>1, <2>3 DEF Runs, Ended
      <2>4. proc' = IF Head(me.todo) = plugged THEN Deliver(opened, <<"init", "layer">>)
                    ELSE opened
            BY <1>3, <2>1 DEF OpenChannel
      <2> HIDE DEF r
      <2>5. /\ RunsOk(opened, made, touched) /\ opened["op"] = proc["op"]
            /\ opened["layer"] = r
            BY <1>0, <1>1, <2>1, OneRuns
      <2> HIDE DEF opened
      <2>6. UNCHANGED <<plugged, asked>>
            BY <1>3 DEF OpenChannel, keySide
      <2>7. proc'["layer"].clean = me.clean
            BY <1>0, <2>3, <2>4, <2>5, DeliverClean
      <2>8. SUFFICES ASSUME me.clean PROVE Alone'
            BY <2>7 DEF Alone
      <2>9. /\ plugged # "none" /\ asked = Nobody /\ proc["op"] = Ended /\ me.cmd = "inform"
            /\ \E i \in DOMAIN me.todo : me.todo[i] = plugged
            BY <2>2, <2>8 DEF Alone
      <2>10. CASE Head(me.todo) = plugged
            <3> DEFINE a == <<"init", "layer">>
            <3>0. proc' = Deliver(opened, a) /\ opened["op"] = Ended
                  BY <2>4, <2>5, <2>9, <2>10
            <3>2. Append(<<>>, a) = <<a>>
                  OBVIOUS
            <3> HIDE DEF a
            <3>1. /\ proc'["op"] = Ended
                  /\ proc'["layer"].pc = "init" /\ proc'["layer"].todo = me.todo
                  /\ proc'["layer"].cmd = me.cmd
                  /\ proc'["layer"].inbox = Append(r.inbox, a)
                  BY <2>3, <2>5, <2>a, <2>10, <3>0, DeliveredTo
            <3>3. /\ proc'["layer"].pc = "init" /\ proc'["layer"].todo = me.todo
                  /\ proc'["layer"].cmd = "inform"
                  /\ proc'["layer"].inbox = <<<<"init", "layer">>>>
                  BY <2>3, <2>9, <3>1, <3>2 DEF a
            <3> QED  BY <2>6, <2>9, <2>10, <3>1, <3>3 DEF Alone
      <2>11. CASE Head(me.todo) # plugged
            <3>1. proc'["op"] = Ended /\ proc'["layer"] = r
                  BY <2>4, <2>5, <2>9, <2>11
            <3> QED  BY <2>3, <2>6, <2>9, <2>11, <3>1 DEF Alone
      <2> QED  BY <2>10, <2>11
<1>4. CASE ChannelRefused("layer")
      <2> DEFINE r == [me EXCEPT !.pc = "search", !.todo = Tail(@), !.inbox = <<>>]
      <2>1. proc' = [proc EXCEPT !["layer"] = r]
            BY <1>0, <1>4, ChannelRefusedRuns
      <2>2. /\ me \in Listening("layer", made, touched) /\ me.todo # <<>> /\ me.pc = "init"
            /\ ~GotChannel("layer")
            BY <1>0, <1>4, ListeningIs DEF ChannelRefused
      <2>3. r.pc = "search" /\ r.todo = Tail(me.todo) /\ r.clean = me.clean /\ r.cmd = me.cmd
            BY <2>2 DEF Listening
      <2> HIDE DEF r
      <2>4. proc'["layer"] = r /\ proc'["op"] = proc["op"] /\ UNCHANGED <<plugged, asked>>
            BY <1>0, <1>1, <1>4, <2>1 DEF ChannelRefused, keySide
      <2>5. SUFFICES ASSUME me.clean PROVE Alone'
            BY <2>3, <2>4 DEF Alone
      <2>6. /\ plugged # "none" /\ asked = Nobody /\ proc["op"] = Ended /\ me.cmd = "inform"
            /\ Head(me.todo) # plugged
            BY <2>2, <2>5 DEF Alone, GotChannel
      <2>7. PICK i \in DOMAIN me.todo : me.todo[i] = plugged
            BY <2>2, <2>5 DEF Alone
      <2>8. i - 1 \in DOMAIN Tail(me.todo) /\ Tail(me.todo)[i - 1] = plugged
            <3> DEFINE t == me.todo
            <3>1. t \in Seq(Places) /\ t # <<>>
                  BY <2>2 DEF Listening
            <3> HIDE DEF t
            <3>2. /\ Len(t) \in Nat /\ DOMAIN t = 1..Len(t) /\ Head(t) = t[1]
                  /\ Tail(t) \in Seq(Places) /\ Len(Tail(t)) = Len(t) - 1
                  /\ \A j \in 1..Len(Tail(t)) : Tail(t)[j] = t[j + 1]
                  BY <3>1, HeadTailProperties, LenProperties
            <3>3. i \in 1..Len(t) /\ i # 1 /\ t[i] = plugged
                  BY <2>6, <2>7, <3>2 DEF t
            <3>4. i - 1 \in 1..Len(Tail(t)) /\ (i - 1) + 1 = i
                  BY <3>2, <3>3
            <3>5. DOMAIN Tail(t) = 1..Len(Tail(t))
                  BY <3>2, LenProperties
            <3>6. i - 1 \in DOMAIN Tail(t) /\ Tail(t)[i - 1] = plugged
                  BY <3>2, <3>3, <3>4, <3>5
            <3> QED  BY <3>6 DEF t
      <2> QED  BY <2>3, <2>4, <2>6, <2>8 DEF Alone
<1>5. CASE Request("layer")
      <2>0. /\ me \in Listening("layer", made, touched) /\ me.todo # <<>> /\ me.pc = "init"
            /\ GotChannel("layer") /\ me.cmd = "inform" /\ me.inbox # <<>>
            BY <1>0, <1>5, ListeningIs DEF Request, Listening, Kinds, GotChannel
      <2> DEFINE r == [me EXCEPT !.pc = "ask", !.inbox = Tail(@), !.arg = 0]
                 sent == [proc EXCEPT !["layer"] = r]
      <2>1. [proc EXCEPT !["layer"].pc = "ask", !["layer"].inbox = Tail(@), !["layer"].arg = 0] = sent
            BY <1>0, <1>1
      <2>2. /\ r.pc = "ask" /\ r.inbox = Tail(me.inbox) /\ r.todo = me.todo /\ r.clean = me.clean
            /\ r.cmd = "inform"
            BY <2>0 DEF Listening
      <2>a. r \in Listening("layer", made, touched)
            <3>1. Tail(me.inbox) \in Seq(Answers(made, touched)) /\ 0 \in Args
                  BY <2>0, HeadTailProperties, KeyAssumption DEF Listening, Args
            <3> QED  BY <2>0, <3>1 DEF Listening
      <2>3. UNCHANGED <<plugged, asked>>
            BY <1>5, <2>0 DEF Request
      <2>4. proc' = CASE Head(me.todo) # plugged -> sent
                      [] Head(me.todo) = plugged /\ asked # Nobody -> Deliver(sent, <<"error">>)
                      [] OTHER -> Deliver(sent, <<"info">>)
            <3> HIDE DEF sent
            <3> QED  BY <1>5, <2>0, <2>1 DEF Request
      <2> HIDE DEF r
      <2>5. sent["layer"] = r /\ sent["op"] = proc["op"]
            BY <1>0, <1>1
      <2> HIDE DEF sent
      <2>6. \A a : Deliver(sent, a)["layer"].clean = me.clean
            BY <1>0, <2>2, <2>5 DEF Deliver
      <2>7. proc'["layer"].clean = me.clean
            BY <2>2, <2>4, <2>5, <2>6
      <2>8. SUFFICES ASSUME me.clean PROVE Alone'
            BY <2>7 DEF Alone
      <2>9. /\ plugged # "none" /\ asked = Nobody /\ proc["op"] = Ended
            /\ me.inbox = <<<<"init", "layer">>>> /\ Head(me.todo) = plugged
            BY <2>0, <2>8 DEF Alone
      <2>10. r.inbox = <<>>
            <3>1. Tail(<<<<"init", "layer">>>>) = <<>>
                  OBVIOUS
            <3> QED  BY <2>2, <2>9, <3>1
      <2>11. proc' = Deliver(sent, <<"info">>)
            BY <2>4, <2>9
      <2>12. /\ proc'["op"] = Ended /\ proc'["layer"].pc = "ask" /\ proc'["layer"].cmd = "inform"
             /\ proc'["layer"].inbox = Append(r.inbox, <<"info">>)
            <3> DEFINE a == <<"info">>
            <3>1. proc' = Deliver(sent, a) /\ sent["op"] = Ended
                  BY <2>5, <2>9, <2>11
            <3> HIDE DEF a
            <3>2. /\ proc'["op"] = Ended /\ proc'["layer"].pc = "ask" /\ proc'["layer"].cmd = "inform"
                  /\ proc'["layer"].inbox = Append(r.inbox, a)
                  BY <2>2, <2>5, <2>a, <2>9, <3>1, DeliveredTo
            <3> QED  BY <3>2 DEF a
      <2>13. Append(<<>>, <<"info">>) = <<<<"info">>>>
            OBVIOUS
      <2>14. /\ proc'["layer"].pc = "ask" /\ proc'["layer"].cmd = "inform"
             /\ proc'["layer"].inbox = <<<<"info">>>>
            BY <2>2, <2>10, <2>12, <2>13
      <2> QED  BY <2>3, <2>9, <2>12, <2>14 DEF Alone
<1> QED  BY <1>2, <1>3, <1>4, <1>5

\* The person, the cable and the operator who starts a command.
LEMMA WorldActs ==
    ASSUME KeyTypes, Alone,
           \/ Touch \/ GiveUp \/ Replug \/ EditFile \/ Inform \/ Command \/ SignRefused \/ Verify
           \/ UNCHANGED keyVars
    PROVE  Alone'
<1>0. "op" \in Procs /\ "layer" \in Procs /\ RunsOk(proc, made, touched) /\ "op" # "layer"
      BY DEF Procs, KeyTypes
<1>a. /\ RunsOk(Disturbed(proc), made, touched) /\ Disturbed(proc)["op"] = proc["op"]
      /\ ~Disturbed(proc)["layer"].clean
      BY <1>0, DisturbedRuns
<1>b. ~proc'["layer"].clean => Alone'
      BY DEF Alone
<1>1. CASE Touch
      <2>1. PICK a : proc' = Deliver(Disturbed(proc), a)
            BY <1>1 DEF Touch
      <2> QED  BY <1>0, <1>a, <1>b, <2>1, DeliverClean
<1>2. CASE Replug
      BY <1>2, <1>a, <1>b DEF Replug
<1>3. CASE Command
      <2>1. PICK c : Start("op", c)
            BY <1>3 DEF Command
      <2> DEFINE r == [Ended EXCEPT !.pc = "search", !.cmd = c, !.todo = TryOrder(hint),
                              !.clean = /\ plugged # "none" /\ asked = Nobody
                                        /\ proc["op"] = Ended]
      <2>2. proc' = [Disturbed(proc) EXCEPT !["op"] = r]
            BY <2>1 DEF Start
      <2> HIDE DEF r
      <2>3. proc'["layer"] = Disturbed(proc)["layer"]
            BY <1>0, <1>a, <2>2 DEF RunsOk
      <2> QED  BY <1>a, <1>b, <2>3
<1>4. CASE UNCHANGED <<plugged, proc>> /\ asked' \in {asked, Nobody}
      BY <1>4 DEF Alone
<1>5. CASE GiveUp \/ EditFile \/ SignRefused \/ Verify \/ UNCHANGED keyVars
      <2>1. UNCHANGED <<plugged, proc>> /\ asked' \in {asked, Nobody}
            <3>1. CASE GiveUp
                  BY <3>1 DEF GiveUp
            <3>2. CASE EditFile
                  BY <3>2 DEF EditFile, keySide
            <3>3. CASE SignRefused \/ Verify
                  BY <3>3 DEF SignRefused, Verify, keySide
            <3>4. CASE UNCHANGED keyVars
                  BY <3>4 DEF keyVars, keySide
            <3> QED  BY <1>5, <3>1, <3>2, <3>3, <3>4
      <2> QED  BY <1>4, <2>1
<1>6. CASE Inform
      <2> DEFINE c == plugged # "none" /\ asked = Nobody /\ proc["op"] = Ended
                 r == [Ended EXCEPT !.pc = "search", !.cmd = "inform", !.todo = TryOrder(hint),
                                    !.clean = c]
      <2>1. proc' = [Disturbed(proc) EXCEPT !["layer"] = r]
            BY <1>6 DEF Inform, Start
      <2>2. /\ r.pc = "search" /\ r.cmd = "inform" /\ r.todo = TryOrder(hint)
            /\ r.clean = c
            <3> HIDE DEF c
            <3> QED  BY DEF Ended
      <2> HIDE DEF r
      <2>3. proc'["layer"] = r /\ proc'["op"] = proc["op"]
            BY <1>0, <1>a, <2>1 DEF RunsOk
      <2>4. UNCHANGED <<plugged, asked>>
            BY <1>6 DEF Inform, keySide
      <2>5. SUFFICES ASSUME c PROVE Alone'
            <3> HIDE DEF c
            <3> QED  BY <1>b, <2>2, <2>3
      <2>6. plugged \in Places
            BY <2>5 DEF KeyTypes, KeyTypeOK
      <2>7. \E i \in DOMAIN TryOrder(hint) : TryOrder(hint)[i] = plugged
            BY <2>6, AllAreTried
      <2> HIDE DEF c
      <2> QED  BY <2>2, <2>3, <2>4, <2>5, <2>7 DEF Alone, c
<1> QED  BY <1>1, <1>2, <1>3, <1>5, <1>6

LEMMA AloneStep == KeyTypes /\ Alone /\ [KeyNext]_keyVars => Alone'
<1> SUFFICES ASSUME KeyTypes, Alone, [KeyNext]_keyVars PROVE Alone'
    OBVIOUS
<1>1. CASE \/ OpenChannel("op") \/ NoKey("op") \/ ChannelRefused("op") \/ Request("op")
           \/ KillCommand("op") \/ FileGone \/ Created \/ WriteCred \/ Signed \/ WriteSeal
           \/ NoTouch
      BY <1>1, OperatorActs DEF Alone
<1>2. CASE \/ OpenChannel("layer") \/ NoKey("layer") \/ ChannelRefused("layer")
           \/ Request("layer") \/ KillCommand("layer") \/ Informed
      BY <1>2, LayerActs
<1>3. CASE \/ Touch \/ GiveUp \/ Replug \/ EditFile \/ Inform \/ Command \/ SignRefused \/ Verify
           \/ UNCHANGED keyVars
      BY <1>3, WorldActs
<1> QED  BY <1>1, <1>2, <1>3 DEF KeyNext, Procs

LEMMA FoundStep == KeyTypes /\ Alone /\ KeyIsFound /\ [KeyNext]_keyVars => KeyIsFound'
<1> SUFFICES ASSUME KeyTypes, Alone, KeyIsFound, [KeyNext]_keyVars PROVE KeyIsFound'
    OBVIOUS
<1>1. informed' = informed \/ NoKey("layer") \/ Informed
      <2>1. CASE UNCHANGED keyVars \/ Touch \/ GiveUp \/ Replug \/ EditFile
            BY <2>1 DEF keyVars, outcome, Touch, GiveUp, Replug, EditFile
      <2>2. CASE Inform \/ Command \/ SignRefused \/ Verify
            BY <2>2 DEF outcome, Inform, Command, SignRefused, Verify
      <2>3. CASE \E p \in Procs : OpenChannel(p) \/ ChannelRefused(p) \/ Request(p) \/ KillCommand(p)
            BY <2>3 DEF outcome, OpenChannel, ChannelRefused, Request, KillCommand
      <2>4. CASE \E p \in Procs : NoKey(p)
            BY <2>4 DEF NoKey, End, Procs
      <2>5. CASE FileGone \/ Informed \/ Created \/ WriteCred
            BY <2>5 DEF outcome, FileGone, Created, WriteCred, End
      <2>6. CASE Signed \/ WriteSeal \/ NoTouch
            BY <2>6 DEF outcome, Signed, WriteSeal, NoTouch, End
      <2> QED  BY <2>1, <2>2, <2>3, <2>4, <2>5, <2>6 DEF KeyNext
<1>2. CASE NoKey("layer")
      <2>1. ~proc["layer"].clean
            <3>1. SUFFICES ASSUME proc["layer"].clean PROVE FALSE
                  OBVIOUS
            <3>2. PICK i \in DOMAIN proc["layer"].todo : proc["layer"].todo[i] = plugged
                  BY <1>2, <3>1 DEF NoKey, Alone
            <3>3. proc["layer"].todo = <<>>
                  BY <1>2 DEF NoKey
            <3>4. <<>> \in Seq(Places) /\ Len(<<>>) = 0
                  BY EmptySeq
            <3>5. DOMAIN <<>> = 1..0
                  BY <3>4, LenProperties
            <3> QED  BY <3>2, <3>3, <3>5
      <2>2. informed' = [said |-> "no key", clean |-> proc["layer"].clean]
            BY <1>2 DEF NoKey, End
      <2>3. ~informed'.clean
            BY <2>1, <2>2
      <2> QED  BY <2>3 DEF KeyIsFound
<1>3. CASE Informed
      <2>1. proc["layer"].clean =>
                proc["layer"].inbox # <<>> /\ Answer("layer")[1] = "info"
            <3>1. SUFFICES ASSUME proc["layer"].clean PROVE proc["layer"].inbox = <<<<"info">>>>
                  BY DEF Answer
            <3>2. PICK p \in Procs : proc[p].pc = "ask" /\ proc[p].cmd = "inform"
                  BY <1>3 DEF Informed, Asks
            <3>3. p = "layer"
                  BY <3>1, <3>2 DEF Alone, Ended, Procs
            <3> QED  BY <3>1, <3>2, <3>3 DEF Alone
      <2> DEFINE heard == proc["layer"].inbox # <<>> /\ Answer("layer")[1] = "info"
      <2>2. informed' = [said |-> IF heard THEN "present" ELSE "no answer",
                         clean |-> proc["layer"].clean]
            BY <1>3 DEF Informed, End
      <2>3. (proc["layer"].clean) = TRUE => heard
            BY <2>1
      <2> HIDE DEF heard
      <2>4. informed'.clean = proc["layer"].clean
            BY <2>2
      <2>5. heard => informed'.said = "present"
            BY <2>2
      <2> QED  BY <2>1, <2>3, <2>4, <2>5 DEF KeyIsFound
<1> QED  BY <1>1, <1>2, <1>3 DEF KeyIsFound

LEMMA ModelIsNoPair == \A x, y, z : <<x, y>> # <<z>>
<1> TAKE x, y, z
<1>1. Len(<<x, y>>) = 2 /\ Len(<<z>>) = 1
      OBVIOUS
<1> QED  BY <1>1

LEMMA EndsUnverified ==
    ASSUME NEW p, NEW said, End(p, said), proc["op"].cmd # "verify"
    PROVE  result' = result \/ result'.cmd # "verify"
BY DEF End

LEMMA ValidStep ==
    KeyTypes /\ ValidMeansSigned /\ [KeyNext]_keyVars => ValidMeansSigned'
<1> SUFFICES ASSUME KeyTypes, ValidMeansSigned, [KeyNext]_keyVars PROVE ValidMeansSigned'
    OBVIOUS
<1>1. touched \subseteq touched'
      <2>1. CASE Touch
            BY <2>1 DEF Touch
      <2>2. CASE UNCHANGED keyVars \/ GiveUp \/ Replug \/ EditFile
            BY <2>2 DEF keyVars, keySide, GiveUp, Replug, EditFile
      <2>3. CASE Inform \/ Command \/ SignRefused \/ Verify
            BY <2>3 DEF keySide, Inform, Command, SignRefused, Verify
      <2>4. CASE \E p \in Procs : \/ OpenChannel(p) \/ NoKey(p) \/ ChannelRefused(p)
                           \/ Request(p) \/ KillCommand(p)
            BY <2>4 DEF keySide, OpenChannel, NoKey, ChannelRefused, Request, KillCommand
      <2>5. CASE FileGone \/ Informed \/ Created \/ WriteCred \/ Signed \/ WriteSeal \/ NoTouch
            BY <2>5 DEF keySide, FileGone, Informed, Created, WriteCred, Signed, WriteSeal, NoTouch
      <2> QED  BY <2>1, <2>2, <2>3, <2>4, <2>5 DEF KeyNext
<1>2. result' = result \/ result'.cmd # "verify" \/ Verify
      <2>0. proc["op"].cmd # "verify"
            BY DEF KeyTypes, RunsOk, Runs, Listening, Creating, Signing, Ended, Kinds, Procs
      <2>1. CASE UNCHANGED keyVars \/ Touch \/ GiveUp \/ Replug \/ EditFile
            BY <2>1 DEF keyVars, outcome, Touch, GiveUp, Replug, EditFile
      <2>2. CASE Inform \/ Command \/ SignRefused \/ Verify
            BY <2>2 DEF outcome, Inform, Command, SignRefused
      <2>3. CASE \E p \in Procs : OpenChannel(p) \/ ChannelRefused(p) \/ Request(p) \/ KillCommand(p)
            BY <2>3 DEF outcome, OpenChannel, ChannelRefused, Request, KillCommand
      <2>4. CASE \E p \in Procs : NoKey(p)
            BY <2>0, <2>4, EndsUnverified DEF NoKey
      <2>5. CASE FileGone \/ Informed \/ Created \/ WriteCred
            BY <2>0, <2>5, EndsUnverified DEF outcome, FileGone, Informed, Created, WriteCred
      <2>6. CASE Signed \/ WriteSeal \/ NoTouch
            <3>1. CASE Signed
                  <4>1. (\E p, said : End(p, said)) \/ UNCHANGED outcome
                        BY <3>1 DEF Signed
                  <4> QED  BY <2>0, <4>1, EndsUnverified DEF outcome
            <3>2. CASE WriteSeal
                  <4>1. \E c, s : result' = [cmd |-> "sign", exit |-> "signed", content |-> c, sig |-> s]
                        BY <3>2 DEF WriteSeal
                  <4> QED  BY <4>1
            <3>3. CASE NoTouch
                  BY <2>0, <3>3, EndsUnverified DEF NoTouch
            <3> QED  BY <2>6, <3>1, <3>2, <3>3
      <2> QED  BY <2>1, <2>2, <2>3, <2>4, <2>5, <2>6 DEF KeyNext
<1>3. CASE result' = result
      BY <1>1, <1>3 DEF ValidMeansSigned
<1>4. CASE result'.cmd # "verify"
      BY <1>4 DEF ValidMeansSigned
<1>5. CASE Verify
      <2>1. SUFFICES ASSUME result'.exit = "valid"
                     PROVE  /\ result'.sig \in touched
                            /\ result'.content > 0 => result'.sig[2] = result'.content
            BY <1>1 DEF ValidMeansSigned
      <2>2. seal.sig = <<credFile, Hashed>> /\ result'.sig = seal.sig /\ result'.content = doc
            BY <1>5, <2>1 DEF Verify
      <2>3. seal.sig \in touched
            <3>1. Len(seal.sig) = 2
                  BY <2>2
            <3>2. Len(<<>>) = 0 /\ Len(<<"model">>) = 1
                  OBVIOUS
            <3> QED  BY <3>1, <3>2 DEF KeyTypes, Signatures
      <2> QED  BY <2>2, <2>3 DEF Hashed
<1> QED  BY <1>2, <1>3, <1>4, <1>5

LEMMA KeyInvInit == KeyInit => KeyInv
<1> SUFFICES ASSUME KeyInit PROVE KeyInv
    OBVIOUS
<1>1. ~proc["layer"].clean
      BY DEF KeyInit, Ended, Procs
<1>2. result.cmd # "verify" /\ ~informed.clean
      BY DEF KeyInit
<1> QED  BY <1>1, <1>2, KeyTypesInit DEF KeyInv, Alone, KeyIsFound, ValidMeansSigned

LEMMA KeyInvStep == KeyInv /\ [KeyNext]_keyVars => KeyInv'
BY KeyTypesStep, AloneStep, FoundStep, ValidStep DEF KeyInv


-----------------------------------------------------------------------------
(***************************************************************************)
(* The quote of the TPM.                                                   *)
(***************************************************************************)
\* Are the values that were read one by one those that were signed at once?
Matches(values, q) == \A i \in Pcrs : values[i] = q.pcr[i]

\* What a run has at each of its steps.
RunIs ==
    \/ att = NoRun
    \/ att = [pc |-> "read", values |-> att.values]
    \/ att = [pc |-> "keys", values |-> att.values]
    \/ /\ att = [pc |-> att.pc, values |-> att.values, quote |-> att.quote, ok |-> att.ok]
       /\ att.pc \in {"quote", "check", "publish", "emit"}
       /\ att.pc = "quote" => att.ok = FALSE
       /\ att.pc = "check" => att.quote.key \in 1..MaxKeys
       /\ att.pc = "publish" \/ (att.pc = "emit" /\ att.ok) =>
              att.quote.key \in 1..MaxKeys /\ Matches(att.values, att.quote)

\* What a peer can fetch.
Published ==
    \/ quoteFile = NoQuoteFile
    \/ /\ quoteFile.ak \in 1..MaxKeys /\ quoteFile.quote.key = quoteFile.ak
       /\ Matches(quoteFile.pcr, quoteFile.quote)

TpmInv == TpmTypeOK /\ RunIs /\ Published /\ AttestedMeansQuoted

LEMMA TpmInvInit == TpmInit => TpmInv
<1> SUFFICES ASSUME TpmInit PROVE TpmInv
    OBVIOUS
<1>1. TpmTypeOK
      <2>1. {MaxExtends, MaxKeys} \subseteq Nat
            BY TpmAssumption
      <2>2. pcr \in [Pcrs -> 0..MaxExtends]
            BY <2>1 DEF TpmInit
      <2>3. ak \in 0..MaxKeys /\ keys \in ak..MaxKeys /\ seen \in 0..MaxKeys
            BY <2>1 DEF TpmInit
      <2> QED  BY <2>2, <2>3 DEF TpmInit, TpmTypeOK, NoRun, NoTpmRec
<1>2. RunIs /\ Published
      BY DEF TpmInit, RunIs, Published
<1>3. AttestedMeansQuoted
      BY DEF TpmInit, AttestedMeansQuoted, NoTpmRec
<1> QED  BY <1>1, <1>2, <1>3 DEF TpmInv

\* Keys, registers and the peer, while no run of tpm_attest moves.
LEMMA TpmWorldKeeps ==
    ASSUME TpmInv, Extend \/ CreateKey \/ RevokeKey \/ Provision \/ PeerVerifies \/ PeerLosesBook
                   \/ UNCHANGED tpmVars
    PROVE  TpmInv'
<1>0. UNCHANGED <<att, rec, quoteFile>>
      BY DEF Extend, CreateKey, RevokeKey, Provision, PeerVerifies, PeerLosesBook, tpmVars
<1>1. RunIs' /\ Published'
      BY <1>0 DEF TpmInv, RunIs, Published, Matches, Pcrs
<1>2. CASE Extend
      <2>1. pcr' \in [Pcrs -> 0..MaxExtends]
            <3>1. MaxExtends \in Nat
                  BY TpmAssumption
            <3>2. PICK i \in Pcrs : pcr' = [pcr EXCEPT ![i] = @ + 1]
                  BY <1>2 DEF Extend
            <3>3. pcr \in [Pcrs -> 0..MaxExtends] /\ pcr[i] < MaxExtends
                  BY <1>2 DEF Extend, TpmInv, TpmTypeOK
            <3>4. pcr[i] + 1 \in 0..MaxExtends
                  BY <3>1, <3>3
            <3> QED  BY <3>2, <3>3, <3>4
      <2>2. UNCHANGED <<ak, keys, seen, peer, provFailed>>
            BY <1>2 DEF Extend
      <2> QED  BY <1>0, <1>1, <2>1, <2>2 DEF TpmInv, TpmTypeOK, AttestedMeansQuoted
<1>3. CASE CreateKey \/ RevokeKey \/ Provision \/ PeerLosesBook
      <2>1. UNCHANGED <<pcr, peer>>
            BY <1>3 DEF CreateKey, RevokeKey, Provision, PeerLosesBook
      <2>2. ak' \in 0..MaxKeys /\ keys' \in ak'..MaxKeys
            <3>1. MaxKeys \in Nat
                  BY TpmAssumption
            <3>2. CASE CreateKey \/ RevokeKey
                  BY <3>1, <3>2 DEF CreateKey, RevokeKey, TpmInv, TpmTypeOK
            <3>3. CASE Provision \/ PeerLosesBook
                  BY <3>3 DEF Provision, PeerLosesBook, TpmInv, TpmTypeOK
            <3> QED  BY <1>3, <3>2, <3>3
      <2>3. seen' \in 0..MaxKeys /\ provFailed' \in BOOLEAN
            <3>1. CASE CreateKey \/ RevokeKey
                  BY <3>1 DEF CreateKey, RevokeKey, TpmInv, TpmTypeOK
            <3>0. 0 \in 0..MaxKeys
                  <4>1. MaxKeys \in Nat
                        BY TpmAssumption
                  <4> QED  BY <4>1
            <3>2. CASE Provision \/ PeerLosesBook
                  BY <3>0, <3>2 DEF Provision, PeerLosesBook, TpmInv, TpmTypeOK
            <3> QED  BY <1>3, <3>1, <3>2
      <2> QED  BY <1>0, <1>1, <2>1, <2>2, <2>3 DEF TpmInv, TpmTypeOK, AttestedMeansQuoted
<1>4. CASE PeerVerifies
      <2>1. UNCHANGED <<pcr, ak, keys, provFailed>>
            BY <1>4 DEF PeerVerifies
      <2>2. quoteFile = NoQuoteFile \/ QuoteOk(quoteFile)
            BY DEF TpmInv, Published, QuoteOk, Matches
      <2>3. peer'.estado # "QUOTE_INVALIDO"
            BY <1>4, <2>2 DEF PeerVerifies
      <2>4. seen' \in 0..MaxKeys
            BY <1>4 DEF PeerVerifies, TpmInv, TpmTypeOK, Published
      <2> QED  BY <1>0, <1>1, <2>1, <2>3, <2>4 DEF TpmInv, TpmTypeOK, AttestedMeansQuoted
<1>5. CASE UNCHANGED tpmVars
      BY <1>0, <1>1, <1>5 DEF tpmVars, TpmInv, TpmTypeOK, AttestedMeansQuoted
<1> QED  BY <1>2, <1>3, <1>4, <1>5

\* A step of a run before it ends.
LEMMA RunKeeps ==
    ASSUME TpmInv, UNCHANGED <<pcr, ak, keys, rec, seen, peer, provFailed>>, RunIs', Published',
           att'.pc \in {"idle", "read", "keys", "quote", "check", "publish", "emit"}
    PROVE  TpmInv'
BY DEF TpmInv, TpmTypeOK, AttestedMeansQuoted

LEMMA AttestKeeps ==
    ASSUME TpmInv, StartAttest \/ ReadPcr \/ FindKey \/ Quote \/ CheckQuote \/ Publish \/ KillAttest
    PROVE  TpmInv'
<1>0. UNCHANGED <<pcr, ak, keys, rec, seen, peer, provFailed>>
      BY DEF StartAttest, ReadPcr, FindKey, Quote, CheckQuote, Publish, KillAttest
<1>1. CASE StartAttest \/ ReadPcr \/ KillAttest
      <2>1. \/ att' = NoRun \/ \E v : att' = [pc |-> "read", values |-> v]
            \/ \E v : att' = [pc |-> "keys", values |-> v]
            BY <1>1 DEF StartAttest, ReadPcr, KillAttest
      <2>2. RunIs' /\ att'.pc \in {"idle", "read", "keys"}
            BY <2>1 DEF RunIs, NoRun
      <2>3. Published'
            BY <1>1 DEF StartAttest, ReadPcr, KillAttest, TpmInv, Published
      <2> QED  BY <1>0, <2>2, <2>3, RunKeeps
<1>2. CASE FindKey
      <2>1. \E c \in {"quote", "emit"} :
                \E v : att' = [pc |-> c, values |-> v, quote |-> NoQuote, ok |-> FALSE]
            BY <1>2 DEF FindKey
      <2>2. RunIs' /\ att'.pc \in {"quote", "emit"}
            BY <2>1 DEF RunIs
      <2>3. Published'
            BY <1>2 DEF FindKey, TpmInv, Published
      <2> QED  BY <1>0, <2>2, <2>3, RunKeeps
<1> DEFINE v == att.values  q == att.quote  o == att.ok
           Run(pc, quote, ok) == [pc |-> pc, values |-> v, quote |-> quote, ok |-> ok]
<1>3. ASSUME Quote \/ CheckQuote \/ Publish
      PROVE  att = Run(att.pc, q, o) /\ att.pc \in {"quote", "check", "publish"}
      BY <1>3 DEF Quote, CheckQuote, Publish, TpmInv, RunIs, NoRun
<1>4. CASE Quote
      <2>1. att = Run("quote", q, FALSE)
            BY <1>3, <1>4 DEF Quote, TpmInv, RunIs, NoRun
      <2>2. Published'
            BY <1>4 DEF Quote, TpmInv, Published
      <2>3. CASE ak = 0
            <3>1. att' = Run("emit", q, FALSE)
                  <4>1. att' = [att EXCEPT !.pc = "emit"]
                        BY <1>4, <2>3 DEF Quote
                  <4> HIDE DEF v, q
                  <4> QED  BY <2>1, <4>1
            <3> HIDE DEF v, q
            <3>2. RunIs' /\ att'.pc = "emit"
                  BY <3>1 DEF RunIs
            <3> QED  BY <1>0, <2>2, <3>2, RunKeeps
      <2>4. CASE ak # 0
            <3> DEFINE new == [key |-> ak, pcr |-> pcr, nonce |-> 1 - nonce]
            <3>1. att' = Run("check", new, FALSE)
                  <4>1. att' = [att EXCEPT !.pc = "check", !.quote = new]
                        BY <1>4, <2>4 DEF Quote
                  <4> HIDE DEF v, q, new
                  <4> QED  BY <2>1, <4>1
            <3>2. new.key \in 1..MaxKeys
                  BY <2>4, TpmAssumption DEF TpmInv, TpmTypeOK
            <3> HIDE DEF v, q, new
            <3>3. RunIs' /\ att'.pc = "check"
                  BY <3>1, <3>2 DEF RunIs
            <3> QED  BY <1>0, <2>2, <3>3, RunKeeps
      <2> QED  BY <2>3, <2>4
<1>5. CASE CheckQuote
      <2>1. att = Run("check", q, o) /\ q.key \in 1..MaxKeys
            BY <1>3, <1>5 DEF CheckQuote, TpmInv, RunIs, NoRun
      <2>2. Published'
            BY <1>5 DEF CheckQuote, TpmInv, Published
      <2> DEFINE ok == Checks(q, v, ak, nonce)
      <2>3. att' = Run(IF ok THEN "publish" ELSE "emit", q, ok)
            <3>1. att' = [att EXCEPT !.pc = IF ok THEN "publish" ELSE "emit", !.ok = ok]
                  BY <1>5 DEF CheckQuote
            <3> HIDE DEF ok, v, q, o
            <3> QED  BY <2>1, <3>1
      <2>4. ok => Matches(v, q)
            BY DEF Checks, Matches
      <2> HIDE DEF v, q, ok
      <2>5. CASE ok
            <3>1. att' = Run("publish", q, ok)
                  BY <2>3, <2>5
            <3>2. RunIs' /\ att'.pc = "publish"
                  BY <2>1, <2>4, <2>5, <3>1 DEF RunIs
            <3> QED  BY <1>0, <2>2, <3>2, RunKeeps
      <2>6. CASE ~ok
            <3>1. att' = Run("emit", q, ok)
                  BY <2>3, <2>6
            <3>2. RunIs' /\ att'.pc = "emit"
                  BY <2>1, <2>4, <2>6, <3>1 DEF RunIs
            <3> QED  BY <1>0, <2>2, <3>2, RunKeeps
      <2> QED  BY <2>5, <2>6
<1>6. CASE Publish
      <2>1. att = Run("publish", q, o) /\ q.key \in 1..MaxKeys /\ Matches(v, q)
            BY <1>3, <1>6 DEF Publish, TpmInv, RunIs, NoRun
      <2>2. att' = Run("emit", q, o)
            BY <1>6, <2>1 DEF Publish
      <2>3. quoteFile' = quoteFile \/ quoteFile' = [ak |-> q.key, pcr |-> v, quote |-> q]
            BY <1>6 DEF Publish
      <2> HIDE DEF v, q, o
      <2>4. RunIs' /\ att'.pc = "emit"
            BY <2>1, <2>2 DEF RunIs, Matches, Pcrs
      <2>5. Published'
            BY <2>1, <2>3 DEF TpmInv, Published, Matches, Pcrs
      <2> QED  BY <1>0, <2>4, <2>5, RunKeeps
<1> QED  BY <1>1, <1>2, <1>4, <1>5, <1>6

LEMMA RecordKeeps ==
    ASSUME TpmInv, EmitRecord \/ TpmFails
    PROVE  TpmInv'
<1>1. /\ UNCHANGED <<pcr, ak, keys, quoteFile, seen, peer, provFailed>> /\ att' = NoRun
      BY DEF EmitRecord, TpmFails
<1>2. /\ rec'.clase \in {"DECLARADO", "ATESTADO"}
      /\ rec'.clase = "ATESTADO" =>
             rec'.quote.key > 0 /\ \A i \in Pcrs : rec'.pcr[i] = rec'.quote.pcr[i]
      <2>1. CASE EmitRecord
            <3> DEFINE v == att.values  q == att.quote
            <3>1. rec' = [clase |-> IF att.ok THEN "ATESTADO" ELSE "DECLARADO",
                          veredicto |-> "PCR_LEIDOS", pcr |-> v, quote |-> q]
                  BY <2>1 DEF EmitRecord, Emit
            <3>2. att.ok => q.key \in 1..MaxKeys /\ Matches(v, q)
                  BY <2>1 DEF EmitRecord, TpmInv, RunIs, NoRun
            <3> HIDE DEF v, q
            <3>3. CASE att.ok
                  BY <3>1, <3>2, <3>3, TpmAssumption DEF Matches
            <3>4. CASE ~att.ok
                  BY <3>1, <3>4
            <3> QED  BY <3>3, <3>4
      <2>2. CASE TpmFails
            BY <2>2 DEF TpmFails, Emit
      <2> QED  BY <2>1, <2>2
<1>3. RunIs' /\ Published'
      BY <1>1 DEF TpmInv, RunIs, Published, Matches, Pcrs
<1> QED  BY <1>1, <1>2, <1>3 DEF TpmInv, TpmTypeOK, NoRun, AttestedMeansQuoted, Pcrs

LEMMA TpmInvStep == TpmInv /\ [TpmNext]_tpmVars => TpmInv'
BY TpmWorldKeeps, AttestKeeps, RecordKeeps DEF TpmNext, Attest


-----------------------------------------------------------------------------
(***************************************************************************)
(* The realm.                                                              *)
(***************************************************************************)
Files == [PackFiles -> Packs \cup {"torn", "none"}]

\* While nothing is copied, a run knows at each step more of what lies there.
RunKnows ==
    act.clean =>
        /\ act.pc = "signature" /\ dir["manifest"] # "torn" =>
               dir["manifest"] # "none" /\ \A f \in Listed : dir[f] = dir["manifest"]
        /\ act.pc \in {"bind", "write"} =>
               dir["manifest"] \in Packs /\ \A f \in PackFiles : dir[f] = dir["manifest"]
        /\ act.pc = "write" => ForThisNode

RealmInv ==
    /\ RealmTypeOK /\ RunKnows /\ SovereignOnOwnPack
    /\ act \in [pc : {"idle", "signature", "bind", "write"}, clean : BOOLEAN]
    /\ left \in [pack : Packs \cup {"none"}, files : SUBSET PackFiles]
    /\ left.files # {} => left.pack \in Packs

LEMMA RealmInvInit == RealmInit => RealmInv
<1> SUFFICES ASSUME RealmInit PROVE RealmInv
    OBVIOUS
<1>1. RealmTypeOK
      BY DEF RealmInit, RealmTypeOK, EmptyDir, NotActivating
<1>2. RunKnows /\ SovereignOnOwnPack
      BY DEF RealmInit, RunKnows, SovereignOnOwnPack, NotActivating
<1>3. /\ act \in [pc : {"idle", "signature", "bind", "write"}, clean : BOOLEAN]
      /\ left \in [pack : Packs \cup {"none"}, files : SUBSET PackFiles]
      /\ left.files = {}
      BY DEF RealmInit, NotActivating, Nothing
<1> QED  BY <1>1, <1>2, <1>3 DEF RealmInv

LEMMA AuthorityCopies ==
    ASSUME RealmInv, (\E p \in Packs : ProvisionPack(p)) \/ CopyPackFile
    PROVE  RealmInv'
<1>1. CASE \E p \in Packs : ProvisionPack(p)
      <2>1. /\ left' \in [pack : Packs \cup {"none"}, files : SUBSET PackFiles]
            /\ left'.pack \in Packs /\ UNCHANGED <<dir, nodeState, act, activated>>
            BY <1>1 DEF ProvisionPack
      <2> QED  BY <2>1 DEF RealmInv, RealmTypeOK, RunKnows, SovereignOnOwnPack, ForThisNode
<1>2. CASE CopyPackFile
      <2>1. /\ act' \in [pc : {"idle", "signature", "bind", "write"}, clean : BOOLEAN]
            /\ ~act'.clean /\ UNCHANGED <<nodeState, activated>>
            BY <1>2 DEF CopyPackFile, RealmInv
      <2>2. dir' \in Files
            <3>1. dir \in Files /\ left.pack \in Packs
                  BY <1>2 DEF CopyPackFile, RealmInv, RealmTypeOK, Files
            <3>2. CASE \E f \in PackFiles : dir[f] = "torn"
                  <4>1. dir' = [f \in PackFiles |-> IF dir[f] = "torn" THEN left.pack ELSE dir[f]]
                        BY <1>2, <3>2 DEF CopyPackFile
                  <4> QED  BY <3>1, <4>1 DEF Files
            <3>3. CASE ~\E f \in PackFiles : dir[f] = "torn"
                  <4>1. \E f \in left.files : dir' = [dir EXCEPT ![f] = "torn"]
                        BY <1>2, <3>3 DEF CopyPackFile
                  <4> QED  BY <3>1, <4>1 DEF Files
            <3> QED  BY <3>2, <3>3
      <2>3. /\ left' \in [pack : Packs \cup {"none"}, files : SUBSET PackFiles]
            /\ left'.files # {} => left'.pack \in Packs
            BY <1>2 DEF CopyPackFile, RealmInv
      <2> QED  BY <2>1, <2>2, <2>3 DEF RealmInv, RealmTypeOK, RunKnows, SovereignOnOwnPack, Files
<1> QED  BY <1>1, <1>2

\* A step of a run that copies nothing and does not end with an activation.
LEMMA RealmRunKeeps ==
    ASSUME RealmInv, UNCHANGED <<dir, left, activated>>, RunKnows',
           nodeState' \in {"pending", "sovereign", ""},
           act' \in [pc : {"idle", "signature", "bind", "write"}, clean : BOOLEAN]
    PROVE  RealmInv'
BY DEF RealmInv, RealmTypeOK, SovereignOnOwnPack

LEMMA RealmRuns ==
    ASSUME RealmInv, HashPack \/ CheckManifest \/ Bind \/ LoseRun \/ UNCHANGED realmVars
    PROVE  RealmInv'
<1>0. UNCHANGED <<dir, left, activated>>
      BY DEF HashPack, CheckManifest, Bind, LoseRun, realmVars
<1>1. CASE HashPack
      <2>1. act' = [pc |-> "signature", clean |-> TRUE] /\ UNCHANGED nodeState
            BY <1>1 DEF HashPack
      <2>2. dir["manifest"] # "torn" =>
               dir["manifest"] # "none" /\ \A f \in Listed : dir[f] = dir["manifest"]
            BY <1>1 DEF HashPack
      <2>3. RunKnows'
            BY <1>0, <2>1, <2>2 DEF RunKnows
      <2> QED  BY <1>0, <2>1, <2>3, RealmRunKeeps DEF RealmInv, RealmTypeOK
<1>2. act' = NotActivating => RunKnows'
      BY DEF NotActivating, RunKnows
<1>3. CASE CheckManifest
      <2>1. CASE Endorsed /\ dir["certs"] # "none"
            <3>1. act' = [act EXCEPT !.pc = "bind"] /\ UNCHANGED nodeState /\ act.pc = "signature"
                  BY <1>3, <2>1 DEF CheckManifest
            <3>2. act'.pc = "bind" /\ act'.clean = act.clean
                  BY <3>1 DEF RealmInv
            <3>3. act.clean => dir["manifest"] \in Packs /\ \A f \in PackFiles : dir[f] = dir["manifest"]
                  BY <2>1, <3>1 DEF Endorsed, RealmInv, RunKnows, PackFiles, Packs
            <3>4. RunKnows'
                  BY <1>0, <3>2, <3>3 DEF RunKnows
            <3>5. act' \in [pc : {"idle", "signature", "bind", "write"}, clean : BOOLEAN]
                  BY <3>1 DEF RealmInv
            <3> QED  BY <1>0, <3>1, <3>4, <3>5, RealmRunKeeps DEF RealmInv, RealmTypeOK
      <2>2. CASE ~(Endorsed /\ dir["certs"] # "none")
            BY <1>0, <1>2, <1>3, <2>2, RealmRunKeeps DEF CheckManifest, NotActivating, RealmInv, RealmTypeOK
      <2> QED  BY <2>1, <2>2
<1>4. CASE Bind
      <2>1. CASE ForThisNode
            <3>1. act' = [act EXCEPT !.pc = "write"] /\ UNCHANGED nodeState /\ act.pc = "bind"
                  BY <1>4, <2>1 DEF Bind
            <3>2. act'.pc = "write" /\ act'.clean = act.clean
                  BY <3>1 DEF RealmInv
            <3>3. RunKnows'
                  BY <1>0, <2>1, <3>1, <3>2 DEF RunKnows, RealmInv, ForThisNode
            <3>4. act' \in [pc : {"idle", "signature", "bind", "write"}, clean : BOOLEAN]
                  BY <3>1 DEF RealmInv
            <3> QED  BY <1>0, <3>1, <3>3, <3>4, RealmRunKeeps DEF RealmInv, RealmTypeOK
      <2>2. CASE ~ForThisNode
            BY <1>0, <1>2, <1>4, <2>2, RealmRunKeeps DEF Bind, NotActivating, RealmInv, RealmTypeOK
      <2> QED  BY <2>1, <2>2
<1>5. CASE LoseRun
      BY <1>0, <1>2, <1>5, RealmRunKeeps DEF LoseRun, NotActivating, RealmInv, RealmTypeOK
<1>6. CASE UNCHANGED realmVars
      BY <1>6, RealmRunKeeps DEF realmVars, RealmInv, RealmTypeOK, RunKnows, ForThisNode
<1> QED  BY <1>1, <1>3, <1>4, <1>5, <1>6

LEMMA ActivationKeeps ==
    ASSUME RealmInv, Activate
    PROVE  RealmInv'
<1>1. act' = NotActivating /\ act.pc = "write" /\ UNCHANGED <<dir, left>>
      BY DEF Activate
<1>2. RunKnows' /\ act' \in [pc : {"idle", "signature", "bind", "write"}, clean : BOOLEAN]
      BY <1>1 DEF NotActivating, RunKnows
<1>3. CASE UNCHANGED <<nodeState, activated>>
      BY <1>1, <1>2, <1>3, RealmRunKeeps DEF RealmInv, RealmTypeOK
<1>4. CASE nodeState' = "sovereign" /\ activated' = [clean |-> act.clean, dir |-> dir]
      <2>1. act.clean => \A f \in PackFiles : dir[f] = "own"
            BY <1>1 DEF RealmInv, RunKnows, ForThisNode, PackFiles, Listed, Packs
      <2>2. activated'.clean = act.clean /\ activated'.dir = dir /\ act.clean \in BOOLEAN
            BY <1>4 DEF RealmInv
      <2>3. SovereignOnOwnPack' /\ activated'.clean \in BOOLEAN
            BY <2>1, <2>2 DEF SovereignOnOwnPack
      <2> QED  BY <1>1, <1>2, <1>4, <2>3 DEF RealmInv, RealmTypeOK
<1> QED  BY <1>3, <1>4 DEF Activate

LEMMA RealmInvStep == RealmInv /\ [RealmNext]_realmVars => RealmInv'
BY AuthorityCopies, RealmRuns, ActivationKeeps DEF RealmNext, RealmCycle


-----------------------------------------------------------------------------
(***************************************************************************)
(* The grants of the authority: whatever is granted and revoked, every     *)
(* verdict is one of those the readers know.                               *)
(***************************************************************************)
LEMMA GrantsTypeInit == GrantsInit => GrantsTypeOK
<1> SUFFICES ASSUME GrantsInit PROVE GrantsTypeOK
    OBVIOUS
<1>1. now \in 0..MaxNow
      BY GrantsAssumption DEF GrantsInit
<1> QED  BY <1>1 DEF GrantsInit, GrantsTypeOK, DelegStates

LEMMA GrantsTypeStep == GrantsTypeOK /\ [IamNext \/ MintNext]_grantVars => GrantsTypeOK'
<1> SUFFICES ASSUME GrantsTypeOK, [IamNext \/ MintNext]_grantVars PROVE GrantsTypeOK'
    OBVIOUS
<1>1. CASE Tick
      <2>1. now' \in 0..MaxNow
            BY <1>1, GrantsAssumption DEF Tick, GrantsTypeOK
      <2> QED  BY <1>1, <2>1 DEF Tick, GrantsTypeOK
<1>2. CASE EditDelegation
      BY <1>2 DEF EditDelegation, GrantsTypeOK
<1>3. CASE EditIam
      BY <1>3 DEF EditIam, GrantsTypeOK
<1>4. CASE EditMint
      BY <1>4 DEF EditMint, GrantsTypeOK
<1>5. CASE IamCycle
      <2>1. UNCHANGED <<now, anchor, deleg, tokens, mintVerdict>>
            BY <1>5 DEF IamCycle, ReadDelegations, ReadPolicy, JudgeTokens, grantInputs
      <2>2. iamVerdict' \in {iamVerdict, "SIN_ANCLA", "ANCLA_SIN_DELEGACIONES", "NO_CONFORME",
                             "CADENA_VALIDA_CON_TOKENS_RECHAZADOS", "CADENA_VALIDA"}
            <3>1. \A d, present, valid :
                      ChainVerdict(d, present, valid) \in
                          {"ANCLA_SIN_DELEGACIONES", "NO_CONFORME",
                           "CADENA_VALIDA_CON_TOKENS_RECHAZADOS", "CADENA_VALIDA"}
                  BY DEF ChainVerdict
            <3>2. CASE ReadDelegations \/ ReadPolicy
                  BY <3>2 DEF ReadDelegations, ReadPolicy, IamDone
            <3>3. CASE JudgeTokens
                  BY <3>1, <3>3 DEF JudgeTokens, IamDone
            <3> QED  BY <1>5, <3>2, <3>3 DEF IamCycle
      <2> QED  BY <2>1, <2>2 DEF GrantsTypeOK
<1>6. CASE MintCycle
      BY <1>6 DEF MintCycle, CheckCert, ReadFields, JudgeMint, grantInputs, GrantsTypeOK
<1>7. CASE BreakRun
      BY <1>7 DEF BreakRun, grantInputs, GrantsTypeOK
<1>8. CASE UNCHANGED grantVars
      BY <1>8 DEF grantVars, grantInputs, GrantsTypeOK
<1> QED  BY <1>1, <1>2, <1>3, <1>4, <1>5, <1>6, <1>7, <1>8 DEF IamNext, MintNext


-----------------------------------------------------------------------------
(***************************************************************************)
(* The code the node writes, with one process of the service.              *)
(***************************************************************************)
Records == [task : Tasks, prev : Seq(Tasks), sound : BOOLEAN]

\* The hash of the first i lines, and a ledger in which every line bears that
\* of those before it.
HashAt(l, i) == IF i = 0 THEN <<>> ELSE Append(l[i].prev, l[i].task)
Linked(l) == \A i \in 1..Len(l) : l[i].prev = HashAt(l, i - 1)

LEMMA HashIsAt ==
    ASSUME NEW l \in Seq(Records)
    PROVE  /\ HashOf(l) = HashAt(l, Len(l))
           /\ \A i \in 0..Len(l) : HashOf(SubSeq(l, 1, i)) = HashAt(l, i)
<1>0. Len(l) \in Nat
      BY LenProperties
<1>1. ASSUME NEW i \in 0..Len(l)
      PROVE  HashOf(SubSeq(l, 1, i)) = HashAt(l, i)
      <2> DEFINE s == SubSeq(l, 1, i)
      <2>1. /\ s \in Seq(Records) /\ Len(s) = i - 1 + 1
            /\ \A j \in 1..i - 1 + 1 : s[j] = l[1 + j - 1]
            <3>1. 1 \in 1..Len(l) + 1 /\ i \in 1 - 1..Len(l)
                  BY <1>0
            <3> QED  BY <3>1, SubSeqProperties
      <2> HIDE DEF s
      <2>2. Len(s) = i
            BY <1>0, <2>1
      <2>3. CASE i = 0
            BY <2>1, <2>2, <2>3, EmptySeq DEF HashOf, HashAt, s
      <2>4. CASE i # 0
            <3>1. i \in 1..i - 1 + 1 /\ 1 + i - 1 = i
                  BY <1>0, <2>4
            <3>2. s[i] = l[i] /\ s # <<>>
                  BY <2>1, <2>2, <2>4, <3>1, EmptySeq
            <3> QED  BY <2>2, <2>4, <3>2 DEF HashOf, HashAt, Last, s
      <2> QED  BY <2>3, <2>4
<1>2. HashOf(l) = HashAt(l, Len(l))
      <2>1. CASE l = <<>>
            BY <2>1, EmptySeq DEF HashOf, HashAt
      <2>2. CASE l # <<>>
            BY <2>2, EmptySeq DEF HashOf, HashAt, Last
      <2> QED  BY <2>1, <2>2
<1> QED  BY <1>1, <1>2

LEMMA LinkedIsChained ==
    ASSUME lineage \in Seq(Records), Linked(lineage)
    PROVE  LineageChained
<1> SUFFICES ASSUME NEW i \in DOMAIN lineage
             PROVE  lineage[i].prev = HashOf(SubSeq(lineage, 1, i - 1))
    BY DEF LineageChained
<1>1. Len(lineage) \in Nat /\ i \in 1..Len(lineage)
      BY LenProperties
<1>2. i - 1 \in 0..Len(lineage)
      BY <1>1
<1> QED  BY <1>1, <1>2, HashIsAt DEF Linked

LEMMA LinkedGrows ==
    ASSUME NEW l \in Seq(Records), Linked(l), NEW r \in Records, r.prev = HashOf(l)
    PROVE  Append(l, r) \in Seq(Records) /\ Linked(Append(l, r))
<1> DEFINE t == Append(l, r)
<1>0. Len(l) \in Nat
      BY LenProperties
<1>1. /\ t \in Seq(Records) /\ Len(t) = Len(l) + 1
      /\ \A i \in 1..Len(l) : t[i] = l[i]
      /\ t[Len(l) + 1] = r
      BY AppendProperties
<1> HIDE DEF t
<1>2. ASSUME NEW i \in 1..Len(t)
      PROVE  t[i].prev = HashAt(t, i - 1)
      <2>1. HashAt(t, i - 1) = HashAt(l, i - 1)
            BY <1>0, <1>1 DEF HashAt
      <2>2. CASE i <= Len(l)
            BY <1>0, <1>1, <2>1, <2>2 DEF Linked
      <2>3. CASE ~(i <= Len(l))
            <3>1. i = Len(l) + 1 /\ i - 1 = Len(l)
                  BY <1>0, <1>1, <2>3
            <3> QED  BY <1>1, <2>1, <3>1, HashIsAt
      <2> QED  BY <2>2, <2>3
<1>3. Linked(t)
      BY <1>2 DEF Linked
<1> QED  BY <1>1, <1>3 DEF t

LEMMA LinkedIsCured ==
    ASSUME NEW l \in Seq(Records), Linked(l), l # <<>>
    PROVE  Front(l) \in Seq(Records) /\ Linked(Front(l))
<1> DEFINE t == SubSeq(l, 1, Len(l) - 1)
<1>0. Len(l) \in Nat /\ Len(l) # 0
      BY LenProperties, EmptySeq
<1>1. /\ t \in Seq(Records) /\ Len(t) = (Len(l) - 1) - 1 + 1
      /\ \A j \in 1..(Len(l) - 1) - 1 + 1 : t[j] = l[1 + j - 1]
      <2> DEFINE m == Len(l) - 1
      <2>1. 1 \in 1..Len(l) + 1 /\ m \in 1 - 1..Len(l)
            BY <1>0
      <2> HIDE DEF m
      <2>2. /\ SubSeq(l, 1, m) \in Seq(Records) /\ Len(SubSeq(l, 1, m)) = m - 1 + 1
            /\ \A j \in 1..m - 1 + 1 : SubSeq(l, 1, m)[j] = l[1 + j - 1]
            BY <2>1, SubSeqProperties
      <2> QED  BY <2>2 DEF m
<1> HIDE DEF t
<1>2. Len(t) = Len(l) - 1 /\ \A j \in 1..Len(t) : t[j] = l[j] /\ j \in 1..Len(l)
      BY <1>0, <1>1
<1>3. ASSUME NEW i \in 1..Len(t)
      PROVE  t[i].prev = HashAt(t, i - 1)
      <2>1. HashAt(t, i - 1) = HashAt(l, i - 1)
            BY <1>0, <1>2 DEF HashAt
      <2> QED  BY <1>2, <2>1 DEF Linked
<1>4. Linked(t)
      BY <1>3 DEF Linked
<1> QED  BY <1>1, <1>4 DEF t, Front

LEMMA LinkedIsTorn ==
    ASSUME NEW l \in Seq(Records), Linked(l), l # <<>>
    PROVE  LET t == [l EXCEPT ![Len(l)].sound = FALSE]
           IN  t \in Seq(Records) /\ Linked(t)
<1> DEFINE n == Len(l)
           r == [l[n] EXCEPT !.sound = FALSE]
           t == [l EXCEPT ![n] = r]
<1>0. n \in 1..Len(l) /\ n \in Nat /\ n = Len(l) /\ l \in [1..Len(l) -> Records]
      BY LenProperties, EmptySeq
<1>1. r \in Records /\ r.prev = l[n].prev /\ r.task = l[n].task
      BY <1>0 DEF Records
<1>3. t = [l EXCEPT ![Len(l)].sound = FALSE]
      OBVIOUS
<1> HIDE DEF r, n
<1>4. t \in Seq(Records) /\ Len(t) = Len(l) /\ \A i \in 1..Len(l) : t[i] = IF i = n THEN r ELSE l[i]
      <2>1. t \in Seq(Records)
            BY <1>0, <1>1, ExceptSeq
      <2>2. Len(t) = Len(l)
            BY <1>0, <1>1, ExceptSeq
      <2>3. \A i \in 1..Len(l) : t[i] = IF i = n THEN r ELSE l[i]
            BY <1>0
      <2> QED  BY <2>1, <2>2, <2>3
<1> HIDE DEF t
<1>5. \A i \in 1..Len(l) : t[i].prev = l[i].prev /\ t[i].task = l[i].task
      BY <1>1, <1>4
<1>6. ASSUME NEW i \in 1..Len(t)
      PROVE  t[i].prev = HashAt(t, i - 1)
      <2>1. HashAt(t, i - 1) = HashAt(l, i - 1)
            <3>1. Len(l) \in Nat /\ i \in 1..Len(l)
                  BY <1>4, LenProperties
            <3>2. i - 1 = 0 \/ i - 1 \in 1..Len(l)
                  BY <3>1
            <3> QED  BY <1>5, <3>2 DEF HashAt
      <2> QED  BY <1>4, <1>5, <2>1 DEF Linked
<1>7. t \in Seq(Records) /\ Linked(t)
      BY <1>4, <1>6 DEF Linked
<1> QED  BY <1>3, <1>7

-----------------------------------------------------------------------------
Passed(c) == c.quality \in {"good", "none"}
Steps == {"ask", "compile", "bench", "policy", "digest", "sign", "contract", "ledger", "append",
          "rename"}
Working == [pc : Steps, task : Tasks, tries : Nat, digest : Contents, prev : Seq(Tasks)]

\* What the process knows of the file, the digest and the ledger at each step.
Knows(r, files, l) ==
    /\ r.pc = "bench" => files[r.task].quality # "syntax"
    /\ r.pc = "policy" => files[r.task].quality \notin {"syntax", "fails"}
    /\ r.pc \in {"digest", "sign"} => Passed(files[r.task])
    /\ r.pc \in {"sign", "contract"} => Passed(r.digest)
    /\ r.pc = "append" => ~TornLineage(l) /\ r.prev = HashOf(l)

CodegenTypes ==
    /\ CodegenTypeOK /\ pieces \in 0..MaxPieces
    /\ lineage \in Seq(Records) /\ Linked(lineage)
    /\ worker = [w \in Workers |-> worker[w]]
    /\ \A w \in Workers : worker[w] = Waiting \/ worker[w] \in Working

CodegenInv ==
    /\ CodegenTypes /\ SignedPassed
    /\ \A w \in Workers : worker[w] = Waiting \/ Knows(worker[w], artefact, lineage)

LEMMA CodegenInvInit == CodegenInit => CodegenInv
<1> SUFFICES ASSUME CodegenInit PROVE CodegenInv
    OBVIOUS
<1>1. NoCode \in Contents /\ NoCode.quality = "none"
      BY DEF Contents, NoCode
<1>2. pieces \in 0..MaxPieces
      BY CodegenAssumption DEF CodegenInit
<1>3. lineage \in Seq(Records) /\ Linked(lineage)
      BY EmptySeq DEF CodegenInit, Linked
<1>4. CodegenTypeOK
      BY <1>1 DEF CodegenInit, CodegenTypeOK, Waiting
<1>5. SignedPassed
      BY <1>1 DEF CodegenInit, SignedPassed
<1> QED  BY <1>2, <1>3, <1>4, <1>5 DEF CodegenInit, CodegenInv, CodegenTypes

-----------------------------------------------------------------------------
\* A step of the one process, after which it waits or knows what it must.
LEMMA WorkerMoves ==
    ASSUME CodegenInv, NEW w, Workers = {w}, NEW r, worker' = [worker EXCEPT ![w] = r],
           r = Waiting \/ (r \in Working /\ Knows(r, artefact', lineage')),
           queued' \subseteq Tasks, identity' = identity,
           artefact' \in [Tasks -> Contents], signature' \in [Tasks -> Contents],
           contract' \in [Tasks -> Contents], pieces' \in 0..MaxPieces,
           lineage' \in Seq(Records), Linked(lineage'), SignedPassed'
    PROVE  CodegenInv'
<1>0. CodegenTypes
      BY DEF CodegenInv
<1>1. worker' = [v \in Workers |-> IF v = w THEN r ELSE worker[v]] /\ worker'[w] = r
      BY <1>0 DEF CodegenTypes
<1>2. worker' = [v \in Workers |-> worker'[v]]
      BY <1>1
<1>3. CodegenTypeOK'
      BY <1>0, <1>1 DEF CodegenTypes, CodegenTypeOK, Working, Steps, Waiting
<1>4. CodegenTypes'
      BY <1>1, <1>2, <1>3 DEF CodegenTypes
<1> QED  BY <1>1, <1>4 DEF CodegenInv

LEMMA CodegenTyped ==
    ASSUME CodegenInv
    PROVE  /\ queued \subseteq Tasks /\ identity \in BOOLEAN /\ pieces \in 0..MaxPieces
           /\ artefact \in [Tasks -> Contents] /\ signature \in [Tasks -> Contents]
           /\ contract \in [Tasks -> Contents]
           /\ lineage \in Seq(Records) /\ Linked(lineage)
BY DEF CodegenInv, CodegenTypes, CodegenTypeOK

LEMMA WorkerRests ==
    ASSUME CodegenInv, NEW w, Workers = {w}, worker' = [worker EXCEPT ![w] = Waiting],
           queued' \subseteq queued, SignedPassed',
           UNCHANGED <<identity, artefact, signature, contract, lineage, pieces>>
    PROVE  CodegenInv'
<1> DEFINE r == Waiting
<1>1. worker' = [worker EXCEPT ![w] = r] /\ r = Waiting
      OBVIOUS
<1> HIDE DEF r
<1>2. queued' \subseteq Tasks /\ pieces' \in 0..MaxPieces
      /\ artefact' \in [Tasks -> Contents] /\ signature' \in [Tasks -> Contents]
      /\ contract' \in [Tasks -> Contents] /\ lineage' \in Seq(Records) /\ Linked(lineage')
      BY CodegenTyped
<1>3. identity' = identity /\ (r = Waiting \/ (r \in Working /\ Knows(r, artefact', lineage')))
      BY <1>1
<1> QED  BY <1>1, <1>2, <1>3, WorkerMoves

\* The process that is at one of its steps.
LEMMA AtWork ==
    ASSUME CodegenInv, NEW w \in Workers, worker[w].pc # "idle"
    PROVE  /\ worker[w] \in Working /\ worker[w].task \in Tasks
           /\ artefact[worker[w].task] \in Contents
           /\ worker[w] = [pc |-> worker[w].pc, task |-> worker[w].task,
                           tries |-> worker[w].tries, digest |-> worker[w].digest,
                           prev |-> worker[w].prev]
           /\ Knows(worker[w], artefact, lineage)
<1>1. worker[w] # Waiting
      BY DEF Waiting
<1>2. worker[w] \in Working /\ Knows(worker[w], artefact, lineage)
      BY <1>1 DEF CodegenInv, CodegenTypes
<1>3. worker[w].task \in Tasks
      BY <1>2 DEF Working
<1>4. artefact[worker[w].task] \in Contents
      BY <1>3 DEF CodegenInv, CodegenTypes, CodegenTypeOK
<1> QED  BY <1>2, <1>3, <1>4 DEF Working

LEMMA TakeKeeps ==
    ASSUME CodegenInv, NEW w, Workers = {w}, NEW t \in Tasks, Take(w, t)
    PROVE  CodegenInv'
<1> DEFINE r == [pc |-> "ask", task |-> t, tries |-> 0, digest |-> NoCode, prev |-> <<>>]
<1>1. r \in Working
      BY EmptySeq DEF Working, Steps, Contents
<1>2. Knows(r, artefact', lineage')
      BY DEF Knows
<1>3. worker' = [worker EXCEPT ![w] = r]
      BY DEF Take
<1> HIDE DEF r
<1>4. SignedPassed'
      BY DEF Take, CodegenInv, SignedPassed
<1> QED  BY <1>1, <1>2, <1>3, <1>4, CodegenTyped, WorkerMoves DEF Take

LEMMA AskKeeps ==
    ASSUME CodegenInv, NEW w, Workers = {w}, Ask(w)
    PROVE  CodegenInv'
<1> DEFINE me == worker[w]
<1>0. me \in Working /\ me.task \in Tasks
      BY AtWork DEF Ask
<1>1. ASSUME NEW pc \in {"ask", "compile", "ledger"}
      PROVE  LET r == [[me EXCEPT !.tries = @ + 1] EXCEPT !.pc = pc]
             IN  r \in Working /\ Knows(r, artefact', lineage')
      <2> DEFINE tried == [me EXCEPT !.tries = @ + 1]
      <2>1. tried \in Working
            BY <1>0 DEF Working
      <2> HIDE DEF tried
      <2> DEFINE r == [tried EXCEPT !.pc = pc]
      <2>2. r \in Working /\ r.pc = pc
            BY <2>1 DEF Working, Steps
      <2>3. Knows(r, artefact', lineage')
            BY <2>2 DEF Knows
      <2> QED  BY <2>2, <2>3 DEF tried
<1>2. PICK pc \in {"ask", "compile", "ledger"} :
          worker' = [worker EXCEPT ![w] = [[me EXCEPT !.tries = @ + 1] EXCEPT !.pc = pc]]
      <2> DEFINE tried == [me EXCEPT !.tries = @ + 1]
      <2>1. \/ worker' = [worker EXCEPT ![w] = [tried EXCEPT !.pc = "compile"]]
            \/ worker' = [worker EXCEPT ![w] =
                   [tried EXCEPT !.pc = IF tried.tries < ATTEMPTS THEN "ask" ELSE "ledger"]]
            BY DEF Ask
      <2> HIDE DEF tried
      <2>2. \E pc \in {"ask", "compile", "ledger"} :
                worker' = [worker EXCEPT ![w] = [tried EXCEPT !.pc = pc]]
            <3>1. CASE tried.tries < ATTEMPTS
                  BY <2>1, <3>1
            <3>2. CASE ~(tried.tries < ATTEMPTS)
                  BY <2>1, <3>2
            <3> QED  BY <3>1, <3>2
      <2> QED  BY <2>2 DEF tried
<1> DEFINE r == [[me EXCEPT !.tries = @ + 1] EXCEPT !.pc = pc]
<1>3. r \in Working /\ Knows(r, artefact', lineage') /\ worker' = [worker EXCEPT ![w] = r]
      BY <1>1, <1>2
<1>4. SignedPassed'
      BY DEF Ask, CodegenInv, SignedPassed
<1>5. artefact' \in [Tasks -> Contents] /\ pieces' \in 0..MaxPieces
      <2>1. CASE UNCHANGED <<artefact, pieces>>
            BY <2>1 DEF CodegenInv, CodegenTypes, CodegenTypeOK
      <2>2. CASE /\ pieces < MaxPieces /\ pieces' = pieces + 1
                 /\ \E q \in Qualities : artefact' = [artefact EXCEPT ![me.task] =
                                                          [n |-> pieces + 1, quality |-> q]]
            <3>1. PICK q \in Qualities :
                      artefact' = [artefact EXCEPT ![me.task] = [n |-> pieces + 1, quality |-> q]]
                  BY <2>2
            <3>2. pieces + 1 \in 1..MaxPieces /\ pieces + 1 \in 0..MaxPieces
                  BY <2>2, CodegenAssumption DEF CodegenInv, CodegenTypes
            <3>3. [n |-> pieces + 1, quality |-> q] \in Contents
                  BY <3>2 DEF Contents
            <3> QED  BY <2>2, <3>1, <3>2, <3>3 DEF CodegenInv, CodegenTypes, CodegenTypeOK
      <2> QED  BY <2>1, <2>2 DEF Ask
<1> HIDE DEF r, me
<1> QED  BY <1>3, <1>4, <1>5, CodegenTyped, WorkerMoves DEF Ask

LEMMA GateKeeps ==
    ASSUME CodegenInv, NEW w, Workers = {w}, Compile(w) \/ Bench(w) \/ Policy(w)
    PROVE  CodegenInv'
<1> DEFINE me == worker[w]
<1>0. /\ me \in Working /\ me.task \in Tasks
      /\ artefact[me.task] \in Contents /\ Knows(me, artefact, lineage)
      BY AtWork DEF Compile, Bench, Policy, Gate
<1>1. ASSUME NEW pc \in {"ask", "ledger"}
      PROVE  LET r == [me EXCEPT !.pc = pc]
             IN  r \in Working /\ Knows(r, artefact, lineage)
      BY <1>0 DEF Working, Steps, Knows
<1>2. ASSUME NEW pc \in {"bench", "policy", "digest"},
             pc = "bench" => artefact[me.task].quality # "syntax",
             pc = "policy" => artefact[me.task].quality \notin {"syntax", "fails"},
             pc = "digest" => Passed(artefact[me.task])
      PROVE  LET r == [me EXCEPT !.pc = pc]
             IN  r \in Working /\ Knows(r, artefact, lineage)
      BY <1>0, <1>2 DEF Working, Steps, Knows
<1>3. \E pc \in Steps : /\ worker' = [worker EXCEPT ![w].pc = pc]
                        /\ LET r == [me EXCEPT !.pc = pc]
                           IN  r \in Working /\ Knows(r, artefact, lineage)
      <2>1. CASE worker' = [worker EXCEPT ![w].pc = "ask"]
            BY <2>1, <1>1 DEF Steps
      <2>2. CASE worker' = [worker EXCEPT ![w].pc = "ledger"]
            BY <2>2, <1>1 DEF Steps
      <2>3. CASE worker' = [worker EXCEPT ![w].pc = "bench"]
                 /\ artefact[me.task].quality # "syntax"
            BY <2>3, <1>2 DEF Steps
      <2>4. CASE worker' = [worker EXCEPT ![w].pc = "policy"]
                 /\ artefact[me.task].quality \notin {"syntax", "fails"}
            BY <2>4, <1>2 DEF Steps
      <2>5. CASE worker' = [worker EXCEPT ![w].pc = "digest"] /\ Passed(artefact[me.task])
            BY <2>5, <1>2 DEF Steps
      <2>6. CASE Compile(w)
            BY <2>1, <2>2, <2>3, <2>6 DEF Compile, Gate, Again, Goto, Mine
      <2>7. CASE Bench(w)
            BY <2>1, <2>2, <2>4, <2>7 DEF Bench, Gate, Again, Goto, Mine
      <2>8. CASE Policy(w)
            <3>1. artefact[me.task].quality \notin {"syntax", "fails"}
                  BY <1>0, <2>8 DEF Policy, Gate, Knows
            <3>2. artefact[me.task].quality # "vetoed" => Passed(artefact[me.task])
                  BY <1>0, <3>1 DEF Contents, Qualities, NoCode, Passed
            <3> QED  BY <2>1, <2>2, <2>5, <2>8, <3>2 DEF Policy, Gate, Again, Goto, Mine
      <2> QED  BY <2>6, <2>7, <2>8
<1>4. PICK pc \in Steps : /\ worker' = [worker EXCEPT ![w].pc = pc]
                          /\ LET r == [me EXCEPT !.pc = pc]
                             IN  r \in Working /\ Knows(r, artefact, lineage)
      BY <1>3
<1> DEFINE r == [me EXCEPT !.pc = pc]
<1>5. worker' = [worker EXCEPT ![w] = r] /\ r \in Working /\ Knows(r, artefact, lineage)
      BY <1>4
<1> HIDE DEF r, me
<1>6. UNCHANGED <<queued, identity, artefact, signature, contract, lineage, pieces>>
      BY DEF Compile, Bench, Policy, Gate
<1>7. SignedPassed'
      BY <1>6 DEF CodegenInv, SignedPassed
<1> QED  BY <1>5, <1>6, <1>7, CodegenTyped, WorkerMoves

LEMMA SignKeeps ==
    ASSUME CodegenInv, NEW w, Workers = {w}, Digest(w) \/ Sign(w) \/ WriteContract(w)
    PROVE  CodegenInv'
<1> DEFINE me == worker[w]
<1>0. /\ me \in Working /\ me.task \in Tasks
      /\ artefact[me.task] \in Contents /\ Knows(me, artefact, lineage)
      BY AtWork DEF Digest, Sign, WriteContract
<1> HIDE DEF me
<1>1. UNCHANGED <<queued, identity, artefact, lineage, pieces>>
      BY DEF Digest, Sign, WriteContract
<1>2. me.digest \in Contents
      BY <1>0 DEF Working
<1>3. CASE Digest(w)
      <2> DEFINE r == [me EXCEPT !.digest = artefact[me.task], !.pc = "sign"]
      <2>1. r \in Working
            BY <1>0 DEF Working, Steps
      <2>2. r.pc = "sign" /\ r.task = me.task /\ r.digest = artefact[me.task]
            BY <1>0 DEF Working
      <2>3. worker' = [worker EXCEPT ![w] = r]
            BY <1>3 DEF Digest, Mine, me
      <2>4. Passed(artefact[me.task])
            BY <1>0, <1>3 DEF Knows, Digest, me
      <2> HIDE DEF r
      <2>5. Knows(r, artefact', lineage')
            BY <1>1, <2>2, <2>4 DEF Knows
      <2>6. SignedPassed' /\ UNCHANGED <<signature, contract>>
            BY <1>3 DEF Digest, CodegenInv, SignedPassed
      <2> QED  BY <1>1, <2>1, <2>3, <2>5, <2>6, CodegenTyped, WorkerMoves
<1>4. CASE Sign(w)
      <2>0. Passed(artefact[me.task]) /\ Passed(me.digest)
            BY <1>0, <1>4 DEF Knows, Sign, me
      <2>1. ASSUME NEW pc \in {"contract", "ledger"}
            PROVE  LET r == [me EXCEPT !.pc = pc] IN r \in Working /\ Knows(r, artefact', lineage')
            BY <1>0, <2>0 DEF Working, Steps, Knows
      <2>2. PICK pc \in {"contract", "ledger"} : worker' = [worker EXCEPT ![w].pc = pc]
            BY <1>4 DEF Sign, Goto
      <2> DEFINE r == [me EXCEPT !.pc = pc]
      <2>3. worker' = [worker EXCEPT ![w] = r] /\ r \in Working /\ Knows(r, artefact', lineage')
            BY <2>1, <2>2 DEF me
      <2> HIDE DEF r
      <2>4. signature' = signature \/ signature' = [signature EXCEPT ![me.task] = artefact[me.task]]
            BY <1>4 DEF Sign, Mine, me
      <2>5. signature' \in [Tasks -> Contents] /\ contract' = contract
            BY <1>0, <1>4, <2>4 DEF Sign, CodegenInv, CodegenTypes, CodegenTypeOK
      <2>6. SignedPassed'
            BY <1>0, <2>0, <2>4, <2>5 DEF CodegenInv, CodegenTypes, CodegenTypeOK, SignedPassed, Passed
      <2> QED  BY <1>1, <2>3, <2>5, <2>6, CodegenTyped, WorkerMoves
<1>5. CASE WriteContract(w)
      <2>0. Passed(me.digest)
            BY <1>0, <1>5 DEF Knows, WriteContract, me
      <2> DEFINE r == [me EXCEPT !.pc = "ledger"]
      <2>3. worker' = [worker EXCEPT ![w] = r] /\ r \in Working /\ Knows(r, artefact', lineage')
            BY <1>0, <1>5 DEF me, Working, Steps, Knows, WriteContract, Goto
      <2> HIDE DEF r
      <2>4. contract' = [contract EXCEPT ![me.task] = me.digest] /\ signature' = signature
            BY <1>5 DEF WriteContract, me
      <2>5. contract' \in [Tasks -> Contents]
            BY <1>0, <1>2, <2>4 DEF CodegenInv, CodegenTypes, CodegenTypeOK
      <2>6. SignedPassed'
            BY <1>0, <2>0, <2>4 DEF CodegenInv, CodegenTypes, CodegenTypeOK, SignedPassed, Passed
      <2> QED  BY <1>1, <2>3, <2>4, <2>5, <2>6, CodegenTyped, WorkerMoves
<1> QED  BY <1>3, <1>4, <1>5

LEMMA LineageKeeps ==
    ASSUME CodegenInv, NEW w, Workers = {w}, ReadLineage(w) \/ AppendLineage(w) \/ Finish(w)
    PROVE  CodegenInv'
<1> DEFINE me == worker[w]
<1>0. me \in Working /\ me.task \in Tasks /\ Knows(me, artefact, lineage)
      BY AtWork DEF ReadLineage, AppendLineage, Finish
<1> HIDE DEF me
<1>1. UNCHANGED <<identity, artefact, signature, contract, pieces>> /\ queued' \subseteq queued
      BY DEF ReadLineage, AppendLineage, Finish
<1>2. SignedPassed'
      BY <1>1 DEF CodegenInv, SignedPassed
<1>3. lineage \in Seq(Records) /\ Linked(lineage)
      BY DEF CodegenInv, CodegenTypes
<1>4. CASE ReadLineage(w)
      <2>1. CASE TornLineage(lineage)
            <3>1. worker' = [worker EXCEPT ![w] = Waiting] /\ lineage' = lineage
                  BY <1>4, <2>1 DEF ReadLineage
            <3> QED  BY <1>1, <1>2, <3>1, WorkerRests
      <2>2. CASE ~TornLineage(lineage)
            <3> DEFINE h == HashOf(lineage)
                       r == [me EXCEPT !.pc = "append", !.prev = h]
            <3>0. h \in Seq(Tasks)
                  <4>1. CASE lineage = <<>>
                        BY <4>1, EmptySeq DEF HashOf
                  <4>2. CASE lineage # <<>>
                        <5>1. Len(lineage) \in 1..Len(lineage)
                              BY <1>3, <4>2, EmptySeq, LenProperties
                        <5>2. lineage[Len(lineage)] \in Records
                              BY <1>3, <5>1, ElementOfSeq
                        <5>3. /\ Last(lineage).prev \in Seq(Tasks)
                              /\ Last(lineage).task \in Tasks
                              BY <5>2 DEF Last, Records
                        <5> QED  BY <4>2, <5>3, AppendProperties DEF HashOf
                  <4> QED  BY <4>1, <4>2
            <3>1. worker' = [worker EXCEPT ![w] = r] /\ lineage' = lineage
                  BY <1>4, <2>2 DEF ReadLineage, me
            <3> HIDE DEF h
            <3>2. r \in Working /\ r.pc = "append" /\ r.prev = h
                  BY <1>0, <3>0 DEF Working, Steps
            <3> HIDE DEF r
            <3>3. Knows(r, artefact', lineage')
                  BY <2>2, <3>1, <3>2 DEF Knows, h
            <3> QED  BY <1>1, <1>2, <1>3, <3>1, <3>2, <3>3, CodegenTyped, WorkerMoves
      <2> QED  BY <2>1, <2>2
<1>5. CASE AppendLineage(w)
      <2> DEFINE r == [me EXCEPT !.pc = "rename"]
                 l == [task |-> me.task, prev |-> me.prev, sound |-> TRUE]
      <2>1. r \in Working /\ r.pc = "rename"
            BY <1>0 DEF Working, Steps
      <2>2. l \in Records /\ l.prev = HashOf(lineage)
            BY <1>0, <1>5 DEF Working, Records, Knows, AppendLineage, me
      <2>3. worker' = [worker EXCEPT ![w] = r] /\ lineage' = Append(lineage, l)
            BY <1>5 DEF AppendLineage, Goto, me
      <2> HIDE DEF r, l
      <2>4. lineage' \in Seq(Records) /\ Linked(lineage')
            BY <1>3, <2>2, <2>3, LinkedGrows
      <2>5. Knows(r, artefact', lineage')
            BY <2>1 DEF Knows
      <2> QED  BY <1>1, <1>2, <2>1, <2>3, <2>4, <2>5, CodegenTyped, WorkerMoves
<1>6. CASE Finish(w)
      <2>1. worker' = [worker EXCEPT ![w] = Waiting] /\ lineage' = lineage
            BY <1>6 DEF Finish
      <2> QED  BY <1>1, <1>2, <2>1, WorkerRests
<1> QED  BY <1>4, <1>5, <1>6

\* What happens to the process and to its ledger.
LEMMA FaultKeeps ==
    ASSUME CodegenInv, NEW w, Workers = {w},
           Install \/ KillWorker(w) \/ TearLineage \/ CureLineage
    PROVE  CodegenInv'
<1>0. /\ UNCHANGED <<queued, artefact, signature, contract, pieces>> /\ identity' \in BOOLEAN
      /\ lineage \in Seq(Records) /\ Linked(lineage)
      BY DEF Install, KillWorker, TearLineage, CureLineage, CodegenInv, CodegenTypes,
             CodegenTypeOK
<1>1. SignedPassed'
      BY <1>0 DEF CodegenInv, SignedPassed
<1>2. CASE Install
      <2>1. UNCHANGED <<worker, lineage>>
            BY <1>2 DEF Install
      <2> QED  BY <1>0, <1>1, <2>1 DEF CodegenInv, CodegenTypes, CodegenTypeOK
<1>3. CASE KillWorker(w)
      <2>1. worker' = [worker EXCEPT ![w] = Waiting] /\ UNCHANGED <<identity, lineage>>
            BY <1>3 DEF KillWorker
      <2> QED  BY <1>0, <1>1, <2>1, WorkerRests
<1>4. CASE TearLineage
      <2>1. lineage' \in Seq(Records) /\ Linked(lineage')
            <3>1. /\ lineage # <<>> /\ lineage' = [lineage EXCEPT ![Len(lineage)].sound = FALSE]
                  BY <1>4 DEF TearLineage
            <3> QED  BY <1>0, <3>1, LinkedIsTorn
      <2>2. worker' = [v \in Workers |-> Waiting]
            BY <1>4 DEF TearLineage
      <2>3. worker' = [v \in Workers |-> worker'[v]] /\ \A v \in Workers : worker'[v] = Waiting
            BY <2>2
      <2>4. CodegenTypeOK'
            BY <1>0, <2>3 DEF CodegenInv, CodegenTypes, CodegenTypeOK, Waiting
      <2> QED  BY <1>0, <1>1, <2>1, <2>3, <2>4 DEF CodegenInv, CodegenTypes
<1>5. CASE CureLineage
      <2>1. lineage' \in Seq(Records) /\ Linked(lineage') /\ UNCHANGED <<worker, identity>>
            BY <1>0, <1>5, LinkedIsCured DEF CureLineage, TornLineage
      <2>2. ASSUME worker[w] # Waiting
            PROVE  Knows(worker[w], artefact', lineage')
            <3>1. Knows(worker[w], artefact, lineage) /\ TornLineage(lineage)
                  BY <1>5, <2>2 DEF CodegenInv, CureLineage
            <3> QED  BY <1>0, <3>1 DEF Knows
      <2>3. CodegenTypes'
            BY <1>0, <2>1 DEF CodegenInv, CodegenTypes, CodegenTypeOK
      <2> QED  BY <1>1, <2>1, <2>2, <2>3 DEF CodegenInv
<1> QED  BY <1>2, <1>3, <1>4, <1>5

LEMMA CodegenInvStep ==
    ASSUME NEW w, Workers = {w}, CodegenInv, [CodegenNext]_codegenVars
    PROVE  CodegenInv'
<1>1. CASE \/ \E t \in Tasks : Take(w, t)
           \/ Ask(w) \/ Compile(w) \/ Bench(w) \/ Policy(w) \/ Digest(w) \/ Sign(w)
           \/ WriteContract(w) \/ ReadLineage(w) \/ AppendLineage(w) \/ Finish(w)
      BY <1>1, TakeKeeps, AskKeeps, GateKeeps, SignKeeps, LineageKeeps
<1>2. CASE Install \/ KillWorker(w) \/ TearLineage \/ CureLineage
      BY <1>2, FaultKeeps
<1>3. CASE UNCHANGED codegenVars
      <2>1. UNCHANGED <<queued, identity, artefact, signature, contract, lineage, worker, pieces>>
            BY <1>3 DEF codegenVars
      <2> QED  BY <2>1 DEF CodegenInv, CodegenTypes, CodegenTypeOK, SignedPassed
<1> QED  BY <1>1, <1>2, <1>3 DEF CodegenNext, WorkerStep

LEMMA CodegenIsSound == CodegenInv => CodegenTypeOK /\ SignedPassed /\ LineageChained
BY LinkedIsChained DEF CodegenInv, CodegenTypes

-----------------------------------------------------------------------------
(***************************************************************************)
(* The verdict of governance.                                              *)
(***************************************************************************)
USE DEF NoGuard, Verdicts

\* The prover's view of the ledger: a line is added, the oldest one goes.
LEMMA LedgerGrows ==
    ASSUME NEW s \in Seq(Lines), Len(s) <= 2, NEW l \in Lines
    PROVE  LET t == Append(IF Len(s) < 2 THEN s ELSE Tail(s), l)
           IN  /\ t \in Seq(Lines) /\ Len(t) <= 2
               /\ \A i \in DOMAIN t : t[i] = l \/ \E j \in DOMAIN s : t[i] = s[j]
<1>1. Len(s) \in Nat /\ DOMAIN s = 1..Len(s)
      BY LenProperties
<1>2. CASE Len(s) < 2
      BY <1>1, <1>2, AppendProperties
<1>3. CASE ~(Len(s) < 2)
      <2>1. Len(s) = 2 /\ s # <<>>
            BY <1>1, <1>3, EmptySeq
      <2>2. /\ Tail(s) \in Seq(Lines) /\ Len(Tail(s)) = 1
            /\ \A i \in 1..1 : Tail(s)[i] = s[i + 1]
            BY <2>1, HeadTailProperties
      <2> DEFINE t == Append(Tail(s), l)
      <2>3. /\ t \in Seq(Lines) /\ Len(t) = 2
            /\ t[1] = Tail(s)[1] /\ t[2] = l
            BY <2>2, AppendProperties
      <2> HIDE DEF t
      <2>4. DOMAIN t = 1..2
            BY <2>3, LenProperties
      <2>5. t[1] = s[2]
            <3>1. Tail(s)[1] = s[1 + 1] /\ 1 + 1 = 2
                  BY <2>2
            <3> QED  BY <2>3, <3>1
      <2>6. \A i \in DOMAIN t : t[i] = l \/ t[i] = s[2]
            BY <2>3, <2>4, <2>5
      <2>7. /\ t \in Seq(Lines) /\ Len(t) <= 2
            /\ \A i \in DOMAIN t : t[i] = l \/ \E j \in DOMAIN s : t[i] = s[j]
            BY <1>1, <2>1, <2>3, <2>6
      <2>8. t = Append(IF Len(s) < 2 THEN s ELSE Tail(s), l)
            BY <1>3 DEF t
      <2> QED  BY <2>7, <2>8
<1> QED  BY <1>2, <1>3

\* A line keeps its verdict and its time when it is torn or ended.
LEMMA LineChanges ==
    ASSUME NEW s \in Seq(Lines), s # <<>>, NEW l \in Lines,
           l.verdict = s[Len(s)].verdict, l.ts = s[Len(s)].ts
    PROVE  LET t == [s EXCEPT ![Len(s)] = l]
           IN  /\ t \in Seq(Lines) /\ Len(t) = Len(s) /\ DOMAIN t = DOMAIN s
               /\ \A i \in DOMAIN t : t[i].verdict = s[i].verdict /\ t[i].ts = s[i].ts
<1>1. Len(s) \in 1..Len(s)
      BY EmptySeq
<1> QED  BY <1>1, ExceptSeq, LenProperties

LEMMA LineTimes ==
    ASSUME NEW s \in Seq(Lines), NEW i \in DOMAIN s
    PROVE  s[i].ts \in Nat
<1>1. s[i] \in Lines
      BY LenProperties, ElementOfSeq
<1> QED  BY <1>1 DEF Lines

-----------------------------------------------------------------------------
\* What line i of the ledger says was already there, or is what the guard says.
Told(i) ==
    \/ \E j \in DOMAIN govLedger : /\ govLedger'[i].verdict = govLedger[j].verdict
                                   /\ govLedger'[i].ts = govLedger[j].ts
    \/ /\ guard.pc = "emit"
       /\ govLedger'[i].verdict = guard.verdict /\ govLedger'[i].ts = guard.ts

LedgerStep ==
    /\ govLedger' \in Seq(Lines) /\ Len(govLedger') <= 2
    /\ \A i \in DOMAIN govLedger' : Told(i)

LEMMA LastLine ==
    ASSUME govLedger \in Seq(Lines), govLedger # <<>>
    PROVE  govLedger[Len(govLedger)] \in Lines
BY EmptySeq, ElementOfSeq

LEMMA CutKeeps == GovTypeOK /\ CutVerdict => LedgerStep
<1> SUFFICES ASSUME GovTypeOK, CutVerdict PROVE LedgerStep
    OBVIOUS
<1>1. govLedger \in Seq(Lines) /\ govLedger # <<>> /\ Len(govLedger) <= 2
      BY DEF GovTypeOK, CutVerdict
<1>2. PICK r \in {"broken", "none"} :
          govLedger' = [govLedger EXCEPT ![Len(govLedger)] =
                            [@ EXCEPT !.reads = r, !.ended = FALSE]]
      BY DEF CutVerdict
<1> DEFINE l == [govLedger[Len(govLedger)] EXCEPT !.reads = r, !.ended = FALSE]
<1>3. /\ l \in Lines /\ l.verdict = govLedger[Len(govLedger)].verdict
      /\ l.ts = govLedger[Len(govLedger)].ts
      BY <1>1, LastLine DEF Lines
<1>4. govLedger' = [govLedger EXCEPT ![Len(govLedger)] = l]
      BY <1>2
<1> HIDE DEF l
<1> QED  BY <1>1, <1>3, <1>4, LineChanges DEF LedgerStep, Told

LEMMA EmitTells == GovTypeOK /\ EmitVerdict => LedgerStep
<1> SUFFICES ASSUME GovTypeOK, EmitVerdict PROVE LedgerStep
    OBVIOUS
<1>1. govLedger \in Seq(Lines) /\ Len(govLedger) <= 2
      BY DEF GovTypeOK
<1>2. CASE govLedger # <<>> /\ ~govLedger[Len(govLedger)].ended
      <2> DEFINE l == [govLedger[Len(govLedger)] EXCEPT !.ended = TRUE]
      <2>1. /\ l \in Lines /\ l.verdict = govLedger[Len(govLedger)].verdict
            /\ l.ts = govLedger[Len(govLedger)].ts
            BY <1>1, <1>2, LastLine DEF Lines
      <2>2. govLedger' = [govLedger EXCEPT ![Len(govLedger)] = l]
            BY <1>2 DEF EmitVerdict
      <2> HIDE DEF l
      <2> QED  BY <1>1, <1>2, <2>1, <2>2, LineChanges DEF LedgerStep, Told
<1>3. CASE ~(govLedger # <<>> /\ ~govLedger[Len(govLedger)].ended)
      <2> DEFINE l == [verdict |-> guard.verdict, ts |-> guard.ts, reads |-> "record",
                       ended |-> TRUE]
      <2>1. /\ guard.pc = "emit" /\ l \in Lines
            /\ l.verdict = guard.verdict /\ l.ts = guard.ts
            BY DEF GovTypeOK, EmitVerdict, Guards, Lines
      <2>2. govLedger' = Append(IF Len(govLedger) < 2 THEN govLedger ELSE Tail(govLedger), l)
            BY <1>3 DEF EmitVerdict
      <2> HIDE DEF l
      <2> QED  BY <1>1, <2>1, <2>2, LedgerGrows DEF LedgerStep, Told
<1> QED  BY <1>2, <1>3

-----------------------------------------------------------------------------
LEMMA GovTypeInit == GovInit => GovTypeOK
BY GovAssumption DEF GovInit, GovTypeOK, Guards, Lines

LEMMA GovTypeStep == GovTypeOK /\ [GovNext]_govVars => GovTypeOK'
<1> SUFFICES ASSUME GovTypeOK, [GovNext]_govVars PROVE GovTypeOK'
    OBVIOUS
<1> USE GovAssumption DEF GovTypeOK, GovFault
<1>1. CASE ChangeGround
      <2>1. ground' \in Grounds
            BY <1>1 DEF ChangeGround, Grounds
      <2> QED  BY <1>1, <2>1 DEF ChangeGround
<1>2. CASE GovTick
      <2>1. guard' \in Guards
            BY <1>2 DEF GovTick, Guards
      <2> QED  BY <1>2, <2>1 DEF GovTick
<1>3. CASE ClockGoesBack
      BY <1>3 DEF ClockGoesBack
<1>4. CASE CutVerdict
      <2>1. govLedger' \in Seq(Lines) /\ Len(govLedger') <= 2
            BY <1>4, CutKeeps DEF LedgerStep
      <2>2. guard' \in Guards /\ govFaults' \in 0..MaxGovFaults
            BY <1>4 DEF CutVerdict, Guards
      <2> QED  BY <1>4, <2>1, <2>2 DEF CutVerdict
<1>5. CASE StartGuard
      BY <1>5 DEF StartGuard, Guards
<1>6. CASE Look
      <2>1. guard' \in Guards
            BY <1>6 DEF Look, Guards, Grounds
      <2> QED  BY <1>6, <2>1 DEF Look
<1>7. CASE VerifySig
      <2> DEFINE Asked == [pc : {"verify", "soft"}, fresh : BOOLEAN, verifier : BOOLEAN,
                           breach : BOOLEAN]
      <2>0. guard \in Asked
            BY <1>7 DEF VerifySig, Guards
      <2>a. \A b \in BOOLEAN : /\ [guard EXCEPT !.pc = "soft", !.breach = b] \in Asked
                                /\ [guard EXCEPT !.pc = "soft"] \in Asked
            BY <2>0
      <2>b. (~Sound(ground) \/ ~ground.verifier) \in BOOLEAN
            OBVIOUS
      <2>c. guard' \in Asked
            BY <1>7, <2>a, <2>b DEF VerifySig
      <2>1. guard' \in Guards
            BY <2>c DEF Guards
      <2> QED  BY <1>7, <2>1 DEF VerifySig
<1>8. CASE Judge
      <2>1. tick - back \in Nat /\ guard.fresh \in BOOLEAN
            BY <1>8 DEF Judge, Guards
      <2>2. guard' \in [pc : {"emit"}, fresh : BOOLEAN, ts : Nat, verdict : Verdicts]
            BY <1>8, <2>1 DEF Judge
      <2> QED  BY <1>8, <2>2 DEF Judge, Guards
<1>9. CASE EmitVerdict
      BY <1>9, EmitTells DEF EmitVerdict, Guards, LedgerStep
<1>10. CASE UNCHANGED govVars
      BY <1>10 DEF govVars
<1> QED  BY <1>1, <1>2, <1>3, <1>4, <1>5, <1>6, <1>7, <1>8, <1>9, <1>10
         DEF GovNext, GuardRun

-----------------------------------------------------------------------------
(***************************************************************************)
(* What a run of the guard knows is known of a moment not longer ago than  *)
(* the run lasts, and a verdict bears the time at which it was given.      *)
(***************************************************************************)
\* The node was governed one tick before time t, or later.
GovernedAt(t) == lastSound >= t - 1

GovKnown ==
    /\ Sound(ground) => lastSound = tick
    /\ guard.pc = "verify" => guard.breach
    /\ guard.pc = "soft" /\ ~guard.breach =>
           lastSound >= IF guard.fresh THEN tick ELSE tick - 1
    /\ guard.pc = "emit" /\ guard.verdict # "SIN_GOBIERNO" /\ back = 0 => GovernedAt(guard.ts)
    /\ \A i \in DOMAIN govLedger :
           govLedger[i].verdict # "SIN_GOBIERNO" /\ back = 0 => GovernedAt(govLedger[i].ts)

LEMMA GovKnownInit == GovInit => GovKnown
BY EmptySeq DEF GovInit, GovKnown

\* The last time at which the node was governed only moves forward, and what
\* was said before stays true; a clock that went back never comes right.
LEMMA OldLines ==
    ASSUME GovTypeOK, GovTypeOK', GovKnown, lastSound' >= lastSound, back' = 0 => back = 0,
           \/ govLedger' = govLedger
           \/ LedgerStep
    PROVE  \A i \in DOMAIN govLedger' :
               govLedger'[i].verdict # "SIN_GOBIERNO" /\ back' = 0
                   => lastSound' >= govLedger'[i].ts - 1
<1> SUFFICES ASSUME NEW i \in DOMAIN govLedger', govLedger'[i].verdict # "SIN_GOBIERNO",
                    back' = 0
             PROVE  lastSound' >= govLedger'[i].ts - 1
    OBVIOUS
<1>1. lastSound \in Int /\ lastSound' \in Int
      BY DEF GovTypeOK
<1>2. govLedger'[i].ts \in Nat
      BY LineTimes DEF GovTypeOK
<1>3. lastSound >= govLedger'[i].ts - 1
      <2>1. CASE govLedger' = govLedger
            BY <2>1 DEF GovKnown, GovernedAt
      <2>2. CASE LedgerStep
            BY <2>2 DEF LedgerStep, Told, GovKnown, GovernedAt
      <2> QED  BY <2>1, <2>2
<1> QED  BY <1>1, <1>2, <1>3

LEMMA GovKnownStep == GovTypeOK /\ GovTypeOK' /\ GovKnown /\ [GovNext]_govVars => GovKnown'
<1> SUFFICES ASSUME GovTypeOK, GovTypeOK', GovKnown, [GovNext]_govVars PROVE GovKnown'
    OBVIOUS
<1> USE DEF GovTypeOK
<1>0. /\ lastSound' >= lastSound /\ (back' = 0 => back = 0)
      /\ govLedger' = govLedger \/ LedgerStep
      <2>1. CASE ChangeGround
            BY <2>1 DEF ChangeGround
      <2>6. CASE GovTick
            BY <2>6 DEF GovTick
      <2>5. CASE ClockGoesBack \/ UNCHANGED govVars
            BY <2>5 DEF ClockGoesBack, govVars, GovFault
      <2>2. CASE CutVerdict
            <3>1. LedgerStep /\ UNCHANGED <<back, lastSound>>
                  BY <2>2, CutKeeps DEF CutVerdict
            <3> QED  BY <3>1
      <2>3. CASE EmitVerdict
            BY <2>3, EmitTells DEF EmitVerdict
      <2>4. CASE StartGuard \/ Look \/ VerifySig \/ Judge
            BY <2>4 DEF StartGuard, Look, VerifySig, Judge
      <2> QED  BY <2>1, <2>2, <2>3, <2>4, <2>5, <2>6 DEF GovNext, GuardRun
<1>a. \A i \in DOMAIN govLedger' :
          govLedger'[i].verdict # "SIN_GOBIERNO" /\ back' = 0
              => lastSound' >= govLedger'[i].ts - 1
      BY <1>0, OldLines
<1> USE <1>0, <1>a DEF GovKnown, GovernedAt
<1>1. CASE ChangeGround
      BY <1>1 DEF ChangeGround, Guards
<1>2. CASE GovTick
      BY <1>2 DEF GovTick, Guards
<1>3. CASE ClockGoesBack
      BY <1>3 DEF ClockGoesBack
<1>4. CASE CutVerdict
      BY <1>4 DEF CutVerdict
<1>5. CASE StartGuard
      BY <1>5 DEF StartGuard
<1>6. CASE Look
      <2>1. /\ guard'.pc \in {"verify", "soft"} /\ guard'.fresh = guard.fresh
            /\ guard'.pc = "verify" => guard'.breach
            /\ ~guard'.breach => Sound(ground)
            BY <1>6 DEF Look, Sound, Grounds
      <2> QED  BY <1>6, <2>1 DEF Look
<1>7. CASE VerifySig
      <2>1. /\ guard'.pc = "soft" /\ guard'.fresh = guard.fresh
            /\ ~guard'.breach => Sound(ground)
            BY <1>7 DEF VerifySig, Guards
      <2> QED  BY <1>7, <2>1 DEF VerifySig
<1>8. CASE Judge
      <2>1. /\ guard'.pc = "emit" /\ guard'.ts = tick - back
            BY <1>8 DEF Judge
      <2>2. guard'.verdict # "SIN_GOBIERNO" => ~guard.breach
            BY <1>8 DEF Judge
      <2> QED  BY <1>8, <2>1, <2>2 DEF Judge
<1>9. CASE EmitVerdict
      BY <1>9 DEF EmitVerdict
<1>10. CASE UNCHANGED govVars
      BY <1>10 DEF govVars, Sound
<1> QED  BY <1>1, <1>2, <1>3, <1>4, <1>5, <1>6, <1>7, <1>8, <1>9, <1>10
         DEF GovNext, GuardRun

LEMMA KnownIsRecent == GovTypeOK /\ GovKnown => GovernedIsRecent
<1> SUFFICES ASSUME GovTypeOK, GovKnown, Permits, back = 0
             PROVE  tick - lastSound <= MaxAge + 1
    BY DEF GovernedIsRecent, GovTypeOK
<1>1. PICK i \in 1..2 : /\ LastRecord(i) /\ (tick - back) - govLedger[i].ts <= MaxAge
                        /\ govLedger[i].verdict # "SIN_GOBIERNO"
      BY DEF Permits
<1>2. lastSound >= govLedger[i].ts - 1
      BY <1>1 DEF GovKnown, GovernedAt, LastRecord
<1>3. govLedger[i].ts \in Nat
      BY <1>1, LineTimes DEF GovTypeOK, LastRecord
<1>4. MaxAge \in Nat /\ tick \in Nat /\ lastSound \in Int
      BY GovAssumption DEF GovTypeOK
<1> QED  BY <1>1, <1>2, <1>3, <1>4

\* Every reachable state of the verdict and its filter is well typed, for
\* every age and every bound (cognition_guard, _gobernanza).
THEOREM GovernanceTypeCorrect == GovSpec => []GovTypeOK
<1> QED  BY GovTypeInit, GovTypeStep, PTL DEF GovSpec

\* A promotion is let through only if the node was governed not longer ago
\* than a verdict may be old and a run of the guard may last: whatever is
\* changed, killed, torn or late meanwhile (_gobernanza in ring_promote).
THEOREM OnlyGovernedIsPromoted == GovSpec => []GovernedIsRecent
<1>1. GovInit => GovTypeOK /\ GovKnown
      BY GovTypeInit, GovKnownInit
<1>2. GovTypeOK /\ GovKnown /\ [GovNext]_govVars => (GovTypeOK /\ GovKnown)'
      BY GovTypeStep, GovKnownStep
<1> QED  BY <1>1, <1>2, KnownIsRecent, PTL DEF GovSpec

-----------------------------------------------------------------------------
(***************************************************************************)
(* The verification of a signature, on a curve that is a group.            *)
(***************************************************************************)
LEMMA OrderIs == Order \in Nat /\ Order > 2
<1>1. {Prime, CoefB, Order, GenX, GenY} \subseteq Nat /\ Order > 2
      BY CurveAssumption
<1> QED  BY <1>1

\* a and b differ by a multiple of the order.
Cong(a, b) == \E q \in Int : a = b + q * Order

LEMMA CongEq == ASSUME NEW a \in Int PROVE Cong(a, a)
<1>1. a = a + 0 * Order
      BY OrderIs
<1> QED  BY <1>1 DEF Cong

LEMMA CongSym == ASSUME NEW a \in Int, NEW b \in Int, Cong(a, b) PROVE Cong(b, a)
<1>1. PICK q \in Int : a = b + q * Order
      BY DEF Cong
<1>2. -q \in Int /\ b = a + (-q) * Order
      BY <1>1, OrderIs
<1> QED  BY <1>2 DEF Cong

LEMMA CongTrans ==
    ASSUME NEW a \in Int, NEW b \in Int, NEW c \in Int, Cong(a, b), Cong(b, c)
    PROVE  Cong(a, c)
<1>1. PICK q \in Int : a = b + q * Order
      BY DEF Cong
<1>2. PICK p \in Int : b = c + p * Order
      BY DEF Cong
<1>3. p + q \in Int /\ a = c + (p + q) * Order
      BY <1>1, <1>2, OrderIs
<1> QED  BY <1>3 DEF Cong

LEMMA CongPlus ==
    ASSUME NEW a \in Int, NEW b \in Int, NEW c \in Int, NEW d \in Int, Cong(a, b), Cong(c, d)
    PROVE  Cong(a + c, b + d)
<1>1. PICK q \in Int : a = b + q * Order
      BY DEF Cong
<1>2. PICK p \in Int : c = d + p * Order
      BY DEF Cong
<1>3. q + p \in Int /\ a + c = (b + d) + (q + p) * Order
      BY <1>1, <1>2, OrderIs
<1> QED  BY <1>3 DEF Cong

LEMMA CongTimes ==
    ASSUME NEW a \in Int, NEW b \in Int, NEW c \in Int, Cong(a, b)
    PROVE  Cong(c * a, c * b)
<1>1. PICK q \in Int : a = b + q * Order
      BY DEF Cong
<1>2. c * q \in Int /\ c * a = c * b + (c * q) * Order
      BY <1>1, OrderIs
<1> QED  BY <1>2 DEF Cong

LEMMA CongOne ==
    ASSUME NEW a \in Int, NEW c \in Int, Cong(a, 1)
    PROVE  Cong(c * a, c)
<1>1. PICK q \in Int : a = 1 + q * Order
      BY DEF Cong
<1>2. c * q \in Int /\ c * a = c + (c * q) * Order
      BY <1>1, OrderIs
<1> QED  BY <1>2 DEF Cong

LEMMA Division ==
    ASSUME NEW a \in Int, NEW n \in Nat, n > 1
    PROVE  /\ a \div n \in Int /\ a % n \in 0..n - 1
           /\ a = (a % n) + (a \div n) * n
<1>1. a \div n \in Int
      OBVIOUS
<1>2. a % n \in 0..n - 1
      OBVIOUS
<1>3. a = n * (a \div n) + (a % n)
      OBVIOUS
<1> QED  BY <1>1, <1>2, <1>3

LEMMA CongMod ==
    ASSUME NEW a \in Int
    PROVE  a % Order \in 0..Order - 1 /\ Cong(a, a % Order)
<1>1. Order \in Nat /\ Order > 1
      BY OrderIs
<1>2. /\ a \div Order \in Int /\ a % Order \in 0..Order - 1
      /\ a = (a % Order) + (a \div Order) * Order
      BY <1>1, Division
<1> QED  BY <1>2 DEF Cong

LEMMA CongIsSame ==
    ASSUME NEW a \in 0..Order - 1, NEW b \in 0..Order - 1, Cong(a, b)
    PROVE  a = b
<1>1. PICK q \in Int : a = b + q * Order
      BY DEF Cong
<1>2. CASE q >= 1
      <2>1. q * Order >= Order
            BY <1>2, OrderIs
      <2> QED  BY <1>1, <2>1, OrderIs
<1>3. CASE q <= -1
      <2>1. q * Order <= -Order
            BY <1>3, OrderIs
      <2> QED  BY <1>1, <2>1, OrderIs
<1>4. CASE q = 0
      BY <1>1, <1>4, OrderIs
<1> QED  BY <1>2, <1>3, <1>4

LEMMA CongZero ==
    ASSUME NEW a \in Int
    PROVE  a % Order = 0 <=> Cong(a, 0)
<1>1. a % Order \in 0..Order - 1 /\ Cong(a, a % Order)
      BY CongMod
<1>0. 0 \in 0..Order - 1
      BY OrderIs
<1>2. ASSUME Cong(a, 0) PROVE a % Order = 0
      <2> DEFINE m == a % Order
      <2>0. m \in 0..Order - 1 /\ m \in Int /\ Cong(a, m)
            BY <1>1, OrderIs
      <2> HIDE DEF m
      <2>1. Cong(m, 0)
            BY <1>2, <2>0, CongSym, CongTrans
      <2>2. m = 0
            BY <1>0, <2>0, <2>1, CongIsSame
      <2> QED  BY <2>2 DEF m
<1> QED  BY <1>1, <1>2

-----------------------------------------------------------------------------
\* The multiples of the generator up to k.
Multiples(f, k) == f = [i \in 0..k |-> IF i = 0 THEN Infinity ELSE Suma(f[i - 1], Gen)]

LEMMA MultiplesExist == \A k \in Nat : \E f : Multiples(f, k)
<1> DEFINE T == {k \in Nat : ~\E f : Multiples(f, k)}
<1> SUFFICES ASSUME T # {} PROVE FALSE
    OBVIOUS
<1>1. T \in SUBSET Nat
      OBVIOUS
<1>2. PICK k \in T : \A m \in T : k <= m
      <2> HIDE DEF T
      <2> QED  BY <1>1, LeastNat
<1>3. k \in Nat /\ ~\E f : Multiples(f, k)
      BY <1>2
<1>4. CASE k = 0
      <2>1. Multiples([i \in 0..0 |-> Infinity], 0)
            BY DEF Multiples
      <2> QED  BY <1>3, <1>4, <2>1
<1>5. CASE k # 0
      <2>1. k - 1 \in Nat /\ k - 1 \notin T
            BY <1>2, <1>3, <1>5
      <2>2. PICK f : Multiples(f, k - 1)
            BY <2>1
      <2> DEFINE g == [i \in 0..k |-> IF i = 0 THEN Infinity ELSE Suma(f[i - 1], Gen)]
      <2>3. \A i \in 0..k - 1 : g[i] = f[i]
            BY <1>3, <2>2 DEF Multiples
      <2>4. \A i \in 0..k : i # 0 => g[i - 1] = f[i - 1]
            BY <1>3, <2>3
      <2>5. Multiples(g, k)
            BY <2>4 DEF Multiples
      <2> QED  BY <1>3, <2>5
<1> QED  BY <1>4, <1>5

LEMMA MultiplesAgree ==
    ASSUME NEW k \in Nat, NEW m \in Nat, k <= m, NEW f, NEW g,
           Multiples(f, k), Multiples(g, m)
    PROVE  f[k] = g[k]
<1> DEFINE T == {i \in 0..k : f[i] # g[i]}
<1> SUFFICES ASSUME T # {} PROVE FALSE
    OBVIOUS
<1>1. T \in SUBSET Nat
      OBVIOUS
<1>2. PICK i \in T : \A j \in T : i <= j
      <2> HIDE DEF T
      <2> QED  BY <1>1, LeastNat
<1>3. i \in 0..k /\ i \in 0..m /\ f[i] # g[i]
      BY <1>2
<1>4. /\ f[i] = IF i = 0 THEN Infinity ELSE Suma(f[i - 1], Gen)
      /\ g[i] = IF i = 0 THEN Infinity ELSE Suma(g[i - 1], Gen)
      BY <1>3 DEF Multiples
<1>5. i # 0 /\ f[i - 1] # g[i - 1]
      BY <1>3, <1>4
<1>6. i - 1 \in T
      BY <1>3, <1>5
<1> QED  BY <1>2, <1>3, <1>6

LEMMA TimesIs == ASSUME NEW k \in Nat, NEW f, Multiples(f, k) PROVE Times(k) = f[k]
<1> DEFINE g == CHOOSE h : Multiples(h, k)
<1>1. Multiples(g, k)
      BY MultiplesExist
<1>2. Times(k) = g[k]
      BY DEF Times, Multiples
<1> HIDE DEF g
<1> QED  BY <1>1, <1>2, MultiplesAgree

LEMMA TimesGrows ==
    /\ Times(0) = Infinity
    /\ \A k \in Nat : Times(k + 1) = Suma(Times(k), Gen)
<1>1. Times(0) = Infinity
      <2>1. PICK f : Multiples(f, 0)
            BY MultiplesExist
      <2>2. f[0] = Infinity
            BY <2>1 DEF Multiples
      <2> QED  BY <2>1, <2>2, TimesIs
<1>2. ASSUME NEW k \in Nat PROVE Times(k + 1) = Suma(Times(k), Gen)
      <2>0. k + 1 \in Nat /\ k <= k + 1
            OBVIOUS
      <2>1. PICK f : Multiples(f, k + 1)
            BY <2>0, MultiplesExist
      <2>2. PICK g : Multiples(g, k)
            BY MultiplesExist
      <2>3. f[k] = g[k]
            BY <2>0, <2>1, <2>2, MultiplesAgree
      <2>4. f[k + 1] = Suma(f[k], Gen)
            <3>1. k + 1 \in 0..k + 1 /\ k + 1 # 0 /\ (k + 1) - 1 = k
                  OBVIOUS
            <3> QED  BY <2>1, <3>1 DEF Multiples
      <2>5. Times(k) = g[k]
            BY <2>2, TimesIs
      <2>6. Times(k + 1) = f[k + 1]
            BY <2>0, <2>1, TimesIs
      <2> QED  BY <2>3, <2>4, <2>5, <2>6
<1> QED  BY <1>1, <1>2

-----------------------------------------------------------------------------
LEMMA InfinityIsNeutral == \A a : Suma(Infinity, a) = a /\ Suma(a, Infinity) = a
BY DEF Suma

\* Order times a point is infinity, so the multiples repeat.
LEMMA TimesRepeat ==
    ASSUME NEW k \in Nat
    PROVE  Times(k) = Times(k % Order)
<1> DEFINE T == {m \in Nat : Times(m + Order) # Times(m)}
<1>0. Order \in Nat /\ Order > 2 /\ Order > 1
      BY OrderIs
<1>1. T = {}
      <2> SUFFICES ASSUME T # {} PROVE FALSE
          OBVIOUS
      <2>1. T \in SUBSET Nat
            OBVIOUS
      <2>2. PICK m \in T : \A j \in T : m <= j
            <3> HIDE DEF T
            <3> QED  BY <2>1, LeastNat
      <2>3. m \in Nat /\ Times(m + Order) # Times(m)
            BY <2>2
      <2>4. m # 0
            BY <1>0, <2>3, TimesGrows, GroupAssumption
      <2>5. m - 1 \in Nat /\ m - 1 \notin T /\ (m - 1) + Order \in Nat
            BY <1>0, <2>2, <2>3, <2>4
      <2>6. Times((m - 1) + Order) = Times(m - 1)
            BY <2>5
      <2>7. /\ (m - 1) + 1 = m /\ ((m - 1) + Order) + 1 = m + Order
            BY <1>0, <2>3
      <2>8. Times(m) = Suma(Times(m - 1), Gen) /\ Times(m + Order) = Suma(Times((m - 1) + Order), Gen)
            BY <2>5, <2>7, TimesGrows
      <2> QED  BY <2>3, <2>6, <2>8
<1> DEFINE S == {m \in Nat : Times(m) # Times(m % Order)}
<1>2. S = {}
      <2> SUFFICES ASSUME S # {} PROVE FALSE
          OBVIOUS
      <2>1. S \in SUBSET Nat
            OBVIOUS
      <2>2. PICK m \in S : \A j \in S : m <= j
            <3> HIDE DEF S
            <3> QED  BY <2>1, LeastNat
      <2>3. m \in Nat /\ Times(m) # Times(m % Order)
            BY <2>2
      <2>4. m >= Order
            <3>1. ASSUME m < Order PROVE m % Order = m
                  <4>1. m % Order \in 0..Order - 1 /\ Cong(m, m % Order) /\ m \in 0..Order - 1
                        BY <1>0, <2>3, <3>1, CongMod
                  <4> QED  BY <4>1, CongIsSame
            <3> QED  BY <1>0, <2>3, <3>1
      <2> DEFINE j == m - Order
      <2>5. j \in Nat /\ j < m /\ m = j + Order
            BY <1>0, <2>3, <2>4
      <2> HIDE DEF j
      <2>6. j \notin S
            BY <2>2, <2>3, <2>5
      <2>7. Times(j) = Times(j % Order) /\ Times(m) = Times(j)
            BY <1>1, <2>5, <2>6
      <2>8. m % Order = j % Order
            <3> DEFINE x == m % Order  y == j % Order
            <3>1. x \in 0..Order - 1 /\ y \in 0..Order - 1 /\ x \in Int /\ y \in Int
                  BY <2>3, <2>5, CongMod, <1>0
            <3>2. Cong(m, x) /\ Cong(j, y)
                  BY <2>3, <2>5, CongMod
            <3>3. Cong(m, j)
                  <4>1. m = j + 1 * Order
                        BY <1>0, <2>5
                  <4> QED  BY <4>1 DEF Cong
            <3> HIDE DEF x, y
            <3>4. Cong(x, m) /\ Cong(m, y)
                  BY <2>3, <2>5, <3>1, <3>2, <3>3, CongSym, CongTrans
            <3>5. Cong(x, y)
                  BY <2>3, <3>1, <3>4, CongTrans
            <3>6. x = y
                  BY <3>1, <3>5, CongIsSame
            <3> QED  BY <3>6 DEF x, y
      <2> QED  BY <2>3, <2>7, <2>8
<1> QED  BY <1>2

LEMMA Associative ==
    \A i, j, l \in 0..Order - 1 :
        Suma(Suma(Times(i), Times(j)), Times(l)) = Suma(Times(i), Suma(Times(j), Times(l)))
BY GroupAssumption

\* Adding points is adding their factors.
LEMMA TimesAdd ==
    ASSUME NEW i \in Nat, NEW j \in Nat
    PROVE  Suma(Times(i), Times(j)) = Times(i + j)
<1>0. Order \in Nat /\ Order > 2
      BY OrderIs
<1>1. Times(1) = Gen
      <2>1. Times(0 + 1) = Suma(Times(0), Gen) /\ Times(0) = Infinity
            BY TimesGrows
      <2> QED  BY <2>1, InfinityIsNeutral
<1>2. \A k, m \in Nat :
          Suma(Suma(Times(k), Times(m)), Gen) = Suma(Times(k), Suma(Times(m), Gen))
      <2> SUFFICES ASSUME NEW k \in Nat, NEW m \in Nat
                   PROVE  Suma(Suma(Times(k), Times(m)), Gen) = Suma(Times(k), Suma(Times(m), Gen))
          OBVIOUS
      <2> DEFINE x == k % Order  y == m % Order
      <2>1. x \in 0..Order - 1 /\ y \in 0..Order - 1 /\ 1 \in 0..Order - 1
            <3>1. k \in Int /\ m \in Int
                  OBVIOUS
            <3>2. x \in 0..Order - 1
                  BY <3>1, CongMod
            <3>3. y \in 0..Order - 1
                  BY <3>1, CongMod
            <3>4. 1 \in 0..Order - 1
                  BY <1>0
            <3> QED  BY <3>2, <3>3, <3>4
      <2>2. Times(k) = Times(x) /\ Times(m) = Times(y)
            BY TimesRepeat
      <2> HIDE DEF x, y
      <2>3. Suma(Suma(Times(x), Times(y)), Times(1)) = Suma(Times(x), Suma(Times(y), Times(1)))
            BY <2>1, Associative
      <2> QED  BY <1>1, <2>2, <2>3
<1> DEFINE T == {m \in Nat : Suma(Times(i), Times(m)) # Times(i + m)}
<1>3. T = {}
      <2> SUFFICES ASSUME T # {} PROVE FALSE
          OBVIOUS
      <2>1. T \in SUBSET Nat
            OBVIOUS
      <2>2. PICK m \in T : \A n \in T : m <= n
            <3> HIDE DEF T
            <3> QED  BY <2>1, LeastNat
      <2>3. m \in Nat /\ Suma(Times(i), Times(m)) # Times(i + m)
            BY <2>2
      <2>4. m # 0
            BY <2>3, TimesGrows, InfinityIsNeutral
      <2> DEFINE n == m - 1
      <2>5. n \in Nat /\ n < m /\ m = n + 1 /\ i + m = (i + n) + 1 /\ i + n \in Nat
            BY <2>3, <2>4
      <2> HIDE DEF n
      <2>6. n \notin T
            BY <2>2, <2>3, <2>5
      <2>7. Suma(Times(i), Times(n)) = Times(i + n)
            BY <2>5, <2>6
      <2>8. Times(m) = Suma(Times(n), Gen) /\ Times(i + m) = Suma(Times(i + n), Gen)
            BY <2>5, TimesGrows
      <2>9. Suma(Suma(Times(i), Times(n)), Gen) = Suma(Times(i), Suma(Times(n), Gen))
            BY <1>2, <2>5
      <2> QED  BY <2>3, <2>7, <2>8, <2>9
<1> QED  BY <1>3

-----------------------------------------------------------------------------
\* The states of the loop that doubles and adds, from start on.
Turns(f, n, start) == f = [i \in 0..n |-> IF i = 0 THEN start ELSE Turn(f[i - 1])]

LEMMA TurnsExist == ASSUME NEW start PROVE \A n \in Nat : \E f : Turns(f, n, start)
<1> DEFINE T == {n \in Nat : ~\E f : Turns(f, n, start)}
<1> SUFFICES ASSUME T # {} PROVE FALSE
    OBVIOUS
<1>1. T \in SUBSET Nat
      OBVIOUS
<1>2. PICK n \in T : \A m \in T : n <= m
      <2> HIDE DEF T
      <2> QED  BY <1>1, LeastNat
<1>3. n \in Nat /\ ~\E f : Turns(f, n, start)
      BY <1>2
<1>4. CASE n = 0
      <2>1. Turns([i \in 0..0 |-> start], 0, start)
            BY DEF Turns
      <2> QED  BY <1>3, <1>4, <2>1
<1>5. CASE n # 0
      <2>1. n - 1 \in Nat /\ n - 1 \notin T
            BY <1>2, <1>3, <1>5
      <2>2. PICK f : Turns(f, n - 1, start)
            BY <2>1
      <2> DEFINE g == [i \in 0..n |-> IF i = 0 THEN start ELSE Turn(f[i - 1])]
      <2>3. \A i \in 0..n - 1 : g[i] = f[i]
            BY <1>3, <2>2 DEF Turns
      <2>4. \A i \in 0..n : i # 0 => g[i - 1] = f[i - 1]
            BY <1>3, <2>3
      <2>5. Turns(g, n, start)
            BY <2>4 DEF Turns
      <2> QED  BY <1>3, <2>5
<1> QED  BY <1>4, <1>5

LEMMA Halves ==
    ASSUME NEW c \in Nat, c # 0, NEW b \in Nat
    PROVE  /\ c \div 2 \in Nat /\ c \div 2 < c /\ c % 2 \in {0, 1}
           /\ (c % 2) * b + (c \div 2) * (b + b) = c * b
<1> DEFINE h == c \div 2  o == c % 2
<1>1. h \in Int /\ o \in 0..1 /\ c = o + h * 2
      BY Division
<1> HIDE DEF h, o
<1>2. h \in Nat /\ h < c /\ o \in {0, 1}
      BY <1>1
<1>3. h * (b + b) = h * b + h * b
      BY <1>2
<1>4. c * b = o * b + (h * 2) * b
      BY <1>1, <1>2
<1>5. (h * 2) * b = h * b + h * b
      BY <1>2
<1>6. o * b \in Nat /\ h * b \in Nat
      BY <1>2
<1>7. o * b + h * (b + b) = c * b
      BY <1>3, <1>4, <1>5, <1>6
<1> QED  BY <1>2, <1>7 DEF h, o

\* The loop at work: what it has added and what is left make k times j.
Loop(s, n, k, j) ==
    \E c, a, b \in Nat :
        /\ s = [k |-> c, r |-> Times(a), p |-> Times(b)]
        /\ a + c * b = k * j
        /\ n + c <= k \/ c = 0

LEMMA TurnLoops ==
    ASSUME NEW k \in Nat, NEW j \in Nat, NEW n \in Nat, NEW s, Loop(s, n, k, j)
    PROVE  Loop(Turn(s), n + 1, k, j)
<1>1. PICK c, a, b \in Nat : /\ s = [k |-> c, r |-> Times(a), p |-> Times(b)]
                             /\ a + c * b = k * j
                             /\ n + c <= k \/ c = 0
      BY DEF Loop
<1>2. CASE c = 0
      <2>1. Turn(s) = s
            BY <1>1, <1>2 DEF Turn
      <2> QED  BY <1>1, <1>2, <2>1 DEF Loop
<1>3. CASE c # 0
      <2> DEFINE h == c \div 2  o == c % 2  x == IF o = 1 THEN a + b ELSE a
      <2>1. h \in Nat /\ h < c /\ o \in {0, 1} /\ o * b + h * (b + b) = c * b
            BY <1>3, Halves
      <2>2. s.k # 0 /\ s.k = c /\ s.r = Times(a) /\ s.p = Times(b)
            BY <1>1, <1>3
      <2>3. Turn(s) = [k |-> h, r |-> IF o = 1 THEN Suma(Times(a), Times(b)) ELSE Times(a),
                       p |-> Suma(Times(b), Times(b))]
            BY <2>2 DEF Turn
      <2>4. Suma(Times(a), Times(b)) = Times(a + b) /\ Suma(Times(b), Times(b)) = Times(b + b)
            BY TimesAdd
      <2> HIDE DEF h, o
      <2>5. Turn(s) = [k |-> h, r |-> Times(x), p |-> Times(b + b)]
            BY <2>3, <2>4
      <2>6. x \in Nat /\ b + b \in Nat
            BY <2>1
      <2>7. x = a + o * b
            <3>1. CASE o = 1
                  BY <3>1
            <3>2. CASE o = 0
                  BY <3>2
            <3> QED  BY <2>1, <3>1, <3>2
      <2> HIDE DEF x
      <2>8. x + h * (b + b) = k * j
            <3>1. o * b \in Int /\ h * (b + b) \in Int /\ c * b \in Int
                  BY <2>1
            <3> QED  BY <1>1, <2>1, <2>7, <3>1
      <2>9. (n + 1) + h <= k
            BY <1>1, <1>3, <2>1
      <2> QED  BY <2>1, <2>5, <2>6, <2>8, <2>9 DEF Loop
<1> QED  BY <1>2, <1>3

LEMMA MulIs ==
    ASSUME NEW k \in Nat, NEW j \in Nat
    PROVE  Mul(k, Times(j)) = Times(k * j)
<1> DEFINE start == [k |-> k, r |-> Infinity, p |-> Times(j)]
           f == CHOOSE h : Turns(h, k, start)
<1>1. Turns(f, k, start)
      BY TurnsExist
<1>2. Mul(k, Times(j)) = f[k].r
      BY DEF Mul, Turns
<1> HIDE DEF f
<1> DEFINE T == {n \in 0..k : ~Loop(f[n], n, k, j)}
<1>3. T = {}
      <2> SUFFICES ASSUME T # {} PROVE FALSE
          OBVIOUS
      <2>1. T \in SUBSET Nat
            OBVIOUS
      <2>2. PICK n \in T : \A m \in T : n <= m
            <3> HIDE DEF T
            <3> QED  BY <2>1, LeastNat
      <2>3. n \in 0..k /\ ~Loop(f[n], n, k, j)
            BY <2>2
      <2>4. n # 0
            <3>1. f[0] = start
                  BY <1>1 DEF Turns
            <3>2. start = [k |-> k, r |-> Times(0), p |-> Times(j)] /\ 0 + k * j = k * j /\ 0 + k <= k
                  BY TimesGrows
            <3> HIDE DEF start
            <3>3. Loop(f[0], 0, k, j)
                  BY <3>1, <3>2 DEF Loop
            <3> QED  BY <2>3, <3>3
      <2> DEFINE m == n - 1
      <2>5. m \in Nat /\ m \in 0..k /\ m < n /\ n = m + 1
            BY <2>3, <2>4
      <2> HIDE DEF start
      <2>6. f[n] = Turn(f[n - 1])
            BY <1>1, <2>3, <2>4 DEF Turns
      <2>7. f[n] = Turn(f[m])
            BY <2>6
      <2> HIDE DEF m
      <2>8. m \notin T
            BY <2>2, <2>3, <2>5
      <2>9. Loop(f[m], m, k, j)
            BY <2>5, <2>8
      <2>10. Loop(Turn(f[m]), m + 1, k, j)
            BY <2>5, <2>9, TurnLoops
      <2> QED  BY <2>3, <2>5, <2>7, <2>10
<1>4. Loop(f[k], k, k, j)
      BY <1>3
<1>5. PICK c, a, b \in Nat : /\ f[k] = [k |-> c, r |-> Times(a), p |-> Times(b)]
                             /\ a + c * b = k * j
                             /\ k + c <= k \/ c = 0
      BY <1>4 DEF Loop
<1>6. c = 0 /\ a = k * j
      <2>1. c = 0
            BY <1>5
      <2>2. c * b = 0
            BY <2>1
      <2> QED  BY <1>5, <2>1, <2>2
<1> QED  BY <1>2, <1>5, <1>6

LEMMA MulOfGen ==
    ASSUME NEW k \in Nat
    PROVE  Mul(k, Gen) = Times(k)
<1>1. Times(0 + 1) = Suma(Times(0), Gen) /\ Times(0) = Infinity
      BY TimesGrows
<1>2. Times(1) = Gen
      BY <1>1, InfinityIsNeutral
<1>3. Mul(k, Times(1)) = Times(k * 1) /\ k * 1 = k
      BY MulIs
<1> QED  BY <1>2, <1>3

-----------------------------------------------------------------------------
LEMMA Swap ==
    ASSUME NEW a \in Int, NEW b \in Int, NEW c \in Int
    PROVE  a * (b * c) = c * (b * a) /\ a * (b * c) = c * (a * b)
<1>1. a * (b * c) = (a * b) * c
      OBVIOUS
<1>2. a * b = b * a /\ b * a \in Int
      OBVIOUS
<1>3. (b * a) * c = c * (b * a)
      <2> DEFINE x == b * a
      <2>1. x \in Int
            OBVIOUS
      <2> HIDE DEF x
      <2>2. x * c = c * x
            BY <2>1
      <2> QED  BY <2>2 DEF x
<1> QED  BY <1>1, <1>2, <1>3

\* With the inverse of s, the equation of a signature has one solution.
LEMMA OneSolution ==
    ASSUME NEW s \in Int, NEW w \in Int, NEW x \in Int, NEW k \in Int, Cong(s * w, 1)
    PROVE  Cong(s * k, x) <=> Cong(k, w * x)
<1>1. ASSUME Cong(s * k, x) PROVE Cong(k, w * x)
      <2> DEFINE sk == s * k  wx == w * x  sw == s * w
      <2>0. sk \in Int /\ wx \in Int /\ sw \in Int
            OBVIOUS
      <2>1. w * sk = k * sw
            BY Swap
      <2>2. Cong(sk, x) /\ Cong(sw, 1)
            BY <1>1
      <2> HIDE DEF sk, sw
      <2>3. Cong(w * sk, w * x)
            BY <2>0, <2>2, CongTimes
      <2>4. Cong(k * sw, k)
            BY <2>0, <2>2, CongOne
      <2>5. Cong(k * sw, k) /\ Cong(k * sw, w * x)
            BY <2>1, <2>3, <2>4
      <2>6. k * sw \in Int /\ w * x \in Int
            BY <2>0
      <2>7. Cong(k, k * sw)
            BY <2>5, <2>6, CongSym
      <2> QED  BY <2>5, <2>6, <2>7, CongTrans
<1>2. ASSUME Cong(k, w * x) PROVE Cong(s * k, x)
      <2> DEFINE wx == w * x  sw == s * w
      <2>0. wx \in Int /\ sw \in Int
            OBVIOUS
      <2>1. s * wx = x * sw
            BY Swap
      <2>2. Cong(k, wx) /\ Cong(sw, 1)
            BY <1>2
      <2> HIDE DEF wx, sw
      <2>3. Cong(s * k, s * wx)
            BY <2>0, <2>2, CongTimes
      <2>4. Cong(x * sw, x)
            BY <2>0, <2>2, CongOne
      <2>5. Cong(s * k, x * sw) /\ Cong(x * sw, x)
            BY <2>1, <2>3, <2>4
      <2>6. s * k \in Int /\ x * sw \in Int
            BY <2>0
      <2> QED  BY <2>5, <2>6, CongTrans
<1> QED  BY <1>1, <1>2

\* The verification computes that solution.
LEMMA SolutionIs ==
    ASSUME NEW w \in Int, NEW e \in Int, NEW r \in Int, NEW d \in Int
    PROVE  Cong((((e * w) % Order) + ((r * w) % Order) * d) % Order, w * (e + r * d))
<1> DEFINE ew == e * w  rw == r * w  u == ew % Order  v == rw % Order
           y == u + v * d  k == y % Order
<1>0. ew \in Int /\ rw \in Int /\ Order \in Nat
      BY OrderIs
<1>1. Cong(ew, u) /\ u \in 0..Order - 1 /\ Cong(rw, v) /\ v \in 0..Order - 1
      <2> HIDE DEF ew, rw
      <2> QED  BY <1>0, CongMod
<1>2. w * (e + r * d) = ew + d * rw
      <2>1. w * (e + r * d) = w * e + w * (r * d)
            OBVIOUS
      <2>2. w * e = e * w /\ w * (r * d) = d * (r * w)
            OBVIOUS
      <2> QED  BY <2>1, <2>2
<1> HIDE DEF ew, rw, u, v
<1>3. u \in Int /\ v \in Int /\ y \in Int /\ d * v = v * d
      BY <1>0, <1>1
<1>4. Cong(y, k) /\ k \in 0..Order - 1
      <2> HIDE DEF y
      <2> QED  BY <1>3, CongMod
<1>5. k \in Int
      BY <1>0, <1>4
<1>6. Cong(d * rw, d * v)
      BY <1>0, <1>1, <1>3, CongTimes
<1>7. Cong(ew + d * rw, u + d * v)
      <2> DEFINE a == d * rw  b == d * v
      <2>1. a \in Int /\ b \in Int /\ Cong(a, b)
            BY <1>0, <1>3, <1>6
      <2> HIDE DEF a, b
      <2>2. Cong(ew + a, u + b)
            BY <1>0, <1>1, <1>3, <2>1, CongPlus
      <2> QED  BY <2>2 DEF a, b
<1> DEFINE z == ew + d * rw
<1>8. z \in Int /\ Cong(z, y)
      BY <1>0, <1>3, <1>7
<1> HIDE DEF y, k, z
<1>9. Cong(k, z)
      BY <1>3, <1>4, <1>5, <1>8, CongSym, CongTrans
<1> QED  BY <1>2, <1>9 DEF k, y, z, u, v, ew, rw

\* That the sides of the equation are congruent is what the remainder says.
LEMMA RemainderIs ==
    ASSUME NEW a \in Int, NEW e \in Int, NEW b \in Int
    PROVE  (a - e - b) % Order = 0 <=> Cong(a, e + b)
<1> DEFINE x == a - e - b
<1>1. x \in Int /\ e + b \in Int
      OBVIOUS
<1>2. Cong(x, 0) <=> Cong(a, e + b)
      <2>1. \A q \in Int : x = 0 + q * Order <=> a = (e + b) + q * Order
            BY OrderIs
      <2> QED  BY <2>1 DEF Cong
<1> HIDE DEF x
<1>3. x % Order = 0 <=> Cong(x, 0)
      BY <1>1, CongZero
<1> QED  BY <1>2, <1>3 DEF x

\* A signature of a hash is accepted under the multiple of a secret key exactly
\* when it is in range and the secret key could have made it: _ecdsa_ok and the
\* loop of _ec_mul, for every curve that is a group.
THEOREM SignatureIffMade ==
    ASSUME NEW d \in 1..Order - 1, NEW e \in Nat, NEW r \in Nat, NEW s \in Nat
    PROVE  EcdsaOk(Times(d), e, r, s) <=>
             /\ 0 < s /\ s < Order /\ 0 < r /\ r < Order
             /\ \E k \in 1..Order - 1 :
                  Times(k)[1] % Order = r /\ (s * k - e - r * d) % Order = 0
<1>0. Order \in Nat /\ Order > 2 /\ d \in Nat /\ d \in Int
      BY OrderIs
<1> SUFFICES ASSUME InRange(r, s)
             PROVE  EcdsaOk(Times(d), e, r, s) <=>
                      \E k \in 1..Order - 1 :
                        Times(k)[1] % Order = r /\ (s * k - e - r * d) % Order = 0
    BY DEF EcdsaOk, InRange
<1>1. s \in 1..Order - 1
      BY <1>0 DEF InRange
<1> DEFINE w == Inv(s, Order)  u == (e * w) % Order  v == (r * w) % Order
           k0 == (u + v * d) % Order
<1>2. w \in 1..Order - 1 /\ (s * w) % Order = 1 /\ OnCurve(Times(d))
      BY <1>1, GroupAssumption
<1>3. EcdsaOk(Times(d), e, r, s) <=>
        LET R == Suma(Mul(u, Gen), Mul(v, Times(d))) IN R # Infinity /\ R[1] % Order = r
      BY <1>2 DEF EcdsaOk
<1> HIDE DEF w
<1>4. w \in Nat /\ w \in Int /\ s \in Int /\ e \in Int /\ r \in Int
      BY <1>0, <1>2
<1>5. Cong(s * w, 1)
      <2> DEFINE sw == s * w
      <2>1. sw \in Int /\ sw % Order = 1
            BY <1>2, <1>4
      <2> HIDE DEF sw
      <2>2. Cong(sw, sw % Order)
            BY <2>1, CongMod
      <2> QED  BY <2>1, <2>2 DEF sw
<1>6. u \in Nat /\ v \in Nat
      <2> DEFINE ew == e * w  rw == r * w
      <2>1. ew \in Int /\ rw \in Int
            BY <1>4
      <2> HIDE DEF ew, rw
      <2>2. ew % Order \in 0..Order - 1 /\ rw % Order \in 0..Order - 1
            BY <2>1, CongMod
      <2> QED  BY <1>0, <2>2 DEF ew, rw
<1>7. Cong(k0, w * (e + r * d))
      BY <1>0, <1>4, SolutionIs
<1> HIDE DEF u, v
<1>8. u + v * d \in Nat /\ v * d \in Nat
      BY <1>0, <1>6
<1>9. k0 \in 0..Order - 1
      <2> DEFINE y == u + v * d
      <2>1. y \in Int
            BY <1>8
      <2> HIDE DEF y
      <2>2. y % Order \in 0..Order - 1
            BY <2>1, CongMod
      <2> QED  BY <2>2 DEF y
<1>10. Suma(Mul(u, Gen), Mul(v, Times(d))) = Times(k0)
      <2>1. Mul(u, Gen) = Times(u)
            BY <1>6, MulOfGen
      <2>2. Mul(v, Times(d)) = Times(v * d)
            BY <1>0, <1>6, MulIs
      <2>3. Suma(Times(u), Times(v * d)) = Times(u + v * d)
            BY <1>6, <1>8, TimesAdd
      <2>4. Times(u + v * d) = Times((u + v * d) % Order)
            BY <1>8, TimesRepeat
      <2> QED  BY <2>1, <2>2, <2>3, <2>4
<1>11. EcdsaOk(Times(d), e, r, s) <=> Times(k0) # Infinity /\ Times(k0)[1] % Order = r
      BY <1>3, <1>10
<1> HIDE DEF k0
<1>12. k0 \in Int
      BY <1>0, <1>9
<1>13. \A k \in 0..Order - 1 : (s * k - e - r * d) % Order = 0 <=> k = k0
      <2> SUFFICES ASSUME NEW k \in 0..Order - 1
                   PROVE  (s * k - e - r * d) % Order = 0 <=> k = k0
          OBVIOUS
      <2> DEFINE a == s * k  b == r * d  x == e + b
      <2>1. k \in Int /\ a \in Int /\ b \in Int /\ x \in Int
            BY <1>0, <1>4
      <2>2. Cong(s * k, x) <=> Cong(k, w * x)
            <3> HIDE DEF x
            <3> QED  BY <1>4, <1>5, <2>1, OneSolution
      <2>3. (a - e - b) % Order = 0 <=> Cong(a, e + b)
            <3> HIDE DEF a, b
            <3> QED  BY <1>4, <2>1, RemainderIs
      <2> DEFINE y == w * x
      <2>4. y \in Int /\ Cong(k0, y)
            BY <1>4, <1>7, <2>1
      <2>5. Cong(k, y) <=> k = k0
            <3> HIDE DEF y
            <3>1. ASSUME Cong(k, y) PROVE k = k0
                  <4>1. Cong(y, k0)
                        BY <1>12, <2>4, CongSym
                  <4>2. Cong(k, k0)
                        BY <1>12, <2>1, <2>4, <3>1, <4>1, CongTrans
                  <4> QED  BY <1>9, <4>2, CongIsSame
            <3> QED  BY <2>4, <3>1
      <2> QED  BY <2>2, <2>3, <2>5
<1>14. CASE k0 = 0
      <2>1. Times(k0) = Infinity
            BY <1>14, TimesGrows
      <2>2. \A k \in 1..Order - 1 : ~((s * k - e - r * d) % Order = 0)
            <3> SUFFICES ASSUME NEW k \in 1..Order - 1
                         PROVE  ~((s * k - e - r * d) % Order = 0)
                OBVIOUS
            <3>1. k \in 0..Order - 1 /\ k # k0
                  BY <1>0, <1>14
            <3> QED  BY <1>13, <3>1
      <2> QED  BY <1>11, <2>1, <2>2
<1>15. CASE k0 # 0
      <2>1. k0 \in 1..Order - 1
            BY <1>9, <1>15
      <2>2. Times(k0) # Infinity
            BY <2>1, GroupAssumption
      <2>3. \A k \in 1..Order - 1 : (s * k - e - r * d) % Order = 0 <=> k = k0
            <3>1. \A k \in 1..Order - 1 : k \in 0..Order - 1
                  BY <1>0
            <3> QED  BY <1>13, <3>1
      <2> QED  BY <1>11, <2>1, <2>2, <2>3
<1> QED  BY <1>14, <1>15

-----------------------------------------------------------------------------
(***************************************************************************)
(* The parts together.                                                     *)
(***************************************************************************)
CurveTypeOK == part = "curve" => input \in Inputs

\* What each part knows, but for the code of the node.
OtherInv == KeyInv /\ TpmInv /\ RealmInv /\ GrantsTypeOK /\ GovTypeOK /\ GovKnown /\ CurveTypeOK

LEMMA OtherInit == Init => OtherInv
<1>1. Init => CurveTypeOK
      BY DEF Init, CurveTypeOK
<1>2. Init => KeyInv /\ TpmInv /\ RealmInv /\ GrantsTypeOK /\ GovTypeOK /\ GovKnown
      BY KeyInvInit, TpmInvInit, RealmInvInit, GrantsTypeInit, GovTypeInit, GovKnownInit DEF Init
<1> QED  BY <1>1, <1>2 DEF OtherInv

\* What a step does to the variables of each part.
LEMMA StepOfAPart ==
    ASSUME [Next]_vars
    PROVE  /\ KeyNext \/ UNCHANGED keyVars
           /\ TpmNext \/ UNCHANGED tpmVars
           /\ RealmNext \/ UNCHANGED realmVars
           /\ (IamNext \/ MintNext) \/ UNCHANGED grantVars
           /\ CodegenNext \/ UNCHANGED codegenVars
           /\ GovNext \/ UNCHANGED govVars
           /\ UNCHANGED <<part, input>>
<1> USE DEF InPart, NotKey, NotTpm, NotRealm, NotGrants, NotCodegen, NotGov
<1>1. CASE UNCHANGED vars
      BY <1>1 DEF vars, curveVars
<1>2. CASE InPart("key", KeyNext, NotKey) \/ InPart("tpm", TpmNext, NotTpm)
      BY <1>2
<1>3. CASE InPart("realm", RealmNext, NotRealm) \/ InPart("gov", GovNext, NotGov)
      BY <1>3
<1>4. CASE InPart("iam", IamNext, NotGrants) \/ InPart("mint", MintNext, NotGrants)
      BY <1>4
<1>5. CASE InPart("codegen", CodegenNext, NotCodegen)
      BY <1>5
<1> QED  BY <1>1, <1>2, <1>3, <1>4, <1>5 DEF Next

LEMMA OtherStep == OtherInv /\ [Next]_vars => OtherInv'
<1> SUFFICES ASSUME OtherInv, [Next]_vars PROVE OtherInv'
    OBVIOUS
<1>1. KeyInv'
      BY StepOfAPart, KeyInvStep DEF OtherInv
<1>2. TpmInv'
      BY StepOfAPart, TpmInvStep DEF OtherInv
<1>3. RealmInv'
      BY StepOfAPart, RealmInvStep DEF OtherInv
<1>4. GrantsTypeOK'
      BY StepOfAPart, GrantsTypeStep DEF OtherInv
<1>5. CurveTypeOK'
      BY StepOfAPart DEF OtherInv, CurveTypeOK
<1>6. GovTypeOK' /\ GovKnown'
      BY StepOfAPart, GovTypeStep, GovKnownStep DEF OtherInv
<1> QED  BY <1>1, <1>2, <1>3, <1>4, <1>5, <1>6 DEF OtherInv

LEMMA OtherIsSound ==
    ASSUME OtherInv
    PROVE  /\ KeyTypeOK /\ ValidMeansSigned /\ KeyIsFound
           /\ TpmTypeOK /\ AttestedMeansQuoted
           /\ RealmTypeOK /\ SovereignOnOwnPack
           /\ GrantsTypeOK
           /\ GovTypeOK /\ GovernedIsRecent
<1>1. KeyTypeOK /\ ValidMeansSigned /\ KeyIsFound
      BY DEF OtherInv, KeyInv, KeyTypes
<1>2. TpmTypeOK /\ AttestedMeansQuoted /\ RealmTypeOK /\ SovereignOnOwnPack
      BY DEF OtherInv, TpmInv, RealmInv
<1>3. GrantsTypeOK /\ GovTypeOK /\ GovernedIsRecent
      BY KnownIsRecent DEF OtherInv
<1> QED  BY <1>1, <1>2, <1>3

\* The verification of a signature accepts exactly what somebody who knows the
\* secret key could have made (_ecdsa_ok, _ec_mul and their copies): for every
\* secret key, hash and signature, zero and the order itself included, on every
\* curve whose generator makes a group.
THEOREM SignaturesAreSound == Spec => []EcdsaSound
<1>1. OtherInv => EcdsaSound
      <2> SUFFICES ASSUME part = "curve", input \in Inputs PROVE EcdsaSound
          BY DEF OtherInv, CurveTypeOK, EcdsaSound
      <2> DEFINE d == input.d  e == input.e  r == input.r  s == input.s
      <2>1. Order \in Nat /\ Order > 2
            BY OrderIs
      <2>2. d \in 1..Order - 1 /\ e \in Nat /\ r \in Nat /\ s \in Nat
            BY <2>1 DEF Inputs
      <2>3. Mul(d, Gen) = Times(d)
            BY <2>1, <2>2, MulOfGen
      <2> HIDE DEF d, e, r, s
      <2>4. EcdsaOk(Times(d), e, r, s) <=>
              /\ 0 < s /\ s < Order /\ 0 < r /\ r < Order
              /\ \E k \in 1..Order - 1 :
                   Times(k)[1] % Order = r /\ (s * k - e - r * d) % Order = 0
            BY <2>2, SignatureIffMade
      <2> QED  BY <2>3, <2>4 DEF EcdsaSound, d, e, r, s
<1> QED  BY OtherInit, OtherStep, <1>1, PTL DEF Spec

\* Outside the code that the node writes, nothing counts as proved that was
\* not: without any hypothesis.
THEOREM NothingElseUnproved == Spec => [](part # "codegen" => NothingUnproved)
<1>1. OtherInv => (part # "codegen" => NothingUnproved)
      BY OtherIsSound DEF NothingUnproved
<1> QED  BY OtherInit, OtherStep, <1>1, PTL DEF Spec

\* Nothing counts as proved that was not (fido.py, tpm_attest, realm_activate,
\* codegen_nodo, cognition_guard and ring_promote), whatever is pulled out,
\* copied, revoked, killed or torn meanwhile, for every value of the constants;
\* of the code that the node writes, with the one process that layerd keeps as
\* long as it does not crash itself.
THEOREM NothingCountsUnproved ==
    ASSUME NEW w, Workers = {w}
    PROVE  Spec => []NothingUnproved
<1>1. Init => CodegenInv
      BY CodegenInvInit DEF Init
<1>2. CodegenInv /\ [Next]_vars => CodegenInv'
      BY StepOfAPart, CodegenInvStep
<1>3. OtherInv /\ CodegenInv => NothingUnproved
      BY OtherIsSound, CodegenIsSound DEF NothingUnproved
<1> QED  BY OtherInit, OtherStep, <1>1, <1>2, <1>3, PTL DEF Spec
=============================================================================
