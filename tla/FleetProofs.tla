----------------------------- MODULE FleetProofs -----------------------------
(***************************************************************************)
(* Theorems about the federation, for every set of nodes, every list of    *)
(* peers and every number of blocks, crashes and failed requests.          *)
(*                                                                         *)
(* The argument: as long as nothing crashed, the chain of a node is the    *)
(* one it meant to write (Grown), its head is one block behind at most,    *)
(* and whatever was concluded about a node is about a height it reached.   *)
(* After a crash a chain may fork; then only the check of the links        *)
(* protects a verifier (ChainedIntact).                                    *)
(***************************************************************************)
EXTENDS Fleet, SequenceTheorems, FiniteSetTheorems, WellFoundedInduction, TLAPS

Hashes == Seq(Int)
Blocks == [height : Int, prev : Hashes, id : Int]
Says == {"absent", "null", "VALIDA", "CADENA_INVALIDA", "SIN_CADENA", "CABEZA_DISCREPANTE",
         "SIN_REGISTRO", "AUTOINFORME_DEGRADADO", "SIN_FEDERACION_PUBLICADA",
         "SIN_FEDERACION_PROPIA", "FEDERACION_NO_COMPARABLE", "OTRA_FEDERACION"}
Entries == [verdict : Says, height : Int]
Rows == [Nodes -> Entries]
Runs == [pc : {"idle", "attest", "blocks", "again", "publish"}, todo : Seq(Nodes),
         said : Hashes, top : Hashes, height : Int, row : Rows]

Types ==
    /\ chain \in [Nodes -> Seq(Blocks)] /\ ids \in [Nodes -> 0..MaxBlocks]
    /\ head \in [Nodes -> [height : Int, hash : Hashes]]
    /\ recorded \in [Nodes -> BOOLEAN] /\ mpc \in [Nodes -> {"idle", "save", "record"}]
    /\ att \in [Nodes -> Hashes]
    /\ run \in [Nodes -> Runs] /\ view \in [Nodes -> Rows]
    /\ anchor = [v \in Nodes |-> [s \in Nodes |-> anchor[v][s]]]
    /\ n3 = [v \in Nodes |-> [s \in Nodes |-> n3[v][s]]]
    /\ crashes \in 0..MaxCrashes /\ drops \in 0..MaxDrops

\* Heights follow the number of blocks mined, also in a chain that forked.
Bounded ==
    \A n \in Nodes :
        /\ \A i \in DOMAIN chain[n] : chain[n][i].height \in {-1} \cup 1..ids[n]
        /\ head[n].height \in 0..ids[n]
        /\ mpc[n] = "save" => chain[n] # <<>> /\ LastOf(chain[n]).height \in 1..ids[n]

Busy == \A v \in Nodes : run[v].pc \in {"attest", "blocks", "again"} => run[v].todo # <<>>

\* The chain of k blocks, and its hash.
Count(k) == [j \in 1..k |-> j]
GrownBlock(i) == [height |-> i, prev |-> Count(i - 1), id |-> i]
Grown(k) == [i \in 1..k |-> GrownBlock(i)]

Undisturbed ==
    \A n \in Nodes :
        LET k == IF mpc[n] = "save" THEN ids[n] - 1 ELSE ids[n]
        IN  /\ chain[n] = Grown(ids[n])
            /\ k >= 0 /\ head[n] = [height |-> k, hash |-> Count(k)]

Reached(s, h) == h \in 1..ids[s]

Vouching ==
    \A v, s \in Nodes :
        /\ run[v].row[s].verdict = "VALIDA" => Reached(s, run[v].row[s].height)
        /\ view[v][s].verdict = "VALIDA" => Reached(s, view[v][s].height)

Anchored ==
    \A v, s \in Nodes :
        /\ \/ anchor[v][s] = NoAnchor
           \/ \E k \in 1..ids[s] : anchor[v][s] = [height |-> k, head |-> Count(k)]
        /\ n3[v][s] \notin {"ROLLBACK", "REESCRITA"}

Calm == crashes = 0 => Undisturbed /\ Vouching /\ Anchored

FleetInv == Types /\ Bounded /\ Busy /\ Calm

-----------------------------------------------------------------------------
\* Facts about chains.
LEMMA LeastNat ==
    ASSUME NEW T \in SUBSET Nat, T # {}
    PROVE  \E n \in T : \A m \in T : n <= m
<1>1. \E n \in T : \A m \in T : ~ (<<m, n>> \in OpToRel(<, Nat))
      BY WFMin, NatLessThanWellFounded
<1>2. PICK n \in T : \A m \in T : ~ (<<m, n>> \in OpToRel(<, Nat))
      BY <1>1
<1>3. \A m \in T : ~(m < n)
      BY <1>2 DEF OpToRel
<1> QED  BY <1>3

LEMMA CountGrows ==
    ASSUME NEW k \in Nat
    PROVE  Count(k) \in Hashes /\ Append(Count(k), k + 1) = Count(k + 1)
<1>1. Count(k) \in Hashes /\ Len(Count(k)) = k
      BY DEF Count, Hashes
<1>2. Count(k + 1) \in Hashes /\ Len(Count(k + 1)) = k + 1
      BY DEF Count, Hashes
<1>3. Append(Count(k), k + 1) \in Hashes /\ Len(Append(Count(k), k + 1)) = k + 1
      BY <1>1, AppendProperties DEF Hashes
<1>4. \A i \in 1..(k + 1) : Append(Count(k), k + 1)[i] = Count(k + 1)[i]
      BY <1>1, AppendProperties DEF Hashes, Count
<1> QED  BY <1>2, <1>3, <1>4, SeqEqual DEF Hashes

LEMMA GrownHash ==
    ASSUME NEW i \in Nat \ {0}
    PROVE  Hash(GrownBlock(i)) = Count(i) /\ GrownBlock(i) \in Blocks
<1>1. i - 1 \in Nat /\ (i - 1) + 1 = i
      OBVIOUS
<1>2. Append(Count(i - 1), i) = Count(i) /\ Count(i - 1) \in Hashes
      BY <1>1, CountGrows
<1> QED  BY <1>2 DEF Hash, GrownBlock, Blocks

LEMMA GrownChain ==
    ASSUME NEW k \in Nat
    PROVE  /\ Grown(k) \in Seq(Blocks) /\ Len(Grown(k)) = k /\ DOMAIN Grown(k) = 1..k
           /\ \A i \in 1..k : Grown(k)[i] = GrownBlock(i)
           /\ k > 0 => LastOf(Grown(k)) = GrownBlock(k)
<1>1. \A i \in 1..k : GrownBlock(i) \in Blocks
      BY GrownHash
<1>2. Grown(k) \in Seq(Blocks) /\ Len(Grown(k)) = k
      BY <1>1 DEF Grown
<1> QED  BY <1>2 DEF Grown, LastOf

LEMMA GrownGrows ==
    ASSUME NEW k \in Nat
    PROVE  Append(Grown(k), GrownBlock(k + 1)) = Grown(k + 1)
<1>1. GrownBlock(k + 1) \in Blocks
      BY GrownHash
<1>2. /\ Grown(k) \in Seq(Blocks) /\ Len(Grown(k)) = k
      /\ Grown(k + 1) \in Seq(Blocks) /\ Len(Grown(k + 1)) = k + 1
      BY GrownChain
<1> DEFINE t == Append(Grown(k), GrownBlock(k + 1))
<1>3. /\ t \in Seq(Blocks) /\ Len(t) = k + 1 /\ t[k + 1] = GrownBlock(k + 1)
      /\ \A i \in 1..k : t[i] = Grown(k)[i]
      BY <1>1, <1>2, AppendProperties
<1>4. \A i \in 1..(k + 1) : t[i] = Grown(k + 1)[i]
      BY <1>3, GrownChain
<1> QED  BY <1>2, <1>3, <1>4, SeqEqual

\* Every prefix of it is what a verifier calls intact.
LEMMA GrownIntact ==
    ASSUME NEW k \in Nat, NEW i \in 1..k
    PROVE  Intact(SubSeq(Grown(k), 1, i))
<1> DEFINE c == SubSeq(Grown(k), 1, i)
<1>1. /\ c \in Seq(Blocks) /\ Len(c) = i /\ DOMAIN c = 1..i
      /\ \A j \in 1..i : c[j] = GrownBlock(j)
      <2>1. \A j \in 1..i : Grown(k)[j] = GrownBlock(j) /\ GrownBlock(j) \in Blocks
            BY GrownChain, GrownHash
      <2>2. c \in Seq(Blocks) /\ Len(c) = i /\ \A j \in 1..i : c[j] = Grown(k)[j]
            BY <2>1, SubSeqProperties
      <2> HIDE DEF c
      <2> QED  BY <2>1, <2>2, LenProperties
<1> HIDE DEF c
<1>2. Hash(LastOf(c)) = Count(i)
      BY <1>1, GrownHash DEF LastOf
<1>3. [j \in DOMAIN c |-> c[j].id] = Count(i)
      BY <1>1 DEF Count, GrownBlock
<1>4. \A j \in DOMAIN c : c[j] # Torn
      BY <1>1 DEF GrownBlock, Torn
<1>5. c # <<>>
      BY <1>1
<1> QED  BY <1>2, <1>3, <1>4, <1>5 DEF Intact, c

\* The check of the links is enough: the last hash commits to every block.
\* (By induction on the length: the first block whose hash does not commit to
\* what is before it would have a predecessor that does.)
LEMMA ChainedIntact ==
    ASSUME NEW c \in Seq(Blocks), c # <<>>, Chained(c)
    PROVE  Intact(c)
<1> DEFINE Ids(i) == [j \in 1..i |-> c[j].id]
           Wrong == {i \in 1..Len(c) : Hash(c[i]) # Ids(i)}
<1>1. Len(c) \in Nat \ {0} /\ DOMAIN c = 1..Len(c)
      BY EmptySeq, LenProperties
<1>2. \A i \in 1..Len(c) : c[i] \in Blocks /\ c[i].id \in Int /\ c[i].prev \in Hashes
      <2>1. \A i \in 1..Len(c) : c[i] \in Blocks
            BY ElementOfSeq
      <2> QED  BY <2>1 DEF Blocks
<1>3. \A i \in 1..Len(c) : Ids(i) \in Hashes /\ Len(Ids(i)) = i
      BY <1>2 DEF Hashes
<1>4. ASSUME NEW i \in 1..Len(c), i > 1, Hash(c[i - 1]) = Ids(i - 1)
      PROVE  Hash(c[i]) = Ids(i)
      <2>1. c[i].prev = Ids(i - 1)
            BY <1>1, <1>4 DEF Chained
      <2>2. i - 1 \in 1..Len(c) /\ Ids(i - 1) \in Hashes /\ Len(Ids(i - 1)) = i - 1
            BY <1>1, <1>3, <1>4
      <2>3. /\ Hash(c[i]) \in Hashes /\ Len(Hash(c[i])) = i
            /\ Hash(c[i])[i] = c[i].id
            /\ \A j \in 1..(i - 1) : Hash(c[i])[j] = Ids(i - 1)[j]
            BY <1>1, <1>2, <2>1, <2>2, AppendProperties DEF Hash, Hashes
      <2>4. \A j \in 1..i : Hash(c[i])[j] = Ids(i)[j]
            BY <1>1, <2>3
      <2> QED  BY <1>3, <2>3, <2>4, SeqEqual DEF Hashes
<1>5. Hash(c[1]) = Ids(1)
      <2>1. c[1].prev = <<>>
            BY <1>1 DEF Chained, Genesis
      <2>2. Hash(c[1]) \in Hashes /\ Len(Hash(c[1])) = 1 /\ Hash(c[1])[1] = c[1].id
            BY <1>1, <1>2, <2>1, EmptySeq, AppendProperties DEF Hash, Hashes
      <2>3. \A j \in 1..1 : Hash(c[1])[j] = Ids(1)[j]
            BY <2>2
      <2> QED  BY <1>1, <1>3, <2>2, <2>3, SeqEqual DEF Hashes
<1>6. Wrong = {}
      <2> SUFFICES ASSUME Wrong # {} PROVE FALSE
          OBVIOUS
      <2>1. Wrong \in SUBSET Nat
            BY <1>1
      <2>2. PICK n \in Wrong : \A m \in Wrong : n <= m
            <3> HIDE DEF Wrong
            <3> QED  BY <2>1, LeastNat
      <2>3. n \in 1..Len(c) /\ Hash(c[n]) # Ids(n)
            OBVIOUS
      <2>4. n > 1
            <3>1. n # 1
                  BY <1>5, <2>3
            <3> QED  BY <1>1, <2>3, <3>1
      <2>5. n \in Nat /\ n - 1 \in 1..Len(c)
            <3> HIDE DEF Wrong, Ids
            <3> QED  BY <1>1, <2>3, <2>4
      <2>6. n - 1 \notin Wrong
            <3> HIDE DEF Wrong, Ids
            <3>1. ~ (n <= n - 1)
                  BY <2>5
            <3> QED  BY <2>2, <3>1
      <2>7. Hash(c[n - 1]) = Ids(n - 1)
            BY <2>5, <2>6
      <2> QED  BY <1>4, <2>3, <2>4, <2>7
<1>7. Hash(LastOf(c)) = [i \in DOMAIN c |-> c[i].id]
      <2>1. Len(c) \in 1..Len(c) /\ Len(c) \notin Wrong
            BY <1>1, <1>6
      <2>2. Hash(c[Len(c)]) = Ids(Len(c))
            BY <2>1
      <2> QED  BY <1>1, <2>2 DEF LastOf
<1> QED  BY <1>7 DEF Intact, Chained

-----------------------------------------------------------------------------
LEMMA FleetInit == Init => FleetInv
<1> SUFFICES ASSUME Init PROVE FleetInv
    OBVIOUS
<1> USE FleetBoundAssumption
<1>1. NoAtt \in Hashes /\ Genesis \in Hashes /\ <<>> \in Seq(Blocks) /\ <<>> \in Seq(Nodes)
      BY DEF NoAtt, Genesis, Hashes
<1>2. NoRow \in Rows
      <2>1. NoEntry \in Entries
            BY DEF NoEntry, Entries, Says
      <2> QED  BY <2>1 DEF NoRow, Rows
<1>7. Idle \in Runs
      BY <1>1, <1>2 DEF Idle, Runs
<1>3. Types
      BY <1>1, <1>2, <1>7 DEF Init, Types, NoHead
<1>4. Bounded /\ Busy
      BY DEF Init, Bounded, Busy, NoHead, Idle
<1>5. Count(0) = Genesis /\ Grown(0) = <<>>
      BY DEF Count, Grown, Genesis
<1>6. Calm
      BY <1>5 DEF Init, Calm, Undisturbed, Vouching, Anchored, NoHead, Idle, NoRow, NoEntry
<1> QED  BY <1>3, <1>4, <1>6 DEF FleetInv

-----------------------------------------------------------------------------
(***************************************************************************)
(* The miner.                                                              *)
(***************************************************************************)
\* What is known of a node stays true when it mines.
LEMMA StillReached ==
    ASSUME Types, Vouching, Anchored, UNCHANGED <<run, view, anchor, n3>>,
           ids' \in [Nodes -> Nat], \A n \in Nodes : ids'[n] >= ids[n]
    PROVE  Vouching' /\ Anchored'
<1>1. \A n \in Nodes : ids[n] \in Nat /\ ids'[n] \in Nat
      BY DEF Types
<1>2. \A n \in Nodes : \A k : k \in 1..ids[n] => k \in 1..ids'[n]
      BY <1>1
<1>3. Vouching'
      BY <1>2 DEF Vouching, Reached
<1>4. Anchored'
      BY <1>2 DEF Anchored
<1> QED  BY <1>3, <1>4

LEMMA ChainOf ==
    ASSUME Undisturbed, NEW n \in Nodes
    PROVE  chain[n] = Grown(ids[n])
BY DEF Undisturbed

LEMMA MineStep ==
    ASSUME FleetInv, NEW n \in Miners, Mine(n)
    PROVE  FleetInv'
<1> USE FleetBoundAssumption, MinersAssumption DEF FleetInv
<1>1. n \in Nodes /\ ids[n] \in 0..MaxBlocks /\ ids[n] < MaxBlocks /\ chain[n] \in Seq(Blocks)
      BY DEF Mine, Types
<1>2. NewBlock(n) \in Blocks /\ NewBlock(n).height \in 1..(ids[n] + 1)
      BY <1>1 DEF NewBlock, Blocks, Types, Bounded
<1> DEFINE c == Append(chain[n], NewBlock(n))
<1>3. /\ c \in Seq(Blocks) /\ Len(c) = Len(chain[n]) + 1 /\ c # <<>>
      /\ c[Len(c)] = NewBlock(n) /\ DOMAIN c = 1..(Len(chain[n]) + 1)
      /\ \A i \in 1..Len(chain[n]) : c[i] = chain[n][i]
      /\ DOMAIN chain[n] = 1..Len(chain[n]) /\ Len(chain[n]) \in Nat
      BY <1>1, <1>2, AppendProperties, LenProperties
<1>4. /\ chain' = [chain EXCEPT ![n] = c] /\ ids' = [ids EXCEPT ![n] = ids[n] + 1]
      /\ mpc' = [mpc EXCEPT ![n] = "save"] /\ mpc[n] = "idle"
      /\ UNCHANGED <<head, recorded, crashes, att, run, view, anchor, n3, drops>>
      BY DEF Mine
<1> HIDE DEF c
<1>5. Types'
      BY <1>1, <1>3, <1>4 DEF Types
<1>6. Bounded'
      <2> SUFFICES ASSUME NEW m \in Nodes
                   PROVE  /\ \A i \in DOMAIN chain'[m] :
                                 chain'[m][i].height \in {-1} \cup 1..ids'[m]
                          /\ head'[m].height \in 0..ids'[m]
                          /\ mpc'[m] = "save" =>
                                 /\ chain'[m] # <<>>
                                 /\ LastOf(chain'[m]).height \in 1..ids'[m]
          BY DEF Bounded, LastOf
      <2>1. CASE m # n
            BY <1>4, <2>1 DEF Types, Bounded, LastOf
      <2>2. CASE m = n
            <3>1. chain'[n] = c /\ ids'[n] = ids[n] + 1 /\ head'[n] = head[n]
                  BY <1>1, <1>4 DEF Types
            <3>2. \A i \in DOMAIN c : c[i].height \in {-1} \cup 1..(ids[n] + 1)
                  <4>1. \A h \in {-1} \cup 1..ids[n] : h \in {-1} \cup 1..(ids[n] + 1)
                        BY <1>1
                  <4>2. \A i \in 1..Len(chain[n]) : c[i].height \in {-1} \cup 1..ids[n]
                        BY <1>1, <1>3 DEF Bounded
                  <4>3. c[Len(chain[n]) + 1].height \in 1..(ids[n] + 1)
                        BY <1>2, <1>3
                  <4>4. \A i \in DOMAIN c : i \in 1..Len(chain[n]) \/ i = Len(chain[n]) + 1
                        BY <1>3
                  <4> QED  BY <4>1, <4>2, <4>3, <4>4
            <3>3. head[n].height \in 0..(ids[n] + 1)
                  BY <1>1 DEF Bounded
            <3> QED  BY <1>2, <1>3, <2>2, <3>1, <3>2, <3>3 DEF LastOf
      <2> QED  BY <2>1, <2>2
<1>7. Busy'
      BY <1>4 DEF Busy
<1>8. Calm'
      <2> SUFFICES ASSUME crashes = 0 PROVE Undisturbed' /\ Vouching' /\ Anchored'
          BY <1>4 DEF Calm
      <2>1. Undisturbed /\ Vouching /\ Anchored
            BY DEF Calm
      <2>2. Vouching' /\ Anchored'
            <3>1. ids' \in [Nodes -> Nat] /\ \A m \in Nodes : ids'[m] >= ids[m]
                  BY <1>1, <1>4 DEF Types
            <3> QED  BY <1>4, <2>1, <3>1, StillReached
      <2>3. NewBlock(n) = GrownBlock(ids[n] + 1)
            <3>1. head[n] = [height |-> ids[n], hash |-> Count(ids[n])]
                  BY <1>1, <1>4, <2>1 DEF Undisturbed
            <3>2. (ids[n] + 1) - 1 = ids[n]
                  BY <1>1
            <3> QED  BY <3>1, <3>2 DEF NewBlock, GrownBlock
      <2>4. c = Grown(ids[n] + 1)
            <3>1. chain[n] = Grown(ids[n]) /\ ids[n] \in Nat
                  BY <1>1, <2>1, ChainOf
            <3> QED  BY <2>3, <3>1, GrownGrows DEF c
      <2>5. Undisturbed'
            BY <1>1, <1>4, <2>1, <2>4 DEF Undisturbed, Types
      <2> QED  BY <2>2, <2>5
<1> QED  BY <1>5, <1>6, <1>7, <1>8

LEMMA SaveHeadStep ==
    ASSUME FleetInv, NEW n \in Miners, SaveHead(n)
    PROVE  FleetInv'
<1> USE FleetBoundAssumption, MinersAssumption DEF FleetInv
<1> DEFINE b == LastOf(chain[n])
<1>1. /\ n \in Nodes /\ mpc[n] = "save" /\ chain[n] \in Seq(Blocks) /\ chain[n] # <<>>
      /\ b.height \in 1..ids[n] /\ ids[n] \in Nat
      BY DEF SaveHead, Types, Bounded
<1>2. b \in Blocks
      BY <1>1, EmptySeq, ElementOfSeq DEF LastOf
<1>3. [height |-> b.height, hash |-> Hash(b)] \in [height : Int, hash : Hashes]
      BY <1>2, AppendProperties DEF Blocks, Hash, Hashes
<1>4. /\ head' = [head EXCEPT ![n] = [height |-> b.height, hash |-> Hash(b)]]
      /\ mpc' = [mpc EXCEPT ![n] = "record"]
      /\ UNCHANGED <<chain, recorded, ids, crashes, att, run, view, anchor, n3, drops>>
      BY DEF SaveHead
<1>5. crashes = 0 /\ Undisturbed => b = GrownBlock(ids[n]) /\ Hash(b) = Count(ids[n])
      <2> SUFFICES ASSUME Undisturbed PROVE b = GrownBlock(ids[n]) /\ Hash(b) = Count(ids[n])
          OBVIOUS
      <2>1. chain[n] = Grown(ids[n]) /\ ids[n] \in Nat \ {0}
            BY <1>1, ChainOf
      <2>2. LastOf(chain[n]) = GrownBlock(ids[n])
            BY <2>1, GrownChain
      <2> QED  BY <2>1, <2>2, GrownHash
<1> HIDE DEF b
<1>6. Types'
      BY <1>1, <1>3, <1>4 DEF Types
<1>7. Bounded' /\ Busy'
      BY <1>1, <1>4 DEF Types, Bounded, Busy, LastOf
<1>8. Calm'
      <2> SUFFICES ASSUME crashes = 0 PROVE Undisturbed' /\ Vouching' /\ Anchored'
          BY <1>4 DEF Calm
      <2>1. Undisturbed /\ Vouching /\ Anchored
            BY DEF Calm
      <2>2. Vouching' /\ Anchored'
            BY <1>4, <2>1 DEF Vouching, Reached, Anchored
      <2>3. b.height = ids[n] /\ Hash(b) = Count(ids[n])
            BY <1>5, <2>1 DEF GrownBlock
      <2>4. Undisturbed'
            BY <1>1, <1>4, <2>1, <2>3 DEF Undisturbed, Types
      <2> QED  BY <2>2, <2>4
<1> QED  BY <1>6, <1>7, <1>8

LEMMA RecordStep ==
    ASSUME FleetInv, NEW n \in Miners, Record(n)
    PROVE  FleetInv'
<1> USE MinersAssumption DEF FleetInv
<1>1. Types'
      BY DEF Types, Record
<1>2. Bounded' /\ Busy'
      BY DEF Types, Bounded, Busy, LastOf, Record
<1>3. Calm'
      <2>1. /\ mpc[n] = "record" /\ mpc' = [mpc EXCEPT ![n] = "idle"]
            /\ UNCHANGED <<chain, head, ids, crashes, run, view, anchor, n3>>
            BY DEF Record
      <2>2. Undisturbed => Undisturbed'
            BY <2>1 DEF Undisturbed, Types
      <2>3. Vouching /\ Anchored => Vouching' /\ Anchored'
            BY <2>1 DEF Vouching, Reached, Anchored
      <2> QED  BY <2>1, <2>2, <2>3 DEF Calm
<1> QED  BY <1>1, <1>2, <1>3

\* After a crash only types and heights are left.
LEMMA CrashSteps ==
    ASSUME FleetInv, NEW n \in Miners, KillMiner(n) \/ PowerCut(n)
    PROVE  FleetInv'
<1> USE FleetBoundAssumption, MinersAssumption DEF FleetInv
<1>1. /\ crashes \in Nat /\ crashes < MaxCrashes /\ crashes' = crashes + 1
      /\ mpc' = [mpc EXCEPT ![n] = "idle"]
      /\ UNCHANGED <<recorded, ids, att, run, view, anchor, n3, drops>>
      BY DEF KillMiner, PowerCut, Types
<1>2. n \in Nodes /\ chain[n] \in Seq(Blocks) /\ ids[n] \in Nat
      BY DEF Types
<1>3. /\ head' \in [Nodes -> [height : Int, hash : Hashes]]
      /\ \A m \in Nodes : head'[m].height \in 0..ids[m]
      <2>1. NoHead \in [height : Int, hash : Hashes] /\ NoHead.height = 0
            BY DEF NoHead, Genesis, Hashes
      <2>2. head' = head \/ head' = [head EXCEPT ![n] = NoHead]
            BY DEF KillMiner, PowerCut
      <2>3. head' \in [Nodes -> [height : Int, hash : Hashes]]
            BY <1>2, <2>1, <2>2 DEF Types
      <2>4. \A m \in Nodes : head'[m] = head[m] \/ head'[m] = NoHead
            BY <2>2 DEF Types
      <2>5. \A m \in Nodes : head[m].height \in 0..ids[m] /\ 0 \in 0..ids[m]
            BY DEF Types, Bounded
      <2> QED  BY <2>1, <2>3, <2>4, <2>5
<1>4. \E c \in Seq(Blocks) :
          /\ chain' = [chain EXCEPT ![n] = c]
          /\ \A i \in DOMAIN c : c[i].height \in {-1} \cup 1..ids[n]
      <2>1. /\ Len(chain[n]) \in Nat /\ DOMAIN chain[n] = 1..Len(chain[n])
            /\ \A i \in 1..Len(chain[n]) :
                   chain[n][i] \in Blocks /\ chain[n][i].height \in {-1} \cup 1..ids[n]
            BY <1>2, LenProperties, ElementOfSeq DEF Bounded
      <2>2. CASE chain' = chain
            BY <1>2, <2>1, <2>2 DEF Types
      <2>3. CASE /\ chain[n] # <<>>
                 /\ chain' = [chain EXCEPT ![n][Len(chain[n])] = Torn]
            <3> DEFINE c == [chain[n] EXCEPT ![Len(chain[n])] = Torn]
            <3>1. Torn \in Blocks /\ Torn.height = -1
                  BY DEF Torn, Blocks, Genesis, Hashes
            <3>2. Len(chain[n]) \in 1..Len(chain[n])
                  BY <1>2, <2>3, EmptySeq
            <3>3. /\ c \in Seq(Blocks) /\ Len(c) = Len(chain[n])
                  /\ \A j \in 1..Len(c) :
                         c[j] = IF j = Len(chain[n]) THEN Torn ELSE chain[n][j]
                  BY <1>2, <3>1, <3>2, ExceptSeq
            <3>4. chain' = [chain EXCEPT ![n] = c]
                  BY <2>3
            <3> HIDE DEF c
            <3>5. \A i \in DOMAIN c : c[i].height \in {-1} \cup 1..ids[n]
                  BY <2>1, <3>1, <3>3, LenProperties
            <3> QED  BY <3>3, <3>4, <3>5
      <2>4. CASE /\ chain[n] # <<>>
                 /\ chain' = [chain EXCEPT ![n] = SubSeq(chain[n], 1, Len(chain[n]) - 1)]
            <3> DEFINE c == SubSeq(chain[n], 1, Len(chain[n]) - 1)
            <3>1. /\ c \in Seq(Blocks) /\ Len(c) <= Len(chain[n])
                  /\ \A i \in 1..(Len(chain[n]) - 1) : c[i] = chain[n][i]
                  /\ Len(c) = Len(chain[n]) - 1
                  <4>1. Len(chain[n]) \in Nat \ {0}
                        BY <1>2, <2>4, EmptySeq
                  <4> QED  BY <2>1, <4>1, SubSeqProperties
            <3> HIDE DEF c
            <3>2. \A i \in DOMAIN c : c[i].height \in {-1} \cup 1..ids[n]
                  <4>1. \A i \in DOMAIN c : i \in 1..(Len(chain[n]) - 1) /\ i \in 1..Len(chain[n])
                        BY <2>1, <3>1, LenProperties
                  <4> QED  BY <2>1, <3>1, <4>1
            <3> QED  BY <2>4, <3>1, <3>2 DEF c
      <2> QED  BY <2>2, <2>3, <2>4 DEF KillMiner, PowerCut
<1>5. PICK c \in Seq(Blocks) :
          /\ chain' = [chain EXCEPT ![n] = c]
          /\ \A i \in DOMAIN c : c[i].height \in {-1} \cup 1..ids[n]
      BY <1>4
<1>6. Types'
      BY <1>1, <1>2, <1>3, <1>5 DEF Types
<1>7. Bounded'
      BY <1>1, <1>2, <1>3, <1>5 DEF Types, Bounded, LastOf
<1>8. Busy' /\ Calm'
      BY <1>1 DEF Busy, Calm
<1> QED  BY <1>6, <1>7, <1>8

LEMMA AttestStep ==
    ASSUME FleetInv, NEW n \in Miners, Attest(n)
    PROVE  FleetInv'
<1> USE MinersAssumption DEF FleetInv
<1>1. HeadToAttest(n) \in Hashes
      BY DEF HeadToAttest, Types, ShortHash, NoAtt, Hashes
<1>2. Types'
      BY <1>1 DEF Types, Attest, minerVars
<1>3. Bounded' /\ Busy' /\ Calm'
      BY DEF Bounded, Busy, Calm, Undisturbed, Vouching, Reached, Anchored, LastOf, Attest,
             minerVars
<1> QED  BY <1>2, <1>3

-----------------------------------------------------------------------------
(***************************************************************************)
(* A run of fleet_attest.                                                  *)
(***************************************************************************)
GoodRow(row) ==
    crashes = 0 => \A s \in Nodes : row[s].verdict = "VALIDA" => Reached(s, row[s].height)

LEMMA RunStep ==
    ASSUME FleetInv, NEW v \in Nodes, NEW r \in Runs, run' = [run EXCEPT ![v] = r],
           r.pc \in {"attest", "blocks", "again"} => r.todo # <<>>, GoodRow(r.row),
           UNCHANGED <<minerVars, att, view, anchor, n3>>, drops' \in 0..MaxDrops
    PROVE  FleetInv'
<1> USE DEF FleetInv
<1>1. UNCHANGED <<chain, head, recorded, mpc, ids, crashes>>
      BY DEF minerVars
<1>2. Types'
      BY <1>1 DEF Types
<1>3. Bounded'
      BY <1>1 DEF Bounded, LastOf
<1>4. Busy'
      BY DEF Types, Busy
<1>5. Calm'
      <2> SUFFICES ASSUME crashes = 0 PROVE Undisturbed' /\ Vouching' /\ Anchored'
          BY <1>1 DEF Calm
      <2>1. Undisturbed' /\ Anchored'
            BY <1>1 DEF Calm, Undisturbed, Anchored
      <2>2. Vouching'
            BY <1>1 DEF Calm, Vouching, Reached, GoodRow, Types
      <2> QED  BY <2>1, <2>2
<1> QED  BY <1>2, <1>3, <1>4, <1>5

LEMMA OldRow ==
    ASSUME FleetInv, NEW v \in Nodes
    PROVE  run[v] \in Runs /\ run[v].row \in Rows /\ GoodRow(run[v].row)
<1>1. run[v] \in Runs
      BY DEF FleetInv, Types
<1> QED  BY <1>1 DEF FleetInv, Calm, Vouching, GoodRow, Runs

LEMMA NoRowGood == NoRow \in Rows /\ Idle \in Runs /\ Idle.row = NoRow /\ GoodRow(NoRow)
<1>1. NoAtt \in Hashes /\ Genesis \in Hashes /\ <<>> \in Seq(Nodes)
      BY DEF NoAtt, Genesis, Hashes
<1>2. NoEntry \in Entries
      BY DEF NoEntry, Entries, Says
<1>3. NoRow \in Rows
      BY <1>2 DEF NoRow, Rows
<1>4. Idle \in Runs
      BY <1>1, <1>3 DEF Idle, Runs
<1> QED  BY <1>3, <1>4 DEF Idle, GoodRow, NoRow, NoEntry

LEMMA AtPeer ==
    ASSUME FleetInv, NEW v \in Nodes, run[v].pc \in {"attest", "blocks", "again"}
    PROVE  Peer(v) \in Nodes /\ Rest(v) \in Seq(Nodes)
<1>1. run[v].todo \in Seq(Nodes) /\ run[v].todo # <<>>
      BY DEF FleetInv, Types, Runs, Busy
<1>2. Peer(v) \in Nodes
      BY <1>1, EmptySeq, ElementOfSeq DEF Peer
<1>3. Rest(v) \in Seq(Nodes)
      BY <1>1, TailIsSubSeq, HeadTailProperties DEF Rest
<1> QED  BY <1>2, <1>3

LEMMA DoneStep ==
    ASSUME FleetInv, NEW v \in Nodes, run[v].pc \in {"attest", "blocks", "again"},
           NEW row \in Rows, GoodRow(row), Done(v, row),
           UNCHANGED <<minerVars, att, view, anchor, n3>>, drops' \in 0..MaxDrops
    PROVE  FleetInv'
<1> DEFINE r == [Idle EXCEPT !.row = row, !.todo = Rest(v),
                             !.pc = IF Rest(v) = <<>> THEN "publish" ELSE "attest"]
<1>1. /\ r \in Runs /\ r.row = row
      /\ r.pc \in {"attest", "blocks", "again"} => r.todo # <<>>
      BY AtPeer, NoRowGood DEF Runs
<1>2. run' = [run EXCEPT ![v] = r]
      BY DEF Done
<1> HIDE DEF r
<1> QED  BY <1>1, <1>2, RunStep

LEMMA EnteredStep ==
    ASSUME FleetInv, NEW v \in Nodes, run[v].pc \in {"attest", "blocks", "again"},
           NEW verdict, NEW h \in Int, Flota(verdict) \in Says,
           crashes = 0 /\ Flota(verdict) = "VALIDA" => Reached(Peer(v), h),
           Entered(v, verdict, h),
           UNCHANGED <<minerVars, att, view, anchor, n3>>, drops' \in 0..MaxDrops
    PROVE  FleetInv'
<1> DEFINE e == [verdict |-> Flota(verdict), height |-> h]
           row == [run[v].row EXCEPT ![Peer(v)] = e]
<1>1. Peer(v) \in Nodes /\ run[v].row \in Rows /\ GoodRow(run[v].row)
      BY AtPeer, OldRow
<1>2. e \in Entries /\ e.verdict = Flota(verdict) /\ e.height = h
      BY DEF Entries
<1>3. Done(v, row)
      BY DEF Entered
<1> HIDE DEF e
<1>4. row \in Rows
      BY <1>1, <1>2 DEF Rows
<1>5. GoodRow(row)
      <2> SUFFICES ASSUME crashes = 0, NEW s \in Nodes, row[s].verdict = "VALIDA"
                   PROVE  Reached(s, row[s].height)
          BY DEF GoodRow
      <2>1. CASE s = Peer(v)
            BY <1>1, <1>2, <2>1 DEF Rows
      <2>2. CASE s # Peer(v)
            BY <1>1, <2>2 DEF Rows, GoodRow
      <2> QED  BY <2>1, <2>2
<1> HIDE DEF row
<1> QED  BY <1>3, <1>4, <1>5, DoneStep

LEMMA Words ==
    /\ \A e : Flota(Authorization(e)) \in Says
    /\ Flota("CADENA_INVALIDA") = "CADENA_INVALIDA" /\ Flota("SIN_CADENA") = "SIN_CADENA"
    /\ Flota("null") = "null" /\ Flota("CABEZA_DISCREPANTE") = "CABEZA_DISCREPANTE"
<1>1. \A e : FederationVerdict(e) \in {"SIN_FEDERACION_PUBLICADA", "SIN_FEDERACION_PROPIA",
                                       "FEDERADO", "FEDERACION_NO_COMPARABLE",
                                       "OTRA_FEDERACION"}
      BY DEF FederationVerdict
<1>2. \A e : Authorization(e) \in {"SIN_REGISTRO", "AUTOINFORME_DEGRADADO", "CONFORME",
                                   "REGISTRO_NO_RESPALDADO", FederationVerdict(e)}
      BY DEF Authorization
<1>3. \A e : Authorization(e) \in Valid \cup Says
      BY <1>1, <1>2 DEF Valid, Says
<1> QED  BY <1>3 DEF Flota, Valid, Says

\* The height a verifier reads off a chain it found linked.
LEMMA ReadHeight ==
    ASSUME FleetInv, NEW s \in Nodes, chain[s] # <<>>
    PROVE  /\ LastOf(chain[s]).height \in Int /\ Hash(LastOf(chain[s])) \in Hashes
           /\ crashes = 0 => Reached(s, LastOf(chain[s]).height)
<1>1. chain[s] \in Seq(Blocks) /\ ids[s] \in Nat
      BY DEF FleetInv, Types
<1>2. LastOf(chain[s]) \in Blocks
      BY <1>1, EmptySeq, ElementOfSeq DEF LastOf
<1>3. ASSUME crashes = 0 PROVE Reached(s, LastOf(chain[s]).height)
      <2>1. chain[s] = Grown(ids[s])
            BY <1>3, ChainOf DEF FleetInv, Calm
      <2>2. ids[s] > 0
            BY <1>1, <2>1, EmptySeq, GrownChain
      <2>3. LastOf(chain[s]) = GrownBlock(ids[s])
            BY <1>1, <2>1, <2>2, GrownChain
      <2> QED  BY <1>1, <2>2, <2>3 DEF Reached, GrownBlock
<1> QED  BY <1>2, <1>3, AppendProperties DEF Blocks, Hash, Hashes

LEMMA ReadBlocksStep ==
    ASSUME FleetInv, NEW v \in Nodes, ReadBlocks(v)
    PROVE  FleetInv'
<1> DEFINE c == chain[Peer(v)]
<1>1. /\ run[v].pc = "blocks" /\ Peer(v) \in Nodes /\ run[v] \in Runs
      /\ GoodRow(run[v].row) /\ run[v].todo # <<>>
      BY AtPeer, OldRow DEF ReadBlocks, FleetInv, Busy
<1>2. UNCHANGED <<minerVars, att, view, anchor, n3, drops>> /\ drops' \in 0..MaxDrops
      BY DEF ReadBlocks, FleetInv, Types
<1>3. CASE Entered(v, "CADENA_INVALIDA", -1) \/ Entered(v, "SIN_CADENA", -1)
      BY <1>1, <1>2, <1>3, Words, EnteredStep DEF Says
<1>4. CASE c # <<>> /\ Entered(v, Authorization(Know[v]), LastOf(c).height)
      BY <1>1, <1>2, <1>4, Words, ReadHeight, EnteredStep
<1>5. CASE /\ c # <<>>
           /\ run' = [run EXCEPT ![v].pc = "again", ![v].top = Hash(LastOf(c)),
                                 ![v].height = LastOf(c).height]
      <2> DEFINE r == [run[v] EXCEPT !.pc = "again", !.top = Hash(LastOf(c)),
                                     !.height = LastOf(c).height]
      <2>1. Hash(LastOf(c)) \in Hashes /\ LastOf(c).height \in Int
            BY <1>1, <1>5, ReadHeight
      <2>2. r \in Runs /\ r.todo # <<>> /\ r.row = run[v].row
            BY <1>1, <2>1 DEF Runs
      <2>3. run' = [run EXCEPT ![v] = r]
            BY <1>5
      <2> HIDE DEF r
      <2> QED  BY <1>1, <1>2, <2>2, <2>3, RunStep
<1> QED  BY <1>3, <1>4, <1>5 DEF ReadBlocks

LEMMA ReadSteps ==
    ASSUME FleetInv, NEW v \in Nodes, StartRun(v) \/ ReadAttestation(v) \/ ReadAgain(v)
    PROVE  FleetInv'
<1>1. /\ UNCHANGED <<minerVars, att, view, anchor, n3, drops>> /\ drops' \in 0..MaxDrops
      /\ run[v] \in Runs /\ run[v].row \in Rows /\ GoodRow(run[v].row)
      BY OldRow DEF StartRun, ReadAttestation, ReadAgain, FleetInv, Types
<1>2. CASE StartRun(v)
      <2> DEFINE r == [Idle EXCEPT !.pc = "attest", !.todo = PeersOf[v]]
      <2>1. r \in Runs /\ r.todo # <<>> /\ r.row = NoRow
            BY <1>2, NoRowGood, PeersAssumption DEF StartRun, Runs
      <2>2. run' = [run EXCEPT ![v] = r]
            BY <1>2 DEF StartRun
      <2> HIDE DEF r
      <2> QED  BY <1>1, <2>1, <2>2, NoRowGood, RunStep
<1>3. CASE ReadAttestation(v)
      <2>1. run[v].pc = "attest" /\ Peer(v) \in Nodes /\ run[v].todo # <<>>
            BY <1>3, AtPeer DEF ReadAttestation, FleetInv, Busy
      <2>2. CASE run' = [run EXCEPT ![v].pc = "blocks", ![v].said = att[Peer(v)]]
            <3> DEFINE r == [run[v] EXCEPT !.pc = "blocks", !.said = att[Peer(v)]]
            <3>1. r \in Runs /\ r.todo # <<>> /\ r.row = run[v].row
                  BY <1>1, <2>1 DEF Runs, FleetInv, Types
            <3>2. run' = [run EXCEPT ![v] = r]
                  BY <2>2
            <3> HIDE DEF r
            <3> QED  BY <1>1, <3>1, <3>2, RunStep
      <2>3. CASE Done(v, run[v].row)
            BY <1>1, <2>1, <2>3, DoneStep
      <2> QED  BY <1>3, <2>2, <2>3 DEF ReadAttestation
<1>4. CASE ReadAgain(v)
      <2>1. run[v].pc = "again" /\ run[v].height \in Int
            BY <1>1, <1>4 DEF ReadAgain, Runs
      <2> QED  BY <1>1, <1>4, <2>1, Words, EnteredStep DEF ReadAgain, Says
<1> QED  BY <1>2, <1>3, <1>4

LEMMA DropStep ==
    ASSUME FleetInv, NEW v \in Nodes, Drop(v)
    PROVE  FleetInv'
<1>1. /\ UNCHANGED <<minerVars, att, view, anchor, n3>> /\ drops' \in 0..MaxDrops
      /\ run[v] \in Runs /\ run[v].row \in Rows /\ GoodRow(run[v].row)
      BY OldRow, FleetBoundAssumption DEF Drop, FleetInv, Types
<1>2. CASE run' = [run EXCEPT ![v] = Idle]
      BY <1>1, <1>2, NoRowGood, RunStep DEF Idle
<1>3. CASE run[v].pc = "attest" /\ Done(v, run[v].row)
      BY <1>1, <1>3, DoneStep
<1>4. CASE run[v].pc = "blocks" /\ Entered(v, "SIN_CADENA", -1)
      BY <1>1, <1>4, Words, EnteredStep DEF Says
<1>5. CASE run[v].pc = "again" /\ Entered(v, "CABEZA_DISCREPANTE", run[v].height)
      <2>1. run[v].height \in Int
            BY <1>1 DEF Runs
      <2> QED  BY <1>1, <1>5, <2>1, Words, EnteredStep DEF Says
<1> QED  BY <1>2, <1>3, <1>4, <1>5 DEF Drop

LEMMA PublishStep ==
    ASSUME FleetInv, NEW v \in Nodes, Publish(v)
    PROVE  FleetInv'
<1>1. /\ UNCHANGED <<chain, head, recorded, mpc, ids, crashes, att, anchor, n3, drops>>
      /\ view' = [view EXCEPT ![v] = run[v].row] /\ run' = [run EXCEPT ![v] = Idle]
      BY DEF Publish, minerVars
<1>2. run[v].row \in Rows /\ GoodRow(run[v].row)
      BY OldRow
<1>3. Types' /\ Bounded'
      BY <1>1, <1>2, NoRowGood DEF FleetInv, Types, Bounded, LastOf
<1>4. Busy'
      BY <1>1 DEF FleetInv, Types, Busy, Idle
<1>5. Calm'
      <2> SUFFICES ASSUME crashes = 0 PROVE Undisturbed' /\ Vouching' /\ Anchored'
          BY <1>1 DEF Calm
      <2>1. Undisturbed' /\ Anchored'
            BY <1>1 DEF FleetInv, Calm, Undisturbed, Anchored
      <2>2. \A w, s \in Nodes :
                /\ run'[w].row[s].verdict = "VALIDA" => Reached(s, run'[w].row[s].height)
                /\ view'[w][s].verdict = "VALIDA" => Reached(s, view'[w][s].height)
            BY <1>1, <1>2, NoRowGood DEF FleetInv, Calm, Vouching, GoodRow, Types
      <2>3. Vouching'
            BY <1>1, <2>2 DEF Vouching, Reached
      <2> QED  BY <2>1, <2>3
<1> QED  BY <1>3, <1>4, <1>5 DEF FleetInv

-----------------------------------------------------------------------------
(***************************************************************************)
(* The memory of heads (fleet_anchor).                                     *)
(***************************************************************************)
LEMMA GrownHeights ==
    ASSUME NEW k \in Nat
    PROVE  /\ Readable(Grown(k)) = 1..k /\ Heights(Grown(k)) = 1..k
           /\ \A h \in 1..k : HashAt(Grown(k), h) = Count(h)
           /\ k > 0 => TopHeight(Grown(k)) = k
<1> DEFINE c == Grown(k)
<1>1. DOMAIN c = 1..k /\ \A i \in 1..k : c[i] = GrownBlock(i)
      BY GrownChain
<1> HIDE DEF c
<1>2. \A i \in 1..k : c[i].height = i /\ c[i] # Torn
      BY <1>1 DEF GrownBlock, Torn
<1>3. Readable(c) = 1..k
      BY <1>1, <1>2 DEF Readable
<1>4. Heights(c) = 1..k
      BY <1>2, <1>3 DEF Heights
<1>5. ASSUME NEW h \in 1..k PROVE HashAt(c, h) = Count(h)
      <2> DEFINE at == {i \in Readable(c) : c[i].height = h}
      <2>1. at = {h}
            BY <1>2, <1>3, <1>5
      <2> HIDE DEF at
      <2>2. (CHOOSE i \in at : \A j \in at : j <= i) = h
            BY <2>1
      <2>3. HashAt(c, h) = Hash(c[h])
            BY <2>2 DEF HashAt, at
      <2> QED  BY <1>1, <1>5, <2>3, GrownHash
<1>6. ASSUME k > 0 PROVE TopHeight(c) = k
      <2>1. k \in Heights(c) /\ \A j \in Heights(c) : j <= k
            BY <1>4, <1>6
      <2>2. \A h \in Heights(c) : (\A j \in Heights(c) : j <= h) => h = k
            BY <1>4, <2>1
      <2> QED  BY <2>1, <2>2 DEF TopHeight
<1> QED  BY <1>3, <1>4, <1>5, <1>6 DEF c

LEMMA AnchorStep ==
    ASSUME FleetInv, NEW v \in Nodes, NEW s \in Nodes, AnchorPeer(v, s)
    PROVE  FleetInv'
<1> DEFINE c == chain[s]
           verdict == AnchorVerdict(ChainMap(c), TopHeight(c), anchor[v][s])
<1>1. /\ UNCHANGED <<chain, head, recorded, mpc, ids, crashes, att, run, view, drops>>
      /\ Heights(c) # {}
      /\ n3' = [n3 EXCEPT ![v][s] = verdict]
      /\ anchor' = [anchor EXCEPT ![v][s] = NewAnchor(c)]
      BY DEF AnchorPeer, minerVars
<1> HIDE DEF verdict
<1>2. Types'
      <2>1. anchor' = [w \in Nodes |-> [x \in Nodes |-> anchor'[w][x]]]
            BY <1>1 DEF FleetInv, Types
      <2>2. n3' = [w \in Nodes |-> [x \in Nodes |-> n3'[w][x]]]
            BY <1>1 DEF FleetInv, Types
      <2> QED  BY <1>1, <2>1, <2>2 DEF FleetInv, Types
<1>3. Bounded' /\ Busy'
      BY <1>1 DEF FleetInv, Bounded, Busy, LastOf
<1>4. Calm'
      <2> SUFFICES ASSUME crashes = 0 PROVE Undisturbed' /\ Vouching' /\ Anchored'
          BY <1>1 DEF Calm
      <2>1. Undisturbed' /\ Vouching'
            BY <1>1 DEF FleetInv, Calm, Undisturbed, Vouching, Reached
      <2>2. c = Grown(ids[s]) /\ ids[s] \in Nat
            BY ChainOf DEF FleetInv, Calm, Types
      <2>3. /\ ids[s] > 0 /\ TopHeight(c) = ids[s]
            /\ ChainMap(c) = [h \in 1..ids[s] |-> Count(h)]
            <3>1. Heights(c) = 1..ids[s] /\ \A h \in 1..ids[s] : HashAt(c, h) = Count(h)
                  BY <2>2, GrownHeights
            <3>2. ids[s] > 0
                  BY <1>1, <2>2, <3>1
            <3> QED  BY <2>2, <3>1, <3>2, GrownHeights DEF ChainMap
      <2>4. NewAnchor(c) = [height |-> ids[s], head |-> Count(ids[s])]
            BY <2>2, <2>3, GrownHeights DEF NewAnchor
      <2>5. \/ anchor[v][s] = NoAnchor
            \/ \E k \in 1..ids[s] : anchor[v][s] = [height |-> k, head |-> Count(k)]
            BY DEF FleetInv, Calm, Anchored
      <2>6. verdict \in {"NUEVO", "COHERENTE"}
            <3>1. CASE anchor[v][s] = NoAnchor
                  BY <3>1 DEF verdict, AnchorVerdict, NoAnchor
            <3>2. ASSUME NEW k \in 1..ids[s],
                         anchor[v][s] = [height |-> k, head |-> Count(k)]
                  PROVE  verdict = "COHERENTE"
                  <4>1. AnchorVerdict([h \in 1..ids[s] |-> Count(h)], ids[s],
                                      [height |-> k, head |-> Count(k)]) = "COHERENTE"
                        BY <2>2, <3>2 DEF AnchorVerdict
                  <4> QED  BY <2>3, <3>2, <4>1 DEF verdict
            <3> QED  BY <2>5, <3>1, <3>2
      <2>7. Anchored'
            <3> SUFFICES ASSUME NEW w \in Nodes, NEW x \in Nodes
                         PROVE  /\ \/ anchor'[w][x] = NoAnchor
                                   \/ \E k \in 1..ids'[x] :
                                          anchor'[w][x] = [height |-> k, head |-> Count(k)]
                                /\ n3'[w][x] \notin {"ROLLBACK", "REESCRITA"}
                BY DEF Anchored
            <3>1. CASE w = v /\ x = s
                  <4>1. anchor'[v][s] = NewAnchor(c) /\ n3'[v][s] = verdict
                        BY <1>1 DEF FleetInv, Types
                  <4>2. ids[s] \in 1..ids'[s]
                        BY <1>1, <2>2, <2>3
                  <4> QED  BY <2>4, <2>6, <3>1, <4>1, <4>2
            <3>2. CASE ~(w = v /\ x = s)
                  <4>1. anchor'[w][x] = anchor[w][x] /\ n3'[w][x] = n3[w][x]
                        BY <1>1, <3>2 DEF FleetInv, Types
                  <4> QED  BY <1>1, <4>1 DEF FleetInv, Calm, Anchored
            <3> QED  BY <3>1, <3>2
      <2> QED  BY <2>1, <2>7
<1> QED  BY <1>2, <1>3, <1>4 DEF FleetInv

-----------------------------------------------------------------------------
LEMMA FleetStep == FleetInv /\ [Next]_vars => FleetInv'
<1> SUFFICES ASSUME FleetInv, [Next]_vars PROVE FleetInv'
    OBVIOUS
<1>1. ASSUME NEW n \in Miners,
             \/ Mine(n) \/ SaveHead(n) \/ Record(n)
             \/ KillMiner(n) \/ PowerCut(n) \/ Attest(n)
      PROVE  FleetInv'
      BY <1>1, MineStep, SaveHeadStep, RecordStep, CrashSteps, AttestStep
<1>2. ASSUME NEW v \in Verifiers,
             \/ StartRun(v) \/ ReadAttestation(v) \/ ReadBlocks(v)
             \/ ReadAgain(v) \/ Publish(v) \/ Drop(v)
      PROVE  FleetInv'
      <2>1. v \in Nodes
            BY DEF Verifiers
      <2> QED  BY <1>2, <2>1, ReadSteps, ReadBlocksStep, PublishStep, DropStep
<1>3. ASSUME NEW v \in Anchorers, NEW i \in DOMAIN PeersOf[v], AnchorPeer(v, PeersOf[v][i])
      PROVE  FleetInv'
      <2>1. v \in Nodes /\ PeersOf[v] \in Seq(Nodes)
            BY PeersAssumption
      <2>2. PeersOf[v][i] \in Nodes
            BY <2>1, LenProperties, ElementOfSeq
      <2> QED  BY <1>3, <2>1, <2>2, AnchorStep
<1>4. CASE UNCHANGED vars
      <2>1. UNCHANGED <<chain, head, recorded, mpc, ids, crashes, att, run, view, anchor, n3,
                        drops>>
            BY <1>4 DEF vars, minerVars
      <2>2. Types' /\ Busy'
            BY <2>1 DEF FleetInv, Types, Busy
      <2>3. Bounded'
            BY <2>1 DEF FleetInv, Bounded, LastOf
      <2>4. Undisturbed' = Undisturbed
            BY <2>1 DEF Undisturbed
      <2>5. Vouching' = Vouching /\ Anchored' = Anchored
            BY <2>1 DEF Vouching, Reached, Anchored
      <2>6. Calm'
            BY <2>1, <2>4, <2>5 DEF FleetInv, Calm
      <2> QED  BY <2>2, <2>3, <2>6 DEF FleetInv
<1> QED  BY <1>1, <1>2, <1>3, <1>4 DEF Next

LEMMA FleetInductive == Spec => []FleetInv
<1> QED  BY FleetInit, FleetStep, PTL DEF Spec

-----------------------------------------------------------------------------
\* Types and heights: no height outgrows the number of blocks mined, also in
\* a chain that was torn, cut or forked (block_anchor, fleet_attest).
THEOREM FleetTypeCorrect == Spec => []TypeOK
<1>1. FleetInv => TypeOK
      <2> SUFFICES ASSUME FleetInv PROVE TypeOK
          OBVIOUS
      <2>1. \A n \in Nodes : ids[n] \in 0..MaxBlocks
            BY DEF FleetInv, Types
      <2>2. \A n \in Nodes : \A h \in 1..ids[n] : h \in 1..MaxBlocks
            BY <2>1, FleetBoundAssumption
      <2>3. \A n \in Nodes : \A i \in DOMAIN chain[n] :
                chain[n][i].height \in {-1} \cup 1..MaxBlocks
            BY <2>2 DEF FleetInv, Bounded
      <2>4. \A n \in Nodes : head[n].height \in 0..MaxBlocks
            BY <2>1, FleetBoundAssumption DEF FleetInv, Bounded
      <2>5. \A v \in Nodes :
                /\ run[v].pc \in {"idle", "attest", "blocks", "again", "publish"}
                /\ run[v].pc \in {"attest", "blocks", "again"} => run[v].todo # <<>>
            BY DEF FleetInv, Types, Runs, Busy
      <2> QED  BY <2>3, <2>4, <2>5 DEF TypeOK, FleetInv, Types
<1> QED  BY FleetInductive, <1>1, PTL

\* A height that a node reached is vouched for by an intact prefix.
LEMMA ReachedVouched ==
    ASSUME FleetInv, crashes = 0, NEW v \in Nodes, NEW s \in Nodes,
           view[v][s].verdict = "VALIDA"
    PROVE  Vouched(v, s)
<1>1. chain[s] = Grown(ids[s]) /\ ids[s] \in Nat /\ view[v][s].height \in 1..ids[s]
      BY ChainOf DEF FleetInv, Calm, Types, Vouching, Reached
<1> DEFINE i == view[v][s].height
<1>2. i \in DOMAIN chain[s] /\ chain[s][i].height = i
      <2>1. DOMAIN chain[s] = 1..ids[s] /\ \A j \in 1..ids[s] : chain[s][j] = GrownBlock(j)
            BY <1>1, GrownChain
      <2>2. i \in 1..ids[s]
            BY <1>1
      <2> HIDE DEF i
      <2>3. chain[s][i] = GrownBlock(i)
            BY <2>1, <2>2
      <2>4. GrownBlock(i).height = i
            BY DEF GrownBlock
      <2> QED  BY <2>1, <2>2, <2>3, <2>4
<1>3. Intact(SubSeq(chain[s], 1, i))
      BY <1>1, GrownIntact
<1> QED  BY <1>2, <1>3 DEF Vouched

\* What a view calls valid has, to this day, an intact history of the height
\* the verifier saw, while nothing crashed at the peers (fleet_attest).
THEOREM ViewsAreTrue == Spec => []ViewsVouch
<1>1. FleetInv => ViewsVouch
      BY ReachedVouched DEF ViewsVouch, Verifiers
<1> QED  BY FleetInductive, <1>1, PTL

\* fleet_anchor accuses nobody of a rewritten or rolled back history while
\* nothing crashed there, whatever it read between which two writes.
THEOREM NobodyFalselyAccused == Spec => []NoFalseRewrite
<1>1. FleetInv => NoFalseRewrite
      BY DEF FleetInv, Calm, Anchored, NoFalseRewrite
<1> QED  BY FleetInductive, <1>1, PTL

-----------------------------------------------------------------------------
(***************************************************************************)
(* Forks.  This holds after crashes too, when nothing else is known of the *)
(* chain of the peer.                                                      *)
(***************************************************************************)
Checked(v) ==
    run[v].pc \in {"blocks", "again"} /\ run'[v].row # run[v].row =>
        (run'[v].row[Peer(v)].verdict = "VALIDA" => Intact(chain[Peer(v)]))

LEMMA EnteredVerdict ==
    ASSUME FleetInv, NEW v \in Nodes, run[v].pc \in {"attest", "blocks", "again"},
           NEW verdict, NEW h, Entered(v, verdict, h)
    PROVE  run'[v].row[Peer(v)].verdict = Flota(verdict)
<1> DEFINE e == [verdict |-> Flota(verdict), height |-> h]
           row == [run[v].row EXCEPT ![Peer(v)] = e]
<1>1. Peer(v) \in Nodes /\ run[v].row \in Rows /\ run \in [Nodes -> Runs]
      BY AtPeer, OldRow DEF FleetInv, Types
<1>2. row[Peer(v)] = e
      BY <1>1 DEF Rows
<1>3. run'[v].row = row
      <2> HIDE DEF row
      <2>1. Done(v, row)
            BY DEF Entered, row
      <2> QED  BY <1>1, <2>1 DEF Done, Idle
<1> QED  BY <1>2, <1>3

LEMMA StepChecked ==
    ASSUME FleetInv, NEW v \in Nodes,
           \/ StartRun(v) \/ ReadAttestation(v) \/ ReadBlocks(v)
           \/ ReadAgain(v) \/ Publish(v) \/ Drop(v)
    PROVE  Checked(v)
<1> SUFFICES ASSUME run[v].pc \in {"blocks", "again"}, run'[v].row # run[v].row,
                    run'[v].row[Peer(v)].verdict = "VALIDA"
             PROVE  Intact(chain[Peer(v)])
    BY DEF Checked
<1>1. Peer(v) \in Nodes /\ run \in [Nodes -> Runs] /\ chain[Peer(v)] \in Seq(Blocks)
      BY AtPeer DEF FleetInv, Types
<1>2. ASSUME NEW h
      PROVE  /\ ~Entered(v, "CADENA_INVALIDA", h) /\ ~Entered(v, "SIN_CADENA", h)
             /\ ~Entered(v, "null", h) /\ ~Entered(v, "CABEZA_DISCREPANTE", h)
      <2>1. ASSUME NEW w, Entered(v, w, h) PROVE Flota(w) = "VALIDA"
            BY <2>1, EnteredVerdict
      <2> QED  BY <2>1, Words
<1>3. CASE ReadBlocks(v)
      <2>1. chain[Peer(v)] # <<>> /\ Chained(chain[Peer(v)])
            BY <1>1, <1>2, <1>3 DEF ReadBlocks
      <2> QED  BY <1>1, <2>1, ChainedIntact
<1>4. CASE Drop(v)
      <2>1. run' = [run EXCEPT ![v] = Idle]
            <3>1. /\ ~Entered(v, "SIN_CADENA", -1)
                  /\ ~Entered(v, "CABEZA_DISCREPANTE", run[v].height)
                  /\ run[v].pc # "attest"
                  BY <1>2
            <3> QED  BY <1>4, <3>1 DEF Drop
      <2> QED  BY <1>1, <2>1 DEF Idle, NoRow, NoEntry
<1>5. CASE ReadAgain(v)
      BY <1>2, <1>5 DEF ReadAgain
<1>6. CASE StartRun(v) \/ ReadAttestation(v) \/ Publish(v)
      BY <1>6 DEF StartRun, ReadAttestation, Publish
<1> QED  BY <1>3, <1>4, <1>5, <1>6

LEMMA OthersRest ==
    ASSUME FleetInv, NEW v \in Nodes, NEW w \in Nodes, v # w,
           \/ StartRun(w) \/ ReadAttestation(w) \/ ReadBlocks(w)
           \/ ReadAgain(w) \/ Publish(w) \/ Drop(w)
    PROVE  run'[v] = run[v]
BY DEF FleetInv, Types, StartRun, ReadAttestation, ReadBlocks, ReadAgain, Publish, Drop,
       Entered, Done

\* A chain with a broken link is never given the verdict valid, also after
\* kills and power cuts forked it (fleet_attest, _verifica_cadena).
THEOREM ForksAreRefused == Spec => BrokenNotVouched
<1>1. FleetInv /\ [Next]_vars =>
          [\A v \in Verifiers :
              (run[v].pc \in {"blocks", "again"} /\ run'[v].row # run[v].row) =>
                  LET s == Peer(v)
                  IN  run'[v].row[s].verdict = "VALIDA" => Intact(chain[s])]_vars
      <2> SUFFICES ASSUME FleetInv, Next, NEW v \in Verifiers PROVE Checked(v)
          BY DEF Checked
      <2>1. v \in Nodes
            BY DEF Verifiers
      <2>2. CASE run' = run
            BY <2>2 DEF Checked
      <2>3. ASSUME NEW w \in Verifiers,
                   \/ StartRun(w) \/ ReadAttestation(w) \/ ReadBlocks(w)
                   \/ ReadAgain(w) \/ Publish(w) \/ Drop(w)
            PROVE  Checked(v)
            <3>1. w \in Nodes
                  BY DEF Verifiers
            <3>2. CASE w = v
                  BY <2>1, <2>3, <3>2, StepChecked
            <3>3. CASE w # v
                  <4>1. run'[v] = run[v]
                        BY <2>1, <2>3, <3>1, <3>3, OthersRest
                  <4> QED  BY <4>1 DEF Checked
            <3> QED  BY <3>2, <3>3
      <2>4. ASSUME NEW n \in Miners,
                   \/ Mine(n) \/ SaveHead(n) \/ Record(n)
                   \/ KillMiner(n) \/ PowerCut(n) \/ Attest(n)
            PROVE  run' = run
            BY <2>4 DEF Mine, SaveHead, Record, KillMiner, PowerCut, Attest
      <2>5. ASSUME NEW w \in Anchorers, NEW i \in DOMAIN PeersOf[w],
                   AnchorPeer(w, PeersOf[w][i])
            PROVE  run' = run
            BY <2>5 DEF AnchorPeer
      <2> QED  BY <2>2, <2>3, <2>4, <2>5 DEF Next
<1> QED  BY FleetInductive, <1>1, PTL DEF Spec, BrokenNotVouched

-----------------------------------------------------------------------------
LEMMA ConsensusCounts ==
    ASSUME NEW asked \in SUBSET Verifiers, NEW s \in Nodes, Quorum = 0,
           ConsensusOf(asked, s) = "CONSENSO_VALIDA"
    PROVE  LET say == {v \in asked \ {s} : view[v][s].verdict = "VALIDA"}
               mute == {v \in asked : view[v][s].verdict \in {"null", "absent"}}
           IN  /\ say # {}
               /\ 2 * Cardinality(say) > Cardinality(asked \ (mute \cup {s}))
<1> DEFINE say == {v \in asked \ {s} : view[v][s].verdict = "VALIDA"}
           votes == asked \ ({v \in asked : view[v][s].verdict \in {"null", "absent"}} \cup {s})
           rows == [v \in asked |-> [x \in Nodes |-> view[v][x].verdict]]
<1>1. DOMAIN rows = asked /\ \A v \in asked : rows[v][s] = view[v][s].verdict
      OBVIOUS
<1>2. Consensus(rows, s, 0) = "CONSENSO_VALIDA"
      BY DEF ConsensusOf
<1> HIDE DEF rows
<1>3. Votes(rows, s) = votes /\ ValidVotes(rows, s) = say
      BY <1>1 DEF Votes, ValidVotes
<1>4. say \subseteq Nodes /\ votes \subseteq Nodes
      BY DEF Verifiers
<1>5. /\ IsFiniteSet(say) /\ Cardinality(say) \in Nat
      /\ IsFiniteSet(votes) /\ Cardinality(votes) \in Nat
      BY <1>4, NodesAssumption, FS_Subset, FS_CardinalityType
<1>6. Cardinality(votes) > 0 /\ Cardinality(say) >= Need(Cardinality(votes), 0)
      BY <1>2, <1>3, <1>5 DEF Consensus
<1>7. Cardinality(say) >= Cardinality(votes) \div 2 + 1
      BY <1>6 DEF Need
<1>8. Cardinality(say) > 0 /\ 2 * Cardinality(say) > Cardinality(votes)
      <2> HIDE DEF say, votes
      <2> QED  BY <1>5, <1>6, <1>7
<1>9. say # {}
      BY <1>5, <1>8, FS_EmptySet
<1> QED  BY <1>8, <1>9

\* A consensus stands on the word of another node that saw an intact chain,
\* and on a majority of those that gave a verdict.  (With the quorum that
\* fleet_consensus takes when none is set.)
THEOREM ConsensusIsGrounded ==
    ASSUME Quorum = 0 PROVE Spec => []ConsensusVouches
<1>1. FleetInv => ConsensusVouches
      <2> SUFFICES ASSUME FleetInv, crashes = 0, NEW asked \in SUBSET Verifiers,
                          NEW s \in Nodes, ConsensusOf(asked, s) = "CONSENSO_VALIDA"
                   PROVE  /\ \E v \in asked \ {s} :
                                 view[v][s].verdict = "VALIDA" /\ Vouched(v, s)
                          /\ LET say == {v \in asked \ {s} : view[v][s].verdict = "VALIDA"}
                                 mute == {v \in asked :
                                            view[v][s].verdict \in {"null", "absent"}}
                             IN  2 * Cardinality(say) > Cardinality(asked \ (mute \cup {s}))
          BY DEF ConsensusVouches
      <2>1. PICK v \in asked \ {s} : view[v][s].verdict = "VALIDA"
            BY ConsensusCounts
      <2>2. v \in Nodes
            BY DEF Verifiers
      <2>3. Vouched(v, s)
            BY <2>1, <2>2, ReachedVouched
      <2> QED  BY <2>1, <2>3, ConsensusCounts
<1> QED  BY FleetInductive, <1>1, PTL
=============================================================================
