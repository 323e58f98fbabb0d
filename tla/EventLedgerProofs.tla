-------------------------- MODULE EventLedgerProofs --------------------------
(***************************************************************************)
(* Theorems about the episodic memory, for every list of sources, every    *)
(* set of values and every number of changes, kills and power cuts.        *)
(*                                                                         *)
(* StoryInv: every line ever written continues some chain (HonestLine): its*)
(* number is the length of the history it commits to, and it starts from   *)
(* the last value of that history.  A head names such a history.  So a     *)
(* sound prefix is a coherent story whoever wrote it, even when a run and  *)
(* crash_recovery write the ledger at the same time.                       *)
(*                                                                         *)
(* ForkInv: a run appends to what it found sound, or to what a rename of   *)
(* crash_recovery put in its place since; so what lies behind the sound    *)
(* prefix grows by one run at most, and by one more for every such rename. *)
(*                                                                         *)
(* Opening: as long as no rename took the first line away, the first line  *)
(* is sound or broken, and a run that saw no chain finds none.  Then the   *)
(* links of a tail that overlaps the sound prefix decide whether all of it *)
(* is sound (TailDecides).                                                 *)
(*                                                                         *)
(* No step but the rename takes back a line of the sound prefix that was   *)
(* fsynced (StepKeeps), and the rename leaves what the copy holds.         *)
(***************************************************************************)
EXTENDS EventLedger, SequenceTheorems, WellFoundedInduction, TLAPS

\* The history a chain of lines commits to, and what it leaves of each kind.
CoresTo(l, n) == [i \in 1..n |-> l[i].core]

LastTo(cs) ==
    [k \in KindSet |->
        LET at == {i \in DOMAIN cs : cs[i].kind = k}
        IN  IF at = {} THEN NoVal ELSE cs[CHOOSE i \in at : \A j \in at : j <= i].to]

HonestLine(e) ==
    /\ e.hash = Append(e.prev, e.core) /\ e.core.seq = Len(e.prev)
    /\ e.core.kind \in KindSet
    /\ e.core.from = LastTo(e.prev)[e.core.kind] /\ e.core.from # e.core.to

Honest(l) == \A i \in DOMAIN l : l[i] = Bad \/ HonestLine(l[i])

HonestHead(h) == h.seq = Len(h.head) /\ h.last = LastTo(h.head)

AllHonest ==
    /\ Honest(ledger) /\ Honest(mem.batch) /\ Honest(copy)
    /\ HonestHead(head) /\ HonestHead(headWas) /\ HonestHead(mem.head)

\* Kept by every step, with and without the race.
StoryInv == TypeOK /\ AllHonest /\ (pc = "read" => mem.left # <<>>)

\* The first line is there to stay.
Begun == Len(ledger) - unsynced >= 1 /\ Sound(ledger, 1)

Writing == {"healHead", "load", "read", "append"}

Started ==
    /\ ledger # <<>> => ledger[1] = Bad \/ Sound(ledger, 1)
    /\ pc \in Writing /\ ledger # <<>> => Sound(ledger, 1)
    /\ rec = "copy" /\ copy # <<>> => Sound(copy, 1)
    /\ head = EmptyHead \/ Begun
    /\ headWas = EmptyHead \/ Begun
    /\ pc \in {"healHead", "read"} /\ mem.batch = <<>> => mem.head = EmptyHead \/ Begun
    /\ mem.batch # <<>> => mem.batch[1] # Bad /\ (mem.batch[1].prev = Genesis \/ Begun)
    /\ pc \in {"fsync", "saveHead"} => ledger # <<>> /\ Sound(ledger, 1)
    /\ pc = "saveHead" => unsynced = 0

Opening == ~beheaded => Started

RunInv ==
    /\ pc \in {"healHead"} => mem.batch = <<>>
    /\ pc = "append" => mem.batch # <<>>
    /\ Len(mem.batch) + Len(mem.left) <= Len(Kinds)

\* The lines behind the sound prefix.
Behind(l) == Len(l) - GoodLen(l)

ForkInv ==
    /\ Behind(ledger) <= races * Len(Kinds) + Len(Kinds)
    /\ pc \in Writing => Behind(ledger) <= races * Len(Kinds)
    /\ rec = "copy" => Behind(copy) <= races * Len(Kinds) + Len(Kinds)

LedgerInv == StoryInv /\ RunInv /\ ForkInv

-----------------------------------------------------------------------------
\* Facts about numbers.
LEMMA LeastNat ==
    ASSUME NEW T \in SUBSET Nat, T # {}
    PROVE  \E n \in T : \A m \in T : n <= m
<1>1. \E n \in T : \A m \in T : ~ (<<m, n>> \in OpToRel(<, Nat))
      BY WFMin, NatLessThanWellFounded
<1>2. PICK n \in T : \A m \in T : ~ (<<m, n>> \in OpToRel(<, Nat))
      BY <1>1
<1>3. \A m \in T : ~(m < n)
      BY <1>2 DEF OpToRel
<1> QED  BY <1>3

LEMMA GreatestNat ==
    ASSUME NEW b \in Nat, NEW T \in SUBSET (0..b), T # {}
    PROVE  \E n \in T : \A m \in T : m <= n
<1> DEFINE U == {b - n : n \in T}
<1>1. U \in SUBSET Nat /\ U # {}
      <2>1. \A n \in T : n \in 0..b
            OBVIOUS
      <2>2. \A n \in 0..b : b - n \in Nat
            OBVIOUS
      <2> QED  BY <2>1, <2>2
<1>2. PICK u \in U : \A m \in U : u <= m
      <2> HIDE DEF U
      <2> QED  BY <1>1, LeastNat
<1>3. PICK n \in T : u = b - n
      OBVIOUS
<1>4. \A m \in T : b - n <= b - m
      BY <1>2, <1>3
<1> QED  BY <1>4

-----------------------------------------------------------------------------
(***************************************************************************)
(* Facts about ledgers.                                                    *)
(***************************************************************************)
LEMMA LinesOf ==
    ASSUME NEW l \in Seq(Lines)
    PROVE  /\ Len(l) \in Nat /\ DOMAIN l = 1..Len(l) /\ \A i \in 1..Len(l) : l[i] \in Lines
           /\ l # <<>> <=> Len(l) > 0
BY LenProperties, ElementOfSeq, EmptySeq

LEMMA LineTypes ==
    ASSUME NEW e \in Lines
    PROVE  e.core \in Cores /\ e.prev \in Seq(Cores) /\ e.hash \in Seq(Cores)
BY DEF Lines

LEMMA Appended ==
    ASSUME NEW p \in Seq(Cores), NEW c \in Cores, NEW k \in Nat, Len(p) = k
    PROVE  /\ Append(p, c) \in Seq(Cores) /\ Len(Append(p, c)) = k + 1
           /\ \A j \in 1..k : Append(p, c)[j] = p[j]
           /\ Append(p, c)[k + 1] = c
BY AppendProperties

LEMMA BadLine == Bad \in Lines /\ Genesis \in Seq(Cores)
<1>1. Bad.core \in Cores /\ Genesis \in Seq(Cores)
      BY DEF Bad, Cores, Genesis
<1> QED  BY <1>1 DEF Bad, Lines

\* There is a first line that is not sound, or none.
LEMMA GoodLenIs ==
    ASSUME NEW l \in Seq(Lines)
    PROVE  /\ GoodLen(l) \in 0..Len(l)
           /\ \A i \in 1..GoodLen(l) : Sound(l, i)
           /\ GoodLen(l) < Len(l) => ~Sound(l, GoodLen(l) + 1)
<1> DEFINE T == {n \in 0..Len(l) : SoundPrefix(l, n)}
<1>1. Len(l) \in Nat
      BY LinesOf
<1>2. 0 \in T
      BY <1>1 DEF SoundPrefix
<1>3. PICK n \in T : \A m \in T : m <= n
      <2> T \in SUBSET (0..Len(l)) /\ T # {}
          BY <1>2
      <2> HIDE DEF T
      <2> QED  BY <1>1, GreatestNat
<1>4. ASSUME n < Len(l), Sound(l, n + 1) PROVE FALSE
      <2>1. n \in 0..Len(l) /\ \A i \in 1..n : Sound(l, i)
            BY <1>3 DEF SoundPrefix
      <2>2. \A i \in 1..(n + 1) : i \in 1..n \/ i = n + 1
            BY <1>1, <2>1
      <2>3. n + 1 \in T
            BY <1>1, <1>4, <2>1, <2>2 DEF SoundPrefix
      <2> QED  BY <1>1, <1>3, <2>1, <2>3
<1>5. \E k \in 0..Len(l) : SoundPrefix(l, k) /\ (k < Len(l) => ~Sound(l, k + 1))
      BY <1>3, <1>4
<1>6. /\ GoodLen(l) \in 0..Len(l) /\ SoundPrefix(l, GoodLen(l))
      /\ GoodLen(l) < Len(l) => ~Sound(l, GoodLen(l) + 1)
      BY <1>5 DEF GoodLen
<1> QED  BY <1>6 DEF SoundPrefix

LEMMA GoodLenMax ==
    ASSUME NEW l \in Seq(Lines), NEW n \in 0..Len(l), \A i \in 1..n : Sound(l, i)
    PROVE  n <= GoodLen(l)
<1>1. Len(l) \in Nat /\ GoodLen(l) \in 0..Len(l)
      BY LinesOf, GoodLenIs
<1>2. ASSUME GoodLen(l) < n PROVE FALSE
      <2>1. GoodLen(l) + 1 \in 1..n /\ GoodLen(l) < Len(l)
            BY <1>1, <1>2
      <2> QED  BY <2>1, GoodLenIs
<1> QED  BY <1>1, <1>2

\* What is sound depends on the lines up to it only.
LEMMA SoundLocal ==
    ASSUME NEW l, NEW m, NEW i \in Nat \ {0}, m[i] = l[i], i > 1 => m[i - 1] = l[i - 1]
    PROVE  Sound(m, i) <=> Sound(l, i)
<1>1. CASE i = 1
      BY <1>1 DEF Sound
<1>2. CASE i # 1
      BY <1>2 DEF Sound
<1> QED  BY <1>1, <1>2

LEMMA SoundAlike ==
    ASSUME NEW l, NEW m, NEW k \in Nat, \A i \in 1..k : m[i] = l[i]
    PROVE  \A i \in 1..k : Sound(m, i) <=> Sound(l, i)
<1> SUFFICES ASSUME NEW i \in 1..k PROVE Sound(m, i) <=> Sound(l, i)
    OBVIOUS
<1>1. i \in Nat \ {0} /\ (i > 1 => i - 1 \in 1..k)
      OBVIOUS
<1> QED  BY <1>1, SoundLocal

\* A ledger that keeps the sound lines of another has no fewer.
LEMMA GoodGrows ==
    ASSUME NEW l \in Seq(Lines), NEW m \in Seq(Lines), NEW k \in 0..Len(l), k <= Len(m),
           \A i \in 1..k : m[i] = l[i], \A i \in 1..k : Sound(l, i)
    PROVE  k <= GoodLen(m)
<1>1. k \in Nat /\ k \in 0..Len(m)
      BY LinesOf
<1>2. \A i \in 1..k : Sound(m, i)
      BY <1>1, SoundAlike
<1> QED  BY <1>1, <1>2, GoodLenMax

LEMMA Prefixes ==
    ASSUME NEW l \in Seq(Lines), NEW n \in 0..Len(l)
    PROVE  /\ SubSeq(l, 1, n) \in Seq(Lines) /\ Len(SubSeq(l, 1, n)) = n
           /\ \A i \in 1..n : SubSeq(l, 1, n)[i] = l[i]
<1>1. \A i \in 1..n : l[i] \in Lines
      BY LinesOf
<1>2. n \in Nat
      BY LinesOf
<1> QED  BY <1>1, <1>2, SubSeqProperties

LEMMA GoodIs ==
    ASSUME NEW l \in Seq(Lines)
    PROVE  /\ Good(l) \in Seq(Lines) /\ Len(Good(l)) = GoodLen(l)
           /\ \A i \in 1..GoodLen(l) : Good(l)[i] = l[i] /\ Sound(Good(l), i)
           /\ Intact(Good(l))
<1>1. GoodLen(l) \in 0..Len(l) /\ GoodLen(l) \in Nat
      BY GoodLenIs, LinesOf
<1>2. /\ Good(l) \in Seq(Lines) /\ Len(Good(l)) = GoodLen(l)
      /\ \A i \in 1..GoodLen(l) : Good(l)[i] = l[i]
      BY <1>1, Prefixes DEF Good
<1>3. \A i \in 1..GoodLen(l) : Sound(Good(l), i)
      BY <1>1, <1>2, SoundAlike, GoodLenIs
<1>4. GoodLen(l) <= GoodLen(Good(l))
      BY <1>1, <1>2, <1>3, GoodLenMax
<1>5. GoodLen(Good(l)) \in 0..Len(Good(l))
      BY <1>2, GoodLenIs
<1> QED  BY <1>1, <1>2, <1>3, <1>4, <1>5 DEF Intact

\* The part without a broken line contains the sound prefix.
LEMMA JsonPrefixIs ==
    ASSUME NEW l \in Seq(Lines)
    PROVE  \E n \in GoodLen(l)..Len(l) :
               JsonPrefix(l) = SubSeq(l, 1, n) /\ \A i \in 1..n : l[i] # Bad
<1> DEFINE T == {n \in 0..Len(l) : Readable(l, n)}
           end == CHOOSE n \in 0..Len(l) : Readable(l, n) /\ (n < Len(l) => l[n + 1] = Bad)
<1>1. Len(l) \in Nat /\ GoodLen(l) \in 0..Len(l) /\ \A i \in 1..GoodLen(l) : l[i] # Bad
      BY LinesOf, GoodLenIs DEF Sound
<1>2. 0 \in T
      BY <1>1 DEF Readable
<1>3. PICK n \in T : \A m \in T : m <= n
      <2> T \in SUBSET (0..Len(l)) /\ T # {}
          BY <1>2
      <2> HIDE DEF T
      <2> QED  BY <1>1, GreatestNat
<1>4. ASSUME n < Len(l), l[n + 1] # Bad PROVE FALSE
      <2>1. n \in 0..Len(l) /\ \A i \in 1..n : l[i] # Bad
            BY <1>3 DEF Readable
      <2>2. \A i \in 1..(n + 1) : i \in 1..n \/ i = n + 1
            BY <1>1, <2>1
      <2>3. n + 1 \in T
            BY <1>1, <1>4, <2>1, <2>2 DEF Readable
      <2> QED  BY <1>1, <1>3, <2>1, <2>3
<1>5. /\ end \in 0..Len(l) /\ Readable(l, end)
      /\ end < Len(l) => l[end + 1] = Bad
      <2>1. \E k \in 0..Len(l) : Readable(l, k) /\ (k < Len(l) => l[k + 1] = Bad)
            BY <1>3, <1>4
      <2> QED  BY <2>1
<1>6. JsonPrefix(l) = SubSeq(l, 1, end)
      BY DEF JsonPrefix
<1> HIDE DEF end
<1>7. end >= GoodLen(l)
      <2>1. ASSUME end < GoodLen(l) PROVE FALSE
            <3>1. end < Len(l) /\ end + 1 \in 1..GoodLen(l)
                  BY <1>1, <1>5, <2>1
            <3> QED  BY <1>1, <1>5, <3>1
      <2> QED  BY <1>1, <1>5, <2>1
<1>8. end \in GoodLen(l)..Len(l) /\ \A i \in 1..end : l[i] # Bad
      BY <1>1, <1>5, <1>7 DEF Readable
<1> QED  BY <1>6, <1>8

\* The last hash of a sound prefix commits to every event of it.
LEMMA CommitsToAll ==
    ASSUME NEW l \in Seq(Lines), NEW n \in 1..Len(l), \A i \in 1..n : Sound(l, i)
    PROVE  l[n].hash = CoresTo(l, n)
<1> DEFINE Wrong == {i \in 1..n : l[i].hash # CoresTo(l, i)}
<1>1. /\ Len(l) \in Nat /\ n \in Nat
      /\ \A i \in 1..n : /\ l[i].core \in Cores /\ l[i].prev \in Seq(Cores)
                         /\ l[i].hash \in Seq(Cores) /\ l[i].hash = Append(l[i].prev, l[i].core)
      <2>1. Len(l) \in Nat /\ \A i \in 1..Len(l) : l[i] \in Lines
            BY LinesOf
      <2>2. \A i \in 1..n : l[i].hash = Append(l[i].prev, l[i].core)
            BY DEF Sound, Hash
      <2>3. \A i \in 1..n : l[i] \in Lines
            BY <2>1
      <2> QED  BY <2>1, <2>2, <2>3, LineTypes
<1>2. \A i \in 1..n : CoresTo(l, i) \in Seq(Cores) /\ Len(CoresTo(l, i)) = i
      BY <1>1 DEF CoresTo
<1>3. ASSUME NEW i \in 1..n, i > 1, l[i - 1].hash = CoresTo(l, i - 1)
      PROVE  l[i].hash = CoresTo(l, i)
      <2>1. l[i].prev = CoresTo(l, i - 1)
            BY <1>1, <1>3 DEF Sound
      <2>2. i - 1 \in 1..n
            BY <1>1, <1>3
      <2>3. /\ Len(l[i].hash) = i /\ l[i].hash[i] = l[i].core
            /\ \A j \in 1..(i - 1) : l[i].hash[j] = CoresTo(l, i - 1)[j]
            <3>1. /\ Len(CoresTo(l, i - 1)) = i - 1 /\ (i - 1) + 1 = i /\ i - 1 \in Nat
                  /\ CoresTo(l, i - 1) \in Seq(Cores) /\ l[i].core \in Cores
                  BY <1>1, <1>2, <2>2
            <3>2. l[i].hash = Append(CoresTo(l, i - 1), l[i].core)
                  BY <1>1, <2>1
            <3> DEFINE p == CoresTo(l, i - 1)
            <3> HIDE DEF Wrong, p
            <3>3. /\ Len(Append(p, l[i].core)) = (i - 1) + 1
                  /\ \A j \in 1..(i - 1) : Append(p, l[i].core)[j] = p[j]
                  /\ Append(p, l[i].core)[(i - 1) + 1] = l[i].core
                  BY <3>1, Appended DEF p
            <3> QED  BY <3>1, <3>2, <3>3 DEF p
      <2>4. \A j \in 1..i : l[i].hash[j] = CoresTo(l, i)[j]
            <3>1. \A j \in 1..(i - 1) : CoresTo(l, i - 1)[j] = l[j].core
                  BY DEF CoresTo
            <3>2. \A j \in 1..i : CoresTo(l, i)[j] = l[j].core
                  BY DEF CoresTo
            <3>3. \A j \in 1..i : j \in 1..(i - 1) \/ j = i
                  BY <1>1
            <3> QED  BY <2>3, <3>1, <3>2, <3>3
      <2> QED  BY <1>1, <1>2, <2>3, <2>4, SeqEqual
<1>4. l[1].hash = CoresTo(l, 1)
      <2>1. l[1].prev = <<>> /\ 1 \in 1..n
            BY <1>1 DEF Sound, Genesis
      <2>2. Len(l[1].hash) = 1 /\ l[1].hash[1] = l[1].core /\ l[1].hash \in Seq(Cores)
            <3>1. l[1].hash = Append(<<>>, l[1].core) /\ l[1].core \in Cores
                  BY <1>1, <2>1
            <3>2. <<>> \in Seq(Cores) /\ Len(<<>>) = 0
                  BY EmptySeq
            <3> QED  BY <3>1, <3>2, Appended
      <2>3. \A j \in 1..1 : l[1].hash[j] = CoresTo(l, 1)[j]
            BY <2>2 DEF CoresTo
      <2> QED  BY <1>2, <2>1, <2>2, <2>3, SeqEqual
<1>5. Wrong = {}
      <2> SUFFICES ASSUME Wrong # {} PROVE FALSE
          OBVIOUS
      <2>1. Wrong \in SUBSET Nat
            OBVIOUS
      <2>2. PICK k \in Wrong : \A m \in Wrong : k <= m
            <3> HIDE DEF Wrong
            <3> QED  BY <2>1, LeastNat
      <2>3. k \in 1..n /\ k # 1 /\ l[k].hash # CoresTo(l, k)
            BY <1>4
      <2>4. k > 1 /\ k - 1 \in 1..n
            BY <1>1, <2>3
      <2>5. k - 1 \notin Wrong
            BY <1>1, <2>2, <2>4
      <2> QED  BY <1>3, <2>3, <2>4, <2>5
<1> QED  BY <1>1, <1>5

-----------------------------------------------------------------------------
(***************************************************************************)
(* Facts about the last value of each kind.                                *)
(***************************************************************************)
At(cs, k) == {i \in DOMAIN cs : cs[i].kind = k}

Greatest(T, i) == i \in T /\ \A j \in T : j <= i

LEMMA LastToIs ==
    ASSUME NEW cs \in Seq(Cores), NEW k \in KindSet
    PROVE  /\ At(cs, k) = {} => LastTo(cs)[k] = NoVal
           /\ \A i : Greatest(At(cs, k), i) => LastTo(cs)[k] = cs[i].to
           /\ At(cs, k) # {} => \E i \in 1..Len(cs) : Greatest(At(cs, k), i)
<1>1. Len(cs) \in Nat /\ DOMAIN cs = 1..Len(cs)
      BY LenProperties
<1>2. LastTo(cs)[k] = IF At(cs, k) = {} THEN NoVal
                      ELSE cs[CHOOSE i \in At(cs, k) : \A j \in At(cs, k) : j <= i].to
      BY DEF LastTo, At
<1>3. ASSUME NEW i, Greatest(At(cs, k), i) PROVE LastTo(cs)[k] = cs[i].to
      <2>1. At(cs, k) \subseteq Int
            BY <1>1 DEF At
      <2>2. (CHOOSE n \in At(cs, k) : \A j \in At(cs, k) : j <= n) = i
            <3>1. \A n \in At(cs, k) : (\A j \in At(cs, k) : j <= n) => n = i
                  BY <1>3, <2>1 DEF Greatest
            <3> QED  BY <1>3, <3>1 DEF Greatest
      <2>3. At(cs, k) # {}
            BY <1>3 DEF Greatest
      <2> QED  BY <1>2, <2>2, <2>3
<1>4. ASSUME At(cs, k) # {} PROVE \E i \in 1..Len(cs) : Greatest(At(cs, k), i)
      <2>1. At(cs, k) \in SUBSET (0..Len(cs)) /\ At(cs, k) \subseteq 1..Len(cs)
            BY <1>1 DEF At
      <2> QED  BY <1>1, <1>4, <2>1, GreatestNat DEF Greatest
<1> QED  BY <1>2, <1>3, <1>4

LEMMA LastToType ==
    ASSUME NEW cs \in Seq(Cores)
    PROVE  LastTo(cs) \in [KindSet -> Vals \cup {NoVal}]
<1>1. \A i \in 1..Len(cs) : cs[i].to \in Vals \cup {NoVal}
      <2>1. \A i \in 1..Len(cs) : cs[i] \in Cores
            BY ElementOfSeq
      <2> QED  BY <2>1 DEF Cores
<1>2. \A k \in KindSet : LastTo(cs)[k] \in Vals \cup {NoVal}
      BY <1>1, LastToIs
<1>3. LastTo(cs) = [k \in KindSet |-> LastTo(cs)[k]]
      BY DEF LastTo
<1> HIDE DEF LastTo
<1> QED  BY <1>2, <1>3

LEMMA LastToAppend ==
    ASSUME NEW cs \in Seq(Cores), NEW c \in Cores, c.kind \in KindSet
    PROVE  LastTo(Append(cs, c)) = [LastTo(cs) EXCEPT ![c.kind] = c.to]
<1> DEFINE n == Len(cs)
           t == Append(cs, c)
<1>1. /\ n \in Nat /\ DOMAIN cs = 1..n /\ t \in Seq(Cores) /\ Len(t) = n + 1
      /\ DOMAIN t = 1..(n + 1) /\ t[n + 1] = c /\ \A i \in 1..n : t[i] = cs[i]
      BY LenProperties, AppendProperties
<1> HIDE DEF t, n
<1>2. \A i \in 1..(n + 1) : i \in 1..n \/ i = n + 1
      BY <1>1
<1>3. ASSUME NEW k \in KindSet
      PROVE  LastTo(t)[k] = IF k = c.kind THEN c.to ELSE LastTo(cs)[k]
      <2>1. CASE k = c.kind
            <3>1. Greatest(At(t, k), n + 1)
                  BY <1>1, <2>1 DEF At, Greatest
            <3> QED  BY <1>1, <2>1, <3>1, LastToIs
      <2>2. CASE k # c.kind
            <3>1. At(t, k) = At(cs, k)
                  BY <1>1, <1>2, <2>2 DEF At
            <3>2. CASE At(cs, k) = {}
                  BY <1>1, <2>2, <3>1, <3>2, LastToIs
            <3>3. CASE At(cs, k) # {}
                  <4>1. PICK i \in 1..Len(cs) : Greatest(At(cs, k), i)
                        BY <3>3, LastToIs
                  <4>2. LastTo(cs)[k] = cs[i].to
                        BY <4>1, LastToIs
                  <4>3. LastTo(t)[k] = t[i].to
                        BY <1>1, <3>1, <4>1, LastToIs
                  <4> QED  BY <1>1, <2>2, <4>1, <4>2, <4>3 DEF n
            <3> QED  BY <3>2, <3>3
      <2> QED  BY <2>1, <2>2
<1>4. LastTo(t) \in [KindSet -> Vals \cup {NoVal}] /\ LastTo(cs) \in [KindSet -> Vals \cup {NoVal}]
      BY <1>1, LastToType
<1> QED  BY <1>3, <1>4 DEF t

LEMMA LastOfIs ==
    ASSUME NEW l \in Seq(Lines)
    PROVE  LastOf(l) = LastTo(CoresTo(l, Len(l))) /\ CoresTo(l, Len(l)) \in Seq(Cores)
<1> DEFINE cs == CoresTo(l, Len(l))
<1>1. /\ Len(l) \in Nat /\ DOMAIN l = 1..Len(l)
      /\ \A i \in 1..Len(l) : l[i].core \in Cores
      BY LinesOf, LineTypes
<1>2. /\ cs \in Seq(Cores) /\ Len(cs) = Len(l) /\ DOMAIN cs = 1..Len(l)
      /\ \A i \in 1..Len(l) : cs[i] = l[i].core
      BY <1>1 DEF CoresTo
<1> HIDE DEF cs
<1>3. ASSUME NEW k \in KindSet
      PROVE  LastOf(l)[k] = LastTo(cs)[k]
      <2> DEFINE at == {i \in DOMAIN l : l[i].core.kind = k}
      <2>1. at = At(cs, k)
            BY <1>1, <1>2 DEF At
      <2>2. LastOf(l)[k] = IF at = {} THEN NoVal
                           ELSE l[CHOOSE i \in at : \A j \in at : j <= i].core.to
            BY DEF LastOf
      <2> HIDE DEF at
      <2>3. CASE at = {}
            BY <1>2, <2>1, <2>2, <2>3, LastToIs
      <2>4. CASE at # {}
            <3>1. PICK i \in 1..Len(cs) : Greatest(at, i)
                  BY <1>2, <2>1, <2>4, LastToIs
            <3>2. (CHOOSE n \in at : \A j \in at : j <= n) = i
                  <4>1. at \subseteq Int
                        BY <1>1 DEF at
                  <4>2. \A n \in at : (\A j \in at : j <= n) => n = i
                        BY <3>1, <4>1 DEF Greatest
                  <4> QED  BY <3>1, <4>2 DEF Greatest
            <3>3. LastTo(cs)[k] = cs[i].to
                  BY <1>2, <2>1, <3>1, LastToIs
            <3> QED  BY <1>2, <2>2, <2>4, <3>1, <3>2, <3>3
      <2> QED  BY <2>3, <2>4
<1>4. LastOf(l) = [k \in KindSet |-> LastOf(l)[k]]
      BY DEF LastOf
<1>5. LastTo(cs) = [k \in KindSet |-> LastTo(cs)[k]]
      BY DEF LastTo
<1> HIDE DEF LastOf, LastTo
<1> QED  BY <1>2, <1>3, <1>4, <1>5 DEF cs

-----------------------------------------------------------------------------
(***************************************************************************)
(* Facts about heads and about the events a run finds.                     *)
(***************************************************************************)
LEMMA EmptyHeadHonest == EmptyHead \in Heads /\ HonestHead(EmptyHead)
<1>1. LastTo(<<>>) = [k \in KindSet |-> NoVal]
      BY DEF LastTo
<1>2. EmptyHead.head = <<>> /\ EmptyHead.seq = 0 /\ EmptyHead.last = [k \in KindSet |-> NoVal]
      BY DEF EmptyHead, Genesis
<1>3. EmptyHead \in Heads
      BY DEF EmptyHead, Heads, Genesis
<1> QED  BY <1>1, <1>2, <1>3 DEF HonestHead

LEMMA HeadOfHonest ==
    ASSUME NEW l \in Seq(Lines), Intact(l)
    PROVE  HeadOf(l) \in Heads /\ HonestHead(HeadOf(l))
<1>1. Len(l) \in Nat /\ \A i \in 1..Len(l) : Sound(l, i)
      BY LinesOf, GoodLenIs DEF Intact
<1>2. HeadOf(l).head = CoresTo(l, Len(l))
      <2>1. CASE l = <<>>
            <3>1. CoresTo(l, Len(l)) = <<>>
                  BY <1>1, <2>1, LinesOf DEF CoresTo
            <3> QED  BY <2>1, <3>1 DEF HeadOf, Genesis
      <2>2. CASE l # <<>>
            <3>1. Len(l) \in 1..Len(l)
                  BY <1>1, <2>2, LinesOf
            <3>2. l[Len(l)].hash = CoresTo(l, Len(l))
                  BY <1>1, <3>1, CommitsToAll
            <3> QED  BY <2>2, <3>2 DEF HeadOf
      <2> QED  BY <2>1, <2>2
<1>3. Len(CoresTo(l, Len(l))) = Len(l)
      BY <1>1 DEF CoresTo
<1>4. HeadOf(l).seq = Len(l) /\ HeadOf(l).last = LastOf(l)
      BY DEF HeadOf
<1>5. LastOf(l) \in [KindSet -> Vals \cup {NoVal}]
      BY LastOfIs, LastToType
<1>6. HeadOf(l) = [head |-> CoresTo(l, Len(l)), seq |-> Len(l), last |-> LastOf(l)]
      BY <1>2 DEF HeadOf
<1>7. HeadOf(l) \in Heads
      BY <1>1, <1>5, <1>6, LastOfIs DEF Heads
<1> QED  BY <1>2, <1>3, <1>4, <1>7, LastOfIs DEF HonestHead

Mems == [head : Heads, batch : Seq(Lines), left : Seq(KindSet)]

LEMMA NoMemHonest ==
    /\ NoMem \in Mems /\ NoMem.head = EmptyHead /\ NoMem.batch = <<>> /\ NoMem.left = <<>>
    /\ Honest(NoMem.batch) /\ HonestHead(NoMem.head)
BY EmptyHeadHonest, EmptySeq DEF NoMem, Mems, Honest

\* The event a run appends for a source continues the history of its head.
LEMMA ObserveHonest ==
    ASSUME NEW m \in Mems, NEW k \in KindSet, Honest(m.batch), HonestHead(m.head),
           src \in [KindSet -> Vals \cup {NoVal}]
    PROVE  LET o == Observe(m, k)
           IN  /\ o \in Mems /\ o.left = m.left /\ Honest(o.batch) /\ HonestHead(o.head)
               /\ \/ o = m
                  \/ /\ Len(o.batch) = Len(m.batch) + 1
                     /\ \A i \in 1..Len(m.batch) : o.batch[i] = m.batch[i]
                     /\ o.batch[Len(m.batch) + 1].prev = m.head.head
                     /\ o.batch[Len(m.batch) + 1] # Bad
<1> DEFINE h == m.head
           c == [seq |-> h.seq, kind |-> k, from |-> h.last[k], to |-> src[k]]
           line == Line(h.head, c)
           b == Append(m.batch, line)
           new == [head |-> line.hash, seq |-> h.seq + 1, last |-> [h.last EXCEPT ![k] = src[k]]]
<1>1. CASE src[k] \in {NoVal, h.last[k]}
      BY <1>1 DEF Observe
<1>2. CASE src[k] \notin {NoVal, h.last[k]}
      <2>1. /\ h.head \in Seq(Cores) /\ h.seq \in Nat /\ h.seq = Len(h.head)
            /\ h.last \in [KindSet -> Vals \cup {NoVal}] /\ h.last = LastTo(h.head)
            /\ m.batch \in Seq(Lines)
            BY DEF Mems, Heads, HonestHead
      <2>2. c \in Cores /\ c.kind = k /\ c.to = src[k] /\ c.from = h.last[k] /\ c.seq = h.seq
            BY <2>1 DEF Cores
      <2>3. line.core = c /\ line.prev = h.head /\ line.hash = Append(h.head, c)
            BY DEF Line, Hash
      <2> HIDE DEF c
      <2>4. Append(h.head, c) \in Seq(Cores) /\ Len(Append(h.head, c)) = h.seq + 1
            BY <2>1, <2>2, AppendProperties
      <2>5. line \in Lines
            BY <2>1, <2>2, <2>4 DEF Line, Hash, Lines
      <2>6. HonestLine(line)
            BY <1>2, <2>1, <2>2, <2>3 DEF HonestLine
      <2>7. line # Bad
            BY <2>1, <2>2, <2>3 DEF Bad
      <2> HIDE DEF line
      <2>8. /\ b \in Seq(Lines) /\ Len(b) = Len(m.batch) + 1 /\ b[Len(m.batch) + 1] = line
            /\ \A i \in 1..Len(m.batch) : b[i] = m.batch[i]
            BY <2>1, <2>5, AppendProperties
      <2>9. Observe(m, k) = [m EXCEPT !.head = new, !.batch = b]
            BY <1>2 DEF Observe, line, c
      <2>10. new \in Heads
            BY <2>1, <2>2, <2>3, <2>4 DEF Heads, c
      <2>11. HonestHead(new)
            <3>1. LastTo(Append(h.head, c)) = [h.last EXCEPT ![k] = src[k]]
                  BY <2>1, <2>2, LastToAppend
            <3> QED  BY <2>3, <2>4, <3>1 DEF HonestHead
      <2> HIDE DEF new, b
      <2>12. Honest(b)
            <3>1. DOMAIN b = 1..(Len(m.batch) + 1) /\ DOMAIN m.batch = 1..Len(m.batch)
                  /\ Len(m.batch) \in Nat
                  BY <2>1, <2>8, LenProperties
            <3>2. \A i \in 1..(Len(m.batch) + 1) : i \in 1..Len(m.batch) \/ i = Len(m.batch) + 1
                  BY <3>1
            <3> QED  BY <2>6, <2>8, <3>1, <3>2 DEF Honest
      <2>13. /\ [m EXCEPT !.head = new, !.batch = b] \in Mems
             /\ [m EXCEPT !.head = new, !.batch = b].left = m.left
             /\ [m EXCEPT !.head = new, !.batch = b].batch = b
             /\ [m EXCEPT !.head = new, !.batch = b].head = new
            BY <2>8, <2>10 DEF Mems
      <2> QED  BY <2>3, <2>7, <2>8, <2>9, <2>11, <2>12, <2>13
<1> QED  BY <1>1, <1>2

-----------------------------------------------------------------------------
(***************************************************************************)
(* The tail decides.                                                       *)
(***************************************************************************)

\* The lines that are verified overlap the sound prefix, so their hashes and
\* links make all of the chain sound.
LEMMA TailDecides ==
    ASSUME NEW l \in Seq(Lines), Honest(l), l # <<>> => l[1] = Bad \/ Sound(l, 1),
           Behind(l) < TailN, TailVerifies(l)
    PROVE  Intact(l)
<1> DEFINE g == GoodLen(l)
           first == IF Len(l) > TailN THEN Len(l) - TailN + 1 ELSE 1
<1>1. /\ Len(l) \in Nat /\ g \in 0..Len(l) /\ TailN \in Nat /\ DOMAIN l = 1..Len(l)
      BY LinesOf, GoodLenIs, TailAssumption
<1>2. /\ \A n \in first..Len(l) : /\ l[n] # Bad /\ l[n].hash = Hash(l[n].prev, l[n].core)
                                  /\ n > first => l[n].prev = l[n - 1].hash
      BY DEF TailVerifies
<1>3. (g < Len(l) => ~Sound(l, g + 1)) /\ Len(l) - g < TailN
      BY GoodLenIs DEF Behind
<1> HIDE DEF g
<1>4. ASSUME g < Len(l) PROVE FALSE
      <2>1. /\ first \in Nat /\ first >= 1 /\ g + 1 \in first..Len(l)
            /\ g # 0 => g + 1 > first
            <3>1. CASE Len(l) > TailN
                  <4>1. first = Len(l) - TailN + 1
                        BY <3>1
                  <4> HIDE DEF first
                  <4> QED  BY <1>1, <1>3, <1>4, <3>1, <4>1
            <3>2. CASE ~(Len(l) > TailN)
                  <4>1. first = 1
                        BY <3>2
                  <4> HIDE DEF first
                  <4> QED  BY <1>1, <1>4, <4>1
            <3> QED  BY <3>1, <3>2
      <2> HIDE DEF first
      <2>2. /\ l[g + 1] # Bad /\ l[g + 1].hash = Hash(l[g + 1].prev, l[g + 1].core)
            /\ g # 0 => l[g + 1].prev = l[(g + 1) - 1].hash
            BY <1>2, <2>1
      <2>3. CASE g = 0
            <3>1. l # <<>> /\ l[1] # Bad
                  BY <1>1, <1>4, <2>2, <2>3, LinesOf
            <3> QED  BY <1>3, <1>4, <2>3, <3>1
      <2>4. CASE g # 0
            <3>1. g \in 1..Len(l) /\ (g + 1) - 1 = g /\ g + 1 \in 1..Len(l) /\ g \in Nat
                  BY <1>1, <1>4, <2>4
            <3>2. l[g].hash = CoresTo(l, g)
                  BY <3>1, GoodLenIs, CommitsToAll DEF g
            <3>3. Len(CoresTo(l, g)) = g
                  <4>1. \A i \in 1..g : l[i].core \in Cores
                        BY <1>1, LinesOf, LineTypes
                  <4> QED  BY <3>1, <4>1 DEF CoresTo
            <3>4. HonestLine(l[g + 1])
                  BY <1>1, <2>2, <3>1 DEF Honest
            <3>5. l[g + 1].core.seq = (g + 1) - 1
                  BY <2>2, <2>4, <3>1, <3>2, <3>3, <3>4 DEF HonestLine
            <3>6. Sound(l, g + 1)
                  BY <2>2, <2>4, <3>1, <3>5 DEF Sound
            <3> QED  BY <1>3, <1>4, <3>6
      <2> QED  BY <2>3, <2>4
<1> QED  BY <1>1, <1>4 DEF Intact, g

\* A first line that starts a history is sound.
LEMMA FirstLine ==
    ASSUME NEW l \in Seq(Lines), l # <<>>, HonestLine(l[1]), l[1] # Bad, l[1].prev = Genesis
    PROVE  Sound(l, 1)
<1>1. l[1].core.seq = 1 - 1
      BY EmptySeq DEF HonestLine, Genesis
<1> QED  BY <1>1 DEF HonestLine, Sound, Hash

-----------------------------------------------------------------------------
(***************************************************************************)
(* What the steps that write the ledger leave of it.                       *)
(***************************************************************************)
LEMMA Sizes ==
    ASSUME TypeOK
    PROVE  /\ Len(ledger) \in Nat /\ unsynced \in 0..Len(ledger) /\ DOMAIN ledger = 1..Len(ledger)
           /\ GoodLen(ledger) \in 0..Len(ledger) /\ Len(Kinds) \in Nat \ {0}
BY LinesOf, GoodLenIs, KindsAssumption, LenProperties DEF TypeOK

LEMMA HealShape ==
    ASSUME StoryInv, StartHeal
    PROVE  /\ ledger' \in Seq(Lines) /\ Len(ledger') = GoodLen(ledger) /\ unsynced' = 0
           /\ \A i \in 1..Len(ledger') : ledger'[i] = ledger[i]
           /\ Intact(ledger')
BY GoodIs DEF StartHeal, StoryInv, TypeOK

LEMMA AppendLines ==
    ASSUME TypeOK, AppendEvents
    PROVE  /\ ledger' \in Seq(Lines) /\ Len(mem.batch) \in Nat
           /\ Len(ledger') = Len(ledger) + Len(mem.batch)
           /\ unsynced' = unsynced + Len(mem.batch)
           /\ \A i \in 1..Len(ledger) : ledger'[i] = ledger[i]
           /\ \A i \in 1..Len(mem.batch) : ledger'[Len(ledger) + i] = mem.batch[i]
<1>1. /\ ledger \in Seq(Lines) /\ mem.batch \in Seq(Lines) /\ ledger' = ledger \o mem.batch
      /\ unsynced' = unsynced + Len(mem.batch)
      BY DEF TypeOK, AppendEvents
<1> DEFINE b == mem.batch
           l == ledger \o b
<1>2. /\ l \in Seq(Lines) /\ Len(l) = Len(ledger) + Len(b)
      /\ \A i \in 1..(Len(ledger) + Len(b)) :
             l[i] = IF i <= Len(ledger) THEN ledger[i] ELSE b[i - Len(ledger)]
      BY <1>1, ConcatProperties
<1>3. Len(b) \in Nat /\ Len(ledger) \in Nat
      BY <1>1, LenProperties
<1> HIDE DEF b, l
<1>4. \A i \in 1..Len(ledger) : l[i] = ledger[i]
      <2>1. \A i \in 1..Len(ledger) : i \in 1..(Len(ledger) + Len(b)) /\ i <= Len(ledger)
            BY <1>3
      <2> QED  BY <1>2, <2>1
<1>5. \A i \in 1..Len(b) : l[Len(ledger) + i] = b[i]
      <2>1. \A i \in 1..Len(b) : /\ Len(ledger) + i \in 1..(Len(ledger) + Len(b))
                                 /\ ~(Len(ledger) + i <= Len(ledger))
                                 /\ (Len(ledger) + i) - Len(ledger) = i
            BY <1>3
      <2> QED  BY <1>2, <2>1
<1> QED  BY <1>1, <1>2, <1>3, <1>4, <1>5 DEF l, b

\* What one run appends.
LEMMA AppendShape ==
    ASSUME StoryInv, RunInv, AppendEvents
    PROVE  Len(mem.batch) \in 1..Len(Kinds) /\ GoodLen(ledger) <= GoodLen(ledger')
<1>1. /\ TypeOK /\ ledger \in Seq(Lines) /\ ledger' \in Seq(Lines) /\ mem.batch \in Seq(Lines)
      /\ mem.batch # <<>> /\ Len(mem.batch) + Len(mem.left) <= Len(Kinds)
      /\ mem.left \in Seq(KindSet)
      BY AppendLines DEF StoryInv, TypeOK, RunInv, AppendEvents
<1>2. Len(mem.batch) \in 1..Len(Kinds)
      <2> DEFINE n == Len(mem.batch)
                 r == Len(mem.left)
      <2>1. n > 0 /\ n \in Nat /\ r \in Nat /\ Len(Kinds) \in Nat /\ n + r <= Len(Kinds)
            BY <1>1, LinesOf, LenProperties, KindsAssumption
      <2> HIDE DEF n, r
      <2>2. n \in 1..Len(Kinds)
            BY <2>1
      <2> QED  BY <2>2 DEF n
<1>3. GoodLen(ledger) <= GoodLen(ledger')
      <2> DEFINE g == GoodLen(ledger)
      <2>1. /\ g \in 0..Len(ledger) /\ Len(ledger) \in Nat
            /\ \A i \in 1..g : Sound(ledger, i)
            BY <1>1, GoodLenIs, LinesOf
      <2>2. Len(ledger') = Len(ledger) + Len(mem.batch) /\ Len(mem.batch) \in Nat
            BY <1>1, AppendLines
      <2> HIDE DEF g
      <2>3. \A i \in 1..g : i \in 1..Len(ledger)
            BY <2>1
      <2>4. \A i \in 1..g : Sound(ledger, i) /\ ledger'[i] = ledger[i]
            BY <1>1, <2>1, <2>3, AppendLines
      <2>5. g <= Len(ledger')
            BY <2>1, <2>2
      <2>6. g <= GoodLen(ledger')
            BY <1>1, <2>1, <2>4, <2>5, GoodGrows
      <2> QED  BY <2>6 DEF g
<1> QED  BY <1>2, <1>3

\* What crash_recovery copies.
LEMMA CopyShape ==
    ASSUME TypeOK, RecoveryReads
    PROVE  /\ copy' \in Seq(Lines) /\ Len(copy') \in GoodLen(ledger)..Len(ledger)
           /\ \A i \in 1..Len(copy') : copy'[i] = ledger[i] /\ copy'[i] # Bad
           /\ GoodLen(ledger) <= GoodLen(copy')
<1>1. ledger \in Seq(Lines) /\ copy' = JsonPrefix(ledger)
      BY DEF TypeOK, RecoveryReads
<1>2. PICK n \in GoodLen(ledger)..Len(ledger) :
          JsonPrefix(ledger) = SubSeq(ledger, 1, n) /\ \A i \in 1..n : ledger[i] # Bad
      BY <1>1, JsonPrefixIs
<1> DEFINE g == GoodLen(ledger)
<1>3. /\ n \in 0..Len(ledger) /\ g \in 0..Len(ledger) /\ Len(ledger) \in Nat
      /\ \A i \in 1..g : Sound(ledger, i)
      BY <1>1, <1>2, Sizes, GoodLenIs
<1>4. copy' \in Seq(Lines) /\ Len(copy') = n /\ \A i \in 1..n : copy'[i] = ledger[i]
      BY <1>1, <1>2, <1>3, Prefixes
<1>5. g <= n
      BY <1>2, <1>3
<1> HIDE DEF g
<1>6. \A i \in 1..g : i \in 1..n
      BY <1>3, <1>5
<1>7. \A i \in 1..g : copy'[i] = ledger[i] /\ Sound(ledger, i)
      BY <1>3, <1>4, <1>6
<1>8. g <= GoodLen(copy')
      BY <1>1, <1>3, <1>4, <1>5, <1>7, GoodGrows
<1> QED  BY <1>2, <1>4, <1>8 DEF g

LEMMA CutShape ==
    ASSUME StoryInv, PowerCut
    PROVE  /\ ledger' \in Seq(Lines) /\ unsynced' = 0
           /\ \E n \in (Len(ledger) - unsynced)..Len(ledger) :
                  /\ \A i \in 1..n : ledger'[i] = ledger[i]
                  /\ \/ Len(ledger') = n
                     \/ n < Len(ledger) /\ Len(ledger') = n + 1 /\ ledger'[n + 1] = Bad
<1>1. ledger \in Seq(Lines) /\ unsynced' = 0 /\ TypeOK
      BY DEF StoryInv, TypeOK, PowerCut
<1>2. PICK j \in 0..unsynced :
          LET kept == SubSeq(ledger, 1, Len(ledger) - unsynced + j)
          IN  ledger' = kept \/ (j < unsynced /\ ledger' = Append(kept, Bad))
      BY DEF PowerCut
<1> DEFINE n == Len(ledger) - unsynced + j
           kept == SubSeq(ledger, 1, n)
<1>3. /\ n \in (Len(ledger) - unsynced)..Len(ledger) /\ n \in 0..Len(ledger) /\ n \in Nat
      /\ j < unsynced => n < Len(ledger)
      BY <1>1, Sizes
<1>4. ledger' = kept \/ (n < Len(ledger) /\ ledger' = Append(kept, Bad))
      BY <1>2, <1>3
<1> HIDE DEF n
<1>5. kept \in Seq(Lines) /\ Len(kept) = n /\ \A i \in 1..n : kept[i] = ledger[i]
      BY <1>1, <1>3, Prefixes
<1> HIDE DEF kept
<1>6. /\ Append(kept, Bad) \in Seq(Lines) /\ Len(Append(kept, Bad)) = n + 1
      /\ Append(kept, Bad)[n + 1] = Bad /\ \A i \in 1..n : Append(kept, Bad)[i] = kept[i]
      BY <1>5, BadLine, AppendProperties
<1>7. CASE ledger' = kept
      BY <1>1, <1>3, <1>5, <1>7
<1>8. CASE n < Len(ledger) /\ ledger' = Append(kept, Bad)
      BY <1>1, <1>3, <1>5, <1>6, <1>8
<1> QED  BY <1>4, <1>7, <1>8

-----------------------------------------------------------------------------
(***************************************************************************)
(* What was fsynced onto a sound chain stays.                              *)
(***************************************************************************)
Same == ledger' = ledger /\ unsynced' \in {unsynced, 0}

Settled == 1..GoodLen(Durable)

\* The step leaves the settled lines where they are, and on the disk.
Kept == \A i \in Settled : i <= Len(ledger') - unsynced' /\ ledger'[i] = ledger[i]

\* Four actions write the ledger.
LEMMA Writers ==
    ASSUME [Next]_vars
    PROVE  Same \/ StartHeal \/ AppendEvents \/ RecoveryReplaces \/ PowerCut
<1>1. CASE Run
      BY <1>1 DEF Run, StartSound, HealHead, Load, ReadSource, Fsync, SaveHead, Verify, Same
<1>2. CASE Recovery
      BY <1>2 DEF Recovery, RecoveryReads, Same
<1>3. CASE Env
      BY <1>3 DEF Env, Quiesce, WriteBack, Killed, SaveHeadFails, SourceChanges, Same
<1>4. CASE UNCHANGED vars
      BY <1>4 DEF vars, Same
<1> QED  BY <1>1, <1>2, <1>3, <1>4 DEF Next

LEMMA SettledIs ==
    ASSUME TypeOK
    PROVE  /\ Durable \in Seq(Lines) /\ Len(Durable) = Len(ledger) - unsynced
           /\ \A i \in 1..(Len(ledger) - unsynced) : Durable[i] = ledger[i]
           /\ GoodLen(Durable) \in 0..(Len(ledger) - unsynced)
           /\ GoodLen(Durable) <= GoodLen(ledger)
           /\ \A i \in Settled : Sound(ledger, i) /\ Sound(Durable, i)
           /\ Begun <=> 1 \in Settled
<1>1. Len(ledger) - unsynced \in 0..Len(ledger) /\ ledger \in Seq(Lines)
      BY Sizes DEF TypeOK
<1>2. /\ Durable \in Seq(Lines) /\ Len(Durable) = Len(ledger) - unsynced
      /\ \A i \in 1..(Len(ledger) - unsynced) : Durable[i] = ledger[i]
      BY <1>1, Prefixes DEF Durable
<1> DEFINE d == Len(ledger) - unsynced
           g == GoodLen(Durable)
<1>3. g \in 0..d /\ \A i \in 1..g : Sound(Durable, i)
      BY <1>2, GoodLenIs
<1> HIDE DEF d, g
<1>4. d \in Nat /\ d <= Len(ledger) /\ g \in Nat /\ Len(ledger) \in Nat
      BY <1>1, <1>3, Sizes DEF d
<1>5. \A i \in 1..d : Durable[i] = ledger[i] /\ (Sound(ledger, i) <=> Sound(Durable, i))
      BY <1>2, <1>4, SoundAlike DEF d
<1>6. \A i \in 1..g : i \in 1..d
      BY <1>3, <1>4
<1>7. \A i \in 1..g : Sound(ledger, i) /\ Sound(Durable, i)
      BY <1>3, <1>5, <1>6
<1>8. g <= GoodLen(ledger)
      <2>1. g \in 0..Len(ledger)
            BY <1>3, <1>4
      <2> QED  BY <1>1, <1>7, <2>1, GoodLenMax
<1>9. Begun <=> 1 \in 1..g
      <2>1. ASSUME 1 \in 1..g PROVE Begun
            BY <1>3, <1>4, <1>7, <2>1 DEF Begun, d
      <2>2. ASSUME Begun PROVE 1 \in 1..g
            <3>1. d >= 1 /\ Sound(Durable, 1) /\ 1 \in 0..d
                  BY <1>4, <1>5, <2>2 DEF Begun, d
            <3>2. \A i \in 1..1 : Sound(Durable, i)
                  BY <3>1
            <3>3. 1 \in 0..Len(Durable)
                  BY <1>2, <3>1 DEF d
            <3>4. 1 <= g
                  BY <1>2, <3>2, <3>3, GoodLenMax DEF g
            <3> QED  BY <1>4, <3>4
      <2> QED  BY <2>1, <2>2
<1> QED  BY <1>2, <1>3, <1>7, <1>8, <1>9 DEF Settled, d, g

LEMMA StepKeeps ==
    ASSUME StoryInv, [Next]_vars, ~RecoveryReplaces
    PROVE  Kept
<1> USE DEF StoryInv
<1> DEFINE d == Len(ledger) - unsynced
           g == GoodLen(Durable)
<1>1. /\ g \in 0..d /\ d \in 0..Len(ledger) /\ Len(ledger) \in Nat /\ unsynced \in Nat
      /\ g <= GoodLen(ledger) /\ GoodLen(ledger) \in Nat /\ TypeOK
      BY Sizes, SettledIs
<1> HIDE DEF g
<1> SUFFICES ASSUME NEW i \in 1..g
             PROVE  i <= Len(ledger') - unsynced' /\ ledger'[i] = ledger[i]
    BY DEF Kept, Settled, g
<1>2. i \in Nat /\ i >= 1 /\ i <= d /\ i <= GoodLen(ledger) /\ i <= Len(ledger)
      BY <1>1
<1>3. CASE Same
      BY <1>1, <1>2, <1>3 DEF Same
<1>4. CASE StartHeal
      BY <1>1, <1>2, <1>4, HealShape
<1>5. CASE AppendEvents
      <2>1. Len(mem.batch) \in Nat
            BY <1>5, AppendLines
      <2> QED  BY <1>1, <1>2, <1>5, <2>1, AppendLines
<1>7. CASE PowerCut
      <2>1. PICK n \in d..Len(ledger) :
                /\ \A j \in 1..n : ledger'[j] = ledger[j]
                /\ Len(ledger') = n \/ Len(ledger') = n + 1
            BY <1>7, CutShape
      <2>2. unsynced' = 0
            BY <1>7, CutShape
      <2>3. n \in Nat /\ i <= n
            BY <1>1, <1>2
      <2> QED  BY <1>2, <2>1, <2>2, <2>3
<1> QED  BY <1>3, <1>4, <1>5, <1>7, Writers

\* So a chain that has begun on the disk stays begun, unless a rename takes its
\* first line away.
LEMMA BegunStays ==
    ASSUME StoryInv, TypeOK', Started, [Next]_vars, ~beheaded', Begun
    PROVE  Begun'
<1> USE DEF StoryInv
<1>1. Len(ledger') \in Nat /\ unsynced' \in Nat
      BY LinesOf DEF TypeOK
<1>2. Sound(ledger, 1) /\ ledger # <<>>
      <2>1. Len(ledger) \in Nat /\ unsynced \in Nat /\ ledger \in Seq(Lines)
            BY LinesOf DEF TypeOK
      <2>2. Len(ledger) > 0
            BY <2>1 DEF Begun
      <2> QED  BY <2>1, <2>2, LinesOf DEF Begun
<1>3. CASE RecoveryReplaces
      <2>1. ledger' = copy /\ unsynced' = 0 /\ copy # <<>> /\ Sound(copy, 1)
            BY <1>2, <1>3 DEF RecoveryReplaces, Started
      <2>2. Len(copy) \in Nat /\ Len(copy) > 0
            BY <2>1, LinesOf DEF TypeOK
      <2> QED  BY <2>1, <2>2 DEF Begun
<1>4. CASE ~RecoveryReplaces
      <2>1. 1 \in Settled /\ Kept
            BY <1>4, SettledIs, StepKeeps
      <2>2. ledger'[1] = ledger[1] /\ 1 <= Len(ledger') - unsynced'
            BY <2>1 DEF Kept
      <2>3. Sound(ledger', 1)
            BY <1>2, <2>2, SoundLocal
      <2> QED  BY <1>1, <2>2, <2>3 DEF Begun
<1> QED  BY <1>3, <1>4

-----------------------------------------------------------------------------
(***************************************************************************)
(* The invariant is preserved, conjunct by conjunct.                       *)
(***************************************************************************)
LEMMA ReadSourceShape ==
    ASSUME StoryInv, ReadSource
    PROVE  LET o == Observe(mem, Head(mem.left))
           IN  /\ o \in Mems /\ Honest(o.batch) /\ HonestHead(o.head)
               /\ mem' \in Mems /\ mem'.head = o.head /\ mem'.batch = o.batch
               /\ Len(mem'.left) = Len(mem.left) - 1
               /\ \/ o = mem
                  \/ /\ Len(o.batch) = Len(mem.batch) + 1
                     /\ \A i \in 1..Len(mem.batch) : o.batch[i] = mem.batch[i]
                     /\ o.batch[Len(mem.batch) + 1].prev = mem.head.head
                     /\ o.batch[Len(mem.batch) + 1] # Bad
<1> DEFINE o == Observe(mem, Head(mem.left))
<1>1. /\ mem \in Mems /\ mem.left \in Seq(KindSet) /\ mem.left # <<>>
      /\ src \in [KindSet -> Vals \cup {NoVal}]
      /\ Honest(mem.batch) /\ HonestHead(mem.head)
      /\ mem' = [o EXCEPT !.left = Tail(@)]
      BY DEF StoryInv, TypeOK, AllHonest, ReadSource, Mems
<1>2. /\ Head(mem.left) \in KindSet /\ Tail(mem.left) \in Seq(KindSet)
      /\ Len(Tail(mem.left)) = Len(mem.left) - 1
      BY <1>1, HeadTailProperties
<1>3. /\ o \in Mems /\ o.left = mem.left /\ Honest(o.batch) /\ HonestHead(o.head)
      /\ \/ o = mem
         \/ /\ Len(o.batch) = Len(mem.batch) + 1
            /\ \A i \in 1..Len(mem.batch) : o.batch[i] = mem.batch[i]
            /\ o.batch[Len(mem.batch) + 1].prev = mem.head.head
            /\ o.batch[Len(mem.batch) + 1] # Bad
      BY <1>1, <1>2, ObserveHonest
<1> HIDE DEF o
<1>4. /\ mem' \in Mems /\ mem'.head = o.head /\ mem'.batch = o.batch
      /\ mem'.left = Tail(mem.left)
      BY <1>1, <1>2, <1>3 DEF Mems
<1> QED  BY <1>2, <1>3, <1>4 DEF o

LEMMA StoryTypeStep ==
    ASSUME StoryInv, [Next]_vars
    PROVE  TypeOK'
<1> USE DEF StoryInv, clashes
<1>1. CASE StartSound
      BY <1>1 DEF StartSound, TypeOK
<1>2. CASE StartHeal
      <2>1. HeadOf(Good(ledger)) \in Heads
            BY GoodIs, HeadOfHonest DEF TypeOK
      <2>2. mem' \in Mems
            BY <1>2, <2>1, NoMemHonest DEF StartHeal, Mems
      <2>3. ledger' \in Seq(Lines) /\ unsynced' = 0 /\ unsynced' \in 0..Len(ledger')
            BY <1>2, HealShape, LinesOf
      <2> QED  BY <1>2, <2>2, <2>3 DEF StartHeal, TypeOK, Mems
<1>3. CASE HealHead
      BY <1>3, NoMemHonest DEF HealHead, TypeOK, Mems
<1>4. CASE Load
      <2>1. Kinds \in Seq(KindSet)
            BY KindsAssumption DEF KindSet
      <2> QED  BY <1>4, <2>1, EmptySeq DEF Load, TypeOK
<1>5. CASE ReadSource
      <2>1. mem' \in Mems
            BY <1>5, ReadSourceShape
      <2>2. pc' \in {"read", "verify", "append"}
            BY <1>5 DEF ReadSource
      <2>3. UNCHANGED <<ledger, unsynced, head, headWas, src, report, rec, copy, quiet,
                        clashes, changes, faults>>
            BY <1>5 DEF ReadSource
      <2>4. TypeOK /\ mem' \in [head : Heads, batch : Seq(Lines), left : Seq(KindSet)]
            BY <2>1 DEF Mems
      <2> HIDE DEF StoryInv
      <2> QED  BY <2>2, <2>3, <2>4 DEF TypeOK
<1>6. CASE AppendEvents
      <2>1. unsynced' \in 0..Len(ledger')
            BY <1>6, AppendLines, Sizes
      <2> QED  BY <1>6, <2>1, AppendLines DEF AppendEvents, TypeOK
<1>7. CASE Fsync
      BY <1>7, LinesOf DEF Fsync, TypeOK
<1>8. CASE SaveHead
      BY <1>8, NoMemHonest DEF SaveHead, TypeOK, Mems
<1>9. CASE SaveHeadFails
      BY <1>9, NoMemHonest, BoundAssumption DEF SaveHeadFails, TypeOK, Mems
<1>10. CASE Verify
      BY <1>10, NoMemHonest DEF Verify, TypeOK, Mems
<1>11. CASE RecoveryReads
      <2>1. JsonPrefix(ledger) \in Seq(Lines)
            <3>1. PICK n \in GoodLen(ledger)..Len(ledger) : JsonPrefix(ledger) = SubSeq(ledger, 1, n)
                  BY JsonPrefixIs DEF TypeOK
            <3>2. n \in 0..Len(ledger)
                  BY <3>1, Sizes
            <3> QED  BY <3>1, <3>2, Prefixes DEF TypeOK
      <2> QED  BY <1>11, <2>1 DEF RecoveryReads, TypeOK
<1>12. CASE RecoveryReplaces
      <2>1. ledger' \in Seq(Lines) /\ unsynced' = 0 /\ unsynced' \in 0..Len(ledger')
            BY <1>12, LinesOf DEF RecoveryReplaces, TypeOK
      <2>2. <<>> \in Seq(Lines)
            BY EmptySeq
      <2>3. races' \in Nat /\ beheaded' \in BOOLEAN
            <3>1. races' = races \/ races' = races + 1
                  BY <1>12 DEF RecoveryReplaces
            <3>2. races \in Nat
                  BY DEF TypeOK
            <3>3. beheaded' \in BOOLEAN
                  BY <1>12 DEF RecoveryReplaces
            <3> QED  BY <3>1, <3>2, <3>3
      <2>4. UNCHANGED <<head, headWas, src, pc, mem, report, changes, faults>>
            BY <1>12 DEF RecoveryReplaces
      <2>5. rec' = "idle" /\ copy' = <<>> /\ quiet' = FALSE
            BY <1>12 DEF RecoveryReplaces
      <2> QED  BY <2>1, <2>2, <2>3, <2>4, <2>5 DEF TypeOK
<1>13. CASE Quiesce
      BY <1>13 DEF Quiesce, TypeOK
<1>14. CASE WriteBack
      BY <1>14, LinesOf DEF WriteBack, TypeOK
<1>15. CASE Killed
      BY <1>15, NoMemHonest, BoundAssumption DEF Killed, TypeOK, Mems
<1>16. CASE PowerCut
      <2>1. ledger' \in Seq(Lines) /\ unsynced' = 0 /\ unsynced' \in 0..Len(ledger')
            BY <1>16, CutShape, LinesOf
      <2>2. head' \in Heads /\ headWas' \in Heads
            BY <1>16, EmptyHeadHonest DEF PowerCut, TypeOK
      <2>3. faults' \in 0..MaxFaults
            BY <1>16, BoundAssumption DEF PowerCut, TypeOK
      <2>4. <<>> \in Seq(Lines)
            BY EmptySeq
      <2> QED  BY <1>16, <2>1, <2>2, <2>3, <2>4, NoMemHonest DEF PowerCut, TypeOK, Mems
<1>17. CASE \E k \in KindSet, v \in Vals : SourceChanges(k, v)
      BY <1>17, BoundAssumption DEF SourceChanges, TypeOK
<1>18. CASE UNCHANGED vars
      BY <1>18 DEF vars, TypeOK
<1> QED  BY <1>1, <1>2, <1>3, <1>4, <1>5, <1>6, <1>7, <1>8, <1>9, <1>10, <1>11, <1>12,
            <1>13, <1>14, <1>15, <1>16, <1>17, <1>18 DEF Next, Run, Recovery, Env

\* The lines of a step are lines there were, lines of the batch or broken.
LEMMA AllHonestStep ==
    ASSUME StoryInv, [Next]_vars, TypeOK'
    PROVE  AllHonest'
<1> USE DEF StoryInv
<1>1. /\ ledger \in Seq(Lines) /\ DOMAIN ledger = 1..Len(ledger) /\ Len(ledger) \in Nat
      /\ Len(ledger') \in Nat /\ DOMAIN ledger' = 1..Len(ledger')
      /\ \A i \in 1..Len(ledger) : ledger[i] = Bad \/ HonestLine(ledger[i])
      <2>1. ledger \in Seq(Lines) /\ ledger' \in Seq(Lines)
            BY DEF TypeOK
      <2>2. DOMAIN ledger = 1..Len(ledger)
            BY <2>1, LinesOf
      <2> QED  BY <2>1, <2>2, LinesOf DEF AllHonest, Honest
<1>2. Honest(ledger)'
      <2> SUFFICES \A i \in 1..Len(ledger') : ledger'[i] = Bad \/ HonestLine(ledger'[i])
          BY <1>1 DEF Honest
      <2>1. CASE Same
            BY <1>1, <2>1 DEF Same
      <2>2. CASE StartHeal
            <3>1. \A i \in 1..Len(ledger') : i \in 1..Len(ledger) /\ ledger'[i] = ledger[i]
                  BY <2>2, HealShape, Sizes
            <3> QED  BY <1>1, <3>1
      <2>3. CASE AppendEvents
            <3> DEFINE n == Len(mem.batch)
            <3>1. n \in Nat /\ Len(ledger') = Len(ledger) + n
                  BY <2>3, AppendLines, Sizes
            <3>2. \A i \in 1..n : mem.batch[i] = Bad \/ HonestLine(mem.batch[i])
                  <4>1. DOMAIN mem.batch = 1..n
                        BY LenProperties DEF TypeOK
                  <4> QED  BY <4>1 DEF AllHonest, Honest
            <3>3. \A i \in 1..n : ledger'[Len(ledger) + i] = mem.batch[i]
                  BY <2>3, AppendLines
            <3> HIDE DEF n
            <3>4. ASSUME NEW i \in 1..Len(ledger') PROVE ledger'[i] = Bad \/ HonestLine(ledger'[i])
                  <4>1. CASE i <= Len(ledger)
                        <5>1. i \in 1..Len(ledger)
                              BY <1>1, <4>1
                        <5> QED  BY <1>1, <2>3, <5>1, AppendLines
                  <4>2. CASE i > Len(ledger)
                        <5> DEFINE j == i - Len(ledger)
                        <5>1. j \in 1..n /\ Len(ledger) + j = i
                              BY <1>1, <3>1, <4>2
                        <5> HIDE DEF j
                        <5>2. ledger'[Len(ledger) + j] = mem.batch[j]
                              BY <3>3, <5>1
                        <5> QED  BY <3>2, <5>1, <5>2
                  <4> QED  BY <1>1, <4>1, <4>2
            <3> QED  BY <3>4
      <2>4. CASE RecoveryReplaces
            BY <1>1, <2>4 DEF RecoveryReplaces, AllHonest, Honest
      <2>5. CASE PowerCut
            <3>1. PICK n \in (Len(ledger) - unsynced)..Len(ledger) :
                      /\ \A i \in 1..n : ledger'[i] = ledger[i]
                      /\ Len(ledger') = n \/ (Len(ledger') = n + 1 /\ ledger'[n + 1] = Bad)
                  BY <2>5, CutShape
            <3>2. n \in Nat /\ n <= Len(ledger)
                  <4>1. Len(ledger) - unsynced \in Nat
                        BY Sizes
                  <4> QED  BY <1>1, <4>1
            <3>3. ASSUME NEW i \in 1..Len(ledger') PROVE ledger'[i] = Bad \/ HonestLine(ledger'[i])
                  <4>1. CASE i <= n
                        <5>1. i \in 1..n /\ i \in 1..Len(ledger)
                              BY <1>1, <3>2, <4>1
                        <5>2. ledger'[i] = ledger[i]
                              BY <3>1, <5>1
                        <5> QED  BY <1>1, <5>1, <5>2
                  <4>2. CASE ~(i <= n)
                        <5> DEFINE m == Len(ledger')
                        <5>1. m \in Nat /\ i \in 1..m /\ (m = n \/ m = n + 1)
                              BY <1>1, <3>1
                        <5> HIDE DEF m
                        <5>2. i = n + 1 /\ m # n
                              BY <3>2, <4>2, <5>1
                        <5> QED  BY <3>1, <5>2 DEF m
                  <4> QED  BY <4>1, <4>2
            <3> QED  BY <3>3
      <2> QED  BY <2>1, <2>2, <2>3, <2>4, <2>5, Writers
<1>3. Honest(mem.batch)' /\ HonestHead(mem.head)'
      <2>1. CASE ReadSource
            BY <2>1, ReadSourceShape
      <2>2. CASE StartHeal
            <3>1. mem' = [NoMem EXCEPT !.head = HeadOf(Good(ledger))]
                  BY <2>2 DEF StartHeal
            <3>2. mem'.batch = NoMem.batch /\ mem'.head = HeadOf(Good(ledger))
                  BY <3>1, NoMemHonest DEF Mems
            <3>3. HonestHead(HeadOf(Good(ledger)))
                  BY GoodIs, HeadOfHonest DEF TypeOK
            <3> QED  BY <3>2, <3>3, NoMemHonest
      <2>3. CASE Load
            <3>1. mem'.batch = NoMem.batch /\ mem'.head = head
                  BY <2>3, NoMemHonest DEF Load
            <3> QED  BY <3>1, NoMemHonest DEF AllHonest
      <2>4. CASE mem' = mem
            BY <2>4 DEF AllHonest
      <2>5. CASE mem' = NoMem
            BY <2>5, NoMemHonest
      <2> QED  BY <2>1, <2>2, <2>3, <2>4, <2>5
               DEF Next, Run, Recovery, Env, StartSound, HealHead, AppendEvents, Fsync, SaveHead,
                   Verify, RecoveryReads, RecoveryReplaces, Quiesce, WriteBack, Killed, PowerCut,
                   SaveHeadFails, SourceChanges, vars
<1>4. HonestHead(head)' /\ HonestHead(headWas)'
      <2>1. head' \in {head, headWas, mem.head, EmptyHead}
            BY DEF Next, Run, Recovery, Env, StartSound, StartHeal, HealHead, Load, ReadSource,
                   AppendEvents, Fsync, SaveHead, Verify, RecoveryReads, RecoveryReplaces, Quiesce,
                   WriteBack, Killed, PowerCut, SaveHeadFails, SourceChanges, vars
      <2>2. headWas' \in {head', head, headWas}
            BY DEF Next, Run, Recovery, Env, StartSound, StartHeal, HealHead, Load, ReadSource,
                   AppendEvents, Fsync, SaveHead, Verify, RecoveryReads, RecoveryReplaces, Quiesce,
                   WriteBack, Killed, PowerCut, SaveHeadFails, SourceChanges, vars
      <2>3. HonestHead(head')
            BY <2>1, EmptyHeadHonest DEF AllHonest
      <2> QED  BY <2>2, <2>3 DEF AllHonest
<1>5. Honest(copy)'
      <2>1. CASE RecoveryReads
            <3>1. PICK n \in GoodLen(ledger)..Len(ledger) : JsonPrefix(ledger) = SubSeq(ledger, 1, n)
                  BY JsonPrefixIs DEF TypeOK
            <3>2. n \in 0..Len(ledger)
                  BY <3>1, Sizes
            <3>3. /\ copy' \in Seq(Lines) /\ Len(copy') = n
                  /\ \A i \in 1..n : copy'[i] = ledger[i]
                  BY <1>1, <2>1, <3>1, <3>2, Prefixes DEF RecoveryReads
            <3>4. DOMAIN copy' = 1..n /\ \A i \in 1..n : i \in 1..Len(ledger)
                  BY <1>1, <3>2, <3>3, LinesOf
            <3> QED  BY <1>1, <3>3, <3>4 DEF Honest
      <2>2. CASE copy' = copy
            BY <2>2 DEF AllHonest
      <2>3. CASE copy' = <<>>
            BY <2>3 DEF Honest
      <2> QED  BY <2>1, <2>2, <2>3
               DEF Next, Run, Recovery, Env, StartSound, StartHeal, HealHead, Load, ReadSource,
                   AppendEvents, Fsync, SaveHead, Verify, RecoveryReplaces, Quiesce, WriteBack,
                   Killed, PowerCut, SaveHeadFails, SourceChanges, vars
<1> QED  BY <1>2, <1>3, <1>4, <1>5 DEF AllHonest

LEMMA LeftStep ==
    ASSUME StoryInv, [Next]_vars
    PROVE  pc' = "read" => mem'.left # <<>>
<1>1. CASE ReadSource
      BY <1>1 DEF ReadSource
<1>2. CASE Load
      <2>1. Kinds # <<>>
            BY KindsAssumption, EmptySeq
      <2> QED  BY <1>2, <2>1 DEF Load
<1>3. CASE ~ReadSource /\ ~Load
      BY <1>3
         DEF StoryInv, Next, Run, Recovery, Env, StartSound, StartHeal, HealHead, AppendEvents,
             Fsync, SaveHead, Verify, RecoveryReads, RecoveryReplaces, Quiesce, WriteBack, Killed,
             PowerCut, SaveHeadFails, SourceChanges, vars
<1> QED  BY <1>1, <1>2, <1>3

\* How a ledger begins, after a step.
LEMMA FirstStep ==
    ASSUME LedgerInv, Started, [Next]_vars, TypeOK', ~beheaded'
    PROVE  /\ ledger' # <<>> => ledger'[1] = Bad \/ Sound(ledger', 1)
           /\ ledger # <<>> /\ Sound(ledger, 1) /\ ~PowerCut => ledger' # <<>> /\ Sound(ledger', 1)
           /\ AppendEvents => ledger' # <<>> /\ Sound(ledger', 1)
           /\ StartHeal \/ RecoveryReplaces => ledger' = <<>> \/ Sound(ledger', 1)
<1> USE DEF LedgerInv, StoryInv
<1>1. /\ ledger \in Seq(Lines) /\ ledger' \in Seq(Lines)
      /\ Len(ledger) \in Nat /\ Len(ledger') \in Nat /\ GoodLen(ledger) \in 0..Len(ledger)
      /\ ledger # <<>> <=> Len(ledger) > 0
      /\ ledger' # <<>> <=> Len(ledger') > 0
      /\ unsynced \in Nat
      BY LinesOf, GoodLenIs DEF LedgerInv, StoryInv, TypeOK
<1>2. ASSUME Len(ledger') > 0, ledger'[1] = ledger[1], Sound(ledger, 1)
      PROVE  ledger' # <<>> /\ Sound(ledger', 1)
      BY <1>1, <1>2, SoundLocal
<1>3. ledger # <<>> => ledger[1] = Bad \/ Sound(ledger, 1)
      BY DEF LedgerInv, StoryInv, Started
<1>4. ASSUME ledger # <<>>, Sound(ledger, 1) PROVE GoodLen(ledger) >= 1
      <2>1. 1 \in 0..Len(ledger) /\ \A i \in 1..1 : Sound(ledger, i)
            BY <1>1, <1>4
      <2> QED  BY <1>1, <2>1, GoodLenMax
<1>5. CASE Same
      <2>1. ASSUME AppendEvents PROVE FALSE
            <3>1. Len(ledger') = Len(ledger) + Len(mem.batch) /\ Len(mem.batch) >= 1
                  BY <2>1, AppendLines, AppendShape, KindsAssumption, LenProperties
            <3>2. Len(mem.batch) \in Nat
                  BY LenProperties DEF TypeOK
            <3> QED  BY <1>1, <1>5, <3>1, <3>2 DEF Same
      <2>2. ledger' = ledger
            BY <1>5 DEF Same
      <2>3. StartHeal => ledger' = <<>> \/ Sound(ledger', 1)
            <3>1. ASSUME StartHeal PROVE FALSE
                  BY <2>2, <3>1, HealShape DEF StartHeal
            <3> QED  BY <3>1
      <2>4. RecoveryReplaces => ledger' = <<>> \/ Sound(ledger', 1)
            BY DEF RecoveryReplaces, Started
      <2> QED  BY <1>3, <2>1, <2>2, <2>3, <2>4
<1>6. CASE StartHeal
      <2>1. Len(ledger') = GoodLen(ledger) /\ \A i \in 1..Len(ledger') : ledger'[i] = ledger[i]
            BY <1>6, HealShape
      <2>2. ASSUME ledger' # <<>> PROVE Sound(ledger', 1)
            <3>1. Len(ledger') >= 1 /\ GoodLen(ledger') = Len(ledger')
                  BY <1>1, <1>6, <2>2, HealShape DEF Intact
            <3>2. 1 \in 1..GoodLen(ledger')
                  BY <1>1, <3>1
            <3> QED  BY <1>1, <3>2, GoodLenIs
      <2>3. ledger # <<>> /\ Sound(ledger, 1) => ledger' # <<>>
            BY <1>1, <1>4, <2>1
      <2>4. ~AppendEvents
            BY <1>6 DEF StartHeal, AppendEvents
      <2> QED  BY <2>2, <2>3, <2>4
<1>7. CASE AppendEvents
      <2>1. /\ Len(ledger') = Len(ledger) + Len(mem.batch) /\ Len(mem.batch) >= 1
            /\ Len(mem.batch) \in Nat
            /\ \A i \in 1..Len(ledger) : ledger'[i] = ledger[i]
            /\ \A i \in 1..Len(mem.batch) : ledger'[Len(ledger) + i] = mem.batch[i]
            BY <1>7, AppendLines, AppendShape, KindsAssumption, LenProperties
      <2>2. Len(ledger') > 0
            BY <1>1, <2>1
      <2>3. CASE ledger # <<>>
            <3>1. 1 \in 1..Len(ledger)
                  BY <1>1, <2>3
            <3>2. Sound(ledger, 1)
                  BY <1>7, <2>3 DEF Started, AppendEvents, Writing
            <3>3. (~StartHeal /\ ~RecoveryReplaces) \/ Sound(ledger', 1)
                  BY <1>2, <2>1, <2>2, <3>1, <3>2
            <3> QED  BY <1>2, <2>1, <2>2, <3>1, <3>2
      <2>4. CASE ledger = <<>>
            <3>1. Len(ledger) = 0 /\ ~Begun
                  BY <1>1, <2>4 DEF Begun
            <3>2. 1 \in 1..Len(mem.batch) /\ Len(ledger) + 1 = 1
                  BY <2>1, <3>1
            <3>3. ledger'[1] = mem.batch[1]
                  BY <2>1, <3>2
            <3>4. mem.batch \in Seq(Lines)
                  BY DEF LedgerInv, StoryInv, TypeOK
            <3>5. mem.batch[1] # Bad /\ mem.batch[1].prev = Genesis
                  BY <1>7, <3>1 DEF LedgerInv, StoryInv, Started, RunInv, AppendEvents
            <3>6. HonestLine(mem.batch[1])
                  BY <3>2, <3>4, <3>5, LenProperties DEF LedgerInv, StoryInv, AllHonest, Honest
            <3> QED  BY <1>1, <2>2, <3>3, <3>5, <3>6, FirstLine
      <2> QED  BY <2>3, <2>4
<1>8. CASE RecoveryReplaces
      <2>1. ledger' = copy /\ (copy # <<>> => Sound(copy, 1))
            /\ (copy = <<>> => ledger = <<>> \/ ~Sound(ledger, 1))
            BY <1>8 DEF RecoveryReplaces, Started
      <2>2. AppendEvents => ledger' # <<>> /\ Sound(ledger', 1)
            BY <1>7
      <2> QED  BY <2>1, <2>2
<1>9. CASE PowerCut
      <2>1. PICK n \in (Len(ledger) - unsynced)..Len(ledger) :
                /\ \A i \in 1..n : ledger'[i] = ledger[i]
                /\ Len(ledger') = n \/ (Len(ledger') = n + 1 /\ ledger'[n + 1] = Bad)
            BY <1>9, CutShape
      <2>2. Len(ledger) - unsynced \in Nat
            BY Sizes DEF LedgerInv, StoryInv
      <2>3. n \in Nat /\ n <= Len(ledger)
            BY <1>1, <2>2
      <2>4. ASSUME ledger' # <<>> PROVE ledger'[1] = Bad \/ Sound(ledger', 1)
            <3>1. CASE n = 0
                  BY <1>1, <2>1, <2>4, <3>1
            <3>2. CASE n # 0
                  <4>1. 1 \in 1..n /\ ledger # <<>>
                        BY <1>1, <2>3, <3>2
                  <4>2. ledger'[1] = ledger[1]
                        BY <2>1, <4>1
                  <4> QED  BY <1>1, <1>2, <1>3, <2>4, <4>1, <4>2
            <3> QED  BY <3>1, <3>2
      <2> QED  BY <1>6, <1>7, <1>8, <1>9, <2>4
<1> QED  BY <1>5, <1>6, <1>7, <1>8, <1>9, Writers

LEMMA StartedStep ==
    ASSUME LedgerInv, Started, [Next]_vars, TypeOK', ~beheaded'
    PROVE  Started'
<1> USE DEF LedgerInv, StoryInv
<1>1. Begun => Begun'
      BY BegunStays
<1>2. /\ ledger' # <<>> => ledger'[1] = Bad \/ Sound(ledger', 1)
      /\ ledger # <<>> /\ Sound(ledger, 1) /\ ~PowerCut => ledger' # <<>> /\ Sound(ledger', 1)
      /\ AppendEvents => ledger' # <<>> /\ Sound(ledger', 1)
      /\ StartHeal \/ RecoveryReplaces => ledger' = <<>> \/ Sound(ledger', 1)
      BY FirstStep
<1> DEFINE Based(h) == h = EmptyHead \/ Begun
<1>3. Based(head) /\ Based(headWas) /\ (pc \in {"healHead", "read"} /\ mem.batch = <<>> => Based(mem.head))
      BY DEF Started
<1>4. ASSUME pc = "saveHead" PROVE Begun
      <2>1. ledger # <<>> /\ Sound(ledger, 1) /\ unsynced = 0 /\ ledger \in Seq(Lines)
            BY <1>4 DEF Started, TypeOK
      <2>2. Len(ledger) \in Nat /\ Len(ledger) > 0
            BY <2>1, LinesOf
      <2> QED  BY <2>1, <2>2 DEF Begun
<1>5. Based(head') /\ Based(headWas')
      <2>1. CASE HealHead
            <3>1. Based(mem.head)
                  BY <1>3, <2>1 DEF HealHead, RunInv
            <3> QED  BY <1>3, <2>1, <3>1 DEF HealHead
      <2>2. CASE SaveHead
            BY <1>3, <1>4, <2>2 DEF SaveHead
      <2>3. CASE WriteBack
            BY <1>3, <2>3 DEF WriteBack
      <2>4. CASE PowerCut
            BY <1>3, <2>4 DEF PowerCut
      <2>5. CASE UNCHANGED <<head, headWas>>
            BY <1>3, <2>5
      <2> QED  BY <2>1, <2>2, <2>3, <2>4, <2>5
               DEF Next, Run, Recovery, Env, StartSound, StartHeal, Load, ReadSource, AppendEvents,
                   Fsync, Verify, RecoveryReads, RecoveryReplaces, Quiesce, Killed, SaveHeadFails,
                   SourceChanges, vars
<1>6. pc' \in {"healHead", "read"} /\ mem'.batch = <<>> => mem'.head = EmptyHead \/ Begun'
      <2>1. CASE StartHeal
            <3>1. mem'.head = HeadOf(ledger')
                  BY <2>1, NoMemHonest DEF StartHeal, Mems
            <3>2. CASE ledger' = <<>>
                  <4>1. LastOf(<<>>) = [k \in KindSet |-> NoVal]
                        BY DEF LastOf
                  <4>2. HeadOf(<<>>) = EmptyHead
                        BY <4>1, EmptySeq DEF HeadOf, EmptyHead
                  <4> QED  BY <3>1, <3>2, <4>2
            <3>3. CASE ledger' # <<>>
                  <4>1. /\ Len(ledger') \in Nat /\ Len(ledger') > 0 /\ unsynced' = 0
                        /\ GoodLen(ledger') = Len(ledger') /\ ledger' \in Seq(Lines)
                        BY <2>1, <3>3, HealShape, LinesOf DEF Intact
                  <4>2. 1 \in 1..GoodLen(ledger')
                        BY <4>1
                  <4>3. Sound(ledger', 1)
                        BY <4>1, <4>2, GoodLenIs
                  <4> QED  BY <4>1, <4>3 DEF Begun
            <3> QED  BY <3>2, <3>3
      <2>2. CASE Load
            <3>1. mem'.head = head
                  BY <2>2 DEF Load
            <3> QED  BY <1>1, <1>3, <3>1
      <2>3. CASE ReadSource
            <3> DEFINE o == Observe(mem, Head(mem.left))
            <3>1. /\ mem'.head = o.head /\ mem'.batch = o.batch /\ o \in Mems
                  /\ o = mem \/ (Len(o.batch) = Len(mem.batch) + 1)
                  BY <2>3, ReadSourceShape
            <3> HIDE DEF o
            <3>2. ASSUME o.batch = <<>> PROVE o = mem
                  <4>1. Len(o.batch) = 0
                        BY <3>2, EmptySeq
                  <4>2. Len(mem.batch) \in Nat
                        BY LenProperties DEF TypeOK
                  <4> QED  BY <3>1, <4>1, <4>2
            <3> QED  BY <1>1, <1>3, <2>3, <3>1, <3>2 DEF ReadSource
      <2>4. CASE UNCHANGED <<pc, mem>>
            BY <1>1, <1>3, <2>4
      <2>5. CASE pc' \notin {"healHead", "read"}
            BY <2>5
      <2> QED  BY <2>1, <2>2, <2>3, <2>4, <2>5
               DEF Next, Run, Recovery, Env, StartSound, HealHead, AppendEvents, Fsync, SaveHead,
                   Verify, RecoveryReads, RecoveryReplaces, Quiesce, WriteBack, Killed, PowerCut,
                   SaveHeadFails, SourceChanges, vars
<1>7. mem'.batch # <<>> => mem'.batch[1] # Bad /\ (mem'.batch[1].prev = Genesis \/ Begun')
      <2>1. CASE ReadSource
            <3> DEFINE o == Observe(mem, Head(mem.left))
            <3>1. /\ mem'.batch = o.batch /\ o \in Mems
                  /\ \/ o = mem
                     \/ /\ Len(o.batch) = Len(mem.batch) + 1
                        /\ \A i \in 1..Len(mem.batch) : o.batch[i] = mem.batch[i]
                        /\ o.batch[Len(mem.batch) + 1].prev = mem.head.head
                        /\ o.batch[Len(mem.batch) + 1] # Bad
                  BY <2>1, ReadSourceShape
            <3> HIDE DEF o
            <3>2. mem.batch \in Seq(Lines) /\ Len(mem.batch) \in Nat
                  BY LenProperties DEF TypeOK
            <3>3. CASE o = mem
                  BY <1>1, <3>1, <3>3 DEF Started
            <3>4. CASE o # mem /\ mem.batch = <<>>
                  <4>1. Len(mem.batch) + 1 = 1
                        BY <3>4, EmptySeq
                  <4>2. Based(mem.head) /\ EmptyHead.head = Genesis
                        BY <1>3, <2>1, <3>4 DEF ReadSource, EmptyHead
                  <4> QED  BY <1>1, <3>1, <3>4, <4>1, <4>2
            <3>5. CASE o # mem /\ mem.batch # <<>>
                  <4>1. 1 \in 1..Len(mem.batch)
                        BY <3>2, <3>5, LinesOf
                  <4> QED  BY <1>1, <3>1, <3>5, <4>1 DEF Started
            <3> QED  BY <3>3, <3>4, <3>5
      <2>2. CASE StartHeal
            <3>1. mem'.batch = <<>>
                  BY <2>2, NoMemHonest DEF StartHeal, Mems
            <3> QED  BY <3>1
      <2>3. CASE Load
            BY <2>3 DEF Load
      <2>4. CASE mem' = mem
            BY <1>1, <2>4 DEF Started
      <2>5. CASE mem' = NoMem
            BY <2>5, NoMemHonest
      <2> QED  BY <2>1, <2>2, <2>3, <2>4, <2>5
               DEF Next, Run, Recovery, Env, StartSound, HealHead, AppendEvents, Fsync, SaveHead,
                   Verify, RecoveryReads, RecoveryReplaces, Quiesce, WriteBack, Killed, PowerCut,
                   SaveHeadFails, SourceChanges, vars
<1>8. pc' \in {"fsync", "saveHead"} => ledger' # <<>> /\ Sound(ledger', 1)
      <2>1. ASSUME pc' \in {"fsync", "saveHead"} PROVE AppendEvents \/ (pc \in {"fsync", "saveHead"} /\ ~PowerCut)
            BY <2>1
               DEF Next, Run, Recovery, Env, StartSound, StartHeal, HealHead, Load, ReadSource,
                   Fsync, SaveHead, Verify, RecoveryReads, RecoveryReplaces, Quiesce, WriteBack,
                   Killed, PowerCut, SaveHeadFails, SourceChanges, vars
      <2> QED  BY <1>2, <2>1 DEF Started
<1>9. pc' = "saveHead" => unsynced' = 0
      BY DEF Started, Next, Run, Recovery, Env, StartSound, StartHeal, HealHead, Load, ReadSource,
             AppendEvents, Fsync, SaveHead, Verify, RecoveryReads, RecoveryReplaces, Quiesce,
             WriteBack, Killed, PowerCut, SaveHeadFails, SourceChanges, vars
<1>10. (head' = EmptyHead \/ Begun') /\ (headWas' = EmptyHead \/ Begun')
      BY <1>1, <1>5
<1>11. pc' \in Writing /\ ledger' # <<>> => Sound(ledger', 1)
      <2>1. CASE StartHeal \/ RecoveryReplaces
            BY <1>2, <2>1
      <2>2. CASE StartSound
            <3>1. ledger' = ledger /\ ledger \in Seq(Lines) /\ GoodLen(ledger) = Len(ledger)
                  BY <2>2 DEF StartSound, Intact, TypeOK
            <3>2. ledger # <<>> => 1 \in 1..GoodLen(ledger)
                  BY <3>1, LinesOf
            <3> QED  BY <3>1, <3>2, GoodLenIs
      <2>3. CASE pc \in Writing /\ ledger' = ledger
            BY <2>3 DEF Started
      <2>4. CASE pc' \notin Writing
            BY <2>4
      <2> QED  BY <2>1, <2>2, <2>3, <2>4
               DEF Writing, Next, Run, Recovery, Env, HealHead, Load, ReadSource, AppendEvents,
                   Fsync, SaveHead, Verify, RecoveryReads, Quiesce, WriteBack, Killed, PowerCut,
                   SaveHeadFails, SourceChanges, vars
<1>12. rec' = "copy" /\ copy' # <<>> => Sound(copy', 1)
      <2>1. CASE RecoveryReads
            <3> SUFFICES ASSUME copy' # <<>> PROVE Sound(copy', 1)
                OBVIOUS
            <3>1. /\ copy' \in Seq(Lines) /\ Len(copy') \in Nat /\ Len(copy') > 0
                  /\ Len(copy') \in GoodLen(ledger)..Len(ledger) /\ ledger \in Seq(Lines)
                  /\ \A i \in 1..Len(copy') : copy'[i] = ledger[i]
                  BY <2>1, CopyShape, LinesOf DEF TypeOK
            <3>2. 1 \in 1..Len(copy') /\ Len(ledger) > 0 /\ Len(ledger) \in Nat
                  BY <3>1, Sizes
            <3>3. copy'[1] = ledger[1] /\ ledger # <<>>
                  BY <3>1, <3>2, LinesOf
            <3>4. copy'[1] # Bad
                  BY <2>1, <3>2, CopyShape
            <3>5. Sound(ledger, 1)
                  BY <3>3, <3>4 DEF Started
            <3> QED  BY <3>3, <3>5, SoundLocal
      <2>2. CASE rec = "copy" /\ copy' = copy
            BY <2>2 DEF Started
      <2>3. CASE rec' # "copy"
            BY <2>3
      <2> QED  BY <2>1, <2>2, <2>3
               DEF Next, Run, Recovery, Env, StartSound, StartHeal, HealHead, Load, ReadSource,
                   AppendEvents, Fsync, SaveHead, Verify, RecoveryReplaces, Quiesce, WriteBack,
                   Killed, PowerCut, SaveHeadFails, SourceChanges, vars
<1> QED  BY <1>2, <1>6, <1>7, <1>8, <1>9, <1>10, <1>11, <1>12 DEF Started

LEMMA RunStep ==
    ASSUME LedgerInv, [Next]_vars, TypeOK'
    PROVE  RunInv'
<1> USE DEF LedgerInv, StoryInv
<1>2. pc' = "healHead" => mem'.batch = <<>>
      <2>1. CASE StartHeal
            BY <2>1, NoMemHonest DEF StartHeal, Mems
      <2>2. CASE ~StartHeal
            BY <2>2
               DEF RunInv, Next, Run, Recovery, Env, StartSound, HealHead, Load, ReadSource,
                   AppendEvents, Fsync, SaveHead, Verify, RecoveryReads, RecoveryReplaces, Quiesce,
                   WriteBack, Killed, PowerCut, SaveHeadFails, SourceChanges, vars
      <2> QED  BY <2>1, <2>2
<1>3. pc' = "append" => mem'.batch # <<>>
      <2>1. CASE ReadSource
            BY <2>1 DEF ReadSource
      <2>2. CASE ~ReadSource
            BY <2>2
               DEF RunInv, Next, Run, Recovery, Env, StartSound, StartHeal, HealHead, Load,
                   AppendEvents, Fsync, SaveHead, Verify, RecoveryReads, RecoveryReplaces, Quiesce,
                   WriteBack, Killed, PowerCut, SaveHeadFails, SourceChanges, vars
      <2> QED  BY <2>1, <2>2
<1>4. Len(mem'.batch) + Len(mem'.left) <= Len(Kinds)
      <2> DEFINE Room(m) == Len(m.batch) + Len(m.left) <= Len(Kinds)
      <2>1. Len(Kinds) \in Nat /\ Len(<<>>) = 0
            BY KindsAssumption, LenProperties, EmptySeq
      <2>2. CASE mem' = mem
            BY <2>2 DEF RunInv
      <2>3. CASE mem' = NoMem
            BY <2>1, <2>3, NoMemHonest
      <2>4. CASE StartHeal
            <3>1. mem'.batch = <<>> /\ mem'.left = <<>>
                  BY <2>4, NoMemHonest DEF StartHeal, Mems
            <3> QED  BY <2>1, <3>1
      <2>5. CASE Load
            <3>1. mem'.batch = <<>> /\ mem'.left = Kinds
                  BY <2>5 DEF Load
            <3> QED  BY <2>1, <3>1
      <2>6. CASE ReadSource
            <3> DEFINE n == Len(mem.batch)
                       m == Len(mem.left)
                       p == Len(mem'.batch)
            <3>1. /\ Len(mem'.left) = m - 1
                  /\ p = n \/ p = n + 1
                  BY <2>6, ReadSourceShape
            <3>2. n \in Nat /\ m \in Nat /\ n + m <= Len(Kinds)
                  BY LenProperties DEF TypeOK, RunInv
            <3> HIDE DEF n, m, p
            <3>3. p + (m - 1) <= Len(Kinds)
                  BY <2>1, <3>1, <3>2
            <3> QED  BY <3>1, <3>3 DEF p
      <2> QED  BY <2>2, <2>3, <2>4, <2>5, <2>6
               DEF Next, Run, Recovery, Env, StartSound, HealHead, AppendEvents, Fsync, SaveHead,
                   Verify, RecoveryReads, RecoveryReplaces, Quiesce, WriteBack, Killed, PowerCut,
                   SaveHeadFails, SourceChanges, vars
<1> QED  BY <1>2, <1>3, <1>4 DEF RunInv

\* A run adds one batch to a sound chain, or to what a rename left it.
LEMMA ForkStep ==
    ASSUME LedgerInv, [Next]_vars, TypeOK'
    PROVE  ForkInv'
<1> USE DEF LedgerInv, StoryInv
<1> DEFINE g == GoodLen(ledger)
           h == GoodLen(ledger')
           k == Len(Kinds)
           q == races * k
           r == races' * k
<1>1. /\ ledger \in Seq(Lines) /\ ledger' \in Seq(Lines) /\ Len(ledger) \in Nat
      /\ Len(ledger') \in Nat /\ g \in 0..Len(ledger) /\ h \in 0..Len(ledger')
      /\ k \in Nat /\ k >= 1 /\ races \in Nat /\ races' \in Nat
      <2>1. ledger \in Seq(Lines) /\ ledger' \in Seq(Lines) /\ races \in Nat /\ races' \in Nat
            BY DEF TypeOK
      <2> QED  BY <2>1, LinesOf, GoodLenIs, Sizes
<1>2. /\ q \in Nat /\ r \in Nat
      /\ races' = races => r = q
      /\ races' = races + 1 => r = q + k
      BY <1>1
<1>3. /\ \A i \in 1..g : Sound(ledger, i)
      /\ Len(ledger) - g <= q + k /\ (pc \in Writing => Len(ledger) - g <= q)
      BY <1>1, GoodLenIs DEF ForkInv, Behind
<1>4. races' = races \/ RecoveryReplaces
      BY DEF Next, Run, Recovery, Env, StartSound, StartHeal, HealHead, Load, ReadSource,
             AppendEvents, Fsync, SaveHead, Verify, RecoveryReads, Quiesce, WriteBack, Killed,
             PowerCut, SaveHeadFails, SourceChanges, vars, clashes
<1> HIDE DEF g, h, k, q, r
<1>5. Len(ledger') - h <= r + k /\ (pc' \in Writing => Len(ledger') - h <= r)
      <2>1. CASE Same /\ ~RecoveryReplaces
            <3>1. h = g /\ Len(ledger') = Len(ledger) /\ r = q
                  BY <1>2, <1>4, <2>1 DEF Same, g, h
            <3>2. ASSUME pc' \in Writing PROVE Len(ledger') - h <= r
                  <4>1. CASE pc \in Writing
                        BY <1>1, <1>3, <3>1, <4>1
                  <4>2. CASE Intact(ledger)
                        <5>1. g = Len(ledger)
                              BY <4>2 DEF Intact, g
                        <5> QED  BY <1>1, <1>2, <3>1, <5>1
                  <4>3. pc \in Writing \/ StartSound \/ StartHeal
                        BY <2>1, <3>2
                           DEF Writing, Next, Run, Recovery, Env, HealHead, Load,
                               ReadSource, AppendEvents, Fsync, SaveHead, Verify, RecoveryReads,
                               Quiesce, WriteBack, Killed, PowerCut, SaveHeadFails, SourceChanges,
                               vars
                  <4>4. CASE StartSound
                        BY <4>2, <4>4 DEF StartSound
                  <4>5. CASE StartHeal
                        <5>1. h = Len(ledger')
                              BY <4>5, HealShape DEF Intact, h
                        <5> QED  BY <1>1, <1>2, <5>1
                  <4> QED  BY <4>1, <4>3, <4>4, <4>5
            <3> QED  BY <1>1, <1>2, <1>3, <3>1, <3>2
      <2>2. CASE StartHeal
            <3>1. h = Len(ledger')
                  BY <2>2, HealShape DEF Intact, h
            <3> QED  BY <1>1, <1>2, <3>1
      <2>3. CASE AppendEvents
            <3>1. /\ Len(mem.batch) \in 1..k /\ Len(ledger') = Len(ledger) + Len(mem.batch)
                  /\ g <= h
                  BY <2>3, AppendLines, AppendShape DEF g, h, k
            <3>2. pc \in Writing /\ pc' \notin Writing /\ r = q
                  BY <1>2, <2>3 DEF AppendEvents, Writing, clashes
            <3> QED  BY <1>1, <1>2, <1>3, <3>1, <3>2
      <2>4. CASE RecoveryReplaces
            <3>1. ledger' = copy /\ Behind(copy) <= q + k
                  BY <2>4 DEF RecoveryReplaces, ForkInv, q, k
            <3>2. Len(ledger') - h <= q + k
                  BY <3>1 DEF Behind, h
            <3>3. CASE pc \in Writing
                  <4>1. r = q + k
                        BY <1>2, <2>4, <3>3 DEF RecoveryReplaces, Writing
                  <4> QED  BY <1>1, <1>2, <3>2, <4>1
            <3>4. CASE pc \notin Writing
                  <4>1. r = q /\ pc' \notin Writing
                        BY <1>2, <2>4, <3>4 DEF RecoveryReplaces, Writing
                  <4> QED  BY <1>1, <1>2, <3>2, <4>1
            <3> QED  BY <3>3, <3>4
      <2>5. CASE PowerCut
            <3>1. PICK n \in (Len(ledger) - unsynced)..Len(ledger) :
                      /\ \A i \in 1..n : ledger'[i] = ledger[i]
                      /\ Len(ledger') = n \/ (n < Len(ledger) /\ Len(ledger') = n + 1)
                  BY <2>5, CutShape
            <3>2. Len(ledger) - unsynced \in Nat
                  BY Sizes
            <3>3. n \in Nat /\ n <= Len(ledger) /\ n <= Len(ledger')
                  BY <1>1, <3>1, <3>2
            <3> DEFINE j == IF n <= g THEN n ELSE g
            <3>4. j \in 0..Len(ledger) /\ j <= n /\ j <= g /\ (n <= g => j = n) /\ (n > g => j = g)
                  BY <1>1, <3>3
            <3> HIDE DEF j
            <3>5. \A i \in 1..j : ledger'[i] = ledger[i] /\ Sound(ledger, i)
                  BY <1>1, <1>3, <3>1, <3>3, <3>4
            <3>6. j <= Len(ledger')
                  BY <1>1, <3>3, <3>4
            <3>7. j <= h
                  BY <1>1, <3>4, <3>5, <3>6, GoodGrows DEF h
            <3>8. pc' \notin Writing /\ r = q
                  BY <1>2, <2>5 DEF PowerCut, Writing, clashes
            <3> QED  BY <1>1, <1>2, <1>3, <3>1, <3>3, <3>4, <3>7, <3>8
      <2> QED  BY <2>1, <2>2, <2>3, <2>4, <2>5, Writers
<1>6. rec' = "copy" => Behind(copy') <= r + k
      <2>1. CASE RecoveryReads
            <3> DEFINE c == Len(copy')
                       w == GoodLen(copy')
            <3>1. c \in g..Len(ledger) /\ g <= w /\ copy' \in Seq(Lines)
                  BY <2>1, CopyShape DEF g
            <3>2. w \in 0..c /\ c \in Nat
                  BY <3>1, GoodLenIs, LinesOf
            <3>3. r = q
                  BY <1>2, <2>1 DEF RecoveryReads, clashes
            <3> HIDE DEF c, w
            <3>4. c - w <= r + k
                  BY <1>1, <1>2, <1>3, <3>1, <3>2, <3>3
            <3> QED  BY <3>4 DEF Behind, c, w
      <2>2. CASE rec = "copy" /\ copy' = copy /\ races' = races
            <3>1. Behind(copy) <= q + k /\ r = q
                  BY <1>2, <2>2 DEF ForkInv, q, k
            <3> QED  BY <2>2, <3>1
      <2>3. CASE rec' # "copy"
            BY <2>3
      <2> QED  BY <2>1, <2>2, <2>3
               DEF Next, Run, Recovery, Env, StartSound, StartHeal, HealHead, Load, ReadSource,
                   AppendEvents, Fsync, SaveHead, Verify, RecoveryReplaces, Quiesce, WriteBack,
                   Killed, PowerCut, SaveHeadFails, SourceChanges, vars, clashes
<1> QED  BY <1>5, <1>6 DEF ForkInv, Behind, h, r, k

LEMMA StoryInductive == Spec => []StoryInv
<1>1. Init => StoryInv
      <2> SUFFICES ASSUME Init PROVE StoryInv
          OBVIOUS
      <2>1. /\ ledger = <<>> /\ <<>> \in Seq(Lines) /\ Len(ledger) = 0 /\ DOMAIN <<>> = {}
            /\ unsynced = 0 /\ head = EmptyHead /\ headWas = EmptyHead /\ mem = NoMem
            /\ pc = "idle" /\ report = "none" /\ rec = "idle" /\ copy = <<>> /\ quiet = TRUE
            /\ src = [k \in KindSet |-> NoVal] /\ changes = 0 /\ faults = 0
            /\ races = 0 /\ beheaded = FALSE
            BY EmptySeq DEF Init
      <2>2. TypeOK
            <3>1. mem \in [head : Heads, batch : Seq(Lines), left : Seq(KindSet)]
                  BY <2>1, NoMemHonest DEF Mems
            <3>2. unsynced \in 0..Len(ledger) /\ changes \in 0..MaxChanges /\ faults \in 0..MaxFaults
                  BY <2>1, BoundAssumption
            <3> QED  BY <2>1, <3>1, <3>2, EmptyHeadHonest DEF TypeOK
      <2>3. AllHonest
            BY <2>1, NoMemHonest, EmptyHeadHonest DEF AllHonest, Honest
      <2> QED  BY <2>1, <2>2, <2>3 DEF StoryInv
<1>2. StoryInv /\ [Next]_vars => StoryInv'
      BY StoryTypeStep, AllHonestStep, LeftStep DEF StoryInv
<1> QED  BY <1>1, <1>2, PTL DEF Spec

LEMMA LedgerInductive == Spec => []LedgerInv
<1>1. Init /\ StoryInv => LedgerInv
      <2> SUFFICES ASSUME Init, StoryInv PROVE LedgerInv
          OBVIOUS
      <2>1. /\ ledger = <<>> /\ Len(ledger) = 0 /\ mem = NoMem /\ pc = "idle" /\ rec = "idle"
            /\ races = 0
            BY EmptySeq DEF Init
      <2>2. RunInv
            <3>1. Len(mem.batch) = 0 /\ Len(mem.left) = 0 /\ Len(Kinds) \in Nat
                  BY <2>1, NoMemHonest, EmptySeq, KindsAssumption, LenProperties
            <3>2. Len(mem.batch) + Len(mem.left) <= Len(Kinds)
                  BY <3>1
            <3> QED  BY <2>1, <3>2 DEF RunInv
      <2>3. ForkInv
            <3> DEFINE k == Len(Kinds)
                       g == GoodLen(ledger)
            <3>1. g \in 0..0 /\ k \in Nat /\ races * k \in Nat
                  BY <2>1, Sizes DEF StoryInv, TypeOK
            <3> HIDE DEF k, g
            <3>2. 0 - g <= races * k + k
                  BY <3>1
            <3> QED  BY <2>1, <3>2 DEF ForkInv, Behind, Writing, g, k
      <2> QED  BY <2>2, <2>3 DEF LedgerInv
<1>2. LedgerInv /\ StoryInv' /\ [Next]_vars => LedgerInv'
      <2> SUFFICES ASSUME LedgerInv, StoryInv', [Next]_vars PROVE LedgerInv'
          OBVIOUS
      <2>1. TypeOK'
            BY DEF StoryInv
      <2>2. RunInv' /\ ForkInv'
            BY <2>1, RunStep, ForkStep
      <2> QED  BY <2>2 DEF LedgerInv
<1> QED  BY <1>1, <1>2, StoryInductive, PTL DEF Spec

LEMMA OpeningInductive == Spec => []Opening
<1>1. Init => Opening
      BY NoMemHonest DEF Init, Opening, Started, Writing
<1>2. LedgerInv /\ LedgerInv' /\ Opening /\ [Next]_vars => Opening'
      <2> SUFFICES ASSUME LedgerInv, LedgerInv', Opening, [Next]_vars, ~beheaded'
                   PROVE  Started'
          BY DEF Opening
      <2>1. beheaded' = beheaded \/ (RecoveryReplaces /\ (beheaded => beheaded'))
            BY DEF Next, Run, Recovery, Env, StartSound, StartHeal, HealHead, Load, ReadSource,
                   AppendEvents, Fsync, SaveHead, Verify, RecoveryReads, RecoveryReplaces, Quiesce,
                   WriteBack, Killed, PowerCut, SaveHeadFails, SourceChanges, vars, clashes
      <2>2. Started
            BY <2>1 DEF Opening
      <2> QED  BY <2>2, StartedStep DEF LedgerInv, StoryInv
<1> QED  BY <1>1, <1>2, LedgerInductive, PTL DEF Spec

-----------------------------------------------------------------------------
\* A run that finds the chain broken heals it before it writes: behind the
\* sound prefix there is never more than what one run appended, and one more
\* for every rename of crash_recovery that fell upon a run.
THEOREM OneForkOnly == Spec => []OneForkAtMost
<1>1. LedgerInv => OneForkAtMost
      <2> SUFFICES ASSUME LedgerInv PROVE OneForkAtMost
          OBVIOUS
      <2> DEFINE k == Len(Kinds)
                 b == Behind(ledger)
      <2>1. races \in Nat /\ k \in Nat
            BY Sizes DEF LedgerInv, StoryInv, TypeOK
      <2>2. b <= races * k + k
            BY DEF LedgerInv, ForkInv
      <2> HIDE DEF k, b
      <2>3. (1 + races) * k = races * k + k
            BY <2>1
      <2> QED  BY <2>2, <2>3 DEF OneForkAtMost, Behind, k, b
<1> QED  BY <1>1, LedgerInductive, PTL

\* chain_ok, though only the tail is verified, is reported of chains that are
\* sound from genesis on, unless the forks outgrew the tail or a rename took
\* the beginning of the chain away.
THEOREM VerdictsAreSound == Spec => VerdictSound
<1> DEFINE Clean == report # "ok" /\ report' = "ok" /\ TailN > (1 + races) * Len(Kinds) /\ ~beheaded
<1>1. LedgerInv /\ OneForkAtMost /\ Opening /\ [Next]_vars => [Clean => Intact(ledger')]_vars
      <2> SUFFICES ASSUME LedgerInv, OneForkAtMost, Opening, [Next]_vars, Clean
                   PROVE  Intact(ledger')
          OBVIOUS
      <2>1. Verify
            BY DEF Next, Run, Recovery, Env, StartSound, StartHeal, HealHead, Load, ReadSource,
                   AppendEvents, Fsync, SaveHead, RecoveryReads, RecoveryReplaces, Quiesce,
                   WriteBack, Killed, PowerCut, SaveHeadFails, SourceChanges, vars
      <2>2. TailVerifies(ledger) /\ ledger' = ledger
            BY <2>1 DEF Verify
      <2>3. /\ ledger \in Seq(Lines) /\ Honest(ledger)
            /\ ledger # <<>> => ledger[1] = Bad \/ Sound(ledger, 1)
            BY DEF LedgerInv, StoryInv, TypeOK, AllHonest, Opening, Started
      <2>4. Behind(ledger) < TailN
            <3> DEFINE b == Behind(ledger)
                       w == (1 + races) * Len(Kinds)
            <3>1. b <= w /\ TailN > w
                  BY DEF OneForkAtMost, Behind
            <3>2. b \in Int /\ w \in Int /\ TailN \in Int
                  <4>1. Len(ledger) \in Nat /\ GoodLen(ledger) \in Nat /\ races \in Nat /\ Len(Kinds) \in Nat
                        BY Sizes DEF LedgerInv, StoryInv, TypeOK
                  <4> QED  BY <4>1, TailAssumption DEF Behind
            <3> HIDE DEF b, w
            <3>3. b < TailN
                  BY <3>1, <3>2
            <3> QED  BY <3>3 DEF b
      <2>5. Intact(ledger)
            BY <2>2, <2>3, <2>4, TailDecides
      <2> QED  BY <2>2, <2>5
<1> QED  BY <1>1, LedgerInductive, OneForkOnly, OpeningInductive, PTL DEF Spec, VerdictSound

LEMMA HonestIsCoherent ==
    ASSUME TypeOK, AllHonest
    PROVE  Coherent
<1> DEFINE g == Good(ledger)
<1>1. /\ ledger \in Seq(Lines) /\ g \in Seq(Lines) /\ Len(g) = GoodLen(ledger)
      /\ GoodLen(ledger) \in 0..Len(ledger) /\ Len(ledger) \in Nat
      /\ \A i \in 1..GoodLen(ledger) : g[i] = ledger[i] /\ Sound(g, i)
      BY GoodIs, Sizes DEF TypeOK
<1> HIDE DEF g
<1>2. Len(g) \in Nat /\ DOMAIN g = 1..Len(g)
      BY <1>1, LenProperties
<1> SUFFICES ASSUME NEW n \in 1..Len(g)
             PROVE  /\ g[n].core.from = LastOf(SubSeq(g, 1, n - 1))[g[n].core.kind]
                    /\ g[n].core.from # g[n].core.to
    BY <1>2 DEF Coherent, g
<1>3. HonestLine(g[n]) /\ Sound(g, n)
      <2>1. n \in DOMAIN ledger /\ ledger[n] = g[n] /\ Sound(g, n)
            BY <1>1, LenProperties
      <2> QED  BY <2>1 DEF AllHonest, Honest, Sound
<1> DEFINE p == SubSeq(g, 1, n - 1)
<1>4. n - 1 \in 0..Len(g) /\ n - 1 \in Nat
      BY <1>2
<1>5. p \in Seq(Lines) /\ Len(p) = n - 1 /\ \A i \in 1..(n - 1) : p[i] = g[i]
      BY <1>1, <1>4, Prefixes
<1> HIDE DEF p
<1>6. CoresTo(p, n - 1) = CoresTo(g, n - 1)
      BY <1>5 DEF CoresTo
<1>7. g[n].prev = CoresTo(g, n - 1)
      <2>1. CASE n = 1
            <3>1. CoresTo(g, n - 1) = <<>>
                  BY <2>1 DEF CoresTo
            <3> QED  BY <1>3, <2>1, <3>1 DEF Sound, Genesis
      <2>2. CASE n # 1
            <3>1. n - 1 \in 1..Len(g) /\ \A i \in 1..(n - 1) : Sound(g, i)
                  BY <1>1, <1>2, <2>2
            <3>2. g[n - 1].hash = CoresTo(g, n - 1)
                  BY <1>1, <3>1, CommitsToAll
            <3> QED  BY <1>3, <2>2, <3>2 DEF Sound
      <2> QED  BY <2>1, <2>2
<1>8. LastOf(p) = LastTo(CoresTo(p, n - 1))
      BY <1>5, LastOfIs
<1> QED  BY <1>3, <1>6, <1>7, <1>8 DEF HonestLine, p

\* Whatever is killed, cut off or healed, the sound history of each kind is one
\* connected story: every event starts where the one before it ended.
THEOREM HistoryIsCoherent == Spec => []Coherent
<1>1. StoryInv => Coherent
      BY HonestIsCoherent DEF StoryInv
<1> QED  BY <1>1, StoryInductive, PTL

-----------------------------------------------------------------------------
\* What is a prefix of what, line by line.
Within(s, t) == Len(s) <= Len(t) /\ \A i \in 1..Len(s) : s[i] = t[i]

LEMMA WithinIsPrefix ==
    ASSUME NEW s \in Seq(Lines), NEW t \in Seq(Lines), Within(s, t)
    PROVE  History!IsPrefix(s, t)
<1> DEFINE g == Len(s)
<1>1. g \in 0..Len(s) /\ g \in 0..Len(t) /\ g <= Len(t) /\ \A i \in 1..g : s[i] = t[i]
      BY LinesOf DEF Within
<1> HIDE DEF g
<1>2. /\ SubSeq(s, 1, g) \in Seq(Lines) /\ Len(SubSeq(s, 1, g)) = g
      /\ \A i \in 1..g : SubSeq(s, 1, g)[i] = s[i]
      /\ SubSeq(t, 1, g) \in Seq(Lines) /\ Len(SubSeq(t, 1, g)) = g
      /\ \A i \in 1..g : SubSeq(t, 1, g)[i] = t[i]
      BY <1>1, Prefixes
<1>3. SubSeq(s, 1, g) = SubSeq(t, 1, g)
      BY <1>1, <1>2, SeqEqual
<1> QED  BY <1>1, <1>3 DEF History!IsPrefix, g

\* What two ledgers have in common is within both, and holds all that is.
LEMMA CommonIs ==
    ASSUME NEW s \in Seq(Lines), NEW t \in Seq(Lines)
    PROVE  /\ Common(s, t) \in Seq(Lines) /\ Within(Common(s, t), s) /\ Within(Common(s, t), t)
           /\ \A u \in Seq(Lines) : Within(u, s) /\ Within(u, t) => Within(u, Common(s, t))
<1> DEFINE T == {n \in 0..Len(s) : Shared(s, t, n)}
           end == CHOOSE n \in 0..Len(s) : Shared(s, t, n) /\ ~Shared(s, t, n + 1)
<1>1. Len(s) \in Nat /\ Len(t) \in Nat
      BY LinesOf
<1>2. 0 \in T
      BY <1>1 DEF Shared
<1>3. PICK n \in T : \A m \in T : m <= n
      <2> T \in SUBSET (0..Len(s)) /\ T # {}
          BY <1>2
      <2> HIDE DEF T
      <2> QED  BY <1>1, GreatestNat
<1>4. ~Shared(s, t, n + 1)
      <2>1. ASSUME Shared(s, t, n + 1) PROVE FALSE
            <3>1. n + 1 \in T /\ n \in Nat
                  BY <1>1, <1>3, <2>1 DEF Shared
            <3> QED  BY <1>3, <3>1
      <2> QED  BY <2>1
<1>5. end \in 0..Len(s) /\ Shared(s, t, end) /\ ~Shared(s, t, end + 1)
      BY <1>3, <1>4
<1>6. Common(s, t) = SubSeq(s, 1, end)
      BY DEF Common
<1> HIDE DEF end
<1>7. /\ Common(s, t) \in Seq(Lines) /\ Len(Common(s, t)) = end
      /\ \A i \in 1..end : Common(s, t)[i] = s[i]
      BY <1>5, <1>6, Prefixes
<1>8. Within(Common(s, t), s) /\ Within(Common(s, t), t)
      BY <1>1, <1>5, <1>7 DEF Within, Shared
<1>9. ASSUME NEW u \in Seq(Lines), Within(u, s), Within(u, t)
      PROVE  Within(u, Common(s, t))
      <2> DEFINE m == Len(u)
      <2>1. m \in Nat /\ m <= Len(s) /\ m <= Len(t) /\ \A i \in 1..m : u[i] = s[i] /\ u[i] = t[i]
            BY <1>9, LinesOf DEF Within
      <2> HIDE DEF m
      <2>2. m <= end
            <3>1. ASSUME end < m PROVE Shared(s, t, end + 1)
                  <4>1. end + 1 \in 0..Len(s) /\ end + 1 <= Len(t)
                        BY <1>1, <1>5, <2>1, <3>1
                  <4>2. \A i \in 1..(end + 1) : i \in 1..m
                        BY <1>5, <2>1, <3>1
                  <4>3. \A i \in 1..(end + 1) : s[i] = t[i]
                        BY <2>1, <4>2
                  <4> QED  BY <4>1, <4>3 DEF Shared
            <3> QED  BY <1>5, <2>1, <3>1
      <2>3. \A i \in 1..m : i \in 1..end
            BY <1>5, <2>1, <2>2
      <2>4. \A i \in 1..m : u[i] = Common(s, t)[i]
            BY <1>7, <2>1, <2>3
      <2> QED  BY <1>7, <2>2, <2>4 DEF Within, m
<1> QED  BY <1>7, <1>8, <1>9

LEMMA WithinTrans ==
    ASSUME NEW s \in Seq(Lines), NEW t \in Seq(Lines), NEW u \in Seq(Lines),
           Within(s, t), Within(t, u)
    PROVE  Within(s, u)
<1>1. Len(s) \in Nat /\ Len(t) \in Nat /\ Len(u) \in Nat
      BY LinesOf
<1>2. \A i \in 1..Len(s) : i \in 1..Len(t)
      BY <1>1 DEF Within
<1> QED  BY <1>1, <1>2 DEF Within

\* What keeps the settled lines keeps the durable history.
LEMMA HistoryGrows ==
    ASSUME TypeOK, TypeOK', Kept
    PROVE  Within(Good(Durable), Good(Durable'))
<1> DEFINE d == Durable
           e == Durable'
           g == GoodLen(d)
<1>1. /\ d \in Seq(Lines) /\ g \in 0..Len(d) /\ Len(d) \in Nat
      /\ \A i \in 1..Len(d) : d[i] = ledger[i]
      BY SettledIs, LinesOf, GoodLenIs
<1>2. /\ e \in Seq(Lines) /\ Len(e) = Len(ledger') - unsynced' /\ Len(e) \in Nat
      /\ \A i \in 1..Len(e) : e[i] = ledger'[i]
      <2>1. ledger' \in Seq(Lines) /\ unsynced' \in 0..Len(ledger') /\ Len(ledger') \in Nat
            BY LinesOf DEF TypeOK
      <2>2. e = SubSeq(ledger', 1, Len(ledger') - unsynced')
            BY DEF Durable
      <2>3. Len(ledger') - unsynced' \in 0..Len(ledger')
            BY <2>1
      <2> HIDE DEF e
      <2> QED  BY <2>1, <2>2, <2>3, Prefixes
<1>3. \A i \in 1..g : i <= Len(e) /\ e[i] = d[i]
      <2>1. \A i \in 1..g : i <= Len(e) /\ ledger'[i] = ledger[i]
            BY <1>2 DEF Kept, Settled
      <2> HIDE DEF d, e, g
      <2>2. \A i \in 1..g : i \in 1..Len(d) /\ i \in 1..Len(e)
            BY <1>1, <1>2, <2>1
      <2> QED  BY <1>1, <1>2, <2>1, <2>2
<1>4. /\ Good(d) \in Seq(Lines) /\ Len(Good(d)) = g /\ \A i \in 1..g : Good(d)[i] = d[i]
      /\ Good(e) \in Seq(Lines) /\ Len(Good(e)) = GoodLen(e)
      /\ \A i \in 1..GoodLen(e) : Good(e)[i] = e[i]
      /\ \A i \in 1..g : Sound(d, i)
      BY <1>1, <1>2, GoodIs, GoodLenIs
<1> HIDE DEF d, e, g
<1>5. g <= Len(e)
      <2>1. g # 0 => g \in 1..g
            BY <1>1
      <2> QED  BY <1>1, <1>2, <1>3, <2>1
<1>6. g <= GoodLen(e) /\ GoodLen(e) \in Nat
      <2>1. GoodLen(e) \in 0..Len(e)
            BY <1>2, GoodLenIs
      <2>2. g <= GoodLen(e)
            BY <1>1, <1>2, <1>3, <1>4, <1>5, GoodGrows
      <2> QED  BY <1>2, <2>1, <2>2
<1> DEFINE s == Good(d)
           t == Good(e)
<1>7. /\ s \in Seq(Lines) /\ t \in Seq(Lines) /\ Len(s) = g /\ g <= Len(t) /\ g \in Nat
      /\ Len(t) \in Nat /\ \A i \in 1..g : t[i] = s[i]
      <2>1. \A i \in 1..g : i \in 1..GoodLen(e)
            BY <1>1, <1>6
      <2> QED  BY <1>1, <1>3, <1>4, <1>6, <2>1
<1> HIDE DEF s, t
<1> QED  BY <1>7 DEF Within, s, t, d, e

\* The copy of crash_recovery holds the whole durable history.
LEMMA CopyHolds ==
    ASSUME TypeOK, RecoveryReads
    PROVE  Within(Good(Durable), Good(copy'))
<1> DEFINE g == GoodLen(Durable)
           l == GoodLen(ledger)
           c == copy'
<1>1. /\ Durable \in Seq(Lines) /\ g \in 0..(Len(ledger) - unsynced) /\ g <= l
      /\ \A i \in 1..(Len(ledger) - unsynced) : Durable[i] = ledger[i]
      /\ Len(ledger) - unsynced \in Nat /\ l \in Nat
      BY SettledIs, Sizes
<1>2. /\ c \in Seq(Lines) /\ Len(c) \in l..Len(ledger) /\ l <= GoodLen(c)
      /\ \A i \in 1..Len(c) : c[i] = ledger[i]
      BY CopyShape
<1>3. /\ Good(Durable) \in Seq(Lines) /\ Len(Good(Durable)) = g
      /\ \A i \in 1..g : Good(Durable)[i] = Durable[i]
      /\ Good(c) \in Seq(Lines) /\ Len(Good(c)) = GoodLen(c)
      /\ \A i \in 1..GoodLen(c) : Good(c)[i] = c[i]
      /\ GoodLen(c) \in 0..Len(c)
      BY <1>1, <1>2, GoodIs, GoodLenIs
<1>4. Len(ledger) \in Nat
      BY Sizes
<1> DEFINE w == GoodLen(c)
<1>5. w \in 0..Len(c) /\ l <= w /\ g \in Nat /\ Len(c) \in Nat
      BY <1>1, <1>2, <1>3, LinesOf
<1> HIDE DEF g, l, c, w
<1>6. \A i \in 1..g : i \in 1..(Len(ledger) - unsynced) /\ i \in 1..Len(c) /\ i \in 1..w
      BY <1>1, <1>5
<1>7. g <= w
      BY <1>1, <1>5
<1>8. \A i \in 1..g : Good(Durable)[i] = Good(c)[i]
      BY <1>1, <1>2, <1>3, <1>6 DEF w
<1> QED  BY <1>3, <1>7, <1>8 DEF Within, w, c

\* What is there to stay grows: a run and the environment keep what is fsynced,
\* and the rename leaves what the copy holds.
LEMMA LastingGrows ==
    ASSUME StoryInv, StoryInv', [Next]_vars
    PROVE  Lasting \in Seq(Lines) /\ Lasting' \in Seq(Lines) /\ Within(Lasting, Lasting')
<1> DEFINE D == Good(Durable)
           E == Good(Durable')
           C == Good(copy)
           F == Good(copy')
<1>1. D \in Seq(Lines) /\ E \in Seq(Lines) /\ C \in Seq(Lines) /\ F \in Seq(Lines)
      <2>1. Durable \in Seq(Lines) /\ Durable' \in Seq(Lines)
            <3>1. /\ ledger \in Seq(Lines) /\ ledger' \in Seq(Lines)
                  /\ Len(ledger) - unsynced \in 0..Len(ledger)
                  /\ Len(ledger') - unsynced' \in 0..Len(ledger')
                  <4>1. /\ ledger \in Seq(Lines) /\ ledger' \in Seq(Lines)
                        /\ unsynced \in 0..Len(ledger) /\ unsynced' \in 0..Len(ledger')
                        BY DEF StoryInv, TypeOK
                  <4>2. Len(ledger) \in Nat /\ Len(ledger') \in Nat
                        BY <4>1, LinesOf
                  <4> QED  BY <4>1, <4>2
            <3> QED  BY <3>1, Prefixes DEF Durable
      <2>2. copy \in Seq(Lines) /\ copy' \in Seq(Lines)
            BY DEF StoryInv, TypeOK
      <2> QED  BY <2>1, <2>2, GoodIs
<1>2. /\ Lasting = IF rec = "idle" THEN D ELSE Common(C, D)
      /\ Lasting' = IF rec' = "idle" THEN E ELSE Common(F, E)
      BY DEF Lasting
<1>3. ~RecoveryReplaces => Within(D, E)
      BY StepKeeps, HistoryGrows DEF StoryInv
<1>4. RecoveryReplaces => E = C
      <2> SUFFICES ASSUME RecoveryReplaces PROVE E = C
          OBVIOUS
      <2>1. ledger' = copy /\ unsynced' = 0 /\ copy \in Seq(Lines)
            BY DEF RecoveryReplaces, StoryInv, TypeOK
      <2>2. Durable' = SubSeq(copy, 1, Len(copy))
            <3>1. Len(copy) - 0 = Len(copy)
                  BY <2>1, LinesOf
            <3> QED  BY <2>1, <3>1 DEF Durable
      <2>3. SubSeq(copy, 1, Len(copy)) = copy
            <3>1. Len(copy) \in 0..Len(copy)
                  BY <2>1, LinesOf
            <3>2. /\ SubSeq(copy, 1, Len(copy)) \in Seq(Lines)
                  /\ Len(SubSeq(copy, 1, Len(copy))) = Len(copy)
                  /\ \A i \in 1..Len(copy) : SubSeq(copy, 1, Len(copy))[i] = copy[i]
                  BY <2>1, <3>1, Prefixes
            <3> QED  BY <2>1, <3>2, SeqEqual
      <2> QED  BY <2>2, <2>3
<1>5. RecoveryReads => F \in Seq(Lines) /\ Within(D, F)
      BY <1>1, CopyHolds DEF StoryInv
<1>6. /\ RecoveryReplaces => rec = "copy" /\ rec' = "idle"
      /\ RecoveryReads => rec = "idle" /\ rec' = "copy"
      /\ ~RecoveryReplaces /\ ~RecoveryReads => rec' = "idle" \/ (rec' = rec /\ copy' = copy)
      BY DEF Next, Run, Recovery, Env, StartSound, StartHeal, HealHead, Load, ReadSource,
             AppendEvents, Fsync, SaveHead, Verify, RecoveryReads, RecoveryReplaces, Quiesce,
             WriteBack, Killed, PowerCut, SaveHeadFails, SourceChanges, vars
<1> HIDE DEF D, E, C, F
<1>7. /\ Common(C, D) \in Seq(Lines) /\ Within(Common(C, D), C) /\ Within(Common(C, D), D)
      /\ Common(F, E) \in Seq(Lines)
      /\ \A u \in Seq(Lines) : Within(u, F) /\ Within(u, E) => Within(u, Common(F, E))
      BY <1>1, CommonIs
<1>8. Lasting \in Seq(Lines) /\ Lasting' \in Seq(Lines)
      BY <1>1, <1>2, <1>7
<1>9. CASE RecoveryReplaces
      BY <1>2, <1>4, <1>6, <1>7, <1>8, <1>9
<1>10. CASE RecoveryReads
      <2>1. Within(D, E) /\ Within(D, F)
            BY <1>3, <1>5, <1>6, <1>10
      <2> QED  BY <1>1, <1>2, <1>6, <1>7, <1>8, <1>10, <2>1
<1>11. CASE ~RecoveryReplaces /\ ~RecoveryReads
      <2>1. Within(D, E)
            BY <1>3, <1>11
      <2>2. CASE rec = "idle" /\ rec' = "idle"
            BY <1>2, <1>8, <2>1, <2>2
      <2>3. Within(Common(C, D), E)
            BY <1>1, <1>7, <2>1, WithinTrans
      <2>4. CASE rec # "idle" /\ rec' = "idle"
            BY <1>2, <1>8, <2>3, <2>4
      <2>5. CASE rec' = rec /\ rec # "idle" /\ copy' = copy
            <3>1. F = C
                  BY <2>5 DEF F, C
            <3>2. Within(Common(C, D), Common(F, E))
                  BY <1>7, <2>3, <3>1
            <3> QED  BY <1>2, <1>8, <2>5, <3>2
      <2> QED  BY <1>6, <1>11, <2>2, <2>4, <2>5
<1> QED  BY <1>8, <1>9, <1>10, <1>11

\* What was fsynced onto a sound chain is history: no kill, power cut, fork or
\* healing takes it back or changes it, and no recovery but what was written
\* while it copied (AppendOnlyLog).
THEOREM HistoryIsAppendOnly == Spec => AppendOnly
<1>1. Init => History!Init
      <2> SUFFICES ASSUME Init PROVE Lasting = <<>>
          BY DEF History!Init
      <2>1. ledger = <<>> /\ unsynced = 0 /\ Len(ledger) = 0 /\ ledger \in Seq(Lines) /\ rec = "idle"
            BY EmptySeq DEF Init
      <2>2. Durable = SubSeq(ledger, 1, 0)
            BY <2>1 DEF Durable
      <2>3. Durable \in Seq(Lines) /\ Len(Durable) = 0
            BY <2>1, <2>2, Prefixes
      <2>4. GoodLen(Durable) \in 0..Len(Durable) /\ Len(Durable) = 0
            BY <2>3, GoodLenIs
      <2>5. Good(Durable) \in Seq(Lines) /\ Len(Good(Durable)) = GoodLen(Durable)
            BY <2>3, GoodIs
      <2>6. GoodLen(Durable) = 0
            BY <2>4
      <2> QED  BY <2>1, <2>5, <2>6, EmptySeq DEF Lasting
<1>2. StoryInv /\ StoryInv' /\ [Next]_vars => [History!Next]_Lasting
      <2> SUFFICES ASSUME StoryInv, StoryInv', [Next]_vars PROVE History!Next
          OBVIOUS
      <2> QED  BY LastingGrows, WithinIsPrefix DEF History!Next
<1> QED  BY <1>1, <1>2, StoryInductive, PTL DEF Spec, AppendOnly, History!Spec

=============================================================================
