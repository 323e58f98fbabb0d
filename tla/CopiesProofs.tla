---------------------------- MODULE CopiesProofs ----------------------------
(***************************************************************************)
(* Theorems about what a node keeps and moves, for ledgers of any length,  *)
(* layers of any files, any number of kernel modules and any number of     *)
(* power cuts, kills, promotions and reboots.                              *)
(***************************************************************************)
EXTENDS MCCopies, SequenceTheorems, FiniteSetTheorems, WellFoundedInduction, TLAPS

\* A ledger of this node: its lines by their numbers, which are never used
\* again, and no piece in it of a record that is not written yet.
Entries == (1..MaxLines) \X Seq(Pieces)

Increasing(l) == \A i, j \in DOMAIN l : i < j => l[i][1] < l[j][1]

Below(e, w) == e[1] <= w /\ \A p \in DOMAIN e[2] : e[2][p][1] <= w

Past(l, w) == l \in Seq(Entries) /\ Increasing(l) /\ \A i \in DOMAIN l : Below(l[i], w)

\* Of the lines before the last of s, l has none that s does not have.
After(l, s) ==
    \A i \in DOMAIN l, j \in DOMAIN s :
        l[i][1] < s[j][1] => \E k \in DOMAIN s : s[k][1] = l[i][1]

\* Some line of s is no longer in l, or no longer what it was.
Gone(l, s) == \E j \in DOMAIN s : \A i \in DOMAIN l : l[i] # s[j]

Begins(s, l) == Len(s) <= Len(l) /\ \A i \in 1..Len(s) : l[i] = s[i]

SealIs(s) == s = NoSeal \/ s = [lines |-> Len(s.hash), hash |-> s.hash]

SealInv ==
    \A s \in {seal, sealWas} :
        SealIs(s) /\ (s # NoSeal => Past(s.hash, written) /\ After(log, s.hash))

SealerInv ==
    \/ ci = NotRunning
    \/ /\ ci.pc = "save"
       /\ ci = [pc |-> "save", lines |-> ci.lines, verdict |-> ci.verdict]
       /\ Past(ci.lines, written) /\ After(log, ci.lines)
       /\ ci.verdict \in {"TRUE", "FALSE", "None"}
       /\ seal = NoSeal => ci.verdict = "None"

\* A ledger is cured because a line of it is spoilt; that line stays, and is
\* not in the cured one.  So what was sealed either has such a line, or ends
\* before the last line of the ledger, which is the only one that may still
\* change.
Spoilt == \E i \in DOMAIN log : ~Sane(log[i])
Covered(h) == Gone(cr.sane, h) \/ (Begins(h, log) /\ Len(h) < Len(log))

CurerInv ==
    \/ cr = NotRunning
    \/ cr = [pc |-> "cure"] /\ Spoilt
    \/ /\ cr.pc = "rename" /\ Spoilt
       /\ cr = [pc |-> "rename", sane |-> cr.sane]
       /\ Past(cr.sane, written)
       /\ \A i \in DOMAIN cr.sane :
             Sane(cr.sane[i]) /\ \E j \in DOMAIN log : log[j][1] = cr.sane[i][1]
       /\ seal # NoSeal => Covered(seal.hash)
       /\ ci # NotRunning => Covered(ci.lines)

\* Why an alarm lasts: something that was sealed is gone.
AlarmInv ==
    /\ alarm =>
          /\ verified # "TRUE" /\ seal # NoSeal /\ Gone(log, seal.hash)
          /\ ci.pc = "save" => ci.verdict = "FALSE"
    /\ ci.pc = "save" /\ ci.verdict = "FALSE" =>
          seal # NoSeal /\ Gone(log, seal.hash)

\* Without a power cut a ledger only grows.
CalmInv ==
    cuts = 0 =>
        /\ verified # "FALSE" /\ cr = NotRunning /\ ~open
        /\ \A i \in DOMAIN log : Sane(log[i])
        /\ seal # NoSeal => Begins(seal.hash, log)
        /\ ci.pc = "save" => ci.verdict # "FALSE" /\ Begins(ci.lines, log)

LogTypes ==
    /\ Past(log, written) /\ written \in 0..MaxLines /\ cuts \in Nat
    /\ open \in BOOLEAN /\ (log = <<>> => ~open) /\ alarm \in BOOLEAN
    /\ verified \in {"TRUE", "FALSE", "None"}

LogInv ==
    /\ LogTypes /\ SealInv /\ SealerInv /\ CurerInv /\ AlarmInv /\ CalmInv

Copying == [pc : {"copy"}, todo : SUBSET Files, seen : SUBSET Files, clean : BOOLEAN]
Pruning == [pc : {"prune"}, seen : SUBSET Files, clean : BOOLEAN]
Opening == [pc : {"manifest"}, clean : BOOLEAN]

SyncInv ==
    \/ sync = Idling
    \/ /\ sync \in Copying
       /\ sync.clean => /\ sync.todo \cup sync.seen = Present(live)
                        /\ \A f \in sync.seen : copy[f] = live[f]
    \/ /\ sync \in Pruning
       /\ sync.clean => /\ sync.seen = Present(live)
                        /\ \A f \in sync.seen : copy[f] = live[f]
    \/ sync \in Opening /\ (sync.clean => copy = live)
    \/ /\ sync.pc = "write"
       /\ sync = [pc |-> "write", listing |-> sync.listing, clean |-> sync.clean]
       /\ sync.clean \in BOOLEAN /\ manifest = TornManifest
       /\ sync.clean => copy = live /\ sync.listing = Listing(live, archive)

DrInv == DrTypeOK /\ promoted \in 1..MaxPromotions /\ SyncInv

Layers == [BundleFiles -> 0..MaxVersions]

\* What is copied is the inbox that was verified, over what is left of an
\* install that was killed; what is renamed is all of it.
OpInv ==
    \/ op = Resting \/ op = [pc |-> "verify"]
    \/ /\ op.pc = "pack"
       /\ op = [pc |-> "pack", todo |-> op.todo, man |-> op.man]
       /\ op.man \in layers
    \/ op.pc = "extract" /\ op = [pc |-> "extract", todo |-> op.todo]
    \/ /\ op.pc = "copy"
       /\ op = [pc |-> "copy", todo |-> op.todo]
       /\ inbox = inboxMan /\ inboxMan \in layers
       /\ \A f \in BundleFiles :
             \/ tmp[f] = inbox[f]
             \/ f \in op.todo /\ (inbox[f] = NoFile => tmp[f] = NoFile)
    \/ op.pc \in {"swap", "rename"} /\ op = [pc |-> op.pc] /\ tmp \in layers /\ tmpMan = tmp

\* What an install has left is of files that the inbox still has.
TmpInv == \A f \in BundleFiles : inbox[f] = NoFile => f \notin Held(tmp)

OldInv ==
    replica # NoDir =>
        \E l \in layers : /\ \A f \in BundleFiles : replica[f] \in {NoFile, l[f]}
                          /\ replicaMan \in {NoMan, l}

RepInv ==
    /\ ReplicaTypeOK /\ goal \in Layers /\ layers \subseteq Layers /\ IsFiniteSet(layers)
    /\ originMan \in layers /\ wire \in Layers
    /\ inboxMan \in layers \cup {NoMan}
    /\ {tmp, replica} \subseteq [BundleFiles -> -2..MaxVersions]
    /\ OpInv /\ TmpInv /\ OldInv

\* What a run goes by was verified, or replaced since it was.
ReadInv ==
    /\ swapped \in BOOLEAN /\ cfg \in {"none", "unsigned", "signed"}
    /\ linkPc = "load" => cfg = "signed" \/ swapped
    /\ peerCfg = "unsigned" => swapped

LinkInv ==
    /\ LinkTypeOK /\ LinkFailClosed /\ ReadInv
    /\ linkPc # "idle" => toolSigned
    /\ linkPc \notin {"idle", "modules"} => NModules \in loaded
    /\ pub # "none" \/ linkPc \in {"pubfile", "verify", "load", "iface", "peers", "status"}
          => key = "ok"
    /\ linkPc \in {"peers", "status"} => iface

-----------------------------------------------------------------------------
LEMMA LeastNat ==
    ASSUME NEW T \in SUBSET Nat, T # {}
    PROVE  \E n \in T : \A m \in T : n <= m
<1>1. \E n \in T : \A m \in T : ~ (<<m, n>> \in OpToRel(<, Nat))
      BY WFMin, NatLessThanWellFounded
<1>2. PICK n \in T : \A m \in T : ~ (<<m, n>> \in OpToRel(<, Nat))
      BY <1>1
<1>3. \A m \in T : ~(m < n)
      BY <1>2 DEF OpToRel
<1> QED  BY <1>3

LEMMA LinesOf ==
    ASSUME NEW l \in Seq(Entries)
    PROVE  /\ Len(l) \in Nat /\ DOMAIN l = 1..Len(l)
           /\ \A i \in DOMAIN l : /\ l[i] \in Entries /\ l[i] = <<l[i][1], l[i][2]>>
                                  /\ l[i][1] \in 1..MaxLines /\ l[i][1] \in Nat
                                  /\ l[i][2] \in Seq(Pieces)
<1>1. Len(l) \in Nat /\ DOMAIN l = 1..Len(l)
      BY LenProperties
<1>2. \A i \in DOMAIN l : l[i] \in Entries
      BY <1>1, ElementOfSeq
<1>3. MaxLines \in Nat
      BY SealedLogAssumption
<1>4. \A e \in Entries : e = <<e[1], e[2]>> /\ e[1] \in 1..MaxLines /\ e[2] \in Seq(Pieces)
      BY DEF Entries
<1>5. \A e \in Entries : e[1] \in Nat
      BY <1>3, <1>4
<1> QED  BY <1>1, <1>2, <1>4, <1>5

LEMMA TextOf ==
    ASSUME NEW t \in Seq(Pieces)
    PROVE  /\ Len(t) \in Nat /\ DOMAIN t = 1..Len(t)
           /\ \A p \in DOMAIN t : /\ t[p] \in Pieces /\ t[p][1] \in 1..MaxLines
                                  /\ t[p][1] \in Nat /\ t[p][2] \in 0..LineBytes
<1>1. Len(t) \in Nat /\ DOMAIN t = 1..Len(t)
      BY LenProperties
<1>2. \A p \in DOMAIN t : t[p] \in Pieces
      BY <1>1, ElementOfSeq
<1>3. MaxLines \in Nat
      BY SealedLogAssumption
<1>4. \A x \in Pieces : x[1] \in 1..MaxLines /\ x[2] \in 0..LineBytes
      BY DEF Pieces
<1>5. \A x \in Pieces : x[1] \in Nat
      BY <1>3, <1>4
<1> QED  BY <1>1, <1>2, <1>4, <1>5

\* What is below a number is below every greater one.
LEMMA BelowMore ==
    ASSUME NEW e \in Entries, NEW w \in Nat, NEW v \in Nat, w <= v, Below(e, w)
    PROVE  Below(e, v)
<1>1. e[1] \in 1..MaxLines /\ e[2] \in Seq(Pieces) /\ MaxLines \in Nat
      BY SealedLogAssumption DEF Entries
<1>2. \A p \in DOMAIN e[2] : e[2][p][1] \in Nat /\ e[2][p][1] <= w
      BY <1>1, TextOf DEF Below
<1>3. e[1] \in Nat /\ e[1] <= w
      BY <1>1 DEF Below
<1> QED  BY <1>2, <1>3 DEF Below

LEMMA PrefixOf ==
    ASSUME NEW l \in Seq(Entries), NEW n \in 0..Len(l)
    PROVE  /\ SubSeq(l, 1, n) \in Seq(Entries) /\ Len(SubSeq(l, 1, n)) = n
           /\ \A i \in 1..n : SubSeq(l, 1, n)[i] = l[i]
<1>1. Len(l) \in Nat /\ n \in Nat /\ n <= Len(l)
      BY LinesOf
<1>2. \A i \in 1..n : l[i] \in Entries
      BY <1>1, LinesOf
<1>3. /\ SubSeq(l, 1, n) \in Seq(Entries)
      /\ Len(SubSeq(l, 1, n)) = IF 1 <= n THEN n - 1 + 1 ELSE 0
      /\ \A i \in 1..(n - 1 + 1) : SubSeq(l, 1, n)[i] = l[1 + i - 1]
      BY <1>1, <1>2, SubSeqProperties
<1> QED  BY <1>1, <1>3

\* In a ledger, a line is known by its number.
LEMMA NumbersAreUnique ==
    ASSUME NEW l \in Seq(Entries), Increasing(l),
           NEW i \in DOMAIN l, NEW j \in DOMAIN l
    PROVE  /\ l[i][1] = l[j][1] => i = j
           /\ l[i][1] < l[j][1] => i < j
           /\ i < j => l[i][1] < l[j][1]
<1>1. i \in Nat /\ j \in Nat /\ l[i][1] \in Nat /\ l[j][1] \in Nat
      BY LinesOf
<1>2. i < j => l[i][1] < l[j][1]
      BY DEF Increasing
<1>3. j < i => l[j][1] < l[i][1]
      BY DEF Increasing
<1> QED  BY <1>1, <1>2, <1>3

\* A ledger is what became of itself.
LEMMA AfterItself ==
    ASSUME NEW l
    PROVE  After(l, l)
BY DEF After

\* What was sealed either begins the ledger of today, or a part of it is gone.
LEMMA KeptOrGone ==
    ASSUME NEW l \in Seq(Entries), NEW s \in Seq(Entries),
           Increasing(l), Increasing(s), After(l, s), ~Gone(l, s)
    PROVE  Begins(s, l)
<1>1. \A j \in DOMAIN s : \E i \in DOMAIN l : l[i] = s[j]
      BY DEF Gone
<1> DEFINE T == {n \in 1..Len(s) : ~(n <= Len(l) /\ l[n] = s[n])}
<1>2. ASSUME T # {} PROVE FALSE
      <2>1. T \in SUBSET Nat
            BY LinesOf
      <2>2. PICK n \in T : \A m \in T : n <= m
            <3> HIDE DEF T
            <3> QED  BY <1>2, <2>1, LeastNat
      <2>3. /\ n \in DOMAIN s /\ n \in Nat /\ n >= 1
            /\ ~(n <= Len(l) /\ l[n] = s[n])
            BY <2>2, LinesOf
      <2>4. \A m \in 1..(n - 1) : m \in DOMAIN s /\ m \in DOMAIN l /\ l[m] = s[m]
            <3> TAKE m \in 1..(n - 1)
            <3>1. m \in 1..Len(s) /\ ~(m >= n)
                  BY <2>3, LinesOf
            <3>2. m \notin T
                  <4> HIDE DEF T
                  <4> QED  BY <2>2, <3>1, <2>3
            <3>3. m <= Len(l) /\ l[m] = s[m]
                  BY <3>1, <3>2
            <3> QED  BY <3>1, <3>3, LinesOf
      <2> HIDE DEF T
      <2>5. PICK k \in DOMAIN l : l[k] = s[n]
            BY <1>1, <2>3
      <2>6. ~(k < n)
            <3> SUFFICES ASSUME k < n PROVE FALSE
                OBVIOUS
            <3>1. k \in 1..(n - 1)
                  BY <2>3, LinesOf
            <3>2. s[k] = s[n] /\ k \in DOMAIN s
                  BY <2>4, <2>5, <3>1
            <3>3. k = n
                  BY <2>3, <3>2, NumbersAreUnique
            <3> QED  BY <2>3, <3>3
      <2>7. n \in DOMAIN l /\ n < k
            <3>1. n <= k /\ k <= Len(l) /\ k \in Nat /\ n # k
                  BY <2>3, <2>5, <2>6, LinesOf
            <3> QED  BY <2>3, <3>1, LinesOf
      <2>8. l[n][1] < s[n][1]
            BY <2>5, <2>7, NumbersAreUnique
      <2>9. PICK m \in DOMAIN s : s[m][1] = l[n][1]
            BY <2>3, <2>7, <2>8 DEF After
      <2>10. m < n
             BY <2>3, <2>8, <2>9, NumbersAreUnique
      <2>11. m \in 1..(n - 1)
             BY <2>3, <2>10, LinesOf
      <2>12. l[m][1] = l[n][1] /\ m \in DOMAIN l
             BY <2>4, <2>9, <2>11
      <2>13. m = n
             BY <2>7, <2>12, NumbersAreUnique
      <2> QED  BY <2>3, <2>10, <2>13
<1>3. \A n \in 1..Len(s) : n <= Len(l) /\ l[n] = s[n]
      BY <1>2
<1>4. Len(s) <= Len(l)
      <2>1. Len(s) = 0 \/ Len(s) \in 1..Len(s)
            BY LinesOf
      <2> QED  BY <1>3, <2>1, LinesOf
<1> QED  BY <1>3, <1>4 DEF Begins

\* What is gone is not at the beginning.
LEMMA GoneIsMissing ==
    ASSUME NEW l \in Seq(Entries), NEW s \in Seq(Entries), Gone(l, s)
    PROVE  ~Begins(s, l)
<1> SUFFICES ASSUME Begins(s, l) PROVE FALSE
    OBVIOUS
<1>1. PICK j \in DOMAIN s : \A i \in DOMAIN l : l[i] # s[j]
      BY DEF Gone
<1>2. j \in 1..Len(s) /\ Len(s) \in Nat /\ Len(l) \in Nat /\ DOMAIN l = 1..Len(l)
      BY LinesOf
<1>3. Len(s) <= Len(l) /\ l[j] = s[j]
      BY <1>2 DEF Begins
<1>4. j \in DOMAIN l
      BY <1>2, <1>3
<1> QED  BY <1>1, <1>3, <1>4

\* The verdict is about the beginning of the ledger.
LEMMA VerdictOf ==
    ASSUME NEW l \in Seq(Entries), NEW s, SealIs(s),
           s # NoSeal => s.hash \in Seq(Entries)
    PROVE  /\ Compare(l, s) \in {"TRUE", "FALSE", "None"}
           /\ s = NoSeal => Compare(l, s) = "None"
           /\ Compare(l, s) = "FALSE" => s # NoSeal /\ ~Begins(s.hash, l)
           /\ s # NoSeal /\ ~Begins(s.hash, l) => Compare(l, s) = "FALSE"
<1>1. CASE s = NoSeal
      <2>1. Compare(l, s) = "None"
            BY <1>1 DEF Compare
      <2> QED  BY <1>1, <2>1
<1>2. CASE s # NoSeal
      <2>1. /\ s.lines = Len(s.hash) /\ s.hash \in Seq(Entries) /\ Len(s.hash) \in Nat
            BY <1>2, LinesOf DEF SealIs
      <2> DEFINE h == s.hash
      <2>2. CASE Len(l) < Len(h)
            <3>1. Compare(l, s) = "FALSE"
                  BY <1>2, <2>1, <2>2 DEF Compare
            <3>2. ~Begins(h, l)
                  BY <2>1, <2>2, LinesOf DEF Begins
            <3> QED  BY <1>2, <3>1, <3>2
      <2>3. CASE ~(Len(l) < Len(h)) /\ Len(h) = 0
            <3>1. Compare(l, s) = "None"
                  BY <1>2, <2>1, <2>3 DEF Compare
            <3>2. Begins(h, l)
                  BY <2>1, <2>3, LinesOf DEF Begins
            <3> QED  BY <1>2, <3>1, <3>2
      <2>4. CASE ~(Len(l) < Len(h)) /\ Len(h) # 0
            <3>1. Compare(l, s) = IF SubSeq(l, 1, Len(h)) = h THEN "TRUE" ELSE "FALSE"
                  BY <1>2, <2>1, <2>4 DEF Compare
            <3>2. Len(h) \in 1..Len(l) /\ Len(h) <= Len(l)
                  BY <2>1, <2>4, LinesOf
            <3>3. /\ SubSeq(l, 1, Len(h)) \in Seq(Entries) /\ Len(SubSeq(l, 1, Len(h))) = Len(h)
                  /\ \A i \in 1..Len(h) : SubSeq(l, 1, Len(h))[i] = l[i]
                  BY <2>1, <3>2, PrefixOf
            <3>4. SubSeq(l, 1, Len(h)) = h <=> Begins(h, l)
                  <4>1. ASSUME Begins(h, l) PROVE SubSeq(l, 1, Len(h)) = h
                        <5>1. \A i \in 1..Len(h) : SubSeq(l, 1, Len(h))[i] = h[i]
                              BY <3>3, <4>1 DEF Begins
                        <5> HIDE DEF h
                        <5> QED  BY <2>1, <3>3, <5>1, SeqEqual DEF h
                  <4>2. ASSUME SubSeq(l, 1, Len(h)) = h PROVE Begins(h, l)
                        BY <3>2, <3>3, <4>2 DEF Begins
                  <4> QED  BY <4>1, <4>2
            <3> QED  BY <1>2, <3>1, <3>4
      <2> QED  BY <2>2, <2>3, <2>4
<1> QED  BY <1>1, <1>2

-----------------------------------------------------------------------------
\* The cure of a ledger: its sane lines, in their order.
LEMMA SaneLinesAre ==
    ASSUME NEW l \in Seq(Entries), Increasing(l)
    PROVE  /\ SaneLines(l) \in Seq(Entries) /\ Increasing(SaneLines(l))
           /\ \A i \in DOMAIN SaneLines(l) :
                 Sane(SaneLines(l)[i]) /\ \E j \in DOMAIN l : l[j] = SaneLines(l)[i]
<1> DEFINE Cure(s, n) ==
               /\ \A i \in DOMAIN s : Sane(s[i]) /\ \E j \in 1..n : l[j] = s[i]
               /\ \A j \in 1..n : Sane(l[j]) => \E i \in DOMAIN s : s[i] = l[j]
               /\ Increasing(s)
           T == {n \in 0..Len(l) : ~\E s \in Seq(Entries) : Len(s) <= n /\ Cure(s, n)}
<1>1. Len(l) \in Nat /\ DOMAIN l = 1..Len(l) /\ T \in SUBSET Nat
      BY LinesOf
<1>2. ASSUME T # {} PROVE FALSE
      <2>1. PICK n \in T : \A m \in T : n <= m
            <3> HIDE DEF T
            <3> QED  BY <1>1, <1>2, LeastNat
      <2>2. n \in 0..Len(l) /\ n \in Nat
            BY <1>1, <2>1
      <2>3. n # 0
            <3>1. <<>> \in Seq(Entries) /\ Len(<<>>) = 0 /\ DOMAIN <<>> = {}
                  BY EmptySeq, LenProperties
            <3>2. Cure(<<>>, 0)
                  BY <3>1 DEF Increasing
            <3>3. Len(<<>>) <= 0
                  BY <3>1
            <3>4. \E s \in Seq(Entries) : Len(s) <= 0 /\ Cure(s, 0)
                  <4> HIDE DEF Cure
                  <4> QED  BY <3>1, <3>2, <3>3
            <3>5. 0 \notin T
                  <4> HIDE DEF Cure
                  <4> QED  BY <3>4
            <3> HIDE DEF T
            <3> QED  BY <2>1, <3>5
      <2>4. n - 1 \notin T /\ n - 1 \in 0..Len(l) /\ n \in DOMAIN l
            <3>1. n - 1 \in Nat /\ ~(n <= n - 1) /\ n - 1 <= Len(l) /\ n \in 1..Len(l)
                  BY <1>1, <2>2, <2>3
            <3> HIDE DEF T
            <3> QED  BY <1>1, <2>1, <3>1
      <2>5. PICK s \in Seq(Entries) : Len(s) <= n - 1 /\ Cure(s, n - 1)
            BY <2>4
      <2>6. \A j \in 1..n : j \in 1..(n - 1) \/ j = n
            BY <2>2
      <2>7. 1..(n - 1) \subseteq 1..n /\ n \in 1..n /\ Len(s) \in Nat /\ DOMAIN s = 1..Len(s)
            BY <2>2, <2>3, LinesOf
      <2>8. CASE ~Sane(l[n])
            <3>1. Cure(s, n)
                  BY <2>5, <2>6, <2>7, <2>8
            <3>2. Len(s) <= n
                  BY <2>2, <2>5, <2>7
            <3>3. n \notin T
                  BY <3>1, <3>2
            <3> QED  BY <2>1, <3>3
      <2>9. CASE Sane(l[n])
            <3> DEFINE t == Append(s, l[n])
            <3>1. /\ t \in Seq(Entries) /\ Len(t) = Len(s) + 1 /\ t[Len(s) + 1] = l[n]
                  /\ \A i \in 1..Len(s) : t[i] = s[i]
                  BY <2>4, <2>5, AppendProperties, LinesOf
            <3>2. /\ DOMAIN t = 1..(Len(s) + 1) /\ Len(t) <= n
                  /\ \A i \in DOMAIN t : i \in DOMAIN s \/ i = Len(s) + 1
                  /\ DOMAIN s \subseteq DOMAIN t /\ Len(s) + 1 \in DOMAIN t
                  <4>1. Len(s) + 1 <= n
                        BY <2>2, <2>5, <2>7
                  <4> HIDE DEF t
                  <4>2. DOMAIN t = 1..(Len(s) + 1)
                        BY <3>1, LinesOf
                  <4> QED  BY <2>7, <3>1, <4>1, <4>2
            <3> HIDE DEF t
            <3>3. \A i \in DOMAIN t : Sane(t[i]) /\ \E j \in 1..n : l[j] = t[i]
                  BY <2>5, <2>7, <2>9, <3>1, <3>2
            <3>4. \A j \in 1..n : Sane(l[j]) => \E i \in DOMAIN t : t[i] = l[j]
                  BY <2>5, <2>6, <2>7, <2>9, <3>1, <3>2
            <3>5. Increasing(t)
                  <4> SUFFICES ASSUME NEW i \in DOMAIN t, NEW j \in DOMAIN t, i < j
                               PROVE  t[i][1] < t[j][1]
                      BY DEF Increasing
                  <4>1. i \in DOMAIN s
                        BY <2>7, <3>2
                  <4>2. CASE j \in DOMAIN s
                        BY <2>5, <2>7, <3>1, <4>1, <4>2 DEF Increasing
                  <4>3. CASE j = Len(s) + 1
                        <5>1. PICK k \in 1..(n - 1) : l[k] = s[i]
                              BY <2>5, <4>1
                        <5>2. k \in DOMAIN l /\ k < n
                              BY <1>1, <2>2, <5>1
                        <5>3. l[k][1] < l[n][1]
                              BY <2>4, <5>2 DEF Increasing
                        <5> QED  BY <2>7, <3>1, <4>1, <4>3, <5>1, <5>3
                  <4> QED  BY <3>2, <4>2, <4>3
            <3>6. n \notin T
                  BY <3>1, <3>2, <3>3, <3>4, <3>5
            <3> QED  BY <2>1, <3>6
      <2> QED  BY <2>8, <2>9
<1> DEFINE Is(s) == /\ Range(s) = {x \in Range(l) : Sane(x)}
                    /\ \A i, j \in DOMAIN s : i < j => s[i][1] < s[j][1]
<1>3. \E s \in BoundedSeq(Range(l), Len(l)) : Is(s)
      <2>1. Len(l) \notin T /\ Len(l) \in 0..Len(l)
            <3> HIDE DEF T
            <3> QED  BY <1>1, <1>2
      <2>2. PICK s \in Seq(Entries) : Len(s) <= Len(l) /\ Cure(s, Len(l))
            <3> HIDE DEF Cure
            <3> QED  BY <2>1
      <2>3. Len(s) \in 0..Len(l) /\ s \in [1..Len(s) -> Range(l)]
            <3>1. Len(s) \in Nat /\ DOMAIN s = 1..Len(s) /\ s = [i \in 1..Len(s) |-> s[i]]
                  BY LinesOf, LenProperties
            <3>2. \A i \in 1..Len(s) : s[i] \in Range(l)
                  BY <1>1, <2>2, <3>1 DEF Range
            <3>3. Len(s) \in 0..Len(l)
                  BY <1>1, <2>2, <3>1
            <3> QED  BY <3>1, <3>2, <3>3
      <2>4. s \in BoundedSeq(Range(l), Len(l))
            BY <2>3 DEF BoundedSeq, SeqOf
      <2>5. Is(s)
            <3>1. ASSUME NEW x \in Range(s) PROVE x \in Range(l) /\ Sane(x)
                  <4>1. PICK i \in DOMAIN s : x = s[i]
                        BY <3>1 DEF Range
                  <4>2. Sane(x) /\ \E j \in 1..Len(l) : l[j] = x
                        BY <2>2, <4>1
                  <4>3. x \in Range(l)
                        BY <1>1, <4>2 DEF Range
                  <4> QED  BY <4>2, <4>3
            <3>2. ASSUME NEW x \in Range(l), Sane(x) PROVE x \in Range(s)
                  BY <1>1, <2>2, <3>2 DEF Range
            <3>3. \A i, j \in DOMAIN s : i < j => s[i][1] < s[j][1]
                  BY <2>2 DEF Increasing
            <3> QED  BY <3>1, <3>2, <3>3
      <2> QED  BY <2>4, <2>5
<1>4. SaneLines(l) \in BoundedSeq(Range(l), Len(l)) /\ Is(SaneLines(l))
      <2>1. SaneLines(l) = CHOOSE s \in BoundedSeq(Range(l), Len(l)) : Is(s)
            BY DEF SaneLines
      <2> HIDE DEF Is
      <2> QED  BY <1>3, <2>1
<1> DEFINE c == SaneLines(l)
<1>5. PICK m \in 0..Len(l) : c \in [1..m -> Range(l)]
      BY <1>4 DEF BoundedSeq, SeqOf
<1>6. c \in Seq(Entries)
      <2>1. Range(l) \subseteq Entries
            BY LinesOf DEF Range
      <2>2. m \in Nat /\ c \in [1..m -> Entries]
            BY <1>1, <1>5, <2>1
      <2> HIDE DEF c
      <2> QED  BY <2>2, SeqDef
<1>7. \A i \in DOMAIN c : Sane(c[i]) /\ \E j \in DOMAIN l : l[j] = c[i]
      <2> TAKE i \in DOMAIN c
      <2>1. c[i] \in Range(c)
            BY DEF Range
      <2>2. c[i] \in Range(l) /\ Sane(c[i])
            BY <1>4, <2>1
      <2> QED  BY <2>2 DEF Range
<1> QED  BY <1>4, <1>6, <1>7 DEF Increasing

-----------------------------------------------------------------------------

\* How a ledger l of w lines may become m: it has no number of before that l
\* does not have ...
Follows(l, m, w) ==
    \A i \in DOMAIN m : m[i][1] > w \/ \E j \in DOMAIN l : m[i][1] = l[j][1]

\* ... and, without a power cut, no line but those of l and what is new.
Renews(l, m, w) ==
    \A i \in DOMAIN m : (\E j \in DOMAIN l : m[i] = l[j]) \/ ~Below(m[i], w)

LEMMA StillAfter ==
    ASSUME NEW l \in Seq(Entries), NEW m \in Seq(Entries), NEW s, NEW w \in Nat,
           Follows(l, m, w), Past(s, w), After(l, s)
    PROVE  After(m, s)
<1> SUFFICES ASSUME NEW i \in DOMAIN m, NEW j \in DOMAIN s, m[i][1] < s[j][1]
             PROVE  \E k \in DOMAIN s : s[k][1] = m[i][1]
    BY DEF After
<1>1. s \in Seq(Entries) /\ s[j][1] \in Nat /\ s[j][1] <= w /\ m[i][1] \in Nat
      BY LinesOf DEF Past, Below
<1>2. PICK n \in DOMAIN l : m[i][1] = l[n][1]
      BY <1>1 DEF Follows
<1> QED  BY <1>2 DEF After

LEMMA StillGone ==
    ASSUME NEW l \in Seq(Entries), NEW m \in Seq(Entries), NEW s, NEW w \in Nat,
           Renews(l, m, w), Past(s, w), Gone(l, s)
    PROVE  Gone(m, s)
<1>1. PICK j \in DOMAIN s : \A i \in DOMAIN l : l[i] # s[j]
      BY DEF Gone
<1>2. Below(s[j], w)
      BY DEF Past
<1>3. \A i \in DOMAIN m : m[i] # s[j]
      BY <1>1, <1>2 DEF Renews
<1> QED  BY <1>3 DEF Gone

LEMMA SameLedger ==
    ASSUME NEW l, NEW w
    PROVE  Follows(l, l, w) /\ Renews(l, l, w)
BY DEF Follows, Renews

LEMMA PastLater ==
    ASSUME NEW s, NEW w \in Nat, NEW v \in Nat, w <= v, Past(s, w)
    PROVE  Past(s, v)
<1>1. s \in Seq(Entries) /\ Increasing(s) /\ \A i \in DOMAIN s : Below(s[i], w)
      BY DEF Past
<1>2. \A i \in DOMAIN s : Below(s[i], v)
      BY <1>1, LinesOf, BelowMore
<1> QED  BY <1>1, <1>2 DEF Past

\* A prefix of a ledger is a ledger.
LEMMA PastPrefix ==
    ASSUME NEW l, NEW w \in Nat, Past(l, w), NEW n \in 0..Len(l)
    PROVE  Past(SubSeq(l, 1, n), w) /\ Follows(l, SubSeq(l, 1, n), w)
<1> DEFINE p == SubSeq(l, 1, n)
<1>1. l \in Seq(Entries) /\ Len(l) \in Nat /\ DOMAIN l = 1..Len(l) /\ n \in Nat /\ n <= Len(l)
      BY LinesOf DEF Past
<1>2. p \in Seq(Entries) /\ Len(p) = n /\ \A i \in 1..n : p[i] = l[i]
      BY <1>1, PrefixOf
<1> HIDE DEF p
<1>3. DOMAIN p = 1..n /\ \A i \in 1..n : i \in DOMAIN l /\ p[i] = l[i]
      <2>1. DOMAIN p = 1..n
            BY <1>2, LinesOf
      <2>2. \A i \in 1..n : i \in 1..Len(l)
            BY <1>1
      <2> QED  BY <1>1, <1>2, <2>1, <2>2
<1>4. Increasing(p)
      BY <1>3 DEF Past, Increasing
<1>5. \A i \in DOMAIN p : Below(p[i], w)
      BY <1>3 DEF Past
<1>6. Follows(l, p, w)
      BY <1>3 DEF Follows
<1> QED  BY <1>2, <1>4, <1>5, <1>6 DEF Past, p

\* A line with a number above those of a ledger may be added to it.
LEMMA PastAppend ==
    ASSUME NEW l, NEW w \in Nat, NEW v \in Nat, w <= v, Past(l, w), NEW e \in Entries,
           Below(e, v), \A i \in DOMAIN l : l[i][1] < e[1]
    PROVE  /\ Past(Append(l, e), v)
           /\ DOMAIN Append(l, e) = 1..(Len(l) + 1) /\ Append(l, e)[Len(l) + 1] = e
           /\ Len(Append(l, e)) = Len(l) + 1
           /\ \A i \in DOMAIN l : i \in DOMAIN Append(l, e) /\ Append(l, e)[i] = l[i]
           /\ \A i \in DOMAIN Append(l, e) : i \in DOMAIN l \/ i = Len(l) + 1
<1> DEFINE p == Append(l, e)
<1>1. l \in Seq(Entries) /\ Len(l) \in Nat /\ DOMAIN l = 1..Len(l)
      BY LinesOf DEF Past
<1>2. /\ p \in Seq(Entries) /\ Len(p) = Len(l) + 1 /\ p[Len(l) + 1] = e
      /\ \A i \in 1..Len(l) : p[i] = l[i]
      BY <1>1, AppendProperties
<1> HIDE DEF p
<1>3. /\ DOMAIN p = 1..(Len(l) + 1)
      /\ \A i \in DOMAIN p : i \in DOMAIN l \/ i = Len(l) + 1
      /\ \A i \in DOMAIN l : i \in DOMAIN p /\ p[i] = l[i]
      BY <1>1, <1>2, LinesOf
<1>4. \A i \in DOMAIN p : Below(p[i], v)
      <2> TAKE i \in DOMAIN p
      <2>1. CASE i \in DOMAIN l
            <3>1. Past(l, v)
                  BY PastLater
            <3> QED  BY <1>3, <2>1, <3>1 DEF Past
      <2>2. CASE i = Len(l) + 1
            BY <1>2, <2>2
      <2> QED  BY <1>3, <2>1, <2>2
<1>5. Increasing(p)
      <2> SUFFICES ASSUME NEW i \in DOMAIN p, NEW j \in DOMAIN p, i < j
                   PROVE  p[i][1] < p[j][1]
          BY DEF Increasing
      <2>1. i \in DOMAIN l
            BY <1>1, <1>3
      <2>2. CASE j \in DOMAIN l
            BY <1>3, <2>1, <2>2 DEF Past, Increasing
      <2>3. CASE j = Len(l) + 1
            BY <1>2, <1>3, <2>1, <2>3
      <2> QED  BY <1>3, <2>2, <2>3
<1> QED  BY <1>2, <1>3, <1>4, <1>5 DEF Past, p

\* A line that is rewritten, and the end of the ledger behind it lost.
LEMMA ReplaceFrom ==
    ASSUME NEW l, NEW w \in Nat, NEW v \in Nat, w <= v, Past(l, w), NEW n \in DOMAIN l,
           NEW e \in Entries, Below(e, v), e[1] = l[n][1],
           NEW p, Past(p, w), Len(p) = n - 1, \A i \in 1..(n - 1) : p[i] = l[i]
    PROVE  /\ Past(Append(p, e), v) /\ Len(Append(p, e)) = n /\ DOMAIN Append(p, e) = 1..n
           /\ Append(p, e)[n] = e
           /\ \A i \in 1..(n - 1) :
                 i \in DOMAIN Append(p, e) /\ i \in DOMAIN l /\ Append(p, e)[i] = l[i]
           /\ \A i \in DOMAIN Append(p, e) : i \in 1..(n - 1) \/ i = n
           /\ Follows(l, Append(p, e), w)
<1>1. /\ l \in Seq(Entries) /\ Len(l) \in Nat /\ DOMAIN l = 1..Len(l) /\ Increasing(l)
      /\ n \in Nat /\ n \in 1..Len(l) /\ p \in Seq(Entries)
      BY LinesOf DEF Past
<1>2. DOMAIN p = 1..(n - 1) /\ Len(p) + 1 = n
      BY <1>1, LinesOf
<1>3. \A i \in 1..(n - 1) : i \in DOMAIN l /\ i < n
      BY <1>1
<1>4. \A i \in DOMAIN p : p[i][1] < e[1]
      <2> TAKE i \in DOMAIN p
      <2>1. i \in DOMAIN l /\ i < n /\ p[i] = l[i]
            BY <1>2, <1>3
      <2>2. l[i][1] < l[n][1]
            BY <1>1, <2>1, NumbersAreUnique
      <2> QED  BY <2>1, <2>2
<1> DEFINE m == Append(p, e)
<1>5. /\ Past(m, v) /\ DOMAIN m = 1..(Len(p) + 1) /\ m[Len(p) + 1] = e /\ Len(m) = Len(p) + 1
      /\ \A i \in DOMAIN p : i \in DOMAIN m /\ m[i] = p[i]
      /\ \A i \in DOMAIN m : i \in DOMAIN p \/ i = Len(p) + 1
      <2>1. w \in Nat /\ v \in Nat /\ w <= v /\ Past(p, w) /\ e \in Entries /\ Below(e, v)
            OBVIOUS
      <2> QED  BY ONLY <1>4, <2>1, PastAppend
<1> HIDE DEF m
<1>6. DOMAIN m = 1..n /\ m[n] = e /\ Len(m) = n /\ \A i \in DOMAIN m : i \in 1..(n - 1) \/ i = n
      BY <1>2, <1>5
<1>7. \A i \in 1..(n - 1) : i \in DOMAIN m /\ i \in DOMAIN l /\ m[i] = l[i]
      BY <1>2, <1>3, <1>5
<1>8. Follows(l, m, w)
      BY <1>6, <1>7 DEF Follows
<1> QED  BY <1>5, <1>6, <1>7, <1>8 DEF m

\* The same, of what is written so far.
LEMMA ReplaceLast ==
    ASSUME NEW l, NEW w \in Nat, Past(l, w), NEW n \in DOMAIN l,
           NEW e \in Entries, Below(e, w), e[1] = l[n][1],
           NEW p, Past(p, w), Len(p) = n - 1, \A i \in 1..(n - 1) : p[i] = l[i]
    PROVE  /\ Past(Append(p, e), w) /\ Len(Append(p, e)) = n
           /\ Follows(l, Append(p, e), w)
<1>1. w <= w
      OBVIOUS
<1> QED  BY <1>1, ReplaceFrom

-----------------------------------------------------------------------------
\* A record that is new is not a piece of any line of before, and a line that
\* ends with it is not sane unless it begins with it.
LEMMA GluedLine ==
    ASSUME NEW e \in Entries, NEW w \in Nat, w + 1 <= MaxLines, Below(e, w)
    PROVE  LET g == <<e[1], Append(e[2], Whole(w + 1))>>
           IN  g \in Entries /\ g[1] = e[1] /\ Below(g, w + 1) /\ ~Below(g, w) /\ ~Sane(g)
<1> DEFINE t == e[2]
           u == Append(t, Whole(w + 1))
           g == <<e[1], u>>
<1>1. MaxLines \in Nat /\ LineBytes \in Nat
      BY SealedLogAssumption
<1>2. e[1] \in 1..MaxLines /\ t \in Seq(Pieces) /\ e[1] \in Nat /\ e[1] <= w
      BY <1>1 DEF Entries, Below
<1>3. Whole(w + 1) \in Pieces /\ Whole(w + 1)[1] = w + 1
      BY <1>1 DEF Whole, Pieces
<1>4. /\ u \in Seq(Pieces) /\ Len(u) = Len(t) + 1 /\ u[Len(t) + 1] = Whole(w + 1)
      /\ \A i \in 1..Len(t) : u[i] = t[i]
      <2> HIDE DEF t
      <2> QED  BY <1>2, <1>3, AppendProperties
<1> HIDE DEF u
<1>5. Len(t) \in Nat /\ DOMAIN t = 1..Len(t) /\ DOMAIN u = 1..(Len(t) + 1)
      <2> HIDE DEF t
      <2> QED  BY <1>2, <1>4, TextOf
<1>6. g \in Entries /\ g[1] = e[1] /\ g[2] = u
      BY <1>2, <1>4 DEF Entries
<1>7. Len(t) + 1 \in DOMAIN u /\ \A p \in DOMAIN u : p \in DOMAIN t \/ p = Len(t) + 1
      BY <1>5
<1>8. \A p \in DOMAIN t : t[p][1] \in Nat /\ t[p][1] <= w
      <2>1. \A p \in DOMAIN t : t[p][1] <= w
            BY DEF Below
      <2> HIDE DEF t
      <2> QED  BY <1>2, <2>1, TextOf
<1>9. \A p \in DOMAIN u : u[p][1] <= w + 1
      <2> HIDE DEF t
      <2> QED  BY <1>3, <1>4, <1>5, <1>7, <1>8
<1>10. Below(g, w + 1)
       BY <1>2, <1>6, <1>9 DEF Below
<1>11. ~(w + 1 <= w)
       OBVIOUS
<1>12. ~Below(g, w)
       <2> HIDE DEF g
       <2> QED  BY <1>3, <1>4, <1>6, <1>7, <1>11 DEF Below
<1>13. ~Sane(g)
       <2> SUFFICES ASSUME u = <<Whole(e[1])>> PROVE FALSE
           BY <1>6 DEF Sane
       <2>1. u[Len(t) + 1] = Whole(e[1])
             <3>1. Len(<<Whole(e[1])>>) = 1 /\ <<Whole(e[1])>>[1] = Whole(e[1])
                   OBVIOUS
             <3>2. Len(t) + 1 = 1
                   BY <1>4, <3>1
             <3> QED  BY <3>1, <3>2
       <2>2. Whole(e[1])[1] = e[1]
             BY DEF Whole
       <2>3. e[1] = w + 1
             BY <1>3, <1>4, <2>1, <2>2
       <2> QED  BY <1>2, <1>11, <2>3
<1> QED  BY <1>6, <1>10, <1>12, <1>13 DEF g, u

LEMMA FreshLine ==
    ASSUME NEW w \in Nat, w + 1 <= MaxLines
    PROVE  LET e == <<w + 1, <<Whole(w + 1)>>>>
           IN  e \in Entries /\ e[1] = w + 1 /\ Below(e, w + 1) /\ ~Below(e, w) /\ Sane(e)
<1> DEFINE t == <<Whole(w + 1)>>
           e == <<w + 1, t>>
<1>1. MaxLines \in Nat /\ LineBytes \in Nat
      BY SealedLogAssumption
<1>2. Whole(w + 1) \in Pieces /\ Whole(w + 1)[1] = w + 1
      BY <1>1 DEF Whole, Pieces
<1>3. t \in Seq(Pieces) /\ DOMAIN t = {1} /\ t[1] = Whole(w + 1)
      BY <1>2
<1>4. e \in Entries /\ e[1] = w + 1 /\ e[2] = t
      BY <1>1, <1>3 DEF Entries
<1>5. Sane(e)
      BY <1>4 DEF Sane
<1> HIDE DEF t, e
<1>6. Below(e, w + 1)
      BY <1>2, <1>3, <1>4 DEF Below
<1>7. ~Below(e, w)
      BY <1>4 DEF Below
<1> QED  BY <1>4, <1>5, <1>6, <1>7 DEF e, t

\* WriteLine adds a line with a number of its own, or glues the record to the
\* line that lacks its newline; what lies before the last line stays.
LEMMA WriteIs ==
    ASSUME LogTypes, WriteLine
    PROVE  /\ Past(log', written') /\ Follows(log, log', written) /\ Renews(log, log', written)
           /\ written' \in 0..MaxLines /\ written <= written' /\ (log' = <<>> => ~open')
           /\ ~open => /\ log' = Append(log, <<written + 1, <<Whole(written + 1)>>>>)
                       /\ \A i \in DOMAIN log' : (i \in DOMAIN log /\ log'[i] = log[i]) \/ Sane(log'[i])
           /\ \A i \in DOMAIN log : i \in DOMAIN log' /\ log'[i][1] = log[i][1]
           /\ Spoilt => Spoilt'
           /\ Len(log) <= Len(log')
           /\ \A i \in 1..(Len(log) - 1) : log'[i] = log[i]
<1>1. /\ log \in Seq(Entries) /\ Len(log) \in Nat /\ DOMAIN log = 1..Len(log) /\ Past(log, written)
      /\ written \in Nat /\ MaxLines \in Nat /\ written' = written + 1 /\ written' \in 1..MaxLines
      /\ \A i \in DOMAIN log : Below(log[i], written)
      BY LinesOf, SealedLogAssumption DEF LogTypes, Past, WriteLine
<1>2. /\ written <= written' /\ written' \in Nat /\ written + 1 <= MaxLines /\ written' \in 0..MaxLines
      /\ ~open'
      BY <1>1 DEF WriteLine
<1>3. \A i \in DOMAIN log : log[i][1] < written + 1
      <2> TAKE i \in DOMAIN log
      <2>1. log[i][1] \in Nat /\ log[i][1] <= written
            BY <1>1, LinesOf DEF Below
      <2> QED  BY <1>1, <2>1
<1>4. CASE open
      <2> DEFINE n == Len(log)
                 e == log[n]
                 g == <<e[1], Append(e[2], Whole(written + 1))>>
      <2>1. n \in DOMAIN log /\ e \in Entries
            BY <1>1, <1>4, EmptySeq, LenProperties, LinesOf DEF LogTypes
      <2>2. log' = Append(SubSeq(log, 1, n - 1), g)
            BY <1>1, <1>4 DEF WriteLine, Front, Last
      <2>3. g \in Entries /\ g[1] = e[1] /\ Below(g, written + 1) /\ ~Below(g, written) /\ ~Sane(g)
            <3> HIDE DEF n, e
            <3> QED  BY <1>1, <1>2, <2>1, GluedLine DEF e
      <2>9. g[1] = log[n][1]
            BY <2>3
      <2> HIDE DEF g, n
      <2>4. /\ Past(log', written') /\ Len(log') = n /\ DOMAIN log' = 1..n /\ log'[n] = g
            /\ \A i \in 1..(n - 1) : i \in DOMAIN log' /\ i \in DOMAIN log /\ log'[i] = log[i]
            /\ \A i \in DOMAIN log' : i \in 1..(n - 1) \/ i = n
            /\ Follows(log, log', written)
            <3> HIDE DEF e
            <3>1. Past(log, written) /\ written \in Nat /\ written' \in Nat /\ written <= written'
                  BY <1>1, <1>2
            <3>2. g \in Entries /\ Below(g, written')
                  BY <1>1, <2>3
            <3> DEFINE p == SubSeq(log, 1, n - 1)
            <3>3. log' = Append(p, g)
                  BY <2>2
            <3>4. Past(p, written) /\ Len(p) = n - 1 /\ \A i \in 1..(n - 1) : p[i] = log[i]
                  <4>1. n - 1 \in 0..Len(log)
                        BY <1>1, <2>1
                  <4> QED  BY <1>1, <4>1, PastPrefix, PrefixOf
            <3> HIDE DEF p
            <3> QED  BY <2>1, <2>9, <3>1, <3>2, <3>3, <3>4, ReplaceFrom
      <2>5. n = Len(log) /\ n \in DOMAIN log'
            BY <1>1, <2>1, <2>4 DEF n
      <2>6. Renews(log, log', written)
            BY <2>3, <2>4 DEF Renews
      <2>7. Spoilt'
            BY <2>3, <2>4, <2>5 DEF Spoilt
      <2>8. \A i \in DOMAIN log : i \in DOMAIN log' /\ log'[i][1] = log[i][1]
            <3> TAKE i \in DOMAIN log
            <3>1. i = n \/ i \in 1..(n - 1)
                  BY <1>1, <2>5
            <3> QED  BY <2>3, <2>4, <2>5, <3>1
      <2> QED  BY <1>1, <1>2, <1>4, <2>4, <2>5, <2>6, <2>7, <2>8
<1>5. CASE ~open
      <2> DEFINE e == <<written + 1, <<Whole(written + 1)>>>>
      <2>1. log' = Append(log, e)
            BY <1>1, <1>5 DEF WriteLine
      <2>2. e \in Entries /\ e[1] = written + 1 /\ Below(e, written + 1) /\ ~Below(e, written) /\ Sane(e)
            BY <1>1, <1>2, FreshLine
      <2> HIDE DEF e
      <2>3. /\ Past(log', written') /\ Len(log') = Len(log) + 1
            /\ DOMAIN log' = 1..(Len(log) + 1) /\ log'[Len(log) + 1] = e
            /\ \A i \in DOMAIN log : i \in DOMAIN log' /\ log'[i] = log[i]
            /\ \A i \in DOMAIN log' : i \in DOMAIN log \/ i = Len(log) + 1
            BY <1>1, <1>2, <1>3, <2>1, <2>2, PastAppend
      <2>4. Renews(log, log', written)
            BY <2>2, <2>3 DEF Renews
      <2>5. Follows(log, log', written)
            <3>1. written + 1 > written
                  BY <1>1
            <3> QED  BY <2>2, <2>3, <3>1 DEF Follows
      <2>6. Spoilt => Spoilt'
            BY <2>3 DEF Spoilt
      <2>7. \A i \in DOMAIN log' : (i \in DOMAIN log /\ log'[i] = log[i]) \/ Sane(log'[i])
            BY <2>2, <2>3
      <2>8. Len(log) <= Len(log') /\ \A i \in 1..(Len(log) - 1) : i \in DOMAIN log
            BY <1>1, <2>3
      <2> QED  BY <1>2, <1>5, <2>1, <2>3, <2>4, <2>5, <2>6, <2>7, <2>8 DEF e
<1> QED  BY <1>4, <1>5

LEMMA CutLine ==
    ASSUME NEW e \in Entries, NEW w \in Nat, Below(e, w),
           NEW i \in DOMAIN e[2], NEW k \in 0..e[2][i][2]
    PROVE  /\ <<e[1], Append(SubSeq(e[2], 1, i - 1), <<e[2][i][1], k>>)>> \in Entries
           /\ Below(<<e[1], Append(SubSeq(e[2], 1, i - 1), <<e[2][i][1], k>>)>>, w)
<1> DEFINE t == e[2]
           p == SubSeq(t, 1, i - 1)
           x == <<t[i][1], k>>
           u == Append(p, x)
           g == <<e[1], u>>
<1>1. e[1] \in 1..MaxLines /\ t \in Seq(Pieces) /\ e[1] <= w /\ LineBytes \in Nat
      BY SealedLogAssumption DEF Entries, Below
<1>2. \A q \in DOMAIN t : t[q][1] <= w
      BY DEF Below
<1>3. i \in DOMAIN t /\ k \in 0..t[i][2]
      OBVIOUS
<1> HIDE DEF t
<1>4. /\ Len(t) \in Nat /\ DOMAIN t = 1..Len(t) /\ \A q \in DOMAIN t : t[q] \in Pieces
      /\ t[i][1] \in 1..MaxLines /\ t[i][2] \in 0..LineBytes
      BY <1>1, <1>3, TextOf
<1>5. i \in Nat /\ i - 1 \in Nat /\ i - 1 <= Len(t) /\ \A q \in 1..(i - 1) : q \in DOMAIN t
      BY <1>3, <1>4
<1>6. x \in Pieces /\ x[1] = t[i][1]
      <2>1. k \in 0..LineBytes
            BY <1>1, <1>3, <1>4
      <2> QED  BY <1>4, <2>1 DEF Pieces
<1>7. p \in Seq(Pieces) /\ Len(p) = i - 1 /\ \A q \in 1..(i - 1) : p[q] = t[q]
      <2>1. \A q \in 1..(i - 1) : t[q] \in Pieces
            BY <1>4, <1>5
      <2>2. /\ SubSeq(t, 1, i - 1) \in Seq(Pieces)
            /\ Len(SubSeq(t, 1, i - 1)) = IF 1 <= i - 1 THEN i - 1 - 1 + 1 ELSE 0
            /\ \A q \in 1..(i - 1 - 1 + 1) : SubSeq(t, 1, i - 1)[q] = t[1 + q - 1]
            BY <1>1, <1>5, <2>1, SubSeqProperties
      <2> QED  BY <1>5, <2>2
<1> HIDE DEF p, x
<1>8. /\ u \in Seq(Pieces) /\ Len(u) = i /\ u[i] = x
      /\ \A q \in 1..(i - 1) : u[q] = p[q]
      <2>1. /\ u \in Seq(Pieces) /\ Len(u) = Len(p) + 1 /\ u[Len(p) + 1] = x
            /\ \A q \in 1..Len(p) : u[q] = p[q]
            BY <1>6, <1>7, AppendProperties
      <2>2. Len(p) + 1 = i
            BY <1>5, <1>7
      <2> HIDE DEF u
      <2> QED  BY <1>7, <2>1, <2>2
<1> HIDE DEF u
<1>9. DOMAIN u = 1..i /\ \A q \in DOMAIN u : q \in 1..(i - 1) \/ q = i
      <2>1. DOMAIN u = 1..i
            BY <1>8, TextOf
      <2> QED  BY <1>5, <2>1
<1>10. \A q \in DOMAIN u : u[q][1] <= w
       BY <1>2, <1>3, <1>5, <1>6, <1>7, <1>8, <1>9
<1>11. g \in Entries /\ g[1] = e[1] /\ g[2] = u
       BY <1>1, <1>8 DEF Entries
<1>12. Below(g, w)
       <2> HIDE DEF g
       <2> QED  BY <1>1, <1>10, <1>11 DEF Below
<1> QED  BY <1>11, <1>12 DEF u, x, p, t

\* A power cut shortens the ledger, or its last line that is left.
LEMMA CutIs ==
    ASSUME LogTypes, LosePower
    PROVE  /\ Past(log', written') /\ Follows(log, log', written)
           /\ written' = written /\ open' \in BOOLEAN /\ (log' = <<>> => ~open')
<1>1. /\ log \in Seq(Entries) /\ Len(log) \in Nat /\ DOMAIN log = 1..Len(log)
      /\ written \in Nat /\ written' = written /\ Past(log, written)
      BY LinesOf, SealedLogAssumption DEF LogTypes, Past, LosePower
<1>2. PICK n \in 0..Len(log) :
          \/ log' = SubSeq(log, 1, n) /\ open' = (open /\ n = Len(log) /\ n > 0)
          \/ /\ n > 0 /\ open' = TRUE
             /\ \E i \in DOMAIN log[n][2] : \E k \in 0..log[n][2][i][2] :
                   log' = Append(SubSeq(log, 1, n - 1),
                                 <<log[n][1], Append(SubSeq(log[n][2], 1, i - 1), <<log[n][2][i][1], k>>)>>)
      BY DEF LosePower
<1>3. CASE log' = SubSeq(log, 1, n) /\ open' = (open /\ n = Len(log) /\ n > 0)
      <2>1. Len(log') = n
            BY <1>1, <1>3, PrefixOf
      <2>2. log' = <<>> => n = 0
            BY <2>1
      <2>3. log' = <<>> => ~open'
            <3>1. open' => n > 0
                  BY <1>3, Zenon
            <3>2. n = 0 => ~(n > 0)
                  OBVIOUS
            <3> QED  BY <2>2, <3>1, <3>2, Zenon
      <2> QED  BY <1>1, <1>3, <2>3, PastPrefix
<1>4. ASSUME n > 0, open' = TRUE, NEW i \in DOMAIN log[n][2], NEW k \in 0..log[n][2][i][2],
             log' = Append(SubSeq(log, 1, n - 1),
                           <<log[n][1], Append(SubSeq(log[n][2], 1, i - 1), <<log[n][2][i][1], k>>)>>)
      PROVE  Past(log', written) /\ Follows(log, log', written) /\ log' # <<>>
      <2> DEFINE p == SubSeq(log, 1, n - 1)
                 g == <<log[n][1], Append(SubSeq(log[n][2], 1, i - 1), <<log[n][2][i][1], k>>)>>
      <2>1. n \in DOMAIN log /\ n \in Nat /\ n - 1 \in 0..Len(log)
            BY <1>1, <1>4
      <2>2. log[n] \in Entries /\ Below(log[n], written)
            BY <1>1, <2>1, LinesOf DEF Past
      <2>3. g \in Entries /\ Below(g, written) /\ g[1] = log[n][1]
            BY <1>1, <1>4, <2>2, CutLine
      <2>4. Past(p, written) /\ Len(p) = n - 1 /\ \A j \in 1..(n - 1) : p[j] = log[j]
            BY <1>1, <2>1, PastPrefix, PrefixOf
      <2>5. log' = Append(p, g)
            BY <1>4
      <2> HIDE DEF p, g
      <2>6. /\ Past(Append(p, g), written) /\ Len(Append(p, g)) = n
            /\ Follows(log, Append(p, g), written)
            BY ONLY <1>1, <2>1, <2>3, <2>4, ReplaceLast
      <2>7. Append(p, g) # <<>>
            <3>1. Len(<<>>) = 0
                  OBVIOUS
            <3>2. n # 0
                  BY <1>4, <2>1
            <3> QED  BY ONLY <2>6, <3>1, <3>2
      <2> QED  BY ONLY <2>5, <2>6, <2>7
<1>5. CASE /\ n > 0 /\ open' = TRUE
           /\ \E i \in DOMAIN log[n][2] : \E k \in 0..log[n][2][i][2] :
                 log' = Append(SubSeq(log, 1, n - 1),
                               <<log[n][1], Append(SubSeq(log[n][2], 1, i - 1), <<log[n][2][i][1], k>>)>>)
      <2>1. Past(log', written) /\ Follows(log, log', written) /\ log' # <<>>
            BY ONLY <1>4, <1>5
      <2> QED  BY <1>1, <1>5, <2>1
<1> QED  BY <1>2, <1>3, <1>5

\* The cured ledger has no numbers but those of the ledger.
LEMMA RenameIs ==
    ASSUME LogTypes, CurerInv, RenameLedger
    PROVE  /\ Past(log', written') /\ Follows(log, log', written)
           /\ written' = written /\ ~open' /\ open' \in BOOLEAN
<1>1. log' = cr.sane /\ written' = written /\ cr.pc = "rename" /\ open' = FALSE
      BY DEF RenameLedger
<1>2. Past(cr.sane, written) /\ \A i \in DOMAIN cr.sane : \E j \in DOMAIN log : log[j][1] = cr.sane[i][1]
      BY <1>1 DEF CurerInv, NotRunning
<1>3. Follows(log, cr.sane, written)
      BY <1>2 DEF Follows
<1> QED  BY <1>1, <1>2, <1>3

LEMMA LogAges ==
    ASSUME LogTypes, CurerInv, SealedLogNext
    PROVE  /\ Past(log', written') /\ Follows(log, log', written) /\ cuts' \in Nat
           /\ written' \in 0..MaxLines /\ written \in Nat /\ written' \in Nat /\ written <= written'
           /\ open' \in BOOLEAN /\ (log' = <<>> => ~open')
           /\ ~LosePower /\ ~RenameLedger => Renews(log, log', written)
<1>1. written \in Nat /\ written \in 0..MaxLines /\ written <= written
      BY SealedLogAssumption DEF LogTypes
<1>2. /\ Past(log', written') /\ Follows(log, log', written)
      /\ written' \in 0..MaxLines /\ written <= written'
      /\ open' \in BOOLEAN /\ (log' = <<>> => ~open')
      /\ ~LosePower /\ ~RenameLedger => Renews(log, log', written)
      <2>1. CASE WriteLine
            <3>1. open' \in BOOLEAN
                  BY <2>1 DEF WriteLine
            <3> QED  BY <2>1, <3>1, WriteIs
      <2>2. CASE LosePower
            BY <1>1, <2>2, CutIs
      <2>3. CASE RenameLedger
            BY <1>1, <2>3, RenameIs
      <2>4. CASE UNCHANGED <<log, open, written>>
            BY <1>1, <2>4, SameLedger DEF LogTypes
      <2> QED  BY <2>1, <2>2, <2>3, <2>4 DEF SealedLogNext, GoQuiet, ReadLedger, LedgerUnreadable,
                  SaveSeal, ScanLedger, CureLedger, KillSealer
<1>3. written' \in Nat
      BY <1>2, SealedLogAssumption
<1>4. cuts' \in Nat
      BY DEF LogTypes, SealedLogNext, WriteLine, GoQuiet, LosePower, ReadLedger, LedgerUnreadable,
             SaveSeal, ScanLedger, CureLedger, RenameLedger, KillSealer
<1> QED  BY <1>1, <1>2, <1>3, <1>4

-----------------------------------------------------------------------------
\* What a ledger of before has to do with the one of today it keeps.
LEMMA PastStays ==
    ASSUME LogTypes, CurerInv, SealedLogNext, NEW s, Past(s, written)
    PROVE  /\ Past(s, written')
           /\ After(log, s) => After(log', s)
           /\ ~LosePower /\ ~RenameLedger /\ Gone(log, s) => Gone(log', s)
<1>1. /\ Past(log', written') /\ Follows(log, log', written)
      /\ written \in Nat /\ written' \in Nat /\ written <= written'
      /\ ~LosePower /\ ~RenameLedger => Renews(log, log', written)
      BY LogAges
<1>2. log \in Seq(Entries) /\ log' \in Seq(Entries)
      BY <1>1 DEF LogTypes, Past
<1>3. Past(s, written')
      BY <1>1, PastLater
<1>4. After(log, s) => After(log', s)
      BY <1>1, <1>2, StillAfter
<1>5. ~LosePower /\ ~RenameLedger /\ Gone(log, s) => Gone(log', s)
      BY <1>1, <1>2, StillGone
<1> QED  BY <1>3, <1>4, <1>5

LEMMA SealStep ==
    ASSUME LogInv, SealedLogNext
    PROVE  SealInv'
<1> DEFINE Fit(s) == SealIs(s) /\ (s # NoSeal => Past(s.hash, written') /\ After(log', s.hash))
<1>1. ASSUME NEW s \in {seal, sealWas, NoSeal} PROVE Fit(s)
      <2>1. CASE s = NoSeal
            BY <2>1 DEF SealIs
      <2>2. CASE s # NoSeal
            <3>1. SealIs(s) /\ Past(s.hash, written) /\ After(log, s.hash)
                  BY <2>2 DEF LogInv, SealInv
            <3> QED  BY <3>1, PastStays DEF LogInv
      <2> QED  BY <2>1, <2>2
<1>2. ASSUME SaveSeal, ci.verdict # "FALSE", NEW s, s = [lines |-> Len(ci.lines), hash |-> ci.lines]
      PROVE  Fit(s)
      <2>1. Past(ci.lines, written) /\ After(log, ci.lines)
            BY <1>2 DEF SaveSeal, LogInv, SealerInv, NotRunning
      <2>2. log' = log /\ written' = written
            BY <1>2 DEF SaveSeal
      <2>3. s.hash = ci.lines /\ s = [lines |-> Len(s.hash), hash |-> s.hash]
            BY <1>2
      <2> QED  BY <2>1, <2>2, <2>3 DEF SealIs
<1>3. Fit(seal') /\ Fit(sealWas')
      <2>1. CASE {seal', sealWas'} \subseteq {seal, sealWas, NoSeal}
            <3> HIDE DEF Fit
            <3> QED  BY <1>1, <2>1
      <2>2. CASE /\ SaveSeal /\ ci.verdict # "FALSE"
                 /\ seal' = [lines |-> Len(ci.lines), hash |-> ci.lines] /\ sealWas' = seal
            <3> HIDE DEF Fit
            <3> QED  BY <1>1, <1>2, <2>2
      <2> HIDE DEF Fit
      <2> QED  BY <2>1, <2>2 DEF SealedLogNext, WriteLine, GoQuiet, LosePower, ReadLedger,
                  LedgerUnreadable, SaveSeal, ScanLedger, CureLedger, RenameLedger, KillSealer
<1> QED  BY <1>3 DEF SealInv

\* What chain_integrity reads is a ledger of this node, and the verdict is
\* about the head that is still there when it is told, or about none.
LEMMA ReadIs ==
    ASSUME LogInv, ReadLedger
    PROVE  /\ log \in Seq(Entries) /\ Past(log, written) /\ After(log, log)
           /\ \E s \in {seal, NoSeal} :
                 /\ ci' = [pc |-> "save", lines |-> log, verdict |-> Compare(log, s)]
                 /\ alarm' = (alarm /\ s = seal)
                 /\ Compare(log, s) \in {"TRUE", "FALSE", "None"}
                 /\ s = NoSeal => Compare(log, s) = "None"
                 /\ Compare(log, s) = "FALSE" =>
                       s = seal /\ seal # NoSeal /\ ~Begins(seal.hash, log) /\ Gone(log, seal.hash)
                 /\ s = seal /\ seal # NoSeal /\ Gone(log, seal.hash) => Compare(log, s) = "FALSE"
<1>1. /\ log \in Seq(Entries) /\ Past(log, written) /\ Increasing(log) /\ SealIs(seal)
      /\ seal # NoSeal => Past(seal.hash, written) /\ After(log, seal.hash)
      BY DEF LogInv, LogTypes, Past, SealInv
<1>2. seal # NoSeal => seal.hash \in Seq(Entries) /\ Increasing(seal.hash)
      BY <1>1 DEF Past
<1>3. PICK s \in {seal, NoSeal} :
          /\ ci' = [pc |-> "save", lines |-> log, verdict |-> Compare(log, s)]
          /\ alarm' = (alarm /\ s = seal)
      BY DEF ReadLedger
<1>4. SealIs(s) /\ (s # NoSeal => s.hash \in Seq(Entries) /\ s = seal)
      BY <1>1, <1>2, <1>3 DEF SealIs
<1>5. /\ Compare(log, s) \in {"TRUE", "FALSE", "None"}
      /\ s = NoSeal => Compare(log, s) = "None"
      /\ Compare(log, s) = "FALSE" => s # NoSeal /\ ~Begins(s.hash, log)
      /\ s # NoSeal /\ ~Begins(s.hash, log) => Compare(log, s) = "FALSE"
      BY <1>1, <1>4, VerdictOf
<1>6. seal # NoSeal /\ ~Begins(seal.hash, log) => Gone(log, seal.hash)
      BY <1>1, <1>2, KeptOrGone
<1>7. seal # NoSeal /\ Gone(log, seal.hash) => ~Begins(seal.hash, log)
      BY <1>1, <1>2, GoneIsMissing
<1>8. Compare(log, s) = "FALSE" =>
          s = seal /\ seal # NoSeal /\ ~Begins(seal.hash, log) /\ Gone(log, seal.hash)
      BY <1>4, <1>5, <1>6
<1>9. s = seal /\ seal # NoSeal /\ Gone(log, seal.hash) => Compare(log, s) = "FALSE"
      BY <1>5, <1>7
<1> QED  BY <1>1, <1>3, <1>5, <1>8, <1>9, AfterItself

LEMMA SealerStep ==
    ASSUME LogInv, SealedLogNext
    PROVE  SealerInv'
<1>1. CASE ReadLedger
      <2>1. log' = log /\ written' = written /\ seal' = seal
            BY <1>1 DEF ReadLedger
      <2>2. PICK s \in {seal, NoSeal} :
                /\ ci' = [pc |-> "save", lines |-> log, verdict |-> Compare(log, s)]
                /\ Compare(log, s) \in {"TRUE", "FALSE", "None"}
                /\ s = NoSeal => Compare(log, s) = "None"
            BY <1>1, ReadIs
      <2>3. /\ ci'.pc = "save" /\ ci'.lines = log /\ ci'.verdict = Compare(log, s)
            /\ ci' = [pc |-> "save", lines |-> ci'.lines, verdict |-> ci'.verdict]
            BY <2>2
      <2>4. Past(ci'.lines, written') /\ After(log', ci'.lines)
            BY <1>1, <2>1, <2>3, ReadIs
      <2>5. ci'.verdict \in {"TRUE", "FALSE", "None"} /\ (seal' = NoSeal => ci'.verdict = "None")
            BY <2>1, <2>2, <2>3
      <2> QED  BY <2>3, <2>4, <2>5 DEF SealerInv
<1>2. CASE ci' = NotRunning
      BY <1>2 DEF SealerInv
<1>3. CASE ci' = ci /\ seal' = seal
      <2>1. CASE ci = NotRunning
            BY <1>3, <2>1 DEF SealerInv
      <2>2. CASE ci # NotRunning
            <3>1. Past(ci.lines, written') /\ After(log', ci.lines)
                  BY <2>2, PastStays DEF LogInv, SealerInv
            <3> QED  BY <1>3, <2>2, <3>1 DEF LogInv, SealerInv
      <2> QED  BY <2>1, <2>2
<1> QED  BY <1>1, <1>2, <1>3 DEF SealedLogNext, WriteLine, GoQuiet, LosePower, LedgerUnreadable,
            SaveSeal, ScanLedger, CureLedger, RenameLedger, KillSealer

LEMMA NotSane ==
    ASSUME LogInv, cr # NotRunning
    PROVE  Spoilt
BY DEF LogInv, CurerInv

\* Without zeros in it and with a sane last line a ledger is not suspect.
LEMMA SuspectIs ==
    ASSUME NEW l \in Seq(Entries), Suspect(l)
    PROVE  \E i \in DOMAIN l : ~Sane(l[i])
<1>1. CASE l # <<>> /\ ~Sane(Last(l))
      <2>1. Len(l) \in DOMAIN l
            BY <1>1, EmptySeq, LenProperties
      <2> QED  BY <1>1, <2>1 DEF Last
<1>2. CASE \E i \in DOMAIN l : HasNul(l[i])
      <2>1. PICK i \in DOMAIN l : HasNul(l[i])
            BY <1>2
      <2>2. PICK p \in DOMAIN l[i][2] : l[i][2][p][2] = 0
            BY <2>1 DEF HasNul
      <2>3. ASSUME Sane(l[i]) PROVE FALSE
            <3>1. l[i][2] = <<Whole(l[i][1])>>
                  BY <2>3 DEF Sane
            <3>2. p = 1 /\ l[i][2][p] = Whole(l[i][1])
                  BY <2>2, <3>1
            <3>3. Whole(l[i][1])[2] = LineBytes
                  BY DEF Whole
            <3>4. LineBytes # 0
                  BY SealedLogAssumption
            <3> QED  BY <2>2, <3>2, <3>3, <3>4
      <2> QED  BY <2>3
<1> QED  BY <1>1, <1>2 DEF Suspect

\* A cure leaves out what is not sane: so what was sealed is either gone with
\* it, or lies before the last line.
LEMMA CureCovers ==
    ASSUME LogInv, Spoilt, NEW s \in Seq(Entries), Increasing(s), After(log, s)
    PROVE  \/ Gone(SaneLines(log), s)
           \/ Begins(s, log) /\ Len(s) < Len(log)
<1>1. log \in Seq(Entries) /\ Increasing(log) /\ Len(log) \in Nat /\ DOMAIN log = 1..Len(log)
      BY LinesOf DEF LogInv, LogTypes, Past
<1> DEFINE c == SaneLines(log)
<1>2. \A i \in DOMAIN c : Sane(c[i]) /\ \E j \in DOMAIN log : log[j] = c[i]
      BY <1>1, SaneLinesAre
<1> HIDE DEF c
<1>3. CASE Gone(log, s)
      <2>1. PICK j \in DOMAIN s : \A i \in DOMAIN log : log[i] # s[j]
            BY <1>3 DEF Gone
      <2>2. \A i \in DOMAIN c : c[i] # s[j]
            BY <1>2, <2>1
      <2> QED  BY <2>2 DEF Gone, c
<1>4. CASE ~Gone(log, s)
      <2>1. Begins(s, log) /\ Len(s) \in Nat /\ DOMAIN s = 1..Len(s)
            BY <1>1, <1>4, KeptOrGone, LinesOf
      <2>2. PICK i \in DOMAIN log : ~Sane(log[i])
            BY DEF Spoilt
      <2>3. CASE i \in DOMAIN s
            <3>1. s[i] = log[i]
                  BY <2>1, <2>3 DEF Begins
            <3>2. \A j \in DOMAIN c : c[j] # s[i]
                  BY <1>2, <2>2, <3>1
            <3> QED  BY <2>3, <3>2 DEF Gone, c
      <2>4. CASE i \notin DOMAIN s
            <3>1. Len(s) < Len(log)
                  BY <1>1, <2>1, <2>2, <2>4
            <3> QED  BY <2>1, <3>1
      <2> QED  BY <2>3, <2>4
<1> QED  BY <1>3, <1>4

LEMMA CurerStep ==
    ASSUME LogInv, SealedLogNext
    PROVE  CurerInv'
<1>1. /\ log \in Seq(Entries) /\ Increasing(log) /\ \A i \in DOMAIN log : Below(log[i], written)
      /\ LogTypes /\ Past(log, written) /\ Len(log) \in Nat
      BY LinesOf DEF LogInv, LogTypes, Past
<1>2. CASE ScanLedger
      <2>1. cr' = [pc |-> "cure"] /\ log' = log /\ Suspect(log)
            BY <1>2 DEF ScanLedger
      <2>2. Spoilt'
            BY <1>1, <2>1, SuspectIs DEF Spoilt
      <2> QED  BY <2>1, <2>2 DEF CurerInv
<1>3. CASE CureLedger
      <2>1. log' = log /\ written' = written /\ seal' = seal /\ ci' = ci /\ cr.pc = "cure"
            BY <1>3 DEF CureLedger
      <2>2. Spoilt
            BY <2>1, NotSane DEF NotRunning
      <2>3. CASE cr' = NotRunning
            BY <2>3 DEF CurerInv
      <2>4. CASE cr' = [pc |-> "rename", sane |-> SaneLines(log)]
            <3>1. cr'.pc = "rename" /\ cr' = [pc |-> "rename", sane |-> cr'.sane] /\ cr'.sane = SaneLines(log)
                  BY <2>4
            <3>2. /\ cr'.sane \in Seq(Entries) /\ Increasing(cr'.sane)
                  /\ \A i \in DOMAIN cr'.sane :
                        Sane(cr'.sane[i]) /\ \E j \in DOMAIN log : log[j] = cr'.sane[i]
                  BY <1>1, <3>1, SaneLinesAre
            <3>3. \A i \in DOMAIN cr'.sane : Below(cr'.sane[i], written)
                  BY <1>1, <3>2
            <3>4. seal # NoSeal => Covered(seal.hash)'
                  <4>1. seal # NoSeal => seal.hash \in Seq(Entries) /\ Increasing(seal.hash) /\ After(log, seal.hash)
                        BY DEF LogInv, SealInv, Past
                  <4> QED  BY <2>1, <2>2, <3>1, <4>1, CureCovers DEF Covered
            <3>5. ci # NotRunning => Covered(ci.lines)'
                  <4>1. ci # NotRunning => ci.lines \in Seq(Entries) /\ Increasing(ci.lines) /\ After(log, ci.lines)
                        BY DEF LogInv, SealerInv, Past
                  <4> QED  BY <2>1, <2>2, <3>1, <4>1, CureCovers DEF Covered
            <3>6. Spoilt'
                  BY <2>1, <2>2 DEF Spoilt
            <3>7. Past(cr'.sane, written')
                  BY <2>1, <3>2, <3>3 DEF Past
            <3>8. \A i \in DOMAIN cr'.sane : Sane(cr'.sane[i]) /\ \E j \in DOMAIN log' : log'[j][1] = cr'.sane[i][1]
                  BY <2>1, <3>2
            <3> QED  BY <2>1, <3>1, <3>4, <3>5, <3>6, <3>7, <3>8 DEF CurerInv
      <2> QED  BY <1>3, <2>3, <2>4 DEF CureLedger
<1>4. CASE cr' = NotRunning
      BY <1>4 DEF CurerInv
<1>5. CASE /\ cr' = cr /\ cr # NotRunning
           /\ WriteLine \/ log' = log
           /\ ReadLedger \/ SaveSeal \/ (seal' = seal /\ (ci' = ci \/ ci' = NotRunning))
      <2>1. Spoilt'
            <3>1. Spoilt
                  BY <1>5, NotSane
            <3>2. CASE WriteLine
                  BY <1>1, <3>1, <3>2, WriteIs
            <3>3. CASE log' = log
                  BY <3>1, <3>3 DEF Spoilt
            <3> QED  BY <1>5, <3>2, <3>3
      <2>2. CASE cr.pc = "cure"
            BY <1>5, <2>1, <2>2 DEF LogInv, CurerInv
      <2>3. CASE cr.pc # "cure"
            <3>1. /\ cr.pc = "rename" /\ cr = [pc |-> "rename", sane |-> cr.sane]
                  /\ Past(cr.sane, written')
                  /\ \A i \in DOMAIN cr.sane :
                        Sane(cr.sane[i]) /\ \E j \in DOMAIN log : log[j][1] = cr.sane[i][1]
                  /\ seal # NoSeal => Covered(seal.hash)
                  /\ ci # NotRunning => Covered(ci.lines)
                  BY <1>5, <2>3, PastStays DEF LogInv, CurerInv
            <3>2. \A i \in DOMAIN cr.sane : \E j \in DOMAIN log' : log'[j][1] = cr.sane[i][1]
                  <4>1. CASE WriteLine
                        <5>1. \A i \in DOMAIN log : i \in DOMAIN log' /\ log'[i][1] = log[i][1]
                              BY <1>1, <4>1, WriteIs
                        <5> QED  BY <3>1, <5>1
                  <4>2. CASE log' = log
                        BY <3>1, <4>2
                  <4> QED  BY <1>5, <4>1, <4>2
            <3>3. ASSUME NEW s \in Seq(Entries), Covered(s)
                  PROVE  Gone(cr'.sane, s) \/ (Begins(s, log') /\ Len(s) < Len(log'))
                  <4>1. CASE Gone(cr.sane, s)
                        BY <1>5, <4>1
                  <4>2. CASE Begins(s, log) /\ Len(s) < Len(log) /\ WriteLine
                        <5>1. /\ Len(log) <= Len(log') /\ \A i \in 1..(Len(log) - 1) : log'[i] = log[i]
                              /\ Past(log', written')
                              BY <1>1, <4>2, WriteIs
                        <5>2. Len(s) \in Nat /\ Len(log') \in Nat
                              BY <5>1, LinesOf DEF Past
                        <5>3. \A i \in 1..Len(s) : i \in 1..(Len(log) - 1)
                              BY <1>1, <4>2, <5>2
                        <5>4. Len(s) <= Len(log') /\ Len(s) < Len(log')
                              BY <1>1, <4>2, <5>1, <5>2
                        <5>5. \A i \in 1..Len(s) : log'[i] = s[i]
                              BY <4>2, <5>1, <5>3 DEF Begins
                        <5> QED  BY <5>4, <5>5 DEF Begins
                  <4>3. CASE Begins(s, log) /\ Len(s) < Len(log) /\ log' = log
                        BY <4>3
                  <4> QED  BY <1>5, <3>3, <4>1, <4>2, <4>3 DEF Covered
            <3>4. /\ seal # NoSeal => seal.hash \in Seq(Entries)
                  /\ ci # NotRunning => ci.lines \in Seq(Entries)
                  BY DEF LogInv, SealInv, SealerInv, Past
            <3>5. seal' # NoSeal => Covered(seal.hash)'
                  <4>1. CASE seal' = seal
                        BY <3>1, <3>3, <3>4, <4>1 DEF Covered
                  <4>2. CASE SaveSeal /\ seal' = [lines |-> Len(ci.lines), hash |-> ci.lines]
                        <5>1. ci # NotRunning /\ seal'.hash = ci.lines
                              BY <4>2 DEF SaveSeal, NotRunning
                        <5> QED  BY <3>1, <3>3, <3>4, <5>1 DEF Covered
                  <4> QED  BY <1>5, <4>1, <4>2 DEF SaveSeal, ReadLedger
            <3>6. ci' # NotRunning => Covered(ci.lines)'
                  <4>1. CASE ci' = ci \/ ci' = NotRunning
                        BY <3>1, <3>3, <3>4, <4>1 DEF Covered
                  <4>2. CASE ReadLedger
                        <5>1. ci'.lines = log
                              BY <4>2, ReadIs
                        <5>2. PICK i \in DOMAIN log : ~Sane(log[i])
                              BY <1>5, NotSane DEF Spoilt
                        <5>3. \A j \in DOMAIN cr.sane : cr.sane[j] # log[i]
                              BY <3>1, <5>2
                        <5>4. Gone(cr.sane, log)
                              BY <5>2, <5>3 DEF Gone
                        <5> QED  BY <1>5, <5>1, <5>4 DEF Covered
                  <4> QED  BY <1>5, <4>1, <4>2 DEF SaveSeal
            <3> QED  BY <1>5, <2>1, <3>1, <3>2, <3>5, <3>6 DEF CurerInv
      <2> QED  BY <2>2, <2>3
<1> QED  BY <1>2, <1>3, <1>4, <1>5 DEF SealedLogNext, WriteLine, GoQuiet, LosePower, ReadLedger,
            LedgerUnreadable, SaveSeal, RenameLedger, KillSealer

\* What is gone of a head stays gone, save for a power cut.
LEMMA SealStaysGone ==
    ASSUME LogInv, SealedLogNext, ~LosePower, seal # NoSeal, Gone(log, seal.hash)
    PROVE  Gone(log', seal.hash)
<1>1. /\ Past(seal.hash, written) /\ seal.hash \in Seq(Entries) /\ log \in Seq(Entries)
      BY DEF LogInv, LogTypes, SealInv, Past
<1>2. CASE RenameLedger
      <2>1. log' = cr.sane /\ cr.pc = "rename"
            BY <1>2 DEF RenameLedger
      <2>2. Covered(seal.hash)
            BY <2>1 DEF LogInv, CurerInv, NotRunning
      <2>3. ~Begins(seal.hash, log)
            BY <1>1, GoneIsMissing
      <2> QED  BY <2>1, <2>2, <2>3 DEF Covered
<1>3. CASE ~RenameLedger
      BY <1>1, <1>3, PastStays DEF LogInv
<1> QED  BY <1>2, <1>3

LEMMA AlarmStep ==
    ASSUME LogInv, SealedLogNext
    PROVE  AlarmInv'
<1>1. CASE ReadLedger
      <2>1. log' = log /\ seal' = seal /\ verified' = verified
            BY <1>1 DEF ReadLedger
      <2>2. PICK s \in {seal, NoSeal} :
                /\ ci' = [pc |-> "save", lines |-> log, verdict |-> Compare(log, s)]
                /\ alarm' = (alarm /\ s = seal)
                /\ Compare(log, s) = "FALSE" => seal # NoSeal /\ Gone(log, seal.hash)
                /\ s = seal /\ seal # NoSeal /\ Gone(log, seal.hash) => Compare(log, s) = "FALSE"
            BY <1>1, ReadIs
      <2>3. ci'.verdict = Compare(log, s) /\ (alarm' => alarm /\ s = seal)
            <3>1. alarm' => alarm /\ s = seal
                  BY <2>2, Zenon
            <3> QED  BY <2>2, <3>1
      <2>4. alarm => verified # "TRUE" /\ seal # NoSeal /\ Gone(log, seal.hash)
            BY DEF LogInv, AlarmInv
      <2> QED  BY <2>1, <2>2, <2>3, <2>4 DEF AlarmInv
<1>2. CASE SaveSeal
      <2>1. /\ log' = log /\ ci.pc = "save" /\ ci'.pc = "idle" /\ verified' = ci.verdict
            /\ ci.verdict = "FALSE" => seal' = seal
            BY <1>2 DEF SaveSeal, NotRunning
      <2>2. alarm' => alarm \/ ci.verdict = "FALSE"
            BY <1>2, Zenon DEF SaveSeal
      <2>3. alarm' => ci.verdict = "FALSE" /\ seal # NoSeal /\ Gone(log, seal.hash)
            BY <2>1, <2>2 DEF LogInv, AlarmInv
      <2> QED  BY <2>1, <2>3 DEF AlarmInv
<1>3. CASE LosePower
      <2>1. ci'.pc = "idle" /\ ~alarm'
            BY <1>3 DEF LosePower, NotRunning
      <2> QED  BY <2>1 DEF AlarmInv
<1>4. CASE /\ seal' = seal /\ verified' \in {verified, "None"} /\ alarm' = alarm
           /\ ci' = ci \/ ci'.pc = "idle"
           /\ ~LosePower
      <2>1. seal # NoSeal /\ Gone(log, seal.hash) => Gone(log', seal.hash)
            BY <1>4, SealStaysGone
      <2> QED  BY <1>4, <2>1 DEF LogInv, AlarmInv
<1>5. CASE LosePower \/ ~LosePower
      BY <1>1, <1>2, <1>3, <1>4 DEF SealedLogNext, WriteLine, GoQuiet, LedgerUnreadable, ScanLedger,
         CureLedger, RenameLedger, KillSealer, NotRunning
<1> QED  BY <1>5

LEMMA BeginsItself ==
    ASSUME NEW l \in Seq(Entries)
    PROVE  Begins(l, l)
BY LinesOf DEF Begins

LEMMA BeginsMore ==
    ASSUME NEW l \in Seq(Entries), NEW s \in Seq(Entries), NEW e \in Entries, Begins(s, l)
    PROVE  Begins(s, Append(l, e))
<1>1. /\ Len(l) \in Nat /\ Len(s) \in Nat /\ Len(s) <= Len(l)
      /\ \A i \in 1..Len(s) : l[i] = s[i]
      BY LinesOf DEF Begins
<1>2. /\ Len(Append(l, e)) = Len(l) + 1
      /\ \A i \in 1..Len(l) : Append(l, e)[i] = l[i]
      BY AppendProperties
<1>3. Len(s) <= Len(l) + 1 /\ \A i \in 1..Len(s) : i \in 1..Len(l)
      BY <1>1
<1> QED  BY <1>1, <1>2, <1>3 DEF Begins

LEMMA CalmStep ==
    ASSUME LogInv, SealedLogNext
    PROVE  CalmInv'
<1> SUFFICES ASSUME cuts' = 0
             PROVE  /\ verified' # "FALSE" /\ cr' = NotRunning /\ ~open'
                    /\ \A i \in DOMAIN log' : Sane(log'[i])
                    /\ seal' # NoSeal => Begins(seal'.hash, log')
                    /\ ci'.pc = "save" => ci'.verdict # "FALSE" /\ Begins(ci'.lines, log')
    BY DEF CalmInv
<1>1. cuts = 0 /\ ~LosePower
      <2>1. cuts \in Nat
            BY DEF LogInv, LogTypes
      <2>2. LosePower => cuts' = cuts + 1
            BY DEF LosePower
      <2>3. ~LosePower
            BY <2>1, <2>2
      <2> QED  BY <2>3 DEF SealedLogNext, WriteLine, GoQuiet, ReadLedger, LedgerUnreadable,
                  SaveSeal, ScanLedger, CureLedger, RenameLedger, KillSealer
<1>2. /\ verified # "FALSE" /\ cr = NotRunning /\ ~open
      /\ \A i \in DOMAIN log : Sane(log[i])
      /\ seal # NoSeal => Begins(seal.hash, log)
      /\ ci.pc = "save" => ci.verdict # "FALSE" /\ Begins(ci.lines, log)
      BY <1>1 DEF LogInv, CalmInv
<1>3. log \in Seq(Entries) /\ LogTypes
      BY DEF LogInv, LogTypes, Past
<1>4. CASE WriteLine
      <2> DEFINE e == <<written + 1, <<Whole(written + 1)>>>>
      <2>1. /\ log' = Append(log, e)
            /\ \A i \in DOMAIN log' : (i \in DOMAIN log /\ log'[i] = log[i]) \/ Sane(log'[i])
            BY <1>2, <1>3, <1>4, WriteIs
      <2>2. e \in Entries
            <3>1. written \in Nat /\ written + 1 <= MaxLines
                  BY <1>3, <1>4, SealedLogAssumption DEF WriteLine, LogTypes
            <3> QED  BY <3>1, FreshLine
      <2> HIDE DEF e
      <2>3. \A i \in DOMAIN log' : Sane(log'[i])
            BY <1>2, <2>1
      <2>4. seal # NoSeal => Begins(seal.hash, log')
            BY <1>2, <1>3, <2>1, <2>2, BeginsMore DEF LogInv, SealInv, Past
      <2>5. ci.pc = "save" => Begins(ci.lines, log')
            <3>1. ci.pc = "save" => ci.lines \in Seq(Entries)
                  BY DEF LogInv, SealerInv, Past, NotRunning
            <3> QED  BY <1>2, <1>3, <2>1, <2>2, <3>1, BeginsMore
      <2> QED  BY <1>2, <1>4, <2>3, <2>4, <2>5 DEF WriteLine
<1>5. CASE ReadLedger
      <2>1. log' = log /\ seal' = seal /\ verified' = verified /\ cr' = cr /\ open' = open
            BY <1>5 DEF ReadLedger
      <2>2. ci'.verdict # "FALSE" /\ ci'.lines = log
            BY <1>2, <1>5, ReadIs
      <2> QED  BY <1>2, <1>3, <2>1, <2>2, BeginsItself
<1>6. CASE SaveSeal
      <2>1. /\ log' = log /\ cr' = cr /\ open' = open /\ ci.pc = "save" /\ ci'.pc = "idle"
            /\ verified' = ci.verdict
            /\ seal' = seal \/ seal' = [lines |-> Len(ci.lines), hash |-> ci.lines]
            BY <1>6 DEF SaveSeal, NotRunning
      <2>2. seal' = seal \/ seal'.hash = ci.lines
            BY <2>1
      <2> QED  BY <1>2, <2>1, <2>2
<1>7. ~ScanLedger
      BY <1>2, <1>3, SuspectIs DEF ScanLedger
<1>8. ~CureLedger /\ ~RenameLedger
      BY <1>2 DEF CureLedger, RenameLedger, NotRunning
<1>9. CASE GoQuiet \/ LedgerUnreadable \/ KillSealer
      BY <1>2, <1>9 DEF GoQuiet, LedgerUnreadable, KillSealer, NotRunning
<1> QED  BY <1>1, <1>4, <1>5, <1>6, <1>7, <1>8, <1>9 DEF SealedLogNext

LEMMA LogStepKeeps ==
    ASSUME LogInv, SealedLogNext
    PROVE  LogInv'
<1>1. verified' \in {"TRUE", "FALSE", "None"}
      <2>1. verified \in {"TRUE", "FALSE", "None"}
            BY DEF LogInv, LogTypes
      <2>2. CASE SaveSeal
            BY <2>2 DEF SaveSeal, LogInv, SealerInv, NotRunning
      <2>3. CASE verified' \in {verified, "None"}
            BY <2>1, <2>3
      <2> QED  BY <2>2, <2>3 DEF SealedLogNext, WriteLine, GoQuiet, LosePower, ReadLedger,
                  LedgerUnreadable, ScanLedger, CureLedger, RenameLedger, KillSealer
<1>2. alarm' \in BOOLEAN
      BY DEF LogInv, LogTypes, SealedLogNext, WriteLine, GoQuiet, LosePower, ReadLedger,
         LedgerUnreadable, SaveSeal, ScanLedger, CureLedger, RenameLedger, KillSealer
<1>3. LogTypes'
      BY <1>1, <1>2, LogAges DEF LogInv, LogTypes
<1> QED  BY <1>3, SealStep, SealerStep, CurerStep, AlarmStep, CalmStep DEF LogInv

LEMMA LogStutters ==
    ASSUME LogInv, UNCHANGED logVars
    PROVE  LogInv'
BY DEF LogInv, LogTypes, SealInv, SealerInv, Spoilt, Covered, CurerInv, AlarmInv, CalmInv, logVars

LEMMA LogInit ==
    ASSUME SealedLogInit
    PROVE  LogInv
<1>1. Past(<<>>, 0)
      <2>1. <<>> \in Seq(Entries) /\ DOMAIN <<>> = {}
            BY EmptySeq, LenProperties
      <2> QED  BY <2>1 DEF Past, Increasing
<1>2. LogTypes
      <2>1. 0 \in 0..MaxLines
            BY SealedLogAssumption
      <2>2. log = <<>> /\ written = 0 /\ cuts = 0 /\ ~open /\ open \in BOOLEAN /\ alarm \in BOOLEAN
            BY DEF SealedLogInit
      <2>3. Past(log, written)
            BY <1>1, <2>2
      <2> QED  BY <2>1, <2>2, <2>3 DEF SealedLogInit, LogTypes
<1>3. \A i \in DOMAIN log : Sane(log[i])
      BY DEF SealedLogInit
<1> QED  BY <1>2, <1>3 DEF SealedLogInit, LogInv, SealInv, SealIs, SealerInv, CurerInv, AlarmInv,
            CalmInv, NotRunning

LEMMA LogTypesAre ==
    ASSUME LogInv
    PROVE  SealedLogTypeOK
<1>1. log \in Seq((1..MaxLines) \X Seq(Pieces)) /\ written \in 0..MaxLines
      BY DEF LogInv, LogTypes, Past, Entries
<1>2. \A s \in {seal, sealWas} : s.lines = Len(s.hash) \/ s = NoSeal
      BY DEF LogInv, SealInv, SealIs
<1>3. ci.pc \in {"idle", "save"} /\ cr.pc \in {"idle", "cure", "rename"}
      BY DEF LogInv, SealerInv, CurerInv, NotRunning
<1> QED  BY <1>1, <1>2, <1>3 DEF LogInv, LogTypes, SealedLogTypeOK

\* A step of the composition is a step of one part, in which the others rest.
LEMMA PartSteps ==
    ASSUME [Next]_vars
    PROVE  /\ SealedLogNext \/ UNCHANGED logVars
           /\ DrNext \/ UNCHANGED drVars
           /\ ReplicaNext \/ UNCHANGED repVars
           /\ LinkNext \/ UNCHANGED linkVars
BY DEF Next, vars, LogStep, DrStep, RepStep, LinkStep

LEMMA LogInvHolds == Spec => []LogInv
<1>1. Init => LogInv
      BY LogInit DEF Init
<1>2. LogInv /\ [Next]_vars => LogInv'
      BY PartSteps, LogStepKeeps, LogStutters
<1> QED  BY <1>1, <1>2, PTL DEF Spec

\* A ledger that only grew is never reported as tampered with: chain_integrity
\* raises no alarm before the first power cut, whatever is written, sealed,
\* scanned and killed in between, and whatever cannot be read or saved.
THEOREM GrowthIsNoAlarm == Spec => []NoFalseAlarm
<1>1. LogInv => NoFalseAlarm
      BY DEF LogInv, CalmInv, NoFalseAlarm
<1> QED  BY <1>1, LogInvHolds, PTL

\* An alarm of chain_integrity lasts until the next power cut, or until its
\* head cannot be read: what was sealed and is gone counts as verified neither
\* after more lines, nor after any cure, nor after runs that were killed or
\* that could not read the ledger or save the head.
THEOREM AlarmsLast == Spec => []AlarmLasts
<1>1. LogInv => AlarmLasts
      BY DEF LogInv, AlarmInv, AlarmLasts
<1> QED  BY <1>1, LogInvHolds, PTL

-----------------------------------------------------------------------------
\* The copy on the second disk.
LEMMA SyncKept ==
    ASSUME DrInv, DrNext
    PROVE  SyncInv'
<1>1. live \in [Files -> 0..MaxPromotions] /\ copy \in [Files -> -1..MaxPromotions]
      BY DEF DrInv, DrTypeOK
<1>2. CASE PromoteLayer
      <2>1. copy' = copy /\ archive' = archive /\ manifest' = manifest
            BY <1>2 DEF PromoteLayer
      <2>2. CASE sync = Idling
            <3>1. sync' = Idling
                  BY <1>2, <2>2 DEF PromoteLayer, Idling
            <3> QED  BY <3>1 DEF SyncInv
      <2>3. CASE sync \in Copying \cup Pruning \cup Opening
            <3>1. sync' = [sync EXCEPT !.clean = FALSE]
                  BY <1>2, <2>3 DEF PromoteLayer, Copying, Pruning, Opening
            <3>2. CASE sync \in Copying
                  <4>1. sync' \in Copying /\ sync'.clean = FALSE
                        BY <3>1, <3>2 DEF Copying
                  <4> QED  BY <4>1 DEF SyncInv
            <3>3. CASE sync \in Pruning
                  <4>1. sync' \in Pruning /\ sync'.clean = FALSE
                        BY <3>1, <3>3 DEF Pruning
                  <4> QED  BY <4>1 DEF SyncInv
            <3>4. CASE sync \in Opening
                  <4>1. sync' \in Opening /\ sync'.clean = FALSE
                        BY <3>1, <3>4 DEF Opening
                  <4> QED  BY <4>1 DEF SyncInv
            <3> QED  BY <2>3, <3>2, <3>3, <3>4
      <2>4. CASE /\ sync.pc = "write" /\ manifest = TornManifest
                 /\ sync = [pc |-> "write", listing |-> sync.listing, clean |-> sync.clean]
            <3>1. sync' = [sync EXCEPT !.clean = FALSE]
                  BY <1>2, <2>4 DEF PromoteLayer
            <3>2. sync' = [pc |-> "write", listing |-> sync.listing, clean |-> FALSE]
                  BY <2>4, <3>1
            <3>3. /\ sync'.pc = "write" /\ sync'.clean = FALSE
                  /\ sync' = [pc |-> "write", listing |-> sync'.listing, clean |-> sync'.clean]
                  BY <3>2
            <3> QED  BY <2>1, <2>4, <3>3 DEF SyncInv
      <2> QED  BY <2>2, <2>3, <2>4 DEF DrInv, SyncInv
<1>3. CASE SyncStart
      <2>1. live' = live /\ copy' = copy
            BY <1>3 DEF SyncStart, drWorld
      <2>2. CASE sync' = [pc |-> "copy", todo |-> Present(live), seen |-> {}, clean |-> TRUE]
            <3>1. Present(live) \subseteq Files /\ Present(live) \cup {} = Present(live)
                  BY DEF Present
            <3>2. sync' \in Copying /\ sync'.todo = Present(live) /\ sync'.seen = {}
                  BY <2>2, <3>1 DEF Copying
            <3> QED  BY <2>1, <3>1, <3>2 DEF SyncInv
      <2>3. CASE sync' = [pc |-> "manifest", clean |-> FALSE]
            <3>1. sync' \in Opening /\ sync'.clean = FALSE
                  BY <2>3 DEF Opening
            <3> QED  BY <3>1 DEF SyncInv
      <2> QED  BY <1>3, <2>2, <2>3 DEF SyncStart
<1>4. CASE CopyLayerFile
      <2>1. PICK f \in Walked(sync.todo) :
                \/ /\ copy' = IF live[f] = Absent THEN copy ELSE [copy EXCEPT ![f] = live[f]]
                   /\ sync' = [sync EXCEPT !.todo = @ \ {f}, !.seen = @ \cup {f}]
                \/ sync' = [sync EXCEPT !.todo = @ \ {f}, !.seen = @ \cup {f}, !.clean = FALSE]
            BY <1>4 DEF CopyLayerFile
      <2>2. /\ sync.pc = "copy" /\ live' = live /\ f \in sync.todo
            BY <1>4, <2>1 DEF CopyLayerFile, Walked, drWorld
      <2>3. /\ sync \in Copying
            /\ sync.clean => /\ sync.todo \cup sync.seen = Present(live)
                             /\ \A g \in sync.seen : copy[g] = live[g]
            BY <2>2 DEF DrInv, SyncInv, Idling, Pruning, Opening
      <2>4. CASE sync' = [sync EXCEPT !.todo = @ \ {f}, !.seen = @ \cup {f}, !.clean = FALSE]
            <3>1. sync' \in Copying /\ sync'.clean = FALSE
                  BY <2>2, <2>3, <2>4 DEF Copying
            <3> QED  BY <3>1 DEF SyncInv
      <2>5. CASE /\ copy' = IF live[f] = Absent THEN copy ELSE [copy EXCEPT ![f] = live[f]]
                 /\ sync' = [sync EXCEPT !.todo = @ \ {f}, !.seen = @ \cup {f}]
            <3>1. /\ sync' \in Copying /\ sync'.clean = sync.clean
                  /\ sync'.todo = sync.todo \ {f} /\ sync'.seen = sync.seen \cup {f}
                  BY <2>2, <2>3, <2>5 DEF Copying
            <3>2. ASSUME sync.clean
                  PROVE  /\ (sync.todo \ {f}) \cup (sync.seen \cup {f}) = Present(live)
                         /\ \A g \in sync.seen \cup {f} : copy'[g] = live[g]
                  <4>1. f \in Files /\ live[f] # Absent /\ sync.seen \subseteq Files
                        BY <2>2, <2>3, <3>2 DEF Present, Copying
                  <4>2. copy' = [copy EXCEPT ![f] = live[f]]
                        BY <2>5, <4>1
                  <4>3. copy'[f] = live[f] /\ \A g \in Files \ {f} : copy'[g] = copy[g]
                        BY <1>1, <4>1, <4>2
                  <4> QED  BY <2>2, <2>3, <3>2, <4>1, <4>3
            <3> QED  BY <2>2, <3>1, <3>2 DEF SyncInv
      <2> QED  BY <2>1, <2>4, <2>5
<1>5. CASE EndCopy
      <2>1. /\ sync.pc = "copy" /\ sync.todo = {} /\ live' = live /\ copy' = copy
            /\ sync' = [pc |-> "prune", seen |-> sync.seen, clean |-> sync.clean]
            BY <1>5 DEF EndCopy, Walked, drWorld
      <2>2. /\ sync \in Copying
            /\ sync.clean => /\ sync.todo \cup sync.seen = Present(live)
                             /\ \A g \in sync.seen : copy[g] = live[g]
            BY <2>1 DEF DrInv, SyncInv, Idling, Pruning, Opening
      <2>3. sync' \in Pruning /\ sync'.clean = sync.clean /\ sync'.seen = sync.seen
            BY <2>1, <2>2 DEF Copying, Pruning
      <2>4. sync.clean => sync.seen = Present(live)
            BY <2>1, <2>2
      <2> QED  BY <2>1, <2>2, <2>3, <2>4 DEF SyncInv
<1>6. ASSUME sync.pc = "prune"
      PROVE  /\ sync \in Pruning
             /\ sync.clean => /\ sync.seen = Present(live)
                              /\ \A g \in sync.seen : copy[g] = live[g]
      BY <1>6 DEF DrInv, SyncInv, Idling, Copying, Opening
<1>7. CASE PruneFile
      <2>1. PICK f \in Present(copy) \ sync.seen :
                \/ copy' = [copy EXCEPT ![f] = Absent] /\ sync' = sync
                \/ sync' = [pc |-> "manifest", clean |-> FALSE]
            BY <1>7 DEF PruneFile
      <2>2. sync.pc = "prune" /\ live' = live
            BY <1>7 DEF PruneFile, drWorld
      <2>3. CASE copy' = [copy EXCEPT ![f] = Absent] /\ sync' = sync
            <3>1. \A g \in sync.seen : g \in Files /\ g # f
                  BY <1>6, <2>1, <2>2 DEF Pruning
            <3>2. \A g \in sync.seen : copy'[g] = copy[g]
                  BY <1>1, <2>3, <3>1
            <3> QED  BY <1>6, <2>2, <2>3, <3>2 DEF SyncInv
      <2>4. CASE sync' = [pc |-> "manifest", clean |-> FALSE]
            <3>1. sync' \in Opening /\ sync'.clean = FALSE
                  BY <2>4 DEF Opening
            <3> QED  BY <3>1 DEF SyncInv
      <2> QED  BY <2>1, <2>3, <2>4
<1>8. CASE EndPrune
      <2>1. /\ sync.pc = "prune" /\ Present(copy) \subseteq sync.seen
            /\ sync' = [pc |-> "manifest", clean |-> sync.clean] /\ live' = live /\ copy' = copy
            BY <1>8 DEF EndPrune, drWorld
      <2>2. sync' \in Opening /\ sync'.clean = sync.clean
            BY <1>6, <2>1 DEF Pruning, Opening
      <2>3. ASSUME sync.clean PROVE copy = live
            <3>1. \A f \in Files : copy[f] = live[f]
                  <4> TAKE f \in Files
                  <4>1. CASE f \in sync.seen
                        BY <1>6, <2>1, <2>3, <4>1
                  <4>2. CASE f \notin sync.seen
                        BY <1>6, <2>1, <2>3, <4>2 DEF Present
                  <4> QED  BY <4>1, <4>2
            <3>2. copy = [f \in Files |-> copy[f]] /\ live = [f \in Files |-> live[f]]
                  BY <1>1
            <3> QED  BY <3>1, <3>2
      <2> QED  BY <2>1, <2>2, <2>3 DEF SyncInv
<1>9. CASE OpenManifest
      <2>1. /\ sync.pc = "manifest" /\ manifest' = TornManifest /\ copy' = copy
            /\ live' = live /\ archive' = archive
            BY <1>9 DEF OpenManifest, drWorld
      <2>2. sync \in Opening /\ (sync.clean => copy = live)
            BY <2>1 DEF DrInv, SyncInv, Idling, Copying, Pruning
      <2>3. \E l, b : /\ sync' = [pc |-> "write", listing |-> l, clean |-> b]
                      /\ b = FALSE \/ (b = sync.clean /\ l = Listing(copy, archive))
            BY <1>9 DEF OpenManifest
      <2>4. PICK l, b : /\ sync' = [pc |-> "write", listing |-> l, clean |-> b]
                        /\ b = FALSE \/ (b = sync.clean /\ l = Listing(copy, archive))
            BY <2>3
      <2>5. /\ sync'.pc = "write" /\ sync'.listing = l /\ sync'.clean = b
            /\ sync' = [pc |-> "write", listing |-> sync'.listing, clean |-> sync'.clean]
            BY <2>4
      <2>6. b \in BOOLEAN
            BY <2>2, <2>4 DEF Opening
      <2>7. b => copy = live /\ l = Listing(live, archive)
            BY <2>2, <2>4
      <2> QED  BY <2>1, <2>5, <2>6, <2>7 DEF SyncInv
<1>10. CASE sync' = Idling
       BY <1>10 DEF SyncInv
<1>11. CASE UNCHANGED <<sync, live, copy, archive, manifest>>
       BY <1>11 DEF DrInv, SyncInv
<1> QED  BY <1>2, <1>3, <1>4, <1>5, <1>7, <1>8, <1>9, <1>10, <1>11 DEF DrNext, MountDisk, PlugDisk,
            DrSync, WriteDrManifest, KillDr, FetchManifest, PutSignature, DrVerify, VerifyStart,
            HashFiles, Judge, drWorld

LEMMA DrTypesKept ==
    ASSUME DrInv, DrNext
    PROVE  DrTypeOK' /\ promoted' \in 1..MaxPromotions
<1>1. /\ live \in [Files -> 0..MaxPromotions] /\ copy \in [Files -> -1..MaxPromotions]
      /\ promoted \in 1..MaxPromotions /\ MaxPromotions \in Nat
      BY DrAssumption DEF DrInv, DrTypeOK
<1>2. live' \in [Files -> 0..MaxPromotions] /\ promoted' \in 1..MaxPromotions
      <2>1. CASE PromoteLayer
            <3>1. promoted' = promoted + 1 /\ promoted + 1 \in 1..MaxPromotions
                  BY <1>1, <2>1 DEF PromoteLayer
            <3>2. PICK gone \in SUBSET (Files \ Critical) :
                      live' = [f \in Files |-> IF f \in gone THEN Absent ELSE promoted + 1]
                  BY <2>1 DEF PromoteLayer
            <3>3. Absent \in 0..MaxPromotions /\ promoted + 1 \in 0..MaxPromotions
                  BY <1>1, <3>1 DEF Absent
            <3> QED  BY <3>1, <3>2, <3>3
      <2>2. CASE live' = live /\ promoted' = promoted
            BY <1>1, <2>2
      <2> QED  BY <2>1, <2>2 DEF DrNext, MountDisk, PlugDisk, DrSync, SyncStart, CopyLayerFile,
                  EndCopy, PruneFile, EndPrune, OpenManifest, WriteDrManifest, KillDr, FetchManifest,
                  PutSignature, DrVerify, VerifyStart, HashFiles, Judge, drWorld
<1>3. copy' \in [Files -> -1..MaxPromotions]
      <2>1. CASE CopyLayerFile
            <3>1. PICK f : copy' \in {copy, [copy EXCEPT ![f] = live[f]], [copy EXCEPT ![f] = Rotten]}
                           /\ f \in Walked(sync.todo) /\ sync.pc = "copy"
                  BY <2>1 DEF CopyLayerFile
            <3>2. f \in Files
                  BY <3>1 DEF DrInv, SyncInv, Walked, Idling, Copying, Pruning, Opening
            <3>3. live[f] \in -1..MaxPromotions /\ Rotten \in -1..MaxPromotions
                  BY <1>1, <3>2 DEF Rotten
            <3> QED  BY <1>1, <3>1, <3>2, <3>3
      <2>2. CASE PruneFile
            <3>1. PICK f \in Files : copy' \in {copy, [copy EXCEPT ![f] = Absent]}
                  BY <2>2 DEF PruneFile, Present
            <3>2. Absent \in -1..MaxPromotions
                  BY <1>1 DEF Absent
            <3> QED  BY <1>1, <3>1, <3>2
      <2>3. CASE copy' = copy
            BY <1>1, <2>3
      <2> QED  BY <2>1, <2>2, <2>3 DEF DrNext, PromoteLayer, MountDisk, PlugDisk, DrSync,
                  SyncStart, EndCopy, EndPrune, OpenManifest, WriteDrManifest, KillDr, FetchManifest,
                  PutSignature, DrVerify, VerifyStart, HashFiles, Judge
<1>4. mounted' => plugged'
      BY DEF DrInv, DrTypeOK, DrNext, PromoteLayer, MountDisk, PlugDisk, DrSync, SyncStart,
             CopyLayerFile, EndCopy, PruneFile, EndPrune, OpenManifest, WriteDrManifest, KillDr,
             FetchManifest, PutSignature, DrVerify, VerifyStart, HashFiles, Judge, drWorld
<1>5. ver'.pc \in {"idle", "hash", "judge"}
      <2>1. CASE VerifyStart
            BY <2>1 DEF VerifyStart, Verdict, Said
      <2>2. CASE HashFiles
            BY <2>2 DEF HashFiles, Said
      <2>3. CASE Judge
            BY <2>3 DEF Judge, Verdict, Said
      <2>4. CASE KillDr
            BY <2>4 DEF KillDr, Said, DrInv, DrTypeOK
      <2>5. CASE ver' = ver
            BY <2>5 DEF DrInv, DrTypeOK
      <2> QED  BY <2>1, <2>2, <2>3, <2>4, <2>5 DEF DrNext, PromoteLayer, MountDisk, PlugDisk,
                  DrSync, SyncStart, CopyLayerFile, EndCopy, PruneFile, EndPrune, OpenManifest,
                  WriteDrManifest, FetchManifest, PutSignature, DrVerify
<1>6. sync'.pc \in {"idle", "copy", "prune", "manifest", "write"}
      BY SyncKept DEF SyncInv, Copying, Pruning, Opening, Idling
<1>7. archive' \subseteq Files \X (-1..MaxPromotions)
      <2>1. archive \subseteq Files \X (-1..MaxPromotions)
            BY DEF DrInv, DrTypeOK
      <2>2. CASE PruneFile
            <3>1. PICK f \in Files : archive' \in {archive, archive \cup {<<f, copy[f]>>}}
                  BY <2>2 DEF PruneFile, Present
            <3>2. copy[f] \in -1..MaxPromotions
                  BY <1>1
            <3> QED  BY <2>1, <3>1, <3>2
      <2>3. CASE archive' = archive
            BY <2>1, <2>3
      <2> QED  BY <2>2, <2>3 DEF DrNext, PromoteLayer, MountDisk, PlugDisk, DrSync,
                  SyncStart, CopyLayerFile, EndCopy, EndPrune, OpenManifest, WriteDrManifest, KillDr,
                  FetchManifest, PutSignature, DrVerify, VerifyStart, HashFiles, Judge
<1> QED  BY <1>2, <1>3, <1>4, <1>5, <1>6, <1>7 DEF DrTypeOK

LEMMA DrInvHolds == Spec => []DrInv
<1>1. Init => DrInv
      <2> SUFFICES ASSUME DrInit PROVE DrInv
          BY DEF Init
      <2> QED  BY DrAssumption DEF DrInit, DrInv, DrTypeOK, SyncInv, Absent, Idling, Said
<1>2. DrInv /\ [Next]_vars => DrInv'
      <2> SUFFICES ASSUME DrInv, [Next]_vars PROVE DrInv'
          OBVIOUS
      <2>1. CASE DrNext
            BY <2>1, DrTypesKept, SyncKept DEF DrInv
      <2>2. CASE UNCHANGED drVars
            BY <2>2 DEF DrInv, DrTypeOK, SyncInv, drVars, drWorld, drMaster
      <2> QED  BY <2>1, <2>2, PartSteps
<1> QED  BY <1>1, <1>2, PTL DEF Spec

\* What dr_sync completes while the layer rests and nothing fails is the layer
\* as it is, and the manifest lists exactly that and the archive: for every
\* layer, and however many syncs were killed, failed or overtaken before.
THEOREM CleanSyncsCopyTheLayer == Spec => SyncedIsLive
<1>1. DrInv /\ [Next]_vars =>
          [sync.pc = "write" /\ manifest'.kind = "whole" /\ sync.clean =>
              copy' = live' /\ manifest' = Listing(live', archive')]_drVars
      <2> SUFFICES ASSUME DrInv, DrNext, sync.pc = "write", manifest'.kind = "whole", sync.clean
                   PROVE  copy' = live' /\ manifest' = Listing(live', archive')
          BY PartSteps
      <2>1. manifest = TornManifest /\ copy = live /\ sync.listing = Listing(live, archive)
            BY DEF DrInv, SyncInv, Idling, Copying, Pruning, Opening
      <2>2. manifest.kind = "torn"
            BY <2>1 DEF TornManifest, NoManifest
      <2>3. manifest' # manifest
            BY <2>2
      <2>4. WriteDrManifest
            BY <2>3 DEF DrNext, PromoteLayer, MountDisk, PlugDisk, DrSync, SyncStart, CopyLayerFile,
               EndCopy, PruneFile, EndPrune, OpenManifest, KillDr, FetchManifest, PutSignature,
               DrVerify, VerifyStart, HashFiles, Judge
      <2> QED  BY <2>1, <2>4 DEF WriteDrManifest, drWorld
<1> QED  BY <1>1, DrInvHolds, PTL DEF Spec, SyncedIsLive

-----------------------------------------------------------------------------
\* The replica on another node.
LEMMA OriginKept ==
    ASSUME RepInv, ReplicaNext
    PROVE  /\ main' \in Layers /\ goal' \in Layers
           /\ layers' \subseteq Layers /\ IsFiniteSet(layers') /\ originMan' \in layers'
           /\ layers \subseteq layers'
<1>1. /\ main \in Layers /\ goal \in Layers /\ layers \subseteq Layers
      /\ IsFiniteSet(layers) /\ originMan \in layers
      BY DEF RepInv, ReplicaTypeOK, Layers
<1>2. CASE StartVersion
      <2>1. /\ Cardinality(layers) < MaxVersions
            /\ main' = main /\ layers' = layers /\ originMan' = originMan
            BY <1>2 DEF StartVersion
      <2>2. PICK gone \in SUBSET Optional :
                goal' = [f \in BundleFiles |->
                            IF f \in gone THEN NoFile ELSE Cardinality(layers) + 1]
            BY <1>2 DEF StartVersion
      <2>3. Cardinality(layers) + 1 \in 0..MaxVersions /\ NoFile \in 0..MaxVersions
            <3>1. Cardinality(layers) \in Nat /\ MaxVersions \in Nat
                  BY <1>1, FS_CardinalityType, ReplicaAssumption
            <3> QED  BY <2>1, <3>1 DEF NoFile
      <2> QED  BY <1>1, <2>1, <2>2, <2>3 DEF Layers
<1>3. CASE PromoteFile
      <2>1. PICK f \in BundleFiles : main' = [main EXCEPT ![f] = goal[f]]
            BY <1>3 DEF PromoteFile
      <2>2. main' \in Layers
            BY <1>1, <2>1 DEF Layers
      <2> QED  BY <1>1, <1>3, <2>2 DEF PromoteFile
<1>4. CASE WriteOriginManifest
      <2>1. originMan' = main /\ layers' = layers \cup {main} /\ main' = main /\ goal' = goal
            BY <1>4 DEF WriteOriginManifest
      <2> QED  BY <1>1, <2>1, FS_AddElement
<1>5. CASE UNCHANGED repOrigin
      BY <1>1, <1>5 DEF repOrigin
<1> QED  BY <1>2, <1>3, <1>4, <1>5 DEF ReplicaNext, ReplicaStep, Fetch, PackFile, ExtractFile, Install,
            CopyToTmp, RemoveOld, EndRemove, RenameNew, TransferBreaks, KillReplicate

LEMMA InboxKept ==
    ASSUME RepInv, ReplicaNext
    PROVE  /\ wire' \in Layers /\ inbox' \in [BundleFiles -> -1..MaxVersions]
           /\ inboxMan' \in layers' \cup {NoMan}
           /\ \A f \in BundleFiles : inbox'[f] = NoFile => inbox[f] = NoFile
<1>1. /\ main \in Layers /\ wire \in Layers /\ inbox \in [BundleFiles -> -1..MaxVersions]
      /\ inboxMan \in layers \cup {NoMan} /\ MaxVersions \in Nat
      BY ReplicaAssumption DEF RepInv, ReplicaTypeOK, Layers
<1>2. layers \subseteq layers'
      BY OriginKept
<1>3. wire' \in Layers
      <2>1. CASE Fetch
            BY <1>1, <2>1 DEF Fetch, Nothing, NoFile, Layers
      <2>2. CASE PackFile
            <3>1. PICK f : wire' = [wire EXCEPT ![f] = main[f]]
                  BY <2>2 DEF PackFile
            <3> QED  BY <1>1, <3>1 DEF Layers
      <2>3. CASE wire' = wire
            BY <1>1, <2>3
      <2> QED  BY <2>1, <2>2, <2>3 DEF ReplicaNext, StartVersion, PromoteFile, WriteOriginManifest,
                  ReplicaStep, ExtractFile, Install, CopyToTmp, RemoveOld, EndRemove, RenameNew,
                  TransferBreaks, KillReplicate
<1>4. /\ inbox' \in [BundleFiles -> -1..MaxVersions]
      /\ \A f \in BundleFiles : inbox'[f] = NoFile => inbox[f] = NoFile
      <2>1. CASE ExtractFile
            <3>1. PICK f : \/ inbox' = IF wire[f] = NoFile THEN inbox ELSE [inbox EXCEPT ![f] = wire[f]]
                           \/ inbox' = [inbox EXCEPT ![f] = Corrupt]
                  BY <2>1 DEF ExtractFile
            <3>2. f \in BundleFiles => wire[f] \in -1..MaxVersions
                  BY <1>1 DEF Layers
            <3>3. Corrupt \in -1..MaxVersions /\ Corrupt # NoFile
                  BY <1>1 DEF Corrupt, NoFile
            <3>4. CASE inbox' = inbox
                  BY <1>1, <3>4
            <3>5. CASE wire[f] # NoFile /\ inbox' = [inbox EXCEPT ![f] = wire[f]]
                  BY <1>1, <3>2, <3>5
            <3>6. CASE inbox' = [inbox EXCEPT ![f] = Corrupt]
                  BY <1>1, <3>3, <3>6
            <3> QED  BY <3>1, <3>4, <3>5, <3>6
      <2>2. CASE inbox' = inbox
            BY <1>1, <2>2
      <2> QED  BY <2>1, <2>2 DEF ReplicaNext, StartVersion, PromoteFile, WriteOriginManifest,
                  ReplicaStep, Fetch, PackFile, Install, CopyToTmp, RemoveOld, EndRemove, RenameNew,
                  TransferBreaks, KillReplicate, repInbox
<1>5. inboxMan' \in layers' \cup {NoMan}
      <2>1. CASE PackFile
            <3>1. op.man \in layers
                  BY <2>1 DEF PackFile, RepInv, OpInv, Resting
            <3> QED  BY <1>1, <1>2, <2>1, <3>1 DEF PackFile
      <2>2. CASE inboxMan' = inboxMan
            BY <1>1, <1>2, <2>2
      <2> QED  BY <2>1, <2>2 DEF ReplicaNext, StartVersion, PromoteFile, WriteOriginManifest,
                  ReplicaStep, Fetch, ExtractFile, Install, CopyToTmp, RemoveOld, EndRemove, RenameNew,
                  TransferBreaks, KillReplicate, repInbox
<1> QED  BY <1>3, <1>4, <1>5

LEMMA DirsKept ==
    ASSUME RepInv, ReplicaNext
    PROVE  {tmp', replica'} \subseteq [BundleFiles -> -2..MaxVersions] /\ TmpInv'
<1>1. /\ inbox \in [BundleFiles -> -1..MaxVersions] /\ MaxVersions \in Nat
      /\ tmp \in [BundleFiles -> -2..MaxVersions] /\ replica \in [BundleFiles -> -2..MaxVersions]
      /\ NoDir \in [BundleFiles -> -2..MaxVersions] /\ NoFile \in -2..MaxVersions
      /\ \A f \in BundleFiles : inbox[f] = NoFile => tmp[f] \in {NoFile, -2}
      BY ReplicaAssumption DEF RepInv, ReplicaTypeOK, NoDir, NoFile, TmpInv, Held
<1>2. \A f \in BundleFiles : inbox'[f] = NoFile => inbox[f] = NoFile
      BY InboxKept
<1>3. /\ tmp' \in [BundleFiles -> -2..MaxVersions]
      /\ \A f \in BundleFiles : inbox[f] = NoFile => tmp'[f] \in {NoFile, -2}
      <2>1. CASE CopyToTmp
            <3>1. PICK f : tmp' = IF inbox[f] = NoFile THEN tmp ELSE [tmp EXCEPT ![f] = inbox[f]]
                  BY <2>1 DEF CopyToTmp
            <3>2. f \in BundleFiles => inbox[f] \in -2..MaxVersions
                  BY <1>1
            <3>3. CASE tmp' = tmp
                  BY <1>1, <3>3
            <3>4. CASE inbox[f] # NoFile /\ tmp' = [tmp EXCEPT ![f] = inbox[f]]
                  BY <1>1, <3>2, <3>4
            <3> QED  BY <3>1, <3>3, <3>4
      <2>2. CASE Install
            <3>1. CASE tmp' = tmp
                  BY <1>1, <3>1
            <3>2. ASSUME NEW stay \in SUBSET Held(tmp),
                         tmp' = [f \in BundleFiles |-> IF f \in stay THEN tmp[f] ELSE NoFile]
                  PROVE  /\ tmp' \in [BundleFiles -> -2..MaxVersions]
                         /\ \A f \in BundleFiles : inbox[f] = NoFile => tmp'[f] \in {NoFile, -2}
                  BY <1>1, <3>2
            <3> QED  BY <2>2, <3>1, <3>2 DEF Install
      <2>3. CASE tmp' = NoDir
            BY <1>1, <2>3 DEF NoDir
      <2>4. CASE tmp' = tmp
            BY <1>1, <2>4
      <2> QED  BY <2>1, <2>2, <2>3, <2>4 DEF ReplicaNext, StartVersion, PromoteFile, WriteOriginManifest,
                  ReplicaStep, Fetch, PackFile, ExtractFile, RemoveOld, EndRemove, RenameNew,
                  TransferBreaks, KillReplicate
<1>4. replica' \in [BundleFiles -> -2..MaxVersions]
      <2>1. CASE RemoveOld
            <3>1. PICK f : replica' \in {replica, [replica EXCEPT ![f] = NoFile]}
                  BY <2>1 DEF RemoveOld
            <3> QED  BY <1>1, <3>1
      <2>2. CASE replica' \in {replica, tmp, NoDir}
            BY <1>1, <2>2
      <2> QED  BY <2>1, <2>2 DEF ReplicaNext, StartVersion, PromoteFile, WriteOriginManifest,
                  ReplicaStep, Fetch, PackFile, ExtractFile, Install, CopyToTmp, EndRemove, RenameNew,
                  TransferBreaks, KillReplicate
<1>5. TmpInv'
      BY <1>2, <1>3 DEF TmpInv, Held
<1> QED  BY <1>3, <1>4, <1>5

LEMMA OpKept ==
    ASSUME RepInv, ReplicaNext
    PROVE  OpInv'
<1>1. layers \subseteq layers' /\ originMan \in layers
      BY OriginKept DEF RepInv
<1>2. CASE Fetch
      BY <1>1, <1>2 DEF Fetch, repOrigin, OpInv
<1>3. CASE PackFile
      <2>1. op = [pc |-> "pack", todo |-> op.todo, man |-> op.man] /\ op.man \in layers
            BY <1>3 DEF PackFile, RepInv, OpInv, Resting
      <2>2. PICK f : \/ op' = [pc |-> "extract", todo |-> BundleFiles]
                     \/ op' = [op EXCEPT !.todo = @ \ {f}]
            BY <1>3 DEF PackFile
      <2>3. CASE op' = [op EXCEPT !.todo = @ \ {f}]
            <3>1. PICK t, m : op = [pc |-> "pack", todo |-> t, man |-> m] /\ m \in layers
                  BY <2>1
            <3>2. op' = [pc |-> "pack", todo |-> t \ {f}, man |-> m]
                  BY <2>3, <3>1
            <3>3. op'.pc = "pack" /\ op'.man \in layers
                  BY <3>1, <3>2
            <3>4. op' = [pc |-> "pack", todo |-> op'.todo, man |-> op'.man]
                  BY <3>2
            <3> QED  BY <1>1, <3>3, <3>4 DEF OpInv
      <2> QED  BY <2>2, <2>3 DEF OpInv
<1>4. CASE ExtractFile
      <2>1. op = [pc |-> "extract", todo |-> op.todo]
            BY <1>4 DEF ExtractFile, RepInv, OpInv, Resting
      <2>2. PICK f : op' = [pc |-> "verify"] \/ op' = [op EXCEPT !.todo = @ \ {f}]
            BY <1>4 DEF ExtractFile
      <2>3. CASE op' = [op EXCEPT !.todo = @ \ {f}]
            <3>1. \A t : [[pc |-> "extract", todo |-> t] EXCEPT !.todo = @ \ {f}]
                               = [pc |-> "extract", todo |-> t \ {f}]
                  OBVIOUS
            <3>2. op' = [pc |-> "extract", todo |-> op.todo \ {f}]
                  BY <2>1, <2>3, <3>1, Zenon
            <3> QED  BY <3>2 DEF OpInv
      <2> QED  BY <2>2, <2>3 DEF OpInv
<1>5. CASE Install
      <2>1. /\ inbox' = inbox /\ inboxMan' = inboxMan /\ layers' = layers
            BY <1>5 DEF Install, repInbox, repOrigin
      <2>2. CASE VerifyBundle(inbox, inboxMan)
            <3>1. PICK stay \in SUBSET Held(tmp) :
                      /\ op' = [pc |-> "copy", todo |-> BundleFiles]
                      /\ tmp' = [f \in BundleFiles |-> IF f \in stay THEN tmp[f] ELSE NoFile]
                  BY <1>5, <2>2 DEF Install
            <3>2. /\ inboxMan \in layers /\ layers \subseteq Layers
                  /\ inbox \in [BundleFiles -> -1..MaxVersions]
                  /\ \A f \in BundleFiles : inbox[f] = inboxMan[f]
                  BY <2>2 DEF VerifyBundle, RepInv, ReplicaTypeOK
            <3>3. inbox = inboxMan
                  <4>1. inboxMan = [f \in BundleFiles |-> inboxMan[f]]
                        BY <3>2 DEF Layers
                  <4>2. inbox = [f \in BundleFiles |-> inbox[f]]
                        BY <3>2
                  <4> QED  BY <3>2, <4>1, <4>2
            <3>4. \A f \in BundleFiles : inbox[f] = NoFile => f \notin stay
                  BY <3>1 DEF RepInv, TmpInv
            <3>5. \A f \in BundleFiles : inbox[f] = NoFile => tmp'[f] = NoFile
                  BY <3>1, <3>4
            <3>6. op'.pc = "copy" /\ op'.todo = BundleFiles /\ op' = [pc |-> "copy", todo |-> op'.todo]
                  BY <3>1
            <3> QED  BY <2>1, <3>2, <3>3, <3>5, <3>6 DEF OpInv
      <2>3. CASE ~VerifyBundle(inbox, inboxMan)
            BY <1>5, <2>3 DEF Install, OpInv
      <2> QED  BY <2>2, <2>3
<1>6. CASE CopyToTmp
      <2>1. /\ op = [pc |-> "copy", todo |-> op.todo]
            /\ inbox = inboxMan /\ inboxMan \in layers /\ layers \subseteq Layers
            /\ \A f \in BundleFiles :
                  \/ tmp[f] = inbox[f]
                  \/ f \in op.todo /\ (inbox[f] = NoFile => tmp[f] = NoFile)
            /\ tmp \in [BundleFiles -> -2..MaxVersions]
            BY <1>6 DEF CopyToTmp, RepInv, OpInv, Resting
      <2>2. PICK f \in op.todo :
                /\ tmp' = IF inbox[f] = NoFile THEN tmp ELSE [tmp EXCEPT ![f] = inbox[f]]
                /\ IF op.todo = {f} THEN op' = [pc |-> "swap"] /\ tmpMan' = inboxMan
                   ELSE op' = [op EXCEPT !.todo = @ \ {f}] /\ UNCHANGED tmpMan
            BY <1>6 DEF CopyToTmp
      <2>3. inbox' = inbox /\ inboxMan' = inboxMan /\ layers' = layers
            BY <1>6 DEF CopyToTmp, repInbox, repOrigin
      <2>4. ASSUME NEW g \in BundleFiles
            PROVE  /\ g = f => tmp'[g] = inbox[g]
                   /\ g # f => tmp'[g] = tmp[g]
            <3>1. CASE inbox[f] = NoFile
                  <4>1. tmp' = tmp
                        BY <2>2, <3>1
                  <4>2. g = f => tmp[g] = inbox[g]
                        BY <2>1, <3>1
                  <4> QED  BY <4>1, <4>2
            <3>2. CASE inbox[f] # NoFile
                  <4>1. tmp' = [tmp EXCEPT ![f] = inbox[f]]
                        BY <2>2, <3>2
                  <4> QED  BY <2>1, <4>1
            <3> QED  BY <3>1, <3>2
      <2>5. CASE op.todo = {f}
            <3>1. tmp' = inbox
                  <4>1. \A g \in BundleFiles : tmp'[g] = inbox[g]
                        BY <2>1, <2>4, <2>5
                  <4>2. tmp' = [g \in BundleFiles |-> tmp'[g]]
                        <5>1. CASE tmp' = tmp
                              BY <2>1, <5>1
                        <5>2. CASE tmp' = [tmp EXCEPT ![f] = inbox[f]]
                              BY <2>1, <5>2
                        <5> QED  BY <2>2, <5>1, <5>2
                  <4>3. inbox = [g \in BundleFiles |-> inbox[g]]
                        BY <2>1 DEF Layers
                  <4> QED  BY <4>1, <4>2, <4>3
            <3>2. op' = [pc |-> "swap"] /\ tmpMan' = inboxMan
                  BY <2>2, <2>5
            <3>3. op'.pc = "swap" /\ op' = [pc |-> op'.pc] /\ tmp' \in layers' /\ tmpMan' = tmp'
                  BY <2>1, <2>3, <3>1, <3>2
            <3> QED  BY <3>3 DEF OpInv
      <2>6. CASE op.todo # {f}
            <3>1. \A t : [[pc |-> "copy", todo |-> t] EXCEPT !.todo = @ \ {f}]
                               = [pc |-> "copy", todo |-> t \ {f}]
                  OBVIOUS
            <3>2. op' = [op EXCEPT !.todo = @ \ {f}]
                  BY <2>2, <2>6
            <3>3. op' = [pc |-> "copy", todo |-> op.todo \ {f}]
                  BY <2>1, <3>1, <3>2, Zenon
            <3>4. op'.pc = "copy" /\ op'.todo = op.todo \ {f} /\ op' = [pc |-> "copy", todo |-> op'.todo]
                  BY <3>3
            <3>5. \A g \in BundleFiles :
                     \/ tmp'[g] = inbox[g]
                     \/ g \in op.todo \ {f} /\ (inbox[g] = NoFile => tmp'[g] = NoFile)
                  BY <2>1, <2>4
            <3> QED  BY <2>1, <2>3, <3>4, <3>5 DEF OpInv
      <2> QED  BY <2>5, <2>6
<1>7. CASE RemoveOld \/ EndRemove
      <2>1. op.pc = "swap" /\ op = [pc |-> "swap"] /\ tmp \in layers /\ tmpMan = tmp
            BY <1>7 DEF RemoveOld, EndRemove, RepInv, OpInv, Resting
      <2>2. op' \in {op, [pc |-> "rename"]} /\ tmp' = tmp /\ tmpMan' = tmpMan
            BY <1>7 DEF RemoveOld, EndRemove
      <2>3. op'.pc \in {"swap", "rename"} /\ op' = [pc |-> op'.pc]
            BY <2>1, <2>2
      <2> QED  BY <1>1, <2>1, <2>2, <2>3 DEF OpInv
<1>8. CASE op' = Resting
      BY <1>8 DEF OpInv
<1>9. CASE UNCHANGED <<op, inbox, inboxMan, tmp, tmpMan>>
      BY <1>1, <1>9 DEF RepInv, OpInv
<1> QED  BY <1>2, <1>3, <1>4, <1>5, <1>6, <1>7, <1>8, <1>9 DEF ReplicaNext, StartVersion, PromoteFile,
            WriteOriginManifest, ReplicaStep, RenameNew, TransferBreaks, KillReplicate, repInbox

LEMMA RepKept ==
    ASSUME RepInv, ReplicaNext
    PROVE  RepInv'
<1>1. OldInv'
      <2>1. CASE RenameNew
            <3>1. CASE replica = NoDir
                  <4>1. tmp \in layers /\ tmpMan = tmp /\ replica' = tmp /\ replicaMan' = tmpMan
                        BY <2>1, <3>1 DEF RenameNew, RepInv, OpInv, Resting
                  <4> QED  BY <4>1, OriginKept DEF OldInv
            <3>2. CASE replica # NoDir
                  <4>1. replica' = replica /\ replicaMan' = replicaMan
                        BY <2>1, <3>2 DEF RenameNew
                  <4> QED  BY <3>2, <4>1, OriginKept DEF RepInv, OldInv
            <3> QED  BY <3>1, <3>2
      <2>2. CASE RemoveOld
            <3>1. replica # NoDir /\ layers' = layers /\ replica \in [BundleFiles -> -2..MaxVersions]
                  BY <2>2 DEF RemoveOld, repOrigin, RepInv
            <3>2. PICK l \in layers : /\ \A f \in BundleFiles : replica[f] \in {NoFile, l[f]}
                                      /\ replicaMan \in {NoMan, l}
                  BY <3>1 DEF RepInv, OldInv
            <3>3. replicaMan' \in {NoMan, l}
                  BY <2>2, <3>2 DEF RemoveOld
            <3>4. \A f \in BundleFiles : replica'[f] \in {NoFile, replica[f]}
                  <4>1. PICK g : replica' \in {replica, [replica EXCEPT ![g] = NoFile]}
                        BY <2>2 DEF RemoveOld
                  <4> QED  BY <3>1, <4>1
            <3> QED  BY <3>1, <3>2, <3>3, <3>4 DEF OldInv
      <2>3. CASE replica' = NoDir
            BY <2>3 DEF OldInv, NoDir
      <2>4. CASE replica' = replica /\ replicaMan' = replicaMan
            BY <2>4, OriginKept DEF RepInv, OldInv, NoDir, NoMan
      <2> QED  BY <2>1, <2>2, <2>3, <2>4 DEF ReplicaNext, StartVersion, PromoteFile, WriteOriginManifest,
                  ReplicaStep, Fetch, PackFile, ExtractFile, Install, CopyToTmp, EndRemove,
                  TransferBreaks, KillReplicate
<1>2. op'.pc \in {"idle", "pack", "extract", "verify", "copy", "swap", "rename"}
      BY OpKept DEF OpInv, Resting
<1> QED  BY <1>1, <1>2, OriginKept, InboxKept, DirsKept, OpKept DEF RepInv, ReplicaTypeOK, Layers

LEMMA RepInvHolds == Spec => []RepInv
<1>1. Init => RepInv
      <2> SUFFICES ASSUME ReplicaInit PROVE RepInv
          BY DEF Init
      <2>1. main \in Layers /\ goal = main /\ originMan = main /\ layers = {main}
            BY ReplicaAssumption DEF ReplicaInit, Layers
      <2>2. IsFiniteSet(layers)
            BY <2>1, FS_Singleton
      <2>3. wire \in Layers /\ inbox \in [BundleFiles -> -1..MaxVersions]
            BY ReplicaAssumption DEF ReplicaInit, Layers, Nothing, NoFile
      <2>4. tmp = NoDir /\ replica = NoDir /\ NoDir \in [BundleFiles -> -2..MaxVersions]
            BY ReplicaAssumption DEF ReplicaInit, NoDir
      <2>5. TmpInv /\ OldInv
            BY <2>4 DEF TmpInv, Held, NoDir, OldInv
      <2> QED  BY <2>1, <2>2, <2>3, <2>4, <2>5 DEF ReplicaInit, RepInv, ReplicaTypeOK, Layers, OpInv,
                  Resting
<1>2. RepInv /\ [Next]_vars => RepInv'
      <2> SUFFICES ASSUME RepInv, UNCHANGED repVars PROVE RepInv'
          BY RepKept, PartSteps
      <2> QED  BY DEF RepInv, ReplicaTypeOK, OpInv, TmpInv, Held, OldInv, NoDir, NoMan, repVars, repOrigin,
                  repInbox
<1> QED  BY <1>1, <1>2, PTL DEF Spec

LEMMA OneLayer ==
    ASSUME RepInv
    PROVE  ReplicaIsOneLayer
<1> SUFFICES ASSUME replica # NoDir
             PROVE  \E l \in layers : /\ \A f \in BundleFiles : replica[f] \in {NoFile, l[f]}
                                      /\ VerifyBundle(replica, replicaMan) => replica = l
    BY DEF ReplicaIsOneLayer
<1>1. PICK l \in layers : /\ \A f \in BundleFiles : replica[f] \in {NoFile, l[f]}
                          /\ replicaMan \in {NoMan, l}
      BY DEF RepInv, OldInv
<1>2. ASSUME VerifyBundle(replica, replicaMan) PROVE replica = l
      <2>1. \A f \in BundleFiles : replica[f] = l[f]
            BY <1>1, <1>2 DEF VerifyBundle
      <2>2. /\ replica = [f \in BundleFiles |-> replica[f]] /\ l = [f \in BundleFiles |-> l[f]]
            BY <1>1 DEF RepInv, Layers
      <2> QED  BY <2>1, <2>2
<1> QED  BY <1>1, <1>2

-----------------------------------------------------------------------------
\* The link.
LEMMA ReadKept ==
    ASSUME LinkInv, LinkNext
    PROVE  /\ ReadInv'
           /\ peers' \subseteq {"unsigned", "signed"}
           /\ peerCfg' \in {"none", "unsigned", "signed"}
           /\ "unsigned" \in peers' => swapped'
<1> USE DEF LinkInv, LinkTypeOK, LinkFailClosed, ReadInv
<1>1. CASE ChangePeers
      <2>1. cfg' \in {"unsigned", "signed"} /\ swapped' = (swapped \/ linkPc = "load")
            BY <1>1 DEF ChangePeers
      <2>2. linkPc' = linkPc /\ peerCfg' = peerCfg /\ peers' = peers
            BY <1>1 DEF ChangePeers, linkKernel
      <2> QED  BY <2>1, <2>2
<1>2. CASE VerifyPeers
      BY <1>2 DEF VerifyPeers, Goto
<1>3. CASE LoadPeers
      BY <1>3 DEF LoadPeers, Goto, linkKernel
<1>4. CASE ApplyPeers
      BY <1>4 DEF ApplyPeers, Goto, linkRead
<1>5. CASE LinkNext /\ ~ChangePeers /\ ~VerifyPeers /\ ~LoadPeers /\ ~ApplyPeers
      <2>1. cfg' = cfg /\ swapped' = swapped /\ peerCfg' = peerCfg /\ peers' \in {peers, {}}
            BY <1>5 DEF LinkNext, LinkRun, StartLink, LoadModule, ModulesDone, RaiseMesh,
               CreateKey, WriteKey, CreatePub, WritePub, MakeIface, ReportLink, KillLink,
               Reboot, linkRead, linkKernel
      <2>2. linkPc' # "load" \/ linkPc' = linkPc
            BY <1>5 DEF LinkNext, LinkRun, StartLink, LoadModule, ModulesDone, RaiseMesh,
               CreateKey, WriteKey, CreatePub, WritePub, MakeIface, ReportLink, KillLink,
               Reboot, Goto, Report
      <2> QED  BY <2>1, <2>2
<1> QED  BY <1>1, <1>2, <1>3, <1>4, <1>5

LEMMA LinkKept ==
    ASSUME LinkInv, LinkNext
    PROVE  LinkInv'
<1> USE DEF LinkNext, LinkRun, StartLink, LoadModule, ModulesDone, RaiseMesh, CreateKey, WriteKey,
            CreatePub, WritePub, VerifyPeers, LoadPeers, MakeIface, ApplyPeers, ReportLink,
            KillLink, Reboot, ChangePeers, Goto, Report, linkEnv, linkKernel, linkKeys
<1>1. loaded' \subseteq Mods /\ \A i \in loaded' : modSigned'[i]
      <2>1. CASE LoadModule
            <3>1. PICK i \in Mods : CanLoad(i) /\ loaded' = loaded \cup {i} /\ modSigned' = modSigned
                  BY <2>1
            <3> QED  BY <3>1 DEF CanLoad, LinkInv, LinkTypeOK, LinkFailClosed
      <2>2. CASE loaded' \in {loaded, {}} /\ modSigned' = modSigned
            BY <2>2 DEF LinkInv, LinkTypeOK, LinkFailClosed
      <2> QED  BY <2>1, <2>2
<1>2. {key', pub'} \subseteq {"none", "empty", "ok"}
      BY DEF LinkInv, LinkTypeOK
<1>3. linkState' \in Ready \cup Blocked \cup {"none"}
      BY DEF LinkInv, LinkTypeOK, Ready, Blocked
<1>4. linkPc' \in {"idle", "modules", "wg0", "key", "keyfile", "pub", "pubfile",
                   "verify", "load", "iface", "peers", "status"}
      BY DEF LinkInv, LinkTypeOK
<1>5. linkPc' # "idle" => toolSigned'
      BY DEF LinkInv
<1>6. linkPc' \notin {"idle", "modules"} => NModules \in loaded'
      BY DEF LinkInv
<1>7. pub' # "none" \/ linkPc' \in {"pubfile", "verify", "load", "iface", "peers", "status"}
         => key' = "ok"
      BY DEF LinkInv, LinkTypeOK
<1>8. linkPc' \in {"peers", "status"} => iface'
      BY DEF LinkInv
<1>9. wg0' => psk' # "declared" /\ toolSigned'
      <2>1. CASE RaiseMesh
            BY <2>1 DEF LinkInv, LinkFailClosed, MayRaise
      <2>2. CASE wg0' = wg0 \/ wg0' = FALSE
            BY <2>2 DEF LinkInv, LinkFailClosed
      <2> QED  BY <2>1, <2>2
<1>10. peers' # {} => iface' /\ NModules \in loaded' /\ key' = "ok"
      BY DEF LinkInv, LinkFailClosed
<1>11. ReadInv' /\ peers' \subseteq {"unsigned", "signed"}
       /\ peerCfg' \in {"none", "unsigned", "signed"} /\ ("unsigned" \in peers' => swapped')
      BY ReadKept
<1>12. LinkTypeOK'
      BY <1>1, <1>2, <1>3, <1>4, <1>11 DEF LinkTypeOK, Mods, Ready, Blocked
<1>13. LinkFailClosed'
      BY <1>1, <1>9, <1>10, <1>11 DEF LinkFailClosed
<1> QED  BY <1>5, <1>6, <1>7, <1>8, <1>11, <1>12, <1>13 DEF LinkInv

LEMMA LinkInvHolds == Spec => []LinkInv
<1>1. Init => LinkInv
      BY DEF Init, LinkInit, LinkInv, LinkTypeOK, LinkFailClosed, ReadInv
<1>2. LinkInv /\ [Next]_vars => LinkInv'
      <2> SUFFICES ASSUME LinkInv, UNCHANGED linkVars PROVE LinkInv'
          BY LinkKept, PartSteps
      <2> QED  BY DEF LinkInv, LinkTypeOK, LinkFailClosed, ReadInv, linkVars, linkEnv, linkKernel,
                  linkKeys, linkRead
<1> QED  BY <1>1, <1>2, PTL DEF Spec

-----------------------------------------------------------------------------
\* Nothing is installed, loaded or linked that was not verified: a replica
\* holds files of one promoted layer only and verifies only if it is the whole
\* of it, a module in the kernel has its signature, the mesh has the key it
\* asks for, and no peer of an unsigned file is applied unless that file was
\* put in the place of a signed one between the check and the reading of it;
\* for every layer and every bundle of modules.
THEOREM OnlyVerifiedIsUsed == Spec => []NothingUnverified
<1>1. LogInv => SealedLogTypeOK
      BY LogTypesAre
<1>2. DrInv => DrTypeOK
      BY DEF DrInv
<1>3. RepInv => ReplicaTypeOK /\ ReplicaIsOneLayer
      BY OneLayer DEF RepInv
<1>4. LinkInv => LinkTypeOK /\ LinkFailClosed
      BY DEF LinkInv
<1> QED  BY <1>1, <1>2, <1>3, <1>4, LogInvHolds, DrInvHolds, RepInvHolds, LinkInvHolds, PTL
         DEF NothingUnverified
=============================================================================
