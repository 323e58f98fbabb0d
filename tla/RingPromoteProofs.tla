------------------------- MODULE RingPromoteProofs -------------------------
(***************************************************************************)
(* Theorems about the promotion, for every layer, every set of versions    *)
(* and every number of commands, bad copies, deliveries and crashes.       *)
(*                                                                         *)
(* The argument: between the check that accepts MAIN and the record no     *)
(* step writes MAIN, and an initialisation, which records MAIN without a   *)
(* second check, never writes it.  Which command runs follows from the     *)
(* stage (StageInv); what it knows of MAIN is MainKnown.                   *)
(*                                                                         *)
(* A second argument is about the layer as a whole.  It holds when no      *)
(* command is killed and DEV rests (Orderly): a copy leaves what it read,  *)
(* MAIN or the backup holds the last recorded layer, and the services of   *)
(* that layer are carried on from directory to directory (OrderInv).       *)
(***************************************************************************)
EXTENDS RingPromote, SequenceTheorems, TLAPS

PromoteStages == {"dev", "mirror", "checkMirror", "backup", "main",
                  "checkMain", "restore"}

StageInv ==
    /\ stage \in {"seedDev", "seedMirror"} => cmd = "init"
    /\ stage \in PromoteStages => cmd = "promote"
    /\ stage = "roll" => cmd = "rollback"
    /\ stage # "idle" => cmd # "none"
    /\ stage = "idle" => cmd = "none"

MainKnown ==
    /\ cmd = "init" => Sealed(dir["main"])
    /\ cmd = "promote" /\ stage \in {"manifest", "chain"}
           => Sealed(dir["main"])

IInv == TypeOK /\ StageInv /\ MainKnown /\ RecordedSealed

-----------------------------------------------------------------------------
LEMMA CopiesFacts ==
  /\ DOMAIN Copies = {"seedDev", "seedMirror", "mirror", "backup", "main",
                      "restore", "roll"}
  /\ \A s \in DOMAIN Copies :
        /\ Copies[s][1] \in Dirs /\ Copies[s][2] \in Dirs
        /\ Copies[s][2] = "main" => s \in {"main", "restore", "roll"}
  BY DEF Copies, Dirs

LEMMA ContentFacts ==
  /\ Absent \in Content /\ Damaged \in Content /\ Versions \subseteq Content
  /\ Empty \in Bundles
  BY DEF Content, Empty, Bundles

\* Writing one file of one directory.
LEMMA WriteFile ==
  ASSUME NEW D \in [Dirs -> Bundles], NEW d \in Dirs, NEW f \in Files,
         NEW c \in Content
  PROVE  /\ [D EXCEPT ![d][f] = c] \in [Dirs -> Bundles]
         /\ d # "main" => [D EXCEPT ![d][f] = c]["main"] = D["main"]
  BY DEF Bundles, Dirs

THEOREM InitHolds == Init => IInv
<1> SUFFICES ASSUME Init PROVE IInv
  OBVIOUS
<1>1. PICK v \in Versions :
          dir = [d \in Dirs |-> IF d = "main" THEN [f \in Files |-> v]
                                              ELSE Empty]
  BY DEF Init
<1>a. [f \in Files |-> v] \in Bundles
  BY ContentFacts DEF Bundles
<1>b. dir \in [Dirs -> Bundles]
  BY <1>1, <1>a, ContentFacts
<1>c. chain \in Seq(Records) /\ Len(chain) = 0
  BY EmptySeq DEF Init
<1>2. TypeOK
  <2>1. /\ deliveries \in 0..MaxDeliveries /\ runs \in 0..MaxRuns
        /\ damage \in 0..MaxDamage /\ stops \in 0..MaxStops
        /\ head \in 0..Len(chain)
    BY <1>c, BoundsAssumption DEF Init
  <2>2. /\ hasBackup \in BOOLEAN /\ manifest \in Bundles
        /\ auth \in BOOLEAN /\ cleaning \in BOOLEAN /\ left \subseteq Files
    BY ContentFacts DEF Init, NoManifest
  <2>3. /\ stage \in DOMAIN Copies \cup {"idle", "dev", "checkMirror",
                         "checkMain", "manifest", "chain", "head"}
        /\ cmd \in {"none", "init", "promote", "rollback"}
    BY DEF Init
  <2> QED
    BY <1>b, <1>c, <2>1, <2>2, <2>3 DEF TypeOK
<1>3. StageInv /\ MainKnown /\ RecordedSealed
  BY DEF Init, StageInv, MainKnown, RecordedSealed, PromoteStages
<1> QED
  BY <1>2, <1>3 DEF IInv

LEMMA CopySteps ==
  ASSUME IInv, Copy
  PROVE  IInv'
<1> USE BoundsAssumption, CopiesFacts, ContentFacts
<1>0. /\ Copying => Src \in Dirs /\ Dst \in Dirs
      /\ Copying /\ cmd = "init" => Dst # "main"
      /\ dir \in [Dirs -> Bundles]
  BY DEF IInv, TypeOK, StageInv, PromoteStages, Copying, Src, Dst
<1>1. CASE ListSource
  <2>1. Present(dir[Src]) \subseteq Files
    BY DEF Present
  <2>2. TypeOK'
    BY <1>1, <2>1 DEF ListSource, IInv, TypeOK, disk, counts
  <2>3. StageInv' /\ MainKnown' /\ RecordedSealed'
    BY <1>1 DEF ListSource, IInv, StageInv, PromoteStages, MainKnown,
       RecordedSealed, disk, counts, Sealed, Present
  <2> QED
    BY <2>2, <2>3 DEF IInv
<1>2. ASSUME NEW f \in Files, NEW c \in Content, Copying,
             dir' = [dir EXCEPT ![Dst][f] = c],
             left' \subseteq Files, cleaning' = cleaning,
             UNCHANGED <<hasBackup, manifest, chain, head, stage, cmd, auth,
                         deliveries, runs, stops>>,
             damage' \in 0..MaxDamage
      PROVE  IInv'
  <2>1. dir' \in [Dirs -> Bundles] /\ (cmd = "init" => dir'["main"] = dir["main"])
    <3>1. Dst \in Dirs /\ (cmd = "init" => Dst # "main")
          /\ dir \in [Dirs -> Bundles]
      BY <1>0, <1>2
    <3> HIDE BoundsAssumption, CopiesFacts, ContentFacts
    <3>2. /\ [dir EXCEPT ![Dst][f] = c] \in [Dirs -> Bundles]
          /\ Dst # "main" => [dir EXCEPT ![Dst][f] = c]["main"] = dir["main"]
      BY <3>1, WriteFile
    <3> QED
      BY <3>1, <3>2, <1>2
  <2>2. TypeOK'
    BY <1>2, <2>1 DEF IInv, TypeOK, Records
  <2>3. stage \notin {"manifest", "chain"}
    BY <1>2 DEF Copying
  <2>4. StageInv' /\ MainKnown' /\ RecordedSealed'
    BY <1>2, <2>1, <2>3 DEF IInv, StageInv, MainKnown, RecordedSealed, Sealed,
       Present
  <2> QED
    BY <2>2, <2>4 DEF IInv
<1>3. ASSUME NEW f \in Files, Clean(f)
      PROVE  IInv'
  <2>1. left \subseteq Files /\ damage \in 0..MaxDamage
    BY DEF IInv, TypeOK
  <2> QED
    BY <1>2, <1>3, <2>1 DEF Clean, counts
<1>4. ASSUME NEW f \in Files, CopyFile(f)
      PROVE  IInv'
  <2>1. left \subseteq Files /\ damage \in 0..MaxDamage
    BY DEF IInv, TypeOK
  <2>2. dir[Src][f] \in Content
    BY <1>0, <1>4 DEF CopyFile, Bundles
  <2> QED
    BY <1>2, <1>4, <2>1, <2>2 DEF CopyFile, counts
<1>5. ASSUME NEW f \in Files, CopyGoesWrong(f)
      PROVE  IInv'
  <2>1. left \subseteq Files /\ damage \in 0..MaxDamage
    BY DEF IInv, TypeOK
  <2>2. damage' \in 0..MaxDamage /\ left' \subseteq Files
    BY <1>5, <2>1 DEF CopyGoesWrong
  <2>3. Damaged \in Content
    OBVIOUS
  <2> QED
    BY <1>2, <1>5, <2>2, <2>3 DEF CopyGoesWrong
<1>6. ASSUME NEW f \in Files, SourceGone(f)
      PROVE  IInv'
  <2>1. TypeOK'
    BY <1>6 DEF SourceGone, Ended, IInv, TypeOK, disk, counts
  <2>2. StageInv' /\ MainKnown' /\ RecordedSealed'
    BY <1>6 DEF SourceGone, Ended, IInv, StageInv, PromoteStages, MainKnown,
       RecordedSealed, disk, counts, Sealed, Present
  <2> QED
    BY <2>1, <2>2 DEF IInv
<1> QED
  BY <1>1, <1>3, <1>4, <1>5, <1>6 DEF Copy

\* The steps of a command that only change what it does next.
ControlStages == {"dev", "checkMirror", "checkMain", "manifest", "chain",
                  "head", "idle"} \cup DOMAIN Copies

LEMMA ControlType ==
  ASSUME TypeOK, UNCHANGED <<disk, deliveries, damage, stops>>,
         runs' \in 0..MaxRuns,
         stage' \in ControlStages, cmd' \in {"none", "init", "promote", "rollback"},
         auth' \in BOOLEAN, cleaning' \in BOOLEAN, left' \subseteq Files
  PROVE  TypeOK'
  BY DEF TypeOK, disk, ControlStages

LEMMA StartSteps ==
  ASSUME IInv, StartInit \/ StartPromote \/ StartRollback
  PROVE  IInv'
<1>1. /\ UNCHANGED <<disk, deliveries, damage, stops>>
      /\ stage' \in {"seedDev", "dev", "roll"}
      /\ cmd' \in {"init", "promote", "rollback"}
      /\ auth' \in BOOLEAN /\ cleaning' \in BOOLEAN
      /\ runs < MaxRuns /\ runs' = runs + 1
  BY DEF StartInit, StartPromote, StartRollback, Start, GoCopy
<1>2. left' \subseteq Files
  BY DEF StartInit, StartPromote, StartRollback, GoCopy, Present
<1>3. runs' \in 0..MaxRuns
  BY <1>1, BoundsAssumption DEF IInv, TypeOK
<1>4. TypeOK'
  BY <1>1, <1>2, <1>3, ControlType, CopiesFacts DEF IInv, ControlStages
<1>5. RecordedSealed'
  BY <1>1 DEF IInv, RecordedSealed, disk, Sealed, Present
<1>6. CASE StartInit
  BY <1>1, <1>4, <1>5, <1>6 DEF StartInit, Start, GoCopy, Verifies, IInv,
     StageInv, MainKnown, PromoteStages, disk, Sealed, Present
<1>7. CASE StartPromote
  BY <1>1, <1>4, <1>5, <1>7 DEF StartPromote, Start, IInv, StageInv, MainKnown,
     PromoteStages
<1>8. CASE StartRollback
  BY <1>1, <1>4, <1>5, <1>8 DEF StartRollback, Start, GoCopy, IInv, StageInv,
     MainKnown, PromoteStages
<1> QED
  BY <1>6, <1>7, <1>8

\* From one stage to the next, or to the end of the command.
Controls == \/ SeedMirror \/ Seeded \/ CheckDev \/ MirrorCopied
            \/ MirrorRejected \/ BackupCopied \/ MainCopied \/ AcceptMain
            \/ RejectMain \/ CheckMainRaises \/ Restored \/ RolledBack

LEMMA ControlSteps ==
  ASSUME IInv, Controls
  PROVE  IInv'
<1>1. UNCHANGED <<disk, counts>>
  BY DEF Controls, SeedMirror, Seeded, CheckDev, MirrorCopied, MirrorRejected,
     BackupCopied, MainCopied, AcceptMain, RejectMain, CheckMainRaises,
     Restored, RolledBack
<1>2. \/ Ended
      \/ UNCHANGED <<cmd, auth>> /\ \/ \E t \in DOMAIN Copies : GoCopy(t)
                                    \/ \E t \in ControlStages : Go(t)
  BY CopiesFacts
     DEF Controls, SeedMirror, Seeded, CheckDev, MirrorCopied, MirrorRejected,
     BackupCopied, MainCopied, AcceptMain, RejectMain, CheckMainRaises,
     Restored, RolledBack, Go, ControlStages
<1>3. TypeOK'
  <2>1. /\ stage' \in ControlStages /\ cleaning' \in BOOLEAN
        /\ auth' \in BOOLEAN
        /\ cmd' \in {"none", "init", "promote", "rollback"}
    BY <1>2 DEF Ended, GoCopy, Go, ControlStages, IInv, TypeOK
  <2>2. left' \subseteq Files
    BY <1>2 DEF Ended, GoCopy, Go, Present
  <2>3. runs' \in 0..MaxRuns
    BY <1>1 DEF counts, IInv, TypeOK
  <2> QED
    BY <1>1, <2>1, <2>2, <2>3, ControlType DEF counts, IInv
<1>4. RecordedSealed'
  BY <1>1 DEF IInv, RecordedSealed, disk, Sealed, Present
<1>5. StageInv'
  BY DEF IInv, StageInv, PromoteStages, Controls, SeedMirror, Seeded, CheckDev,
     MirrorCopied, MirrorRejected, BackupCopied, MainCopied, AcceptMain,
     RejectMain, CheckMainRaises, Restored, RolledBack, Go, GoCopy, Ended
<1>6. MainKnown'
  <2>1. dir' = dir
    BY <1>1 DEF disk
  <2>2. CASE cmd' = "init"
    BY <2>1, <2>2, <1>2 DEF Ended, Go, GoCopy, IInv, MainKnown, Sealed, Present
  <2>3. CASE cmd' = "promote" /\ stage' \in {"manifest", "chain"}
    <3>1. AcceptMain \/ Seeded \/ RolledBack
      BY <2>3 DEF Controls, SeedMirror, CheckDev, MirrorCopied,
         MirrorRejected, BackupCopied, MainCopied, RejectMain,
         CheckMainRaises, Restored, Go, GoCopy, Ended
    <3>2. CASE AcceptMain
      BY <2>1, <2>3, <3>2 DEF AcceptMain, Verifies, MainKnown, Sealed, Present
    <3>3. CASE Seeded \/ RolledBack
      BY <2>3, <3>3 DEF Seeded, RolledBack, Go, Ended, IInv, StageInv
    <3> QED
      BY <3>1, <3>2, <3>3
  <2> QED
    BY <2>2, <2>3 DEF MainKnown
<1> QED
  BY <1>3, <1>4, <1>5, <1>6 DEF IInv

LEMMA BackupStep ==
  ASSUME IInv, StartBackup
  PROVE  IInv'
<1>1. dir' = [dir EXCEPT !["backup"] = Empty] /\ dir \in [Dirs -> Bundles]
  BY DEF StartBackup, IInv, TypeOK
<1>2. dir' \in [Dirs -> Bundles] /\ dir'["main"] = dir["main"]
  BY <1>1, ContentFacts DEF Dirs
<1>3. TypeOK'
  BY <1>2, CopiesFacts DEF StartBackup, IInv, TypeOK, counts
<1>4. StageInv' /\ MainKnown' /\ RecordedSealed'
  BY <1>2 DEF StartBackup, IInv, StageInv, PromoteStages, MainKnown,
     RecordedSealed, Sealed, Present
<1> QED
  BY <1>3, <1>4 DEF IInv

LEMMA WriteSteps ==
  ASSUME IInv, WriteManifest \/ WriteHead
  PROVE  IInv'
<1>1. dir' = dir /\ dir \in [Dirs -> Bundles] /\ dir["main"] \in Bundles
  BY DEF WriteManifest, WriteHead, IInv, TypeOK, Dirs
<1>2. TypeOK'
  <2>1. CASE WriteManifest
    BY <1>1, <2>1 DEF WriteManifest, IInv, TypeOK, counts, Go
  <2>2. CASE WriteHead
    <3>1. chain' = chain /\ Len(chain) \in Nat /\ head' = Len(chain)
      BY <2>2 DEF WriteHead, IInv, TypeOK
    <3>2. head' \in 0..Len(chain')
      BY <3>1
    <3> QED
      BY <1>1, <2>2, <3>2 DEF WriteHead, IInv, TypeOK, counts, Ended
  <2> QED
    BY <2>1, <2>2
<1>3. StageInv' /\ MainKnown' /\ RecordedSealed'
  BY <1>1 DEF WriteManifest, WriteHead, IInv, StageInv, PromoteStages,
     MainKnown, RecordedSealed, Sealed, Present, Go, Ended
<1> QED
  BY <1>2, <1>3 DEF IInv

\* The record describes MAIN, and MAIN is sealed unless a rollback brought it.
LEMMA RecordStep ==
  ASSUME IInv, AppendRecord
  PROVE  IInv'
<1> DEFINE rec == [action |-> cmd, ch |-> dir["main"], prev |-> head,
                   auth |-> auth]
<1>1. dir' = dir /\ dir \in [Dirs -> Bundles] /\ dir["main"] \in Bundles
  BY DEF AppendRecord, IInv, TypeOK, Dirs
<1>2. cmd \in {"init", "promote", "rollback"} /\ stage = "chain"
  BY DEF AppendRecord, IInv, TypeOK, StageInv
<1>3. chain \in Seq(Records) /\ Len(chain) \in Nat /\ head \in 0..Len(chain)
  BY DEF IInv, TypeOK
<1>4. rec \in Records
  BY <1>1, <1>2, <1>3 DEF Records, IInv, TypeOK
<1>5. chain' = Append(chain, rec)
  BY DEF AppendRecord
<1> HIDE DEF rec
<1>6. /\ chain' \in Seq(Records) /\ Len(chain') = Len(chain) + 1
      /\ \A n \in 1..Len(chain) : chain'[n] = chain[n]
      /\ chain'[Len(chain) + 1] = rec
  BY <1>3, <1>4, <1>5, AppendProperties
<1>7. TypeOK'
  <2>1. head' \in 0..Len(chain')
    BY <1>3, <1>6 DEF AppendRecord
  <2> QED
    BY <1>1, <1>6, <2>1 DEF AppendRecord, IInv, TypeOK, counts, Go
<1>8. rec.action # "rollback" => Sealed(rec.ch)
  BY <1>2 DEF rec, IInv, MainKnown
<1>9. RecordedSealed'
  <2> SUFFICES ASSUME NEW n \in DOMAIN chain',
                      chain'[n].action # "rollback"
               PROVE  Sealed(chain'[n].ch)
    BY DEF RecordedSealed, Sealed, Present
  <2>1. n \in 1..(Len(chain) + 1)
    BY <1>6
  <2>2. CASE n = Len(chain) + 1
    BY <1>6, <1>8, <2>2
  <2>3. CASE n \in 1..Len(chain)
    BY <1>3, <1>6, <2>3 DEF IInv, RecordedSealed
  <2> QED
    BY <1>3, <2>1, <2>2, <2>3
<1>10. StageInv' /\ MainKnown'
  BY <1>1 DEF AppendRecord, IInv, StageInv, PromoteStages, MainKnown, Sealed,
     Present, Go
<1> QED
  BY <1>7, <1>9, <1>10 DEF IInv

LEMMA EnvSteps ==
  ASSUME IInv, Env
  PROVE  IInv'
<1>0. dir \in [Dirs -> Bundles]
  BY DEF IInv, TypeOK
<1>1. ASSUME NEW f \in Files, NEW c \in Content, Deliver(f, c)
      PROVE  IInv'
  <2>1. dir' \in [Dirs -> Bundles] /\ dir'["main"] = dir["main"]
    BY <1>0, <1>1, WriteFile DEF Deliver, Dirs
  <2>2. deliveries' \in 0..MaxDeliveries
    BY <1>1, BoundsAssumption DEF Deliver, IInv, TypeOK
  <2>3. TypeOK'
    BY <1>1, <2>1, <2>2 DEF Deliver, IInv, TypeOK, run
  <2>4. StageInv' /\ MainKnown' /\ RecordedSealed'
    BY <1>1, <2>1 DEF Deliver, IInv, StageInv, PromoteStages, MainKnown,
       RecordedSealed, Sealed, Present, run
  <2> QED
    BY <2>3, <2>4 DEF IInv
<1>2. CASE Stop
  <2>1. dir' \in [Dirs -> Bundles]
    <3>1. CASE UNCHANGED dir
      BY <1>0, <3>1
    <3>2. ASSUME NEW f \in Files, Copying, dir' = [dir EXCEPT ![Dst][f] = Damaged]
          PROVE  dir' \in [Dirs -> Bundles]
      <4>1. Dst \in Dirs
        BY <3>2, CopiesFacts DEF Copying, Dst
      <4> QED
        BY <1>0, <3>2, <4>1, ContentFacts, WriteFile
    <3>3. left \subseteq Files
      BY DEF IInv, TypeOK
    <3> QED
      BY <1>2, <3>1, <3>2, <3>3 DEF Stop
  <2>2. manifest' \in Bundles
    BY <1>2, ContentFacts DEF Stop, NoManifest, IInv, TypeOK
  <2>3. stops' \in 0..MaxStops
    BY <1>2, BoundsAssumption DEF Stop, IInv, TypeOK
  <2>4. TypeOK'
    BY <1>2, <2>1, <2>2, <2>3 DEF Stop, Ended, IInv, TypeOK
  <2>5. StageInv' /\ MainKnown' /\ RecordedSealed'
    BY <1>2 DEF Stop, Ended, IInv, StageInv, PromoteStages, MainKnown,
       RecordedSealed, Sealed, Present
  <2> QED
    BY <2>4, <2>5 DEF IInv
<1> QED
  BY <1>1, <1>2 DEF Env

THEOREM StepHolds ==
  ASSUME IInv, [Next]_vars
  PROVE  IInv'
<1>1. CASE Copy
  BY <1>1, CopySteps
<1>2. CASE StartInit \/ StartPromote \/ StartRollback
  BY <1>2, StartSteps
<1>3. CASE Controls
  BY <1>3, ControlSteps
<1>4. CASE StartBackup
  BY <1>4, BackupStep
<1>5. CASE WriteManifest \/ WriteHead
  BY <1>5, WriteSteps
<1>6. CASE AppendRecord
  BY <1>6, RecordStep
<1>7. CASE Env
  BY <1>7, EnvSteps
<1>8. CASE UNCHANGED vars
  BY <1>8 DEF vars, disk, run, counts, IInv, TypeOK, StageInv, PromoteStages,
     MainKnown, RecordedSealed, Sealed, Present
<1> QED
  BY <1>1, <1>2, <1>3, <1>4, <1>5, <1>6, <1>7, <1>8
     DEF Next, Promotion, Controls

LEMMA Inductive == Spec => []IInv
<1> QED
  BY InitHolds, StepHolds, PTL DEF Spec

-----------------------------------------------------------------------------
\* The state keeps its types: in particular the head never names a record
\* that is not in the chain, and no bound is exceeded.
THEOREM PromoteTypeCorrect == Spec => []TypeOK
<1>1. IInv => TypeOK
  BY DEF IInv
<1> QED
  BY Inductive, <1>1, PTL

\* Whatever is killed, torn, copied badly or changed in DEV meanwhile, what
\* the chain records as promoted or as initial is a sealed layer.
THEOREM OnlySealedIsRecorded == Spec => []RecordedSealed
<1>1. IInv => RecordedSealed
  BY DEF IInv
<1> QED
  BY Inductive, <1>1, PTL

-----------------------------------------------------------------------------
(***************************************************************************)
(* A promotion nobody kills, of a DEV nobody writes meanwhile: copies may  *)
(* still go wrong, on the way to MIRROR and to MAIN, but not that of the   *)
(* module that verifies, without which no verification answers.  Under     *)
(* this hypothesis the layer is replaced as a whole or not at all.         *)
(*                                                                         *)
(* The argument: what a copy leaves behind is what it read, but for files  *)
(* that went wrong (CopyInv); MAIN or the backup holds the last recorded   *)
(* layer at every stage (LastTells), and what DEV has of the services of   *)
(* that layer reaches MAIN (NamesKept).  Every verification answers        *)
(* (VerifierKept).                                                         *)
(***************************************************************************)
Orderly ==
    /\ MaxStops = 0 /\ ~LiveDev /\ Partition \notin MayRetire
    /\ \A s \in DOMAIN Copies, f \in Files :
           <<s, f>> \in Bad => s \in {"mirror", "main"} /\ f # Partition

CopyOf(f) ==
    \/ dir[Dst][f] = dir[Src][f]
    \/ <<stage, f>> \in Bad /\ dir[Src][f] # Absent /\ dir[Dst][f] = Damaged

CopyInv ==
    Copying =>
        /\ cleaning => \A f \in Files : dir[Dst][f] # Absent => f \in left
        /\ ~cleaning => \A f \in Files :
               IF f \in left THEN dir[Src][f] # Absent ELSE CopyOf(f)

VerifierKept ==
    /\ stage \notin {"main", "restore", "roll"} => dir["main"][Partition] \in Versions
    /\ hasBackup /\ stage # "backup" => dir["backup"][Partition] \in Versions
    /\ stage \in {"backup", "main", "checkMain", "restore", "roll"} => hasBackup
    /\ stage = "dev" => dir["dev"][Partition] # Absent
    /\ stage = "mirror" => dir["dev"][Partition] \in Versions
    /\ stage \in {"checkMirror", "backup", "main"} =>
           dir["mirror"][Partition] \in Versions

LastLayer == chain[Len(chain)].ch

LastTells ==
    chain # <<>> =>
        /\ stage \in {"idle", "seedDev", "seedMirror", "dev", "mirror", "checkMirror",
                      "backup", "head"} => LastLayer = dir["main"]
        /\ stage \in {"main", "checkMain", "restore"} => LastLayer = dir["backup"]

\* b has every service of a.
Covers(a, b) == \A f \in Files \ {ManifestTxt} : a[f] # Absent => b[f] # Absent

NamesKept ==
    cmd = "promote" /\ ~auth =>
        /\ stage \in {"dev", "mirror"} => Covers(dir["main"], dir["dev"])
        /\ stage \in {"checkMirror", "backup"} => Covers(dir["main"], dir["mirror"])
        /\ stage = "main" => Covers(dir["backup"], dir["mirror"])
        /\ stage = "checkMain" => Covers(dir["backup"], dir["main"])
        /\ stage \in {"manifest", "chain"} /\ chain # <<>> =>
               Covers(LastLayer, dir["main"])

OrderInv == CopyInv /\ VerifierKept /\ LastTells /\ NamesKept

-----------------------------------------------------------------------------
\* What each copy reads and writes.
LEMMA SourceAndDestination ==
  /\ stage = "seedDev" => Src = "main" /\ Dst = "dev"
  /\ stage = "seedMirror" => Src = "main" /\ Dst = "mirror"
  /\ stage = "mirror" => Src = "dev" /\ Dst = "mirror"
  /\ stage = "backup" => Src = "main" /\ Dst = "backup"
  /\ stage = "main" => Src = "mirror" /\ Dst = "main"
  /\ stage = "restore" => Src = "backup" /\ Dst = "main"
  /\ stage = "roll" => Src = "backup" /\ Dst = "main"
  /\ Copying => stage \in {"seedDev", "seedMirror", "mirror", "backup", "main",
                           "restore", "roll"}
  /\ Copying => Src \in Dirs /\ Dst \in Dirs /\ Src # Dst
  BY DEF Src, Dst, Copies, Copying, Dirs

LEMMA CoversNames ==
  ASSUME NEW a, NEW b
  PROVE  Covers(a, b) <=> Managed(a) \subseteq Managed(b)
  BY DEF Covers, Managed, Present

\* A copy that is complete brought every file, and all of it unless the copy
\* is one that may go wrong.
LEMMA CopyComplete ==
  ASSUME Orderly, TypeOK, CopyInv, CopyDone
  PROVE  /\ \A f \in Files : dir[Src][f] = Absent <=> dir[Dst][f] = Absent
         /\ dir[Src][Partition] \in Versions => dir[Dst][Partition] \in Versions
         /\ stage \notin {"mirror", "main"} => dir[Dst] = dir[Src]
<1>1. \A f \in Files : CopyOf(f)
  BY DEF CopyInv, CopyDone
<1>2. dir[Src] \in [Files -> Content] /\ dir[Dst] \in [Files -> Content]
  BY SourceAndDestination DEF CopyDone, TypeOK, Bundles
<1>3. Copying
  BY DEF CopyDone
<1>4. \A f \in Files : <<stage, f>> \in Bad => stage \in {"mirror", "main"} /\ f # Partition
  BY <1>3 DEF Copying, Orderly
<1>5. \A f \in Files : dir[Src][f] = Absent <=> dir[Dst][f] = Absent
  BY <1>1 DEF CopyOf, Damaged, Absent
<1>6. dir[Dst][Partition] = dir[Src][Partition]
  BY <1>1, <1>4, FilesAssumption DEF CopyOf
<1>7. ASSUME stage \notin {"mirror", "main"} PROVE dir[Dst] = dir[Src]
  <2>1. \A f \in Files : dir[Dst][f] = dir[Src][f]
    BY <1>1, <1>4, <1>7 DEF CopyOf
  <2> QED
    BY <1>2, <2>1
<1> QED
  BY <1>5, <1>6, <1>7

\* A step of a copy leaves everything but the destination alone, and nothing
\* that must hold meanwhile is about the destination.
LEMMA CopyDisturbsNothing ==
  ASSUME Copying, VerifierKept, LastTells, NamesKept,
         \A d \in Dirs \ {Dst} : dir'[d] = dir[d],
         UNCHANGED <<stage, cmd, auth, hasBackup, chain>>
  PROVE  VerifierKept' /\ LastTells' /\ NamesKept'
<1>1. VerifierKept'
  BY SourceAndDestination DEF VerifierKept, Dirs
<1>2. LastTells'
  BY SourceAndDestination DEF LastTells, LastLayer, Dirs
<1>3. NamesKept'
  BY SourceAndDestination DEF NamesKept, Covers, LastLayer, Dirs
<1> QED
  BY <1>1, <1>2, <1>3

LEMMA OrderWrite ==
  ASSUME TypeOK, OrderInv, Copying, NEW f \in Files, NEW c \in Content,
         dir' = [dir EXCEPT ![Dst][f] = c], left' = left \ {f},
         UNCHANGED <<hasBackup, chain, stage, cmd, auth, cleaning>>,
         cleaning => c = Absent,
         ~cleaning => \/ c = dir[Src][f]
                      \/ <<stage, f>> \in Bad /\ dir[Src][f] # Absent /\ c = Damaged
  PROVE  OrderInv'
<1>1. dir \in [Dirs -> [Files -> Content]] /\ Src \in Dirs /\ Dst \in Dirs /\ Src # Dst
  BY SourceAndDestination DEF TypeOK, Bundles
<1>2. /\ \A d \in Dirs \ {Dst} : dir'[d] = dir[d]
      /\ dir'[Dst][f] = c
      /\ \A g \in Files \ {f} : dir'[Dst][g] = dir[Dst][g]
  BY <1>1
<1>3. VerifierKept' /\ LastTells' /\ NamesKept'
  BY <1>2, CopyDisturbsNothing DEF OrderInv
<1>4. Src' = Src /\ Dst' = Dst /\ Copying' = Copying
  BY DEF Src, Dst, Copying
<1>5. CopyInv'
  <2>1. dir'[Src] = dir[Src]
    BY <1>1, <1>2
  <2>2. ASSUME cleaning, NEW g \in Files, dir'[Dst][g] # Absent PROVE g \in left'
    BY <1>2, <2>2 DEF OrderInv, CopyInv
  <2>3. ASSUME ~cleaning, NEW g \in Files
        PROVE  IF g \in left' THEN dir'[Src][g] # Absent
               ELSE \/ dir'[Dst][g] = dir'[Src][g]
                    \/ /\ <<stage, g>> \in Bad /\ dir'[Src][g] # Absent
                       /\ dir'[Dst][g] = Damaged
    <3>1. CASE g = f
      BY <1>2, <2>1, <2>3, <3>1
    <3>2. CASE g # f
      BY <1>2, <2>1, <2>3, <3>2 DEF OrderInv, CopyInv, CopyOf
    <3> QED
      BY <3>1, <3>2
  <2> QED
    BY <1>4, <2>2, <2>3 DEF CopyInv, CopyOf
<1> QED
  BY <1>3, <1>5 DEF OrderInv

LEMMA OrderCopy ==
  ASSUME Orderly, TypeOK, OrderInv, Copy
  PROVE  OrderInv'
<1>1. CASE ListSource
  <2>1. UNCHANGED <<dir, hasBackup, chain, stage, cmd, auth>> /\ Copying /\ cleaning
    BY <1>1 DEF ListSource, disk
  <2>2. VerifierKept' /\ LastTells' /\ NamesKept'
    BY <2>1, CopyDisturbsNothing DEF OrderInv
  <2>3. Src' = Src /\ Dst' = Dst /\ Copying' = Copying
    BY <2>1 DEF Src, Dst, Copying
  <2>4. CopyInv'
    <3>1. \A f \in Files : dir[Dst][f] = Absent
      BY <1>1 DEF ListSource, OrderInv, CopyInv
    <3>2. ~cleaning' /\ left' = {f \in Files : dir[Src][f] # Absent}
      BY <1>1 DEF ListSource, Present
    <3> QED
      BY <2>1, <2>3, <3>1, <3>2 DEF CopyInv, CopyOf
  <2> QED
    BY <2>2, <2>4 DEF OrderInv
<1>2. ASSUME NEW f \in Files, Clean(f) PROVE OrderInv'
  BY <1>2, OrderWrite, ContentFacts DEF Clean
<1>3. ASSUME NEW f \in Files, CopyFile(f) PROVE OrderInv'
  <2>1. dir[Src][f] \in Content
    BY <1>3, SourceAndDestination DEF CopyFile, TypeOK, Bundles
  <2> QED
    BY <1>3, <2>1, OrderWrite DEF CopyFile
<1>4. ASSUME NEW f \in Files, CopyGoesWrong(f) PROVE OrderInv'
  BY <1>4, OrderWrite, ContentFacts DEF CopyGoesWrong
<1>5. ASSUME NEW f \in Files, SourceGone(f) PROVE FALSE
  BY <1>5 DEF SourceGone, OrderInv, CopyInv
<1> QED
  BY <1>1, <1>2, <1>3, <1>4, <1>5 DEF Copy

LEMMA OrderInit == Init => OrderInv
<1> SUFFICES ASSUME Init PROVE OrderInv
  OBVIOUS
<1>1. dir["main"][Partition] \in Versions
  BY FilesAssumption DEF Init, Dirs
<1>2. stage = "idle" /\ ~Copying /\ cmd = "none" /\ ~hasBackup /\ chain = <<>>
  BY CopiesFacts DEF Init, Copying
<1> QED
  BY <1>1, <1>2 DEF OrderInv, CopyInv, VerifierKept, LastTells, NamesKept

\* A copy that starts has its old files to remove; elsewhere nothing is copied.
LEMMA CopyStarts ==
  ASSUME NEW t \in DOMAIN Copies, GoCopy(t), UNCHANGED dir
  PROVE  CopyInv'
<1>1. Dst' = Copies[t][2] /\ cleaning' /\ left' = Present(dir[Copies[t][2]])
  BY DEF GoCopy, Dst
<1> QED
  BY <1>1 DEF CopyInv, Present

LEMMA NothingCopied ==
  ASSUME stage' \notin {"seedDev", "seedMirror", "mirror", "backup", "main", "restore",
                        "roll"}
  PROVE  CopyInv'
  BY CopiesFacts DEF CopyInv, Copying

\* Every verification of MAIN answers.
LEMMA MainVerifiable ==
  ASSUME VerifierKept, stage \notin {"main", "restore", "roll"}
  PROVE  CanVerify /\ ~MainRaises /\ MainAnswers
  BY DEF VerifierKept, CanVerify, MainRaises, MainAnswers

LEMMA OrderStart ==
  ASSUME Orderly, TypeOK, StageInv, OrderInv, StartInit \/ StartPromote \/ StartRollback
  PROVE  OrderInv'
<1>1. stage = "idle" /\ UNCHANGED <<dir, hasBackup, manifest, chain, head>>
  BY DEF StartInit, StartPromote, StartRollback, Start, disk
<1>2. dir["main"][Partition] \in Versions
  BY <1>1 DEF OrderInv, VerifierKept
<1>3. CASE StartInit
  <2>1. GoCopy("seedDev") /\ stage' = "seedDev" /\ cmd' = "init"
    BY <1>3 DEF StartInit, Start, GoCopy
  <2>2. CopyInv'
    BY <1>1, <2>1, CopyStarts, CopiesFacts
  <2> QED
    BY <1>1, <2>1, <2>2 DEF OrderInv, VerifierKept, LastTells, LastLayer, NamesKept
<1>4. CASE StartPromote
  <2>1. /\ stage' = "dev" /\ Missing \subseteq MayRetire
        /\ ~auth' => Missing = {}
    BY <1>4 DEF StartPromote
  <2>2. ~auth' => Covers(dir["main"], dir["dev"])
    BY <2>1 DEF Missing, Managed, Present, Covers
  <2>3. dir["dev"][Partition] # Absent
    <3>1. Partition \in Managed(dir["main"])
      BY <1>2, FilesAssumption, VersionsAssumption DEF Managed, Present
    <3>2. Partition \in Managed(dir["dev"])
      BY <2>1, <3>1 DEF Orderly, Missing
    <3> QED
      BY <3>2 DEF Managed, Present
  <2>4. CopyInv'
    BY <2>1, NothingCopied
  <2> QED
    BY <1>1, <2>1, <2>2, <2>3, <2>4
       DEF OrderInv, VerifierKept, LastTells, LastLayer, NamesKept, Covers
<1>5. CASE StartRollback
  <2>1. GoCopy("roll") /\ stage' = "roll" /\ cmd' = "rollback" /\ hasBackup
    BY <1>5 DEF StartRollback, Start, GoCopy
  <2>2. CopyInv'
    BY <1>1, <2>1, CopyStarts, CopiesFacts
  <2> QED
    BY <1>1, <2>1, <2>2 DEF OrderInv, VerifierKept, LastTells, LastLayer, NamesKept
<1> QED
  BY <1>3, <1>4, <1>5

LEMMA OrderControls ==
  ASSUME Orderly, TypeOK, StageInv, OrderInv, Controls
  PROVE  OrderInv'
<1>1. UNCHANGED <<dir, hasBackup, manifest, chain, head>>
  BY DEF Controls, SeedMirror, Seeded, CheckDev, MirrorCopied, MirrorRejected,
     BackupCopied, MainCopied, AcceptMain, RejectMain, CheckMainRaises,
     Restored, RolledBack, disk
<1>2. CASE Ended /\ stage \in {"dev", "checkMirror"}
  BY <1>1, <1>2, NothingCopied
     DEF Ended, OrderInv, VerifierKept, LastTells, LastLayer, NamesKept
<1>3. CASE SeedMirror \/ Seeded
  <2>1. CopyInv'
    BY <1>1, <1>3, CopyStarts, CopiesFacts, NothingCopied DEF SeedMirror, Seeded, Go
  <2>2. cmd' = "init" /\ (stage' = "seedMirror" \/ stage' = "manifest")
    BY <1>3 DEF SeedMirror, Seeded, Go, GoCopy, StageInv
  <2>3. stage \in {"seedDev", "seedMirror"}
    BY <1>3 DEF SeedMirror, Seeded
  <2> QED
    BY <1>1, <2>1, <2>2, <2>3
       DEF OrderInv, VerifierKept, LastTells, LastLayer, NamesKept
<1>4. CASE CheckDev /\ ~Ended
  <2>1. GoCopy("mirror") /\ stage = "dev" /\ Sealed(dir["dev"]) /\ stage' = "mirror"
        /\ UNCHANGED <<cmd, auth>>
    BY <1>4 DEF CheckDev, Verifies, GoCopy
  <2>2. CopyInv'
    BY <1>1, <2>1, CopyStarts, CopiesFacts
  <2>3. dir["dev"][Partition] \in Versions
    BY <2>1, FilesAssumption
       DEF OrderInv, VerifierKept, Sealed, TypeOK, Bundles, Content, Dirs
  <2> QED
    BY <1>1, <2>1, <2>2, <2>3
       DEF OrderInv, VerifierKept, LastTells, LastLayer, NamesKept, Covers
<1>5. CASE MirrorCopied
  <2>1. /\ CopyDone /\ stage = "mirror" /\ stage' = "checkMirror"
        /\ UNCHANGED <<cmd, auth>>
    BY <1>5 DEF MirrorCopied, Go
  <2>2. /\ \A f \in Files : dir["dev"][f] = Absent <=> dir["mirror"][f] = Absent
        /\ dir["mirror"][Partition] \in Versions
    BY <2>1, CopyComplete, SourceAndDestination DEF OrderInv, VerifierKept
  <2>3. CopyInv'
    BY <2>1, NothingCopied
  <2>4. NamesKept'
    BY <1>1, <2>1, <2>2 DEF OrderInv, NamesKept, Covers
  <2> QED
    BY <1>1, <2>1, <2>2, <2>3, <2>4 DEF OrderInv, VerifierKept, LastTells, LastLayer
<1>6. CASE BackupCopied
  <2>1. /\ CopyDone /\ stage = "backup" /\ GoCopy("main") /\ stage' = "main"
        /\ UNCHANGED <<cmd, auth>>
    BY <1>6 DEF BackupCopied, GoCopy
  <2>2. dir["backup"] = dir["main"]
    BY <2>1, CopyComplete, SourceAndDestination DEF OrderInv
  <2>3. CopyInv'
    BY <1>1, <2>1, CopyStarts, CopiesFacts
  <2> QED
    BY <1>1, <2>1, <2>2, <2>3
       DEF OrderInv, VerifierKept, LastTells, LastLayer, NamesKept, Covers
<1>7. CASE MainCopied
  <2>1. /\ CopyDone /\ stage = "main" /\ stage' = "checkMain"
        /\ UNCHANGED <<cmd, auth>>
    BY <1>7 DEF MainCopied, Go
  <2>2. /\ \A f \in Files : dir["mirror"][f] = Absent <=> dir["main"][f] = Absent
        /\ dir["main"][Partition] \in Versions
    BY <2>1, CopyComplete, SourceAndDestination DEF OrderInv, VerifierKept
  <2>3. CopyInv'
    BY <2>1, NothingCopied
  <2>4. NamesKept'
    BY <1>1, <2>1, <2>2 DEF OrderInv, NamesKept, Covers
  <2> QED
    BY <1>1, <2>1, <2>2, <2>3, <2>4 DEF OrderInv, VerifierKept, LastTells, LastLayer
<1>8. CASE AcceptMain
  <2>1. stage = "checkMain" /\ stage' = "manifest" /\ UNCHANGED <<cmd, auth>>
    BY <1>8 DEF AcceptMain, Go
  <2>2. CopyInv'
    BY <2>1, NothingCopied
  <2> QED
    BY <1>1, <2>1, <2>2
       DEF OrderInv, VerifierKept, LastTells, LastLayer, NamesKept, Covers
<1>9. CASE RejectMain
  <2>1. /\ stage = "checkMain" /\ GoCopy("restore") /\ stage' = "restore"
        /\ UNCHANGED <<cmd, auth>>
    BY <1>9 DEF RejectMain, GoCopy
  <2>2. CopyInv'
    BY <1>1, <2>1, CopyStarts, CopiesFacts
  <2> QED
    BY <1>1, <2>1, <2>2
       DEF OrderInv, VerifierKept, LastTells, LastLayer, NamesKept, Covers
<1>10. CASE Restored
  <2>1. CopyDone /\ stage = "restore" /\ stage' = "idle" /\ cmd' = "none"
    BY <1>10 DEF Restored, Ended
  <2>2. dir["main"] = dir["backup"]
    BY <2>1, CopyComplete, SourceAndDestination DEF OrderInv
  <2>3. CopyInv'
    BY <2>1, NothingCopied
  <2> QED
    BY <1>1, <2>1, <2>2, <2>3
       DEF OrderInv, VerifierKept, LastTells, LastLayer, NamesKept
<1>11. CASE RolledBack
  <2>1. CopyDone /\ stage = "roll" /\ cmd = "rollback"
    BY <1>11 DEF RolledBack, StageInv
  <2>2. dir["main"] = dir["backup"] /\ dir["main"][Partition] \in Versions
    BY <2>1, CopyComplete, SourceAndDestination DEF OrderInv, VerifierKept
  <2>3. stage' = "chain" /\ cmd' = "rollback"
    BY <1>11, <2>1, <2>2 DEF RolledBack, Go, MainRaises, CanVerify
  <2>4. CopyInv'
    BY <2>3, NothingCopied
  <2> QED
    BY <1>1, <2>1, <2>2, <2>3, <2>4
       DEF OrderInv, VerifierKept, LastTells, LastLayer, NamesKept
<1>12. CASE CheckMainRaises
  BY <1>12, MainVerifiable DEF CheckMainRaises, OrderInv
<1> QED
  BY <1>2, <1>3, <1>4, <1>5, <1>6, <1>7, <1>8, <1>9, <1>10, <1>11, <1>12
     DEF Controls, CheckDev, MirrorRejected

LEMMA OrderBackup ==
  ASSUME TypeOK, StageInv, OrderInv, StartBackup
  PROVE  OrderInv'
<1>1. /\ stage = "checkMirror" /\ stage' = "backup" /\ hasBackup' /\ cleaning'
      /\ dir' = [dir EXCEPT !["backup"] = Empty] /\ UNCHANGED <<cmd, auth, chain>>
  BY DEF StartBackup
<1>2. /\ dir'["main"] = dir["main"] /\ dir'["mirror"] = dir["mirror"]
      /\ dir'["backup"] = Empty
  BY <1>1 DEF TypeOK, Dirs
<1>3. CopyInv'
  <2>1. Dst' = "backup"
    BY <1>1, CopiesFacts DEF Dst, Copies
  <2> QED
    BY <1>1, <1>2, <2>1 DEF CopyInv, Empty
<1>4. VerifierKept' /\ LastTells' /\ NamesKept'
  BY <1>1, <1>2 DEF OrderInv, VerifierKept, LastTells, LastLayer, NamesKept, Covers
<1> QED
  BY <1>3, <1>4 DEF OrderInv

LEMMA OrderFinish ==
  ASSUME TypeOK, StageInv, OrderInv, WriteManifest \/ WriteHead
  PROVE  OrderInv'
<1>1. UNCHANGED <<dir, hasBackup, chain>>
  BY DEF WriteManifest, WriteHead
<1>2. CASE WriteManifest
  <2>1. stage = "manifest" /\ stage' = "chain" /\ UNCHANGED <<cmd, auth>>
    BY <1>2 DEF WriteManifest, Go
  <2> QED
    BY <1>1, <2>1, NothingCopied
       DEF OrderInv, VerifierKept, LastTells, LastLayer, NamesKept, Covers
<1>3. CASE WriteHead
  <2>1. stage = "head" /\ stage' = "idle" /\ cmd' = "none"
    BY <1>3 DEF WriteHead, Ended
  <2> QED
    BY <1>1, <2>1, NothingCopied
       DEF OrderInv, VerifierKept, LastTells, LastLayer, NamesKept
<1> QED
  BY <1>2, <1>3

LEMMA OrderRecord ==
  ASSUME TypeOK, StageInv, OrderInv, AppendRecord
  PROVE  OrderInv'
<1> DEFINE rec == [action |-> cmd, ch |-> dir["main"], prev |-> head, auth |-> auth]
<1>1. /\ stage = "chain" /\ stage' = "head" /\ UNCHANGED <<dir, hasBackup, cmd, auth>>
      /\ chain' = Append(chain, rec)
  BY DEF AppendRecord, Go
<1>2. rec \in Records
  BY <1>1 DEF Records, TypeOK, StageInv, Dirs
<1>3. rec.ch = dir["main"]
  OBVIOUS
<1> HIDE DEF rec
<1>4. chain \in Seq(Records)
  BY DEF TypeOK
<1>5. chain'[Len(chain')] = rec
  BY <1>1, <1>2, <1>4, AppendProperties
<1>6. VerifierKept' /\ LastTells' /\ NamesKept'
  BY <1>1, <1>3, <1>5 DEF OrderInv, VerifierKept, LastTells, LastLayer, NamesKept
<1> QED
  BY <1>1, <1>6, NothingCopied DEF OrderInv

LEMMA OrderEnv ==
  ASSUME Orderly, TypeOK, StageInv, OrderInv, Env
  PROVE  OrderInv'
<1>1. ~Stop
  BY BoundsAssumption DEF Stop, TypeOK, Orderly
<1>2. PICK f \in Files, c \in Content : Deliver(f, c)
  BY <1>1 DEF Env
<1>3. /\ stage = "idle" /\ dir' = [dir EXCEPT !["dev"][f] = c]
      /\ UNCHANGED <<hasBackup, chain, stage, cmd, auth>>
  BY <1>2 DEF Deliver, Orderly, run
<1>4. dir'["main"] = dir["main"] /\ dir'["backup"] = dir["backup"]
  BY <1>3 DEF TypeOK, Dirs
<1>5. VerifierKept' /\ LastTells' /\ NamesKept'
  BY <1>3, <1>4 DEF OrderInv, VerifierKept, LastTells, LastLayer, NamesKept, StageInv
<1> QED
  BY <1>3, <1>5, NothingCopied DEF OrderInv

LEMMA OrderStep ==
  ASSUME Orderly, IInv, OrderInv, [Next]_vars
  PROVE  OrderInv'
<1> USE DEF IInv
<1>1. CASE Copy
  BY <1>1, OrderCopy
<1>2. CASE StartInit \/ StartPromote \/ StartRollback
  BY <1>2, OrderStart
<1>3. CASE Controls
  BY <1>3, OrderControls
<1>4. CASE StartBackup
  BY <1>4, OrderBackup
<1>5. CASE WriteManifest \/ WriteHead
  BY <1>5, OrderFinish
<1>6. CASE AppendRecord
  BY <1>6, OrderRecord
<1>7. CASE Env
  BY <1>7, OrderEnv
<1>8. CASE UNCHANGED vars
  <2>1. UNCHANGED <<dir, hasBackup, manifest, chain, head, stage, cmd, auth, cleaning,
                    left>>
    BY <1>8 DEF vars, disk, run
  <2> QED
    BY <2>1 DEF OrderInv, CopyInv, CopyOf, Copying, Src, Dst, VerifierKept, LastTells,
                LastLayer, NamesKept, Covers
<1> QED
  BY <1>1, <1>2, <1>3, <1>4, <1>5, <1>6, <1>7, <1>8 DEF Next, Promotion, Controls

LEMMA OrderInductive == ASSUME Orderly PROVE Spec => [](IInv /\ OrderInv)
<1>1. Init => IInv /\ OrderInv
  BY InitHolds, OrderInit
<1>2. (IInv /\ OrderInv) /\ [Next]_vars => (IInv /\ OrderInv)'
  BY StepHolds, OrderStep
<1> QED
  BY <1>1, <1>2, PTL DEF Spec

-----------------------------------------------------------------------------
\* After every command, also one that rolled itself back, the last record of
\* the chain describes the layer in MAIN.
THEOREM ChainDescribesMain == ASSUME Orderly PROVE Spec => []ChainTellsMain
<1>1. OrderInv => ChainTellsMain
  BY DEF OrderInv, LastTells, LastLayer, ChainTellsMain
<1> QED
  BY <1>1, OrderInductive, PTL

LEMMA ServicesStep ==
  ASSUME IInv, OrderInv, ServicesKept, [Next]_vars
  PROVE  ServicesKept'
<1>1. chain \in Seq(Records) /\ Len(chain) \in Nat
  BY DEF IInv, TypeOK
<1>2. CASE UNCHANGED chain
  BY <1>2 DEF ServicesKept, Keeps, Managed, Present
<1>3. CASE AppendRecord
  <2> DEFINE rec == [action |-> cmd, ch |-> dir["main"], prev |-> head, auth |-> auth]
             k == Len(chain)
  <2>1. rec \in Records /\ stage = "chain" /\ chain' = Append(chain, rec)
    BY <1>3 DEF AppendRecord, Records, IInv, TypeOK, StageInv, Dirs
  <2>2. rec.action = cmd /\ rec.auth = auth /\ rec.ch = dir["main"]
    OBVIOUS
  <2> HIDE DEF rec
  <2>3. /\ Len(chain') = k + 1 /\ chain'[k + 1] = rec
        /\ \A n \in 1..k : chain'[n] = chain[n]
    BY <1>1, <2>1, AppendProperties
  <2> SUFFICES ASSUME NEW n \in 1..k, chain'[n + 1].action = "promote", ~chain'[n + 1].auth
               PROVE  Managed(chain'[n].ch) \subseteq Managed(chain'[n + 1].ch)
    BY <1>1, <2>3 DEF ServicesKept, Keeps, Managed, Present
  <2>4. CASE n = k
    <3>1. chain # <<>> /\ chain'[k] = chain[k]
      BY <1>1, <2>3, <2>4, EmptySeq
    <3>2. Covers(chain[k].ch, dir["main"])
      BY <2>1, <2>2, <2>3, <2>4, <3>1 DEF OrderInv, NamesKept, LastLayer
    <3> QED
      BY <2>2, <2>3, <2>4, <3>1, <3>2, CoversNames
  <2>5. CASE n # k
    <3>1. n \in 1..(k - 1) /\ n + 1 \in 1..k
      BY <1>1, <2>5
    <3> QED
      BY <2>3, <3>1 DEF ServicesKept, Keeps
  <2> QED
    BY <2>4, <2>5
<1>4. UNCHANGED chain \/ AppendRecord
  <2>1. ASSUME Copy PROVE UNCHANGED chain
    BY <2>1 DEF Copy, ListSource, Clean, CopyFile, CopyGoesWrong, SourceGone, disk
  <2>2. ASSUME StartInit \/ StartPromote \/ StartRollback \/ Controls PROVE UNCHANGED chain
    BY <2>2 DEF StartInit, StartPromote, StartRollback, Controls, SeedMirror, Seeded,
       CheckDev, MirrorCopied, MirrorRejected, BackupCopied, MainCopied, AcceptMain,
       RejectMain, CheckMainRaises, Restored, RolledBack, disk
  <2>3. ASSUME StartBackup \/ WriteManifest \/ WriteHead \/ Env PROVE UNCHANGED chain
    BY <2>3 DEF StartBackup, WriteManifest, WriteHead, Env, Stop, Deliver
  <2>4. ASSUME UNCHANGED vars PROVE UNCHANGED chain
    BY <2>4 DEF vars, disk
  <2> QED
    BY <2>1, <2>2, <2>3, <2>4 DEF Next, Promotion, Controls
<1> QED
  BY <1>2, <1>3, <1>4

\* No recorded promotion retires a service without the operator's leave.
THEOREM NoServiceIsLost == ASSUME Orderly PROVE Spec => []ServicesKept
<1>1. Init => ServicesKept
  BY DEF Init, ServicesKept
<1>2. (IInv /\ OrderInv) /\ ServicesKept /\ [Next]_vars => ServicesKept'
  BY ServicesStep
<1> QED
  BY <1>1, <1>2, OrderInductive, PTL DEF Spec

-----------------------------------------------------------------------------
(***************************************************************************)
(* The promotion implements LayerSwitch.                                   *)
(***************************************************************************)
SwitchStep ==
    \/ UNCHANGED <<Active, Saved>>
    \/ Saved' = NoManifest /\ Active' = Active
    \/ Saved = NoManifest /\ Saved' = Active /\ Active' = Active
    \/ Saved = Active /\ Active' \in Bundles /\ Sealed(Active') /\ Saved' = Saved
    \/ Saved # NoManifest /\ Active' = Saved /\ Saved' = Saved

LEMMA SwitchStepIsNext == SwitchStep => [Switch!Next]_<<Active, Saved>>
BY DEF SwitchStep, Switch!Next, Switch!Discard, Switch!Save, Switch!Promote, Switch!Rollback

\* MAIN is active, or the backup is, and the step does not touch which.
LEMMA CopyStutters ==
  ASSUME TypeOK, Copying, \A d \in Dirs \ {Dst} : dir'[d] = dir[d],
         UNCHANGED <<stage, hasBackup>>
  PROVE  UNCHANGED <<Active, Saved>>
<1>1. Active' = Active
  BY SourceAndDestination DEF Active, Dirs
<1>2. Saved' = Saved
  BY SourceAndDestination DEF Saved, NoManifest, Empty, Dirs
<1> QED
  BY <1>1, <1>2

LEMMA ControlSwitches ==
  ASSUME Orderly, TypeOK, StageInv, OrderInv, Controls
  PROVE  SwitchStep
<1>1. UNCHANGED <<dir, hasBackup, manifest, chain, head>>
  BY DEF Controls, SeedMirror, Seeded, CheckDev, MirrorCopied, MirrorRejected,
     BackupCopied, MainCopied, AcceptMain, RejectMain, CheckMainRaises,
     Restored, RolledBack, disk
<1>2. CASE BackupCopied
  <2>1. CopyDone /\ stage = "backup" /\ stage' = "main" /\ hasBackup
    BY <1>2 DEF BackupCopied, GoCopy, OrderInv, VerifierKept
  <2>2. dir["backup"] = dir["main"]
    BY <2>1, CopyComplete, SourceAndDestination DEF OrderInv
  <2> QED
    BY <1>1, <2>1, <2>2 DEF SwitchStep, Active, Saved, NoManifest
<1>3. CASE AcceptMain
  <2>1. /\ stage = "checkMain" /\ stage' = "manifest" /\ Sealed(dir["main"]) /\ hasBackup
        /\ dir["main"] \in Bundles
    BY <1>3 DEF AcceptMain, Verifies, Go, OrderInv, VerifierKept, TypeOK, Dirs
  <2>2. Saved = Active /\ Saved' = Saved /\ Active' = dir["main"]
    BY <1>1, <2>1 DEF Active, Saved, NoManifest, Empty
  <2> QED
    BY <2>1, <2>2 DEF SwitchStep
<1>4. CASE Restored \/ RolledBack
  <2>1. CopyDone /\ stage \in {"restore", "roll"} /\ stage' \in {"idle", "chain"}
    BY <1>4 DEF Restored, RolledBack, Ended, Go
  <2>2. dir["main"] = dir["backup"]
    BY <2>1, CopyComplete, SourceAndDestination DEF OrderInv
  <2> QED
    BY <1>1, <2>1, <2>2 DEF SwitchStep, Active, Saved, NoManifest, Empty
<1>5. CASE CheckMainRaises
  BY <1>5, MainVerifiable DEF CheckMainRaises, OrderInv
<1>6. CASE SeedMirror \/ Seeded \/ CheckDev \/ MirrorCopied \/ MirrorRejected
  <2>1. /\ stage \in {"seedDev", "seedMirror", "dev", "mirror", "checkMirror"}
        /\ stage' \in {"seedMirror", "manifest", "mirror", "checkMirror", "idle"}
    BY <1>6 DEF SeedMirror, Seeded, CheckDev, MirrorCopied, MirrorRejected, Go, GoCopy, Ended
  <2> QED
    BY <1>1, <2>1 DEF SwitchStep, Active, Saved, NoManifest, Empty
<1>7. CASE MainCopied \/ RejectMain
  <2>1. stage \in {"main", "checkMain"} /\ stage' \in {"checkMain", "restore"}
    BY <1>7 DEF MainCopied, RejectMain, Go, GoCopy
  <2> QED
    BY <1>1, <2>1 DEF SwitchStep, Active, Saved, NoManifest, Empty
<1> QED
  BY <1>2, <1>3, <1>4, <1>5, <1>6, <1>7 DEF Controls

LEMMA StepSwitches ==
  ASSUME Orderly, IInv, OrderInv, [Next]_vars
  PROVE  SwitchStep
<1> USE DEF IInv
<1>1. CASE Copy
  <2>1. /\ Copying /\ UNCHANGED <<stage, hasBackup>>
        /\ \A d \in Dirs \ {Dst} : dir'[d] = dir[d]
    <3>1. ASSUME NEW f \in Files, SourceGone(f) PROVE FALSE
      BY <3>1 DEF SourceGone, OrderInv, CopyInv
    <3> QED
      BY <1>1, <3>1 DEF Copy, ListSource, Clean, CopyFile, CopyGoesWrong, disk, TypeOK
  <2> QED
    BY <2>1, CopyStutters DEF SwitchStep
<1>2. CASE StartInit \/ StartPromote
  <2>1. /\ stage = "idle" /\ stage' \in {"seedDev", "dev"} /\ UNCHANGED <<dir, hasBackup>>
    BY <1>2 DEF StartInit, StartPromote, Start, GoCopy, disk
  <2> QED
    BY <2>1 DEF SwitchStep, Active, Saved, NoManifest, Empty
<1>3. CASE StartRollback
  <2>1. /\ stage = "idle" /\ stage' = "roll" /\ UNCHANGED <<dir, hasBackup>> /\ hasBackup
    BY <1>3 DEF StartRollback, Start, GoCopy, disk
  <2>2. dir["backup"] # NoManifest
    BY <2>1, FilesAssumption, VersionsAssumption
       DEF OrderInv, VerifierKept, NoManifest, Empty
  <2>3. Saved = dir["backup"] /\ Saved' = Saved /\ Active' = dir["backup"]
    BY <2>1 DEF Active, Saved, NoManifest, Empty
  <2> QED
    BY <2>2, <2>3 DEF SwitchStep
<1>4. CASE Controls
  BY <1>4, ControlSwitches
<1>5. CASE StartBackup
  <2>1. stage = "checkMirror" /\ stage' = "backup" /\ dir'["main"] = dir["main"]
    BY <1>5 DEF StartBackup, TypeOK, Dirs
  <2> QED
    BY <2>1 DEF SwitchStep, Active, Saved, NoManifest, Empty
<1>6. CASE WriteManifest \/ WriteHead \/ AppendRecord
  <2>1. /\ stage \in {"manifest", "chain", "head"} /\ stage' \in {"chain", "head", "idle"}
        /\ UNCHANGED <<dir, hasBackup>>
    BY <1>6 DEF WriteManifest, WriteHead, AppendRecord, Go, Ended
  <2> QED
    BY <2>1 DEF SwitchStep, Active, Saved, NoManifest, Empty
<1>7. CASE Env
  <2>1. ~Stop
    BY BoundsAssumption DEF Stop, TypeOK, Orderly
  <2>2. PICK f \in Files, c \in Content : Deliver(f, c)
    BY <1>7, <2>1 DEF Env
  <2>3. /\ dir' = [dir EXCEPT !["dev"][f] = c] /\ UNCHANGED <<hasBackup, stage>>
    BY <2>2 DEF Deliver, run
  <2>4. dir'["main"] = dir["main"] /\ dir'["backup"] = dir["backup"]
    BY <2>3 DEF TypeOK, Dirs
  <2> QED
    BY <2>3, <2>4 DEF SwitchStep, Active, Saved, NoManifest, Empty
<1>8. CASE UNCHANGED vars
  BY <1>8 DEF vars, disk, run, SwitchStep, Active, Saved, NoManifest, Empty
<1> QED
  BY <1>1, <1>2, <1>3, <1>4, <1>5, <1>6, <1>7, <1>8 DEF Next, Promotion, Controls

\* The layer that runs changes as a whole: to one that is sealed and only
\* once what it replaces is saved, or back to what was saved, although it is
\* copied file by file and copies go wrong (LayerSwitch).
THEOREM LayerSwitchesWhole == ASSUME Orderly PROVE Spec => SwitchedWhole
<1>1. Init => Switch!Init
  <2> SUFFICES ASSUME Init PROVE Switch!Init
    OBVIOUS
  <2>1. PICK v \in Versions :
            dir = [d \in Dirs |-> IF d = "main" THEN [f \in Files |-> v] ELSE Empty]
    BY DEF Init
  <2>2. Active = [f \in Files |-> v] /\ Saved = NoManifest
    BY <2>1 DEF Init, Active, Saved, Dirs
  <2>3. [f \in Files |-> v] \in Bundles /\ Sealed([f \in Files |-> v])
    BY FilesAssumption, VersionsAssumption DEF Bundles, Content, Sealed, Present
  <2> QED
    BY <2>2, <2>3 DEF Switch!Init
<1>2. (IInv /\ OrderInv) /\ [Next]_vars => [Switch!Next]_<<Active, Saved>>
  BY StepSwitches, SwitchStepIsNext
<1> QED
  BY <1>1, <1>2, OrderInductive, PTL DEF Spec, SwitchedWhole, Switch!Spec

=============================================================================
