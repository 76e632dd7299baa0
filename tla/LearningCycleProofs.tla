-------------------------- MODULE LearningCycleProofs --------------------------
(***************************************************************************)
(* The learning cycle for any number of runs, collections and documents:   *)
(* its files are well formed, the policy it says was judged is the one     *)
(* that was run, failed demonstrations that <out> has a collect step for   *)
(* are not trained on, full cycles leave a ledger that chains, and no      *)
(* ledger is ahead of where its lines come from.                           *)
(***************************************************************************)
EXTENDS LearningCycle, WellFoundedInduction, TLAPS

USE CycleAssumption

-----------------------------------------------------------------------------
(***************************************************************************)
(* The last step of a kind.                                                *)
(***************************************************************************)
\* A set of indices has a greatest one.
LEMMA MaxOfIndices ==
    ASSUME NEW n \in Nat, NEW I \in SUBSET (1 .. n), I # {}
    PROVE  Max(I) \in I /\ \A i \in I : Max(I) >= i
<1> DEFINE R    == OpToRel(<, Nat)
           Back == {n - i : i \in I}
<1>1. IsWellFoundedOn(R, Nat)
  BY NatLessThanWellFounded
<1>2. Back \subseteq Nat /\ Back # {}
  <2>1. PICK i \in I : TRUE
    OBVIOUS
  <2>2. n - i \in Back
    OBVIOUS
  <2>3. \A x \in I : n - x \in Nat
    OBVIOUS
  <2> QED BY <2>2, <2>3
<1>3. \E x \in Back : \A y \in Back : ~ (<<y, x>> \in R)
  <2> HIDE DEF R, Back
  <2> QED BY <1>1, <1>2, WFMin
<1>4. PICK m \in I : \A i \in I : ~ (<<n - i, n - m>> \in R)
  BY <1>3
<1>5. \A i \in I : m >= i
  <2> SUFFICES ASSUME NEW i \in I, m < i PROVE FALSE
    OBVIOUS
  <2>1. n - i \in Nat /\ n - m \in Nat /\ n - i < n - m
    OBVIOUS
  <2>2. <<n - i, n - m>> \in R
    BY <2>1 DEF OpToRel
  <2> QED BY <1>4, <2>2
<1> QED BY <1>5 DEF Max

Indices(steps, n, kind) == {i \in 1 .. n : steps[i].kind = kind}

\* LastOf in terms of the set of a kind's indices.
LEMMA LastOfIs ==
    ASSUME NEW steps, NEW n, NEW kind
    PROVE  LastOf(steps, n, kind) =
             IF Indices(steps, n, kind) = {} THEN None
             ELSE IF Max(Indices(steps, n, kind)) = 0 THEN None
             ELSE steps[Max(Indices(steps, n, kind))]
BY DEF LastOf, SelectLastInSubSeq, Indices

\* What a ledger says of its first n lines does not change when it grows.
LEMMA LastOfGrows ==
    ASSUME NEW steps \in Seq(Steps), NEW step \in Steps, NEW n \in 0 .. Len(steps), NEW kind
    PROVE  LastOf(Append(steps, step), n, kind) = LastOf(steps, n, kind)
<1> DEFINE grown == Append(steps, step)
<1>1. \A i \in 1 .. Len(steps) : grown[i] = steps[i]
  OBVIOUS
<1>2. Indices(grown, n, kind) = Indices(steps, n, kind)
  BY <1>1 DEF Indices
<1>3. ASSUME Indices(steps, n, kind) # {}
      PROVE  Max(Indices(steps, n, kind)) \in 1 .. n
  <2>1. Indices(steps, n, kind) \in SUBSET (1 .. n)
    BY DEF Indices
  <2>2. n \in Nat
    OBVIOUS
  <2>3. Max(Indices(steps, n, kind)) \in Indices(steps, n, kind)
    BY <1>3, <2>1, <2>2, MaxOfIndices
  <2> QED BY <2>1, <2>3
<1> HIDE DEF grown
<1>4. LastOf(grown, n, kind) = LastOf(steps, n, kind)
  <2>1. CASE Indices(steps, n, kind) = {}
    BY <1>2, <2>1, LastOfIs
  <2>2. CASE Indices(steps, n, kind) # {}
    <3>1. Max(Indices(steps, n, kind)) \in 1 .. Len(steps)
      BY <1>3, <2>2
    <3>2. Max(Indices(steps, n, kind)) # 0
      BY <3>1
    <3>3. LastOf(steps, n, kind) = steps[Max(Indices(steps, n, kind))]
      BY <2>2, <3>2, LastOfIs
    <3>4. LastOf(grown, n, kind) = grown[Max(Indices(steps, n, kind))]
      BY <1>2, <2>2, <3>2, LastOfIs
    <3> QED BY <1>1, <3>1, <3>3, <3>4
  <2> QED BY <2>1, <2>2
<1> QED BY <1>4 DEF grown

\* A line of another kind is passed over.
LEMMA LastOfSkips ==
    ASSUME NEW steps \in Seq(Steps), NEW step \in Steps, NEW kind, step.kind # kind
    PROVE  LastOf(Append(steps, step), Len(steps) + 1, kind) = LastOf(steps, Len(steps), kind)
<1> DEFINE grown == Append(steps, step)
<1>1. Indices(grown, Len(steps) + 1, kind) = Indices(grown, Len(steps), kind)
  BY DEF Indices
<1> HIDE DEF grown
<1>2. LastOf(grown, Len(steps) + 1, kind) = LastOf(grown, Len(steps), kind)
  BY <1>1, LastOfIs
<1> QED BY <1>2, LastOfGrows DEF grown

\* The line just written is found.
LEMMA LastOfFound ==
    ASSUME NEW steps \in Seq(Steps), steps # << >>, NEW kind,
           steps[Len(steps)].kind = kind
    PROVE  LastOf(steps, Len(steps), kind) = steps[Len(steps)]
<1> DEFINE I == Indices(steps, Len(steps), kind)
<1>1. Len(steps) \in Nat \ {0}
  OBVIOUS
<1>2. Len(steps) \in I /\ I \in SUBSET (1 .. Len(steps))
  BY <1>1 DEF Indices
<1>3. Max(I) \in I /\ Max(I) >= Len(steps)
  <2> HIDE DEF I
  <2> QED BY <1>1, <1>2, MaxOfIndices
<1>4. Max(I) = Len(steps)
  <2>1. Max(I) \in 1 .. Len(steps)
    <3> HIDE DEF I
    <3> QED BY <1>2, <1>3
  <2> HIDE DEF I
  <2> QED BY <1>1, <1>3, <2>1
<1> QED BY <1>1, <1>2, <1>4, LastOfIs

-----------------------------------------------------------------------------
(***************************************************************************)
(* What is on disk is well formed, wherever the run is.                    *)
(***************************************************************************)
Ledgers == {"out"} \cup Roots
Contents == Content \cup {Torn, None}
Policies == Policy \cup {None}

Control ==
    /\ document \in Documents
    /\ stage \in {"idle", "collect", "merge", "gate", "train", "eval", "showcase"}
    /\ phase \in {"begin", "write", "record", "inputs", "mirror", "second"}
    /\ gate \in {None, "passed", "skipped"}
    /\ trainer \in {"before", "at", "wrote", "past", "exited"} /\ packed \in BOOLEAN
    /\ runs \in 0 .. MaxRuns /\ (stage # "idle" => runs \in 1 .. MaxRuns)

\* What the stage that writes root r leaves there.
WrittenBy(r) == [name : Collections, good : BOOLEAN, merged : {r = "merge"}]
HeldBy(r) == WrittenBy(r) \cup {Torn, None}

RootsHold == data \in [Roots -> Contents] /\ \A r \in Roots : data[r] \in HeldBy(r)

Trainings ==
    /\ reading \in Contents
    /\ weights \in Policies /\ bundle \in Policies /\ lock \in Policies
    /\ report \in Policies /\ previous \in Policies

LedgersHold == ledger \in [Ledgers -> Seq(Steps)]

\* What a stage has done by the phase it is in.
Place ==
    /\ phase = "second" => stage \in {"gate", "train", "eval"} /\ ledger["out"] # << >>
    /\ stage \in Roots /\ phase \in {"inputs", "mirror"} =>
         /\ ledger[stage] # << >>
         /\ ledger[stage][Len(ledger[stage])].kind = DataKind[stage]
         /\ ledger[stage][Len(ledger[stage])].content = data[stage]
    /\ stage = "merge" => document.merges
    /\ stage = "merge" \/ (stage = "collect" /\ phase \in {"record", "mirror"}) =>
         data["collect"] \in WrittenBy("collect")
    /\ stage = "train" /\ phase \in {"write", "record"} => reading # None
    /\ stage = "train" /\ phase = "write" /\ packed => bundle # None

TypeInv == Control /\ RootsHold /\ Trainings /\ LedgersHold /\ Place

\* A root that was written holds a content.
LEMMA WrittenIsContent ==
    ASSUME NEW r, NEW content \in WrittenBy(r)
    PROVE  content \in Content /\ content \in Contents
BY DEF WrittenBy, Content, Contents

\* The line a stage writes.
LEMMA StepsTyped ==
    /\ \A c \in Contents : /\ [Step("Collect") EXCEPT !.content = c] \in Steps
                           /\ [Step("Distill") EXCEPT !.content = c] \in Steps
    /\ \A passed \in BOOLEAN :
         [Step("Evaluate") EXCEPT !.expert = TRUE, !.passed = passed] \in Steps
    /\ \A c \in Contents, policy \in Policies, g \in {None, "passed", "skipped"} :
         [Step("Train") EXCEPT !.content = c, !.policy = policy, !.gate = g] \in Steps
    /\ \A policy \in Policies : [Step("Evaluate") EXCEPT !.policy = policy] \in Steps
BY DEF Step, Steps, Contents, Policies

\* One ledger is a line longer.
LEMMA LedgerGrows ==
    ASSUME LedgersHold, NEW l \in Ledgers, NEW step \in Steps
    PROVE  /\ [ledger EXCEPT ![l] = Append(@, step)] \in [Ledgers -> Seq(Steps)]
           /\ \A k \in Ledgers : [ledger EXCEPT ![l] = Append(@, step)][k] =
                IF k = l THEN Append(ledger[l], step) ELSE ledger[k]
BY DEF LedgersHold

\* Where a stage that is done leads.
LEMMA AfterStages ==
    /\ After["collect"] \in {"merge", "gate", "train"}
    /\ After["merge"] \in {"gate", "train"}
    /\ After["gate"] = "train" /\ After["train"] = "eval" /\ After["eval"] = "showcase"
BY DEF After, AfterData

\* The names of roots and ledgers.
LEMMA RootsAre == DatasetRoot \in Roots /\ Roots = {"collect", "merge"} /\ "out" \notin Roots
BY DEF DatasetRoot, Roots

\* A directory in which nothing has run yet.
LEMMA InitType == Init => TypeInv
<1> SUFFICES ASSUME Init PROVE TypeInv
  OBVIOUS
<1>1. Control
  <2>1. stage = "idle" /\ phase = "begin" /\ gate = None /\ trainer = "before" /\ runs = 0
    BY DEF Init
  <2>2. document \in Documents /\ packed \in BOOLEAN
    BY DEF Init
  <2> QED BY <2>1, <2>2 DEF Control
<1>2. RootsHold /\ Trainings
  <2>1. data = [r \in Roots |-> None]
    BY DEF Init
  <2>2. None \in Contents
    BY DEF Contents
  <2>3. data \in [Roots -> Contents] /\ \A r \in Roots : data[r] = None
    BY <2>1, <2>2
  <2>4. RootsHold
    BY <2>3 DEF RootsHold, HeldBy
  <2> QED BY <2>4 DEF Init, Trainings, Contents, Policies
<1>3. << >> \in Seq(Steps)
  OBVIOUS
<1>4. LedgersHold
  BY <1>3 DEF Init, LedgersHold, Ledgers
<1>5. Place
  BY DEF Init, Place, Roots
<1> QED BY <1>1, <1>2, <1>4, <1>5 DEF TypeInv

\* Starting and stopping write nothing.
LEMMA StartStopType ==
    ASSUME TypeInv, Stop \/ (\E from \in {"collect", "train", "eval", "showcase"} : Start(from))
                    \/ RefuseDemonstrations \/ End,
           UNCHANGED document
    PROVE  TypeInv'
<1>1. UNCHANGED <<disk, training, document>>
  BY DEF Stop, Start, RefuseDemonstrations, End, Quit, training
<1>2. Control'
  BY <1>1 DEF TypeInv, Control, Stop, Start, RefuseDemonstrations, End, Quit, Enter, training
<1>3. RootsHold' /\ Trainings' /\ LedgersHold'
  BY <1>1 DEF TypeInv, RootsHold, Trainings, LedgersHold, disk, training
<1>4. phase' = "begin" /\ stage' # "merge"
  BY DEF Stop, Start, RefuseDemonstrations, End, Quit, Enter
<1>5. Place'
  BY <1>4 DEF Place
<1> QED BY <1>2, <1>3, <1>5 DEF TypeInv

\* The two stages that write a dataset root.
LEMMA DataType ==
    ASSUME TypeInv, BeginData \/ FinishData \/ RecordData \/ RecordInputs \/ MirrorData,
           UNCHANGED document
    PROVE  TypeInv'
<1>1. stage \in Roots /\ stage \in {"collect", "merge"}
  BY DEF BeginData, FinishData, RecordData, RecordInputs, MirrorData, Roots
<1>2. Trainings'
  BY DEF TypeInv, Trainings, BeginData, FinishData, RecordData, RecordInputs, MirrorData, training
<1>3. CASE BeginData
  <2>1. data' = [data EXCEPT ![stage] = IF @ = None THEN None ELSE Torn]
        /\ stage' = stage /\ phase' = "write" /\ ledger' = ledger
    BY <1>3 DEF BeginData
  <2>2. Control' /\ LedgersHold'
    BY <1>3, <2>1 DEF BeginData, TypeInv, Control, LedgersHold, training
  <2>3. \A r \in Roots : r # stage => data'[r] = data[r]
    BY <2>1 DEF TypeInv, RootsHold
  <2>4. data'[stage] \in HeldBy(stage) /\ data' \in [Roots -> Contents]
    BY <1>1, <2>1 DEF TypeInv, RootsHold, Contents, HeldBy
  <2>5. RootsHold'
    BY <2>3, <2>4 DEF TypeInv, RootsHold
  <2>6. Place'
    BY <1>1, <2>1, <2>3, RootsAre DEF TypeInv, Place
  <2> QED BY <1>2, <2>2, <2>5, <2>6 DEF TypeInv
<1>4. CASE FinishData
  <2>1. PICK content \in IF stage = "merge" THEN {Merged(data.collect)}
                         ELSE [name : Collections, good : BOOLEAN, merged : {FALSE}] :
          data' = [data EXCEPT ![stage] = content]
    BY <1>4 DEF FinishData
  <2>2. stage' = stage /\ phase' = "record" /\ ledger' = ledger
    BY <1>4 DEF FinishData
  <2>3. content \in WrittenBy(stage)
    <3>1. CASE stage = "merge"
      <4>1. data["collect"] \in WrittenBy("collect")
        BY <3>1, RootsAre DEF TypeInv, Place
      <4> QED BY <2>1, <3>1, <4>1 DEF Merged, WrittenBy
    <3>2. CASE stage # "merge"
      BY <2>1, <3>2 DEF WrittenBy
    <3> QED BY <3>1, <3>2
  <2>4. Control' /\ LedgersHold'
    BY <1>4, <2>2 DEF FinishData, TypeInv, Control, LedgersHold, training
  <2>5. /\ data' \in [Roots -> Contents] /\ data'[stage] = content
        /\ \A r \in Roots : r # stage => data'[r] = data[r]
    BY <1>1, <2>1, <2>3, WrittenIsContent DEF TypeInv, RootsHold
  <2>6. RootsHold'
    BY <2>3, <2>5 DEF TypeInv, RootsHold, HeldBy
  <2>7. Place'
    <3>1. stage = "collect" => data'["collect"] \in WrittenBy("collect")
      BY <2>3, <2>5
    <3>2. stage = "merge" => data'["collect"] = data["collect"]
      BY <2>5, RootsAre
    <3> QED BY <1>1, <2>2, <3>1, <3>2 DEF TypeInv, Place
  <2> QED BY <1>2, <2>4, <2>6, <2>7 DEF TypeInv
<1>5. CASE RecordData
  <2> DEFINE step == [Step(DataKind[stage]) EXCEPT !.content = data[stage]]
             longer == Append(ledger[stage], step)
  <2>1. DataKind[stage] \in {"Collect", "Distill"} /\ data[stage] \in Contents
    BY <1>1 DEF DataKind, TypeInv, RootsHold, Roots
  <2>2. step \in Steps /\ step.kind = DataKind[stage] /\ step.content = data[stage]
    BY <2>1, StepsTyped DEF Step
  <2>3. stage \in Ledgers /\ ledger[stage] \in Seq(Steps)
    BY <1>1 DEF TypeInv, LedgersHold, Ledgers
  <2>4. ledger' \in [Ledgers -> Seq(Steps)] /\ ledger'[stage] = longer
    <3>1. ledger' = [ledger EXCEPT ![stage] = Append(@, step)]
      BY <1>5 DEF RecordData
    <3> HIDE DEF step
    <3> QED BY <2>2, <2>3, <3>1, LedgerGrows DEF TypeInv
  <2>5. longer # << >> /\ longer[Len(longer)] = step
    <3> HIDE DEF step
    <3> QED BY <2>3
  <2>6. stage' = stage /\ phase = "record" /\ phase' \in {"inputs", "mirror"} /\ data' = data
    BY <1>5 DEF RecordData
  <2>7. Control' /\ RootsHold'
    BY <1>5, <2>6 DEF RecordData, TypeInv, Control, RootsHold, training
  <2>8. Place'
    <3> HIDE DEF step, longer
    <3> QED BY <1>1, <2>2, <2>4, <2>5, <2>6 DEF TypeInv, Place
  <2> QED BY <1>2, <2>4, <2>7, <2>8 DEF TypeInv, LedgersHold
<1>6. CASE RecordInputs
  <2> DEFINE step == ledger["merge"][Len(ledger["merge"])]
  <2>1. stage = "merge" /\ stage' = stage /\ phase = "inputs" /\ phase' = "mirror" /\ data' = data
    BY <1>6 DEF RecordInputs
  <2>2. ledger["merge"] \in Seq(Steps) /\ ledger["merge"] # << >>
    BY <1>1, <2>1, RootsAre DEF TypeInv, Place, LedgersHold, Ledgers
  <2>3. step \in Steps
    BY <2>2
  <2>4. LedgersHold' /\ ledger'["merge"] = ledger["merge"]
    <3>1. ledger' = [ledger EXCEPT !["collect"] = Append(@, step)]
      BY <1>6 DEF RecordInputs
    <3> HIDE DEF step
    <3> QED BY <2>3, <3>1, LedgerGrows, RootsAre DEF TypeInv, LedgersHold, Ledgers
  <2>5. Control' /\ RootsHold'
    BY <1>6, <2>1 DEF RecordInputs, TypeInv, Control, RootsHold, training
  <2>6. Place'
    <3> HIDE DEF step
    <3> QED BY <1>1, <2>1, <2>4 DEF TypeInv, Place
  <2> QED BY <1>2, <2>4, <2>5, <2>6 DEF TypeInv
<1>7. CASE MirrorData
  <2>1. /\ ledger[stage] \in Seq(Steps) /\ ledger[stage] # << >>
        /\ ledger[stage][Len(ledger[stage])].kind = DataKind[stage]
    BY <1>1, <1>7, RootsAre DEF MirrorData, TypeInv, Place, LedgersHold, Ledgers
  <2>2. Mirrored(stage) = ledger[stage][Len(ledger[stage])]
    BY <2>1, LastOfFound DEF Mirrored
  <2>3. Mirrored(stage) \in Steps
    BY <2>1, <2>2
  <2>4. LedgersHold'
    BY <1>7, <2>3, LedgerGrows DEF MirrorData, TypeInv, LedgersHold, Ledgers
  <2>5. /\ stage' \in {"merge", "gate", "train"} /\ phase' = "begin" /\ data' = data
        /\ stage' = "merge" => stage = "collect" /\ phase = "mirror" /\ document.merges
    BY <1>1, <1>7, AfterStages DEF MirrorData, Enter, After, AfterData
  <2>6. Control' /\ RootsHold'
    BY <1>1, <1>7, <2>5 DEF MirrorData, TypeInv, Control, RootsHold, training
  <2>7. Place'
    BY <2>5 DEF TypeInv, Place
  <2> QED BY <1>2, <2>4, <2>6, <2>7 DEF TypeInv
<1> QED BY <1>3, <1>4, <1>5, <1>6, <1>7

\* The first of two appends.
LEMMA AppendFirstType ==
    ASSUME TypeInv, NEW step \in Steps, AppendFirst(step), stage \in {"gate", "train", "eval"},
           gate' \in {None, "passed", "skipped"},
           UNCHANGED <<document, weights, bundle, lock, report, previous>>
    PROVE  TypeInv' /\ ledger'["out"] = Append(ledger["out"], step)
<1>1. LedgersHold' /\ ledger'["out"] = Append(ledger["out"], step)
  BY LedgerGrows DEF AppendFirst, FirstLedger, TypeInv, LedgersHold, Ledgers
<1>2. ledger["out"] \in Seq(Steps)
  BY DEF TypeInv, LedgersHold, Ledgers
<1>3. ledger'["out"] # << >>
  BY <1>1, <1>2
<1>4. Control' /\ RootsHold' /\ Trainings'
  BY DEF AppendFirst, TypeInv, Control, RootsHold, Trainings, training
<1>5. stage' = stage /\ phase' = "second" /\ data' = data
  BY DEF AppendFirst
<1>6. Place'
  BY <1>3, <1>5, RootsAre DEF TypeInv, Place
<1> QED BY <1>1, <1>4, <1>6 DEF TypeInv

\* The expert gate, judged or skipped.
LEMMA GateType ==
    ASSUME TypeInv, Gate, UNCHANGED document
    PROVE  TypeInv'
<1>1. CASE /\ \E passed \in BOOLEAN :
                AppendFirst([Step("Evaluate") EXCEPT !.expert = TRUE, !.passed = passed])
           /\ UNCHANGED <<gate, weights, bundle, lock, report, previous>>
  BY <1>1, StepsTyped, AppendFirstType DEF Gate, TypeInv, Control
<1>2. CASE /\ gate' = "skipped" /\ Enter("train")
           /\ UNCHANGED <<runs, training, disk, chained, resumed>>
  <2>1. Control' /\ RootsHold' /\ Trainings' /\ LedgersHold'
    BY <1>2 DEF Gate, TypeInv, Control, RootsHold, Trainings, LedgersHold, Enter, disk, training
  <2>2. Place'
    BY <1>2 DEF Enter, Place, Roots
  <2> QED BY <2>1, <2>2 DEF TypeInv
<1> QED BY <1>1, <1>2 DEF Gate

\* The second of two appends, which ends the stage.
LEMMA AppendSecondType ==
    ASSUME TypeInv, AppendSecond, UNCHANGED document
    PROVE  TypeInv' /\ ledger'["out"] = ledger["out"]
<1> DEFINE step == ledger["out"][Len(ledger["out"])]
<1>1. /\ stage \in {"gate", "train", "eval"}
      /\ ledger["out"] \in Seq(Steps) /\ ledger["out"] # << >>
  BY DEF TypeInv, Place, AppendSecond, LedgersHold, Ledgers
<1>2. step \in Steps
  BY <1>1
<1>3. SecondLedger = DatasetRoot /\ DatasetRoot \in Ledgers /\ DatasetRoot # "out"
  BY RootsAre DEF SecondLedger, FirstLedger, Ledgers
<1>4. ledger' = [ledger EXCEPT ![DatasetRoot] = Append(@, step)]
  BY <1>3 DEF AppendSecond, FirstLedger
<1>5. LedgersHold' /\ ledger'["out"] = ledger["out"]
  <2> HIDE DEF step
  <2> QED BY <1>2, <1>3, <1>4, LedgerGrows DEF TypeInv, LedgersHold, Ledgers
<1>6. /\ phase' = "begin" /\ stage' \in {"idle", "train", "eval", "showcase"}
      /\ gate' \in {None, "passed", "skipped"}
      /\ UNCHANGED <<runs, training>>
  BY <1>1, AfterStages DEF AppendSecond, Quit, Enter, TypeInv, Control
<1>7. Control' /\ RootsHold' /\ Trainings'
  <2>1. UNCHANGED <<data, weights, bundle, lock, report, previous>>
    BY DEF AppendSecond
  <2>2. stage # "idle"
    BY <1>1
  <2> QED BY <1>6, <2>1, <2>2 DEF TypeInv, Control, RootsHold, Trainings, training
<1>8. Place'
  BY <1>6, RootsAre DEF Place
<1> QED BY <1>5, <1>7, <1>8 DEF TypeInv

\* What the trainer makes is a policy.
LEMMA TrainedIsPolicy ==
    ASSUME TypeInv, stage = "train", phase \in {"write", "record"}
    PROVE  Trained \in Policy
BY DEF Trained, Policy, TypeInv, Control, Place, Trainings, Contents

\* The train stage up to its step.
LEMMA TrainType ==
    ASSUME TypeInv, TrainBegin \/ TrainerRuns \/ BundleLands \/ TrainFinish,
           UNCHANGED document
    PROVE  TypeInv'
<1>1. LedgersHold' /\ RootsHold' /\ stage = "train" /\ stage' = "train"
  BY DEF TrainBegin, TrainerRuns, BundleLands, TrainFinish, TypeInv, LedgersHold, RootsHold
<1>2. CASE TrainBegin
  <2>1. data[DatasetRoot] \in Contents /\ data[DatasetRoot] # None
    BY <1>2, RootsAre DEF TrainBegin, TypeInv, RootsHold
  <2>2. Control'
    BY <1>2 DEF TrainBegin, TypeInv, Control
  <2>3. Trainings'
    BY <1>2, <2>1 DEF TrainBegin, LockAtStart, TypeInv, Trainings, Policies
  <2>4. Place'
    BY <1>1, <1>2, <2>1, RootsAre DEF TrainBegin, Place
  <2> QED BY <1>1, <2>2, <2>3, <2>4 DEF TypeInv
<1>3. CASE TrainerRuns
  <2>1. Trained \in Policies
    BY <1>3, TrainedIsPolicy DEF TrainerRuns, Policies
  <2>2. Control'
    BY <1>3 DEF TrainerRuns, TypeInv, Control
  <2>3. Trainings'
    BY <1>3, <2>1 DEF TrainerRuns, TypeInv, Trainings
  <2>4. Place'
    BY <1>1, <1>3, RootsAre DEF TrainerRuns, TypeInv, Place
  <2> QED BY <1>1, <2>2, <2>3, <2>4 DEF TypeInv
<1>4. CASE BundleLands
  <2>1. weights # None
    BY <1>4 DEF BundleLands, MarkComplete
  <2>2. Control'
    BY <1>4 DEF BundleLands, TypeInv, Control
  <2>3. Trainings'
    BY <1>4 DEF BundleLands, TypeInv, Trainings
  <2>4. Place'
    BY <1>1, <1>4, <2>1, RootsAre DEF BundleLands, TypeInv, Place
  <2> QED BY <1>1, <2>2, <2>3, <2>4 DEF TypeInv
<1>5. CASE TrainFinish
  <2>1. bundle \in Policy
    BY <1>1, <1>5 DEF TrainFinish, TypeInv, Place, Trainings, Policies
  <2>2. [Trained EXCEPT !.run = bundle.run] \in Policies
    <3>1. Trained \in Policy
      BY <1>1, <1>5, TrainedIsPolicy DEF TrainFinish
    <3> QED BY <2>1, <3>1 DEF Policy, Policies
  <2>3. Control'
    BY <1>5 DEF TrainFinish, TypeInv, Control, training
  <2>4. Trainings'
    BY <1>5, <2>2 DEF TrainFinish, TypeInv, Trainings, training
  <2>5. Place'
    BY <1>1, <1>5, RootsAre DEF TrainFinish, TypeInv, Place, training
  <2> QED BY <1>1, <2>3, <2>4, <2>5 DEF TypeInv
<1> QED BY <1>2, <1>3, <1>4, <1>5

\* The train stage's step.
LEMMA TrainRecordType ==
    ASSUME TypeInv, TrainRecord, UNCHANGED document
    PROVE  TypeInv'
<1>1. reading \in Contents /\ lock \in Policies /\ gate \in {None, "passed", "skipped"}
  BY DEF TypeInv, Trainings, Control
<1> QED BY <1>1, StepsTyped, AppendFirstType DEF TrainRecord

\* The eval stage.
LEMMA EvalType ==
    ASSUME TypeInv, EvalBegin \/ EvalFinish \/ EvalRecord, UNCHANGED document
    PROVE  TypeInv'
<1>1. CASE EvalBegin
  <2>1. Control' /\ RootsHold' /\ LedgersHold' /\ Place'
    BY <1>1, RootsAre DEF EvalBegin, TypeInv, Control, RootsHold, LedgersHold, Place, training
  <2>2. Trainings'
    BY <1>1 DEF EvalBegin, TypeInv, Trainings, Policies, training
  <2> QED BY <2>1, <2>2 DEF TypeInv
<1>2. CASE EvalFinish
  BY <1>2, RootsAre DEF EvalFinish, TypeInv, Control, RootsHold, LedgersHold, Trainings, Place,
                        training
<1>3. CASE EvalRecord
  <2>1. lock \in Policies /\ gate \in {None, "passed", "skipped"}
    BY DEF TypeInv, Trainings, Control
  <2> QED BY <1>3, <2>1, StepsTyped, AppendFirstType DEF EvalRecord
<1> QED BY <1>1, <1>2, <1>3

\* TypeInv is inductive.
LEMMA NextType == TypeInv /\ [Next]_vars => TypeInv'
<1> SUFFICES ASSUME TypeInv, [Next]_vars PROVE TypeInv'
  OBVIOUS
<1>1. CASE UNCHANGED vars
  BY <1>1 DEF vars, run_, disk, training, TypeInv, Control, RootsHold, Trainings, LedgersHold,
              Place
<1>2. CASE Next
  BY <1>2, StartStopType, DataType, GateType, AppendSecondType, TrainType, TrainRecordType,
     EvalType DEF Next
<1> QED BY <1>1, <1>2

\* Every file a run may leave, and every line of every ledger, is well formed, whichever
\* writes runs were killed between.
THEOREM CycleTypeCorrect == Spec => []TypeOK
<1>1. TypeInv => TypeOK
  <2> SUFFICES ASSUME TypeInv PROVE TypeOK
    OBVIOUS
  <2>1. \A r \in Roots : data[r] \in {None, Torn} \/
                        (data[r] \in Content /\ data[r].merged = (r = "merge"))
    BY DEF TypeInv, RootsHold, HeldBy, WrittenBy, Content
  <2>2. \A l \in DOMAIN ledger : \A i \in DOMAIN ledger[l] : ledger[l][i] \in Steps
    BY DEF TypeInv, LedgersHold
  <2>3. {weights, bundle, lock, report, previous} \subseteq Policy \cup {None}
    BY DEF TypeInv, Trainings, Policies
  <2> QED BY <2>1, <2>2, <2>3 DEF TypeInv, Control, TypeOK
<1> QED BY <1>1, InitType, NextType, PTL DEF Spec

-----------------------------------------------------------------------------
(***************************************************************************)
(* The policy that is named is the one that was judged.                    *)
(***************************************************************************)
\* Weights on disk are this run's once its trainer has written the mark; a lock that
\* names a checkpoint names the bundle, for it names none while a bundle may change.
JudgeInv ==
    /\ stage = "train" /\ phase = "write" =>
         /\ lock = None
         /\ trainer \in {"wrote", "past", "exited"} => weights = Trained
         /\ packed => bundle = Trained
    /\ lock # None => lock = bundle
    /\ stage = "eval" /\ phase \in {"record", "second"} => report = bundle
    /\ JudgedIsNamed

\* Nothing is judged to begin with.
LEMMA InitJudge == Init => JudgeInv
BY DEF Init, JudgeInv, JudgedIsNamed

\* The stages that write no policy file.
LEMMA ElsewhereJudge ==
    ASSUME TypeInv, JudgeInv,
           \/ Stop \/ (\E from \in {"collect", "train", "eval", "showcase"} : Start(from))
           \/ RefuseDemonstrations \/ End
           \/ BeginData \/ FinishData \/ RecordData \/ RecordInputs \/ MirrorData
           \/ Gate \/ AppendSecond
    PROVE  JudgeInv'
<1>1. UNCHANGED <<weights, bundle, lock, report>>
  BY DEF Stop, Start, RefuseDemonstrations, End, BeginData, FinishData, RecordData, RecordInputs,
         MirrorData, Gate, AppendSecond, disk
<1>2. ~(stage' = "train" /\ phase' = "write") /\ ~(stage' = "eval" /\ phase' \in {"record", "second"})
  <2>1. CASE Stop \/ (\E from \in {"collect", "train", "eval", "showcase"} : Start(from))
             \/ RefuseDemonstrations \/ End
    BY <2>1 DEF Stop, Start, RefuseDemonstrations, End, Quit, Enter
  <2>2. CASE BeginData \/ FinishData \/ RecordData \/ RecordInputs
    BY <2>2, RootsAre DEF BeginData, FinishData, RecordData, RecordInputs
  <2>3. CASE MirrorData
    BY <2>3 DEF MirrorData, Enter
  <2>4. CASE Gate
    BY <2>4 DEF Gate, AppendFirst, Enter
  <2>5. CASE AppendSecond
    BY <2>5 DEF AppendSecond, Quit, Enter
  <2> QED BY <2>1, <2>2, <2>3, <2>4, <2>5
<1> QED BY <1>1, <1>2 DEF JudgeInv, JudgedIsNamed

\* Train replaces weights, bundle and lock in this order, the lock emptied first.
LEMMA TrainJudge ==
    ASSUME TypeInv, JudgeInv, TrainBegin \/ TrainerRuns \/ BundleLands \/ TrainFinish \/ TrainRecord
    PROVE  JudgeInv'
<1>1. stage = "train" /\ stage' = "train"
  BY DEF TrainBegin, TrainerRuns, BundleLands, TrainFinish, TrainRecord, AppendFirst
<1>2. CASE TrainBegin
  BY <1>1, <1>2 DEF TrainBegin, LockAtStart, JudgeInv, JudgedIsNamed
<1>3. CASE TrainerRuns
  <2>1. Trained' = Trained
    BY <1>3 DEF TrainerRuns, Trained
  <2>2. trainer' \in {"wrote", "past", "exited"} => weights' = Trained
    BY <1>1, <1>3 DEF TrainerRuns, JudgeInv
  <2> QED BY <1>1, <1>3, <2>1, <2>2 DEF TrainerRuns, JudgeInv, JudgedIsNamed
<1>4. CASE BundleLands
  <2>1. Trained' = Trained
    BY <1>4 DEF BundleLands, Trained
  <2>2. weights = Trained /\ lock = None
    BY <1>1, <1>4 DEF BundleLands, MarkComplete, JudgeInv
  <2> QED BY <1>1, <1>4, <2>1, <2>2 DEF BundleLands, JudgeInv, JudgedIsNamed
<1>5. CASE TrainFinish
  <2>1. bundle = Trained
    BY <1>1, <1>5 DEF TrainFinish, JudgeInv
  <2>2. [Trained EXCEPT !.run = bundle.run] = bundle
    BY <2>1 DEF Trained
  <2> QED BY <1>1, <1>5, <2>2 DEF TrainFinish, JudgeInv, JudgedIsNamed
<1>6. CASE TrainRecord
  BY <1>1, <1>6 DEF TrainRecord, AppendFirst, JudgeInv, JudgedIsNamed
<1> QED BY <1>2, <1>3, <1>4, <1>5, <1>6

\* Eval runs the bundle and names the lock's policy.
LEMMA EvalJudge ==
    ASSUME TypeInv, JudgeInv, EvalBegin \/ EvalFinish \/ EvalRecord, UNCHANGED document
    PROVE  JudgeInv'
<1>1. stage = "eval" /\ stage' = "eval" /\ UNCHANGED <<bundle, lock>>
  BY DEF EvalBegin, EvalFinish, EvalRecord, AppendFirst
<1>2. CASE EvalBegin
  BY <1>1, <1>2 DEF EvalBegin, JudgeInv, JudgedIsNamed
<1>3. CASE EvalFinish
  BY <1>1, <1>3 DEF EvalFinish, JudgeInv, JudgedIsNamed
<1>4. CASE EvalRecord
  <2> DEFINE step == [Step("Evaluate") EXCEPT !.policy = lock]
  <2>1. lock = bundle /\ report = bundle /\ report' = report
    BY <1>1, <1>4 DEF EvalRecord, JudgeInv
  <2>2. step \in Steps /\ step.policy = lock
    <3>1. lock \in Policies
      BY DEF TypeInv, Trainings
    <3> QED BY <3>1, StepsTyped DEF Step
  <2>3. ledger'["out"] = Append(ledger["out"], step)
    <3>1. gate \in {None, "passed", "skipped"}
      BY DEF TypeInv, Control
    <3> QED BY <1>1, <1>4, <2>2, <3>1, AppendFirstType DEF EvalRecord
  <2>4. ledger["out"] \in Seq(Steps)
    BY DEF TypeInv, LedgersHold, Ledgers
  <2>5. ledger'["out"][Len(ledger'["out"])] = step
    <3> HIDE DEF step
    <3> QED BY <2>2, <2>3, <2>4
  <2>6. JudgedIsNamed'
    BY <2>1, <2>2, <2>5 DEF JudgedIsNamed, FirstLedger
  <2> QED BY <1>1, <2>1, <2>6 DEF JudgeInv
<1> QED BY <1>2, <1>3, <1>4

\* The policy an evaluate step names is the one whose bundle was run, whatever earlier
\* runs left in train/ and wherever they were killed.
THEOREM AlwaysJudgedIsNamed == Spec => []JudgedIsNamed
<1>1. TypeInv /\ JudgeInv /\ [Next]_vars => JudgeInv'
  <2> SUFFICES ASSUME TypeInv, JudgeInv, [Next]_vars PROVE JudgeInv'
    OBVIOUS
  <2>1. CASE UNCHANGED vars
    BY <2>1 DEF vars, run_, disk, training, JudgeInv, JudgedIsNamed, Trained
  <2>2. CASE Next
    BY <2>2, ElsewhereJudge, TrainJudge, EvalJudge DEF Next
  <2> QED BY <2>1, <2>2
<1>2. JudgeInv => JudgedIsNamed
  BY DEF JudgeInv
<1> QED BY <1>1, <1>2, InitType, NextType, InitJudge, PTL DEF Spec

-----------------------------------------------------------------------------
(***************************************************************************)
(* Failed demonstrations that <out> has a collect step for are refused.    *)
(***************************************************************************)
\* Between collecting and training, what <out>'s ledger says was collected last, if it
\* says anything, is what the root holds.
RecordedIsHeld ==
    stage = "gate" \/ (stage = "train" /\ phase = "begin") =>
      Recorded("out") \in {None, data["collect"]}

RefuseInv == ~document.merges => RecordedIsHeld /\ RefusedOnceRecorded

\* Without a merge, what <out> records is collected.
LEMMA RecordedIs ==
    ASSUME ~document.merges
    PROVE  /\ DatasetRoot = "collect" /\ DataKind[DatasetRoot] = "Collect"
           /\ Recorded("out") = LET last == LastOf(ledger["out"], Len(ledger["out"]), "Collect")
                                IN  IF last = None THEN None ELSE last.content
BY DEF Recorded, DatasetRoot, DataKind

\* Nothing is recorded to begin with.
LEMMA InitRefuse == Init => RefuseInv
BY DEF Init, RefuseInv, RecordedIsHeld, RefusedOnceRecorded, InTraining

\* The steps that leave <out>'s ledger as it is.
LEMMA QuietRefuse ==
    ASSUME TypeInv, RefuseInv, UNCHANGED document,
           \/ Stop \/ (\E from \in {"collect", "train", "eval", "showcase"} : Start(from))
           \/ RefuseDemonstrations \/ End
           \/ BeginData \/ FinishData \/ RecordData \/ RecordInputs \/ AppendSecond
           \/ TrainBegin \/ TrainerRuns \/ BundleLands \/ TrainFinish \/ EvalBegin \/ EvalFinish
    PROVE  RefuseInv'
<1> SUFFICES ASSUME ~document.merges PROVE RecordedIsHeld' /\ RefusedOnceRecorded'
  BY DEF RefuseInv
<1>1. ledger'["out"] = ledger["out"]
  <2>1. CASE RecordData \/ RecordInputs
    BY <2>1, RootsAre DEF RecordData, RecordInputs, TypeInv, LedgersHold, Ledgers
  <2>2. CASE AppendSecond
    BY <2>2, AppendSecondType
  <2>3. CASE ~RecordData /\ ~RecordInputs /\ ~AppendSecond
    BY <2>3 DEF Stop, Start, RefuseDemonstrations, End, BeginData, FinishData, TrainBegin,
                TrainerRuns, BundleLands, TrainFinish, EvalBegin, EvalFinish, disk
  <2> QED BY <2>1, <2>2, <2>3
<1>2. Recorded("out")' = Recorded("out")
  BY <1>1 DEF Recorded, DatasetRoot
<1>3. CASE Stop \/ RefuseDemonstrations \/ End
  <2>1. stage' = "idle"
    BY <1>3 DEF Stop, RefuseDemonstrations, End, Quit
  <2> QED BY <2>1 DEF RecordedIsHeld, RefusedOnceRecorded, InTraining
<1>4. CASE \E from \in {"collect", "train", "eval", "showcase"} : Start(from)
  <2>1. PICK from \in {"collect", "train", "eval", "showcase"} : Start(from)
    BY <1>4
  <2>2. stage' = from /\ phase' = "begin" /\ data' = data /\ MayResume(from)
    BY <2>1 DEF Start, Enter, disk
  <2>3. from = "train" => Recorded("out") \in {None, data["collect"]}
    BY <2>2, RecordedIs DEF MayResume
  <2> QED BY <1>2, <2>2, <2>3 DEF RecordedIsHeld, RefusedOnceRecorded, InTraining
<1>5. CASE BeginData \/ FinishData \/ RecordData \/ RecordInputs \/ EvalBegin \/ EvalFinish
  <2>1. stage' \notin {"gate", "train"}
    BY <1>5, RootsAre DEF BeginData, FinishData, RecordData, RecordInputs, EvalBegin, EvalFinish
  <2> QED BY <2>1 DEF RecordedIsHeld, RefusedOnceRecorded, InTraining
<1>6. CASE AppendSecond
  <2>1. /\ phase' = "begin" /\ data' = data
        /\ stage' \in {"gate", "train"} => stage = "gate" /\ stage' = "train"
    BY <1>6, AfterStages DEF AppendSecond, Quit, Enter, TypeInv, Place
  <2> QED BY <1>2, <2>1 DEF RefuseInv, RecordedIsHeld, RefusedOnceRecorded, InTraining
<1>7. CASE TrainBegin
  <2>1. /\ stage' = "train" /\ phase' = "write" /\ reading' = data["collect"]
        /\ Recorded("out") \in {None, data["collect"]}
        /\ ~DemonstrationsFailed(ledger["out"])
    BY <1>7, RecordedIs DEF TrainBegin, RefuseInv, RecordedIsHeld
  <2>2. document.expert /\ Recorded("out") # None => data["collect"].good
    BY <2>1, RecordedIs DEF DemonstrationsFailed
  <2>3. RefusedOnceRecorded'
    BY <1>2, <2>1, <2>2 DEF RefusedOnceRecorded, FailedData
  <2> QED BY <2>1, <2>3 DEF RecordedIsHeld
<1>8. CASE TrainerRuns \/ BundleLands \/ TrainFinish
  <2>1. stage = "train" /\ stage' = "train" /\ phase = "write" /\ phase' \in {"write", "record"}
        /\ reading' = reading
    BY <1>8 DEF TrainerRuns, BundleLands, TrainFinish, training
  <2> QED BY <1>2, <2>1 DEF RefuseInv, RecordedIsHeld, RefusedOnceRecorded, InTraining, FailedData
<1> QED BY <1>3, <1>4, <1>5, <1>6, <1>7, <1>8

\* A gate's, a train's or an evaluate step says nothing of what was collected.
LEMMA RecordRefuse ==
    ASSUME TypeInv, RefuseInv, UNCHANGED document, Gate \/ TrainRecord \/ EvalRecord
    PROVE  RefuseInv'
<1> SUFFICES ASSUME ~document.merges PROVE RecordedIsHeld' /\ RefusedOnceRecorded'
  BY DEF RefuseInv
<1>1. /\ ledger["out"] \in Seq(Steps) /\ gate \in {None, "passed", "skipped"}
      /\ reading \in Contents /\ lock \in Policies
  BY DEF TypeInv, LedgersHold, Ledgers, Control, Trainings
<1>2. ASSUME NEW step \in Steps, AppendFirst(step), step.kind # "Collect"
      PROVE  Recorded("out")' = Recorded("out")
  <2>1. ledger'["out"] = Append(ledger["out"], step)
    BY <1>2 DEF AppendFirst, FirstLedger, TypeInv, LedgersHold, Ledgers
  <2>2. Len(ledger'["out"]) = Len(ledger["out"]) + 1
    BY <1>1, <2>1
  <2>3. LastOf(ledger'["out"], Len(ledger'["out"]), "Collect") =
          LastOf(ledger["out"], Len(ledger["out"]), "Collect")
    BY <1>1, <1>2, <2>1, <2>2, LastOfSkips
  <2> QED BY <2>3, RecordedIs DEF Recorded, DatasetRoot
<1>3. CASE Gate
  <2>1. stage = "gate" /\ stage' \in {"gate", "train"} /\ (stage' = "train" => phase' = "begin")
        /\ data' = data
    BY <1>3 DEF Gate, AppendFirst, Enter, disk
  <2>2. Recorded("out")' = Recorded("out")
    <3>1. ASSUME NEW passed \in BOOLEAN,
                 AppendFirst([Step("Evaluate") EXCEPT !.expert = TRUE, !.passed = passed])
          PROVE  Recorded("out")' = Recorded("out")
      <4> DEFINE step == [Step("Evaluate") EXCEPT !.expert = TRUE, !.passed = passed]
      <4>1. step \in Steps /\ step.kind # "Collect"
        BY StepsTyped DEF Step
      <4>2. AppendFirst(step)
        BY <3>1
      <4> HIDE DEF step
      <4> QED BY <1>2, <4>1, <4>2
    <3>2. CASE UNCHANGED disk
      BY <3>2 DEF disk, Recorded, DatasetRoot
    <3> QED BY <1>3, <3>1, <3>2 DEF Gate
  <2> QED BY <2>1, <2>2 DEF RefuseInv, RecordedIsHeld, RefusedOnceRecorded, InTraining
<1>4. CASE TrainRecord
  <2> DEFINE step == [Step("Train") EXCEPT !.content = reading, !.policy = lock, !.gate = gate]
  <2>1. step \in Steps /\ step.kind # "Collect"
    BY <1>1, StepsTyped DEF Step
  <2>2. AppendFirst(step) /\ stage = "train" /\ phase = "record"
    BY <1>4 DEF TrainRecord
  <2>3. stage' = "train" /\ phase' = "second" /\ reading' = reading
    BY <2>2 DEF AppendFirst, training
  <2> HIDE DEF step
  <2>4. Recorded("out")' = Recorded("out")
    BY <1>2, <2>1, <2>2
  <2> QED BY <2>2, <2>3, <2>4 DEF RefuseInv, RecordedIsHeld, RefusedOnceRecorded, InTraining, FailedData
<1>5. CASE EvalRecord
  <2>1. stage' = "eval"
    BY <1>5 DEF EvalRecord, AppendFirst
  <2> QED BY <2>1 DEF RecordedIsHeld, RefusedOnceRecorded, InTraining
<1> QED BY <1>3, <1>4, <1>5

\* A collection's mirror is of what its root holds.
LEMMA MirrorRefuse ==
    ASSUME TypeInv, RefuseInv, UNCHANGED document, MirrorData
    PROVE  RefuseInv'
<1> SUFFICES ASSUME ~document.merges PROVE RecordedIsHeld' /\ RefusedOnceRecorded'
  BY DEF RefuseInv
<1>1. stage = "collect" /\ phase = "mirror"
  BY DEF MirrorData, TypeInv, Place, Roots
<1>2. /\ ledger["collect"] \in Seq(Steps) /\ ledger["collect"] # << >>
      /\ ledger["collect"][Len(ledger["collect"])].kind = "Collect"
      /\ ledger["collect"][Len(ledger["collect"])].content = data["collect"]
      /\ ledger["out"] \in Seq(Steps)
  BY <1>1, RootsAre DEF TypeInv, Place, LedgersHold, Ledgers, DataKind
<1> DEFINE step == Mirrored("collect")
<1>3. step \in Steps /\ step.kind = "Collect" /\ step.content = data["collect"]
  <2>1. step = ledger["collect"][Len(ledger["collect"])]
    BY <1>2, LastOfFound DEF Mirrored, DataKind
  <2> QED BY <1>2, <2>1
<1>4. ledger'["out"] = Append(ledger["out"], step) /\ data' = data /\ phase' = "begin"
  BY <1>1 DEF MirrorData, Enter, TypeInv, LedgersHold, Ledgers
<1> DEFINE grown == Append(ledger["out"], step)
<1> HIDE DEF step
<1>5. grown \in Seq(Steps) /\ grown # << >> /\ grown[Len(grown)] = step
  <2>1. step \in Steps /\ ledger["out"] \in Seq(Steps)
    BY <1>2, <1>3
  <2> QED BY <2>1
<1> HIDE DEF grown
<1>6. LastOf(ledger'["out"], Len(ledger'["out"]), "Collect") = step
  BY <1>3, <1>4, <1>5, LastOfFound DEF grown
<1>7. Recorded("out")' \in {None, data["collect"]}
  BY <1>3, <1>6, RecordedIs DEF Recorded, DatasetRoot
<1> QED BY <1>4, <1>7 DEF RecordedIsHeld, RefusedOnceRecorded, InTraining

\* Where no merge stands between, demonstrations most of which failed are trained on only if
\* <out>'s ledger has no collect step, by whatever stages and crashes a run came to train.
THEOREM RecordedAlwaysRefused == Spec => []RefusedOnceRecorded
<1>1. TypeInv /\ RefuseInv /\ [Next]_vars => RefuseInv'
  <2> SUFFICES ASSUME TypeInv, RefuseInv, [Next]_vars PROVE RefuseInv'
    OBVIOUS
  <2>1. CASE UNCHANGED vars
    BY <2>1 DEF vars, run_, disk, training, RefuseInv, RecordedIsHeld, RefusedOnceRecorded,
                Recorded, DatasetRoot, InTraining, FailedData
  <2>2. CASE Next
    BY <2>2, QuietRefuse, RecordRefuse, MirrorRefuse DEF Next
  <2> QED BY <2>1, <2>2
<1>2. RefuseInv => RefusedOnceRecorded
  BY DEF RefuseInv, RefusedOnceRecorded
<1> QED BY <1>1, <1>2, InitType, NextType, InitRefuse, PTL DEF Spec

-----------------------------------------------------------------------------
(***************************************************************************)
(* Cycles that are run from their beginning chain.                         *)
(***************************************************************************)
DataIndices(steps, n) == {i \in 1 .. n : IsData(steps[i])}
Written(steps, n) == SelectLastInSubSeq(steps, 1, n, IsData)

LEMMA WrittenIs ==
    ASSUME NEW steps, NEW n
    PROVE  Written(steps, n) =
             IF DataIndices(steps, n) # {} THEN Max(DataIndices(steps, n)) ELSE 0
BY DEF Written, SelectLastInSubSeq, DataIndices

\* The step written last among the first n is one of them.
LEMMA WrittenWhere ==
    ASSUME NEW steps, NEW n \in Nat
    PROVE  Written(steps, n) = 0 \/ Written(steps, n) \in 1 .. n
<1>1. DataIndices(steps, n) \in SUBSET (1 .. n)
  BY DEF DataIndices
<1> QED BY <1>1, WrittenIs, MaxOfIndices

LEMMA WrittenGrows ==
    ASSUME NEW steps \in Seq(Steps), NEW step \in Steps, NEW n \in 0 .. Len(steps)
    PROVE  Written(Append(steps, step), n) = Written(steps, n)
<1> DEFINE grown == Append(steps, step)
<1>1. \A i \in 1 .. Len(steps) : grown[i] = steps[i]
  OBVIOUS
<1>2. DataIndices(grown, n) = DataIndices(steps, n)
  BY <1>1 DEF DataIndices
<1> HIDE DEF grown
<1>3. Written(grown, n) = Written(steps, n)
  BY <1>2, WrittenIs
<1> QED BY <1>3 DEF grown

\* The dataset a ledger says was written last has this content.
EndsWith(steps, content) ==
    /\ Written(steps, Len(steps)) # 0
    /\ steps[Written(steps, Len(steps))].content = content

LEMMA EndsSkips ==
    ASSUME NEW steps \in Seq(Steps), NEW step \in Steps, ~IsData(step)
    PROVE  /\ Written(Append(steps, step), Len(steps) + 1) = Written(steps, Len(steps))
           /\ \A content : EndsWith(steps, content) => EndsWith(Append(steps, step), content)
<1> DEFINE grown == Append(steps, step)
<1>1. /\ Len(grown) = Len(steps) + 1 /\ Len(steps) \in Nat
      /\ \A i \in 1 .. Len(steps) : grown[i] = steps[i]
  OBVIOUS
<1>2. DataIndices(grown, Len(steps) + 1) = DataIndices(grown, Len(steps))
  BY DEF DataIndices
<1>3. Written(grown, Len(steps)) = Written(steps, Len(steps))
  BY WrittenGrows
<1> HIDE DEF grown
<1>4. Written(grown, Len(steps) + 1) = Written(steps, Len(steps))
  BY <1>2, <1>3, WrittenIs
<1>5. ASSUME NEW content, EndsWith(steps, content)
      PROVE  EndsWith(grown, content)
  <2>1. Written(steps, Len(steps)) \in 1 .. Len(steps)
    BY <1>1, <1>5, WrittenWhere DEF EndsWith
  <2> QED BY <1>1, <1>4, <1>5, <2>1 DEF EndsWith
<1> QED BY <1>4, <1>5 DEF grown

LEMMA EndsFound ==
    ASSUME NEW steps \in Seq(Steps), NEW step \in Steps, IsData(step)
    PROVE  EndsWith(Append(steps, step), step.content)
<1> DEFINE grown == Append(steps, step)
           n == Len(steps) + 1
           I == DataIndices(grown, n)
<1>1. n \in Nat \ {0} /\ Len(grown) = n /\ grown[n] = step
  OBVIOUS
<1> HIDE DEF grown, n
<1>2. n \in I /\ I \in SUBSET (1 .. n)
  BY <1>1 DEF DataIndices
<1> HIDE DEF I
<1>3. Max(I) \in I /\ Max(I) >= n
  BY <1>1, <1>2, MaxOfIndices
<1>4. Max(I) \in 1 .. n
  BY <1>2, <1>3
<1>5. Max(I) = n
  BY <1>1, <1>3, <1>4
<1>6. Written(grown, n) = n
  BY <1>2, <1>5, WrittenIs DEF I
<1> QED BY <1>1, <1>6 DEF EndsWith, grown

\* Some train step of a ledger names this policy.
Names(steps, policy) ==
    \E j \in 1 .. Len(steps) : steps[j].kind = "Train" /\ steps[j].policy = policy

LEMMA NamesGrows ==
    ASSUME NEW steps \in Seq(Steps), NEW step \in Steps
    PROVE  /\ \A policy : Names(steps, policy) => Names(Append(steps, step), policy)
           /\ step.kind = "Train" => Names(Append(steps, step), step.policy)
<1> DEFINE grown == Append(steps, step)
           n == Len(steps) + 1
<1>1. /\ Len(grown) = n /\ Len(steps) \in Nat /\ n \in 1 .. n /\ grown[n] = step
      /\ \A j \in 1 .. Len(steps) : grown[j] = steps[j] /\ j \in 1 .. n
  OBVIOUS
<1> HIDE DEF grown, n
<1>2. \A policy : Names(steps, policy) => Names(grown, policy)
  BY <1>1 DEF Names
<1>3. step.kind = "Train" => Names(grown, step.policy)
  BY <1>1 DEF Names
<1> QED BY <1>2, <1>3 DEF grown

\* What check_chain asks of line i.
TrainedBy(steps, i) == {steps[j].policy : j \in {k \in 1 .. i : steps[k].kind = "Train"}}
LineChains(steps, i) ==
    /\ steps[i].kind = "Train" /\ Written(steps, i) # 0 =>
         steps[i].content = steps[Written(steps, i)].content
    /\ steps[i].kind = "Evaluate" /\ ~steps[i].expert /\ TrainedBy(steps, i) # {} =>
         steps[i].policy \in TrainedBy(steps, i)

LEMMA ChainsIs == ASSUME NEW steps PROVE Chains(steps) <=> \A i \in DOMAIN steps : LineChains(steps, i)
BY DEF Chains, LineChains, TrainedBy, Written

\* A line that agrees with those before it keeps the chain.
LEMMA ChainsGrows ==
    ASSUME NEW steps \in Seq(Steps), NEW step \in Steps, Chains(steps),
           step.kind = "Train" => EndsWith(steps, step.content),
           step.kind = "Evaluate" /\ ~step.expert => Names(steps, step.policy)
    PROVE  Chains(Append(steps, step))
<1> DEFINE grown == Append(steps, step)
           n == Len(steps) + 1
<1>1. /\ Len(grown) = n /\ Len(steps) \in Nat /\ grown[n] = step /\ n \in Nat
      /\ DOMAIN grown = 1 .. n /\ DOMAIN steps = 1 .. Len(steps)
      /\ \A i \in 1 .. Len(steps) : grown[i] = steps[i]
  OBVIOUS
<1>2. \A i \in 0 .. Len(steps) : Written(grown, i) = Written(steps, i)
  BY WrittenGrows
<1>3. ~IsData(step) => Written(grown, n) = Written(steps, Len(steps))
  BY EndsSkips
<1>4. \A i \in 1 .. n : i \in 1 .. Len(steps) \/ i = n
  BY <1>1 DEF n
<1> HIDE DEF grown, n
<1>5. ASSUME NEW i \in 1 .. Len(steps)
      PROVE  LineChains(grown, i)
  <2>1. LineChains(steps, i)
    BY <1>1, ChainsIs
  <2>2. Written(grown, i) = Written(steps, i) /\ i \in Nat
    BY <1>1, <1>2
  <2>3. Written(steps, i) # 0 => Written(steps, i) \in 1 .. Len(steps)
    BY <1>1, <2>2, WrittenWhere
  <2>4. TrainedBy(grown, i) = TrainedBy(steps, i)
    <3>1. \A k \in 1 .. i : grown[k] = steps[k]
      BY <1>1
    <3> QED BY <3>1 DEF TrainedBy
  <2> QED BY <1>1, <2>1, <2>2, <2>3, <2>4 DEF LineChains
<1>6. LineChains(grown, n)
  <2>1. CASE step.kind = "Train"
    <3>1. ~IsData(step)
      BY <2>1 DEF IsData
    <3>2. Written(steps, Len(steps)) \in 1 .. Len(steps)
      BY <1>1, <2>1, WrittenWhere DEF EndsWith
    <3> QED BY <1>1, <1>3, <2>1, <3>1, <3>2 DEF LineChains, EndsWith
  <2>2. CASE step.kind = "Evaluate" /\ ~step.expert
    <3>1. PICK j \in 1 .. Len(steps) : steps[j].kind = "Train" /\ steps[j].policy = step.policy
      BY <2>2 DEF Names
    <3>2. j \in 1 .. n /\ grown[j] = steps[j]
      BY <1>1 DEF n
    <3>3. step.policy \in TrainedBy(grown, n)
      BY <3>1, <3>2 DEF TrainedBy
    <3> QED BY <1>1, <2>2, <3>3 DEF LineChains
  <2>3. CASE step.kind # "Train" /\ ~(step.kind = "Evaluate" /\ ~step.expert)
    BY <1>1, <2>3 DEF LineChains
  <2> QED BY <2>1, <2>2, <2>3
<1>7. Chains(grown)
  BY <1>1, <1>4, <1>5, <1>6, ChainsIs
<1> QED BY <1>7 DEF grown

\* While <out> has only seen cycles that started at their beginning, what is trained on is
\* what the ledger says was written last, and what is judged was trained.
TrainsOnLast ==
    /\ stage \in {"gate", "train"} => EndsWith(ledger["out"], data[DatasetRoot])
    /\ stage = "train" /\ phase \in {"write", "record"} => reading = data[DatasetRoot]
JudgesTrained ==
    stage = "eval" \/ (stage = "train" /\ phase = "second") => Names(ledger["out"], lock)

Chained == chained /\ Chains(ledger["out"]) /\ TrainsOnLast /\ JudgesTrained
ChainInv == ~resumed => Chained

\* Nothing is chained to begin with.
LEMMA InitChain == Init => ChainInv
<1> SUFFICES ASSUME Init PROVE ChainInv
  OBVIOUS
<1>1. stage = "idle" /\ phase = "begin" /\ chained /\ ledger["out"] = << >>
  BY DEF Init, Ledgers
<1>2. Chains(ledger["out"])
  BY <1>1, ChainsIs
<1> QED BY <1>1, <1>2 DEF ChainInv, Chained, TrainsOnLast,
                          JudgesTrained, Roots

\* Starting, stopping and ending.
LEMMA StartStopChain ==
    ASSUME TypeInv, ChainInv, UNCHANGED document,
           \/ Stop \/ (\E from \in {"collect", "train", "eval", "showcase"} : Start(from))
           \/ RefuseDemonstrations \/ End
    PROVE  ChainInv'
<1>1. ledger' = ledger /\ phase' = "begin"
  BY DEF Stop, Start, RefuseDemonstrations, End, disk, Quit, Enter
<1>2. CASE Stop \/ RefuseDemonstrations \/ End
  <2>1. stage' = "idle" /\ resumed' = resumed
    BY <1>2 DEF Stop, RefuseDemonstrations, End, Quit
  <2>2. chained' = chained \/ chained' = Chains(ledger["out"])
    BY <1>2 DEF Stop, RefuseDemonstrations, End
  <2> QED BY <1>1, <2>1, <2>2 DEF ChainInv, Chained, TrainsOnLast,
                                  JudgesTrained, Roots
<1>3. CASE \E from \in {"collect", "train", "eval", "showcase"} : Start(from)
  <2>1. PICK from \in {"collect", "train", "eval", "showcase"} : Start(from)
    BY <1>3
  <2>2. stage' = from /\ chained' = chained
    BY <2>1 DEF Start, Enter
  <2>3. ~resumed' => ~resumed /\ from = "collect"
    BY <2>1 DEF Start
  <2> QED BY <1>1, <2>2, <2>3 DEF ChainInv, Chained, TrainsOnLast,
                                  JudgesTrained, Roots
<1> QED BY <1>2, <1>3

\* What the data stages leave in their root and say of it in <out>.
LEMMA DataChain ==
    ASSUME TypeInv, ChainInv, UNCHANGED document,
           BeginData \/ FinishData \/ RecordData \/ RecordInputs \/ MirrorData
    PROVE  ChainInv'
<1>1. /\ stage \in Roots /\ stage \in {"collect", "merge"}
      /\ UNCHANGED <<chained, resumed>>
  BY DEF BeginData, FinishData, RecordData, RecordInputs, MirrorData, Roots
<1>2. CASE BeginData \/ FinishData \/ RecordData \/ RecordInputs
  <2>1. stage' = stage /\ ledger'["out"] = ledger["out"]
    BY <1>2, RootsAre DEF BeginData, FinishData, RecordData, RecordInputs, TypeInv, LedgersHold,
                          Ledgers
  <2> QED BY <1>1, <2>1 DEF ChainInv, Chained, TrainsOnLast, JudgesTrained
<1>3. CASE MirrorData
  <2>1. /\ ledger[stage] \in Seq(Steps) /\ ledger[stage] # << >>
        /\ ledger[stage][Len(ledger[stage])].kind = DataKind[stage]
        /\ ledger["out"] \in Seq(Steps)
    BY <1>1, <1>3, RootsAre DEF MirrorData, TypeInv, Place, LedgersHold, Ledgers
  <2>2. Mirrored(stage) = ledger[stage][Len(ledger[stage])]
    BY <2>1, LastOfFound DEF Mirrored
  <2> DEFINE step == Mirrored(stage)
  <2>3. step \in Steps /\ step.kind \in {"Collect", "Distill"}
    BY <1>1, <2>1, <2>2 DEF DataKind
  <2>4. /\ ledger'["out"] = Append(ledger["out"], step)
        /\ stage' = After[stage] /\ phase' = "begin" /\ data' = data
    BY <1>3 DEF MirrorData, Enter, TypeInv, LedgersHold, Ledgers
  <2>5. (stage' \in {"gate", "train"} => stage = DatasetRoot) /\ stage' \in {"merge", "gate", "train"}
    BY <1>1, <2>4 DEF TypeInv, Place, After, AfterData, DatasetRoot
  <2>6. ASSUME ~resumed' PROVE Chained'
    <3>1. Chained
      BY <1>1, <2>6 DEF ChainInv
    <3>2. step.content = data[stage]
      BY <1>1, <1>3, <2>2 DEF MirrorData, TypeInv, Place
    <3> HIDE DEF step
    <3>3. Chains(ledger'["out"])
      BY <2>1, <2>3, <2>4, <3>1, ChainsGrows DEF Chained
    <3>4. EndsWith(ledger'["out"], data[stage])
      BY <2>1, <2>3, <2>4, <3>2, EndsFound DEF IsData
    <3>5. stage' \in {"gate", "train"} => EndsWith(ledger'["out"], data'[DatasetRoot])
      BY <2>4, <2>5, <3>4
    <3>6. TrainsOnLast'
      BY <2>4, <3>5 DEF TrainsOnLast, DatasetRoot
    <3> QED BY <1>1, <2>4, <2>5, <3>1, <3>3, <3>6 DEF Chained, JudgesTrained
  <2> QED BY <2>6 DEF ChainInv
<1> QED BY <1>2, <1>3

\* Appending to <out> a line of a gate, train or eval stage.
LEMMA FirstChain ==
    ASSUME TypeInv, ChainInv, UNCHANGED <<document, lock>>, NEW step \in Steps, AppendFirst(step),
           stage \in {"gate", "train", "eval"}, ~IsData(step),
           step.kind = "Train" => stage = "train" /\ phase = "record" /\ step.content = reading,
           stage = "train" => step.kind = "Train" /\ step.policy = lock,
           step.kind = "Evaluate" /\ ~step.expert => stage = "eval" /\ step.policy = lock
    PROVE  ChainInv'
<1>1. /\ ledger["out"] \in Seq(Steps)
      /\ ledger'["out"] = Append(ledger["out"], step)
  BY DEF AppendFirst, FirstLedger, TypeInv, LedgersHold, Ledgers
<1>2. stage' = stage /\ phase' = "second" /\ UNCHANGED <<data, resumed, chained>>
  BY DEF AppendFirst
<1>3. ASSUME ~resumed' PROVE Chained'
  <2>1. Chained
    BY <1>2, <1>3 DEF ChainInv
  <2>2. step.kind = "Train" => EndsWith(ledger["out"], step.content)
    BY <2>1 DEF Chained, TrainsOnLast
  <2>3. step.kind = "Evaluate" /\ ~step.expert => Names(ledger["out"], step.policy)
    BY <2>1 DEF Chained, JudgesTrained
  <2>4. Chains(ledger'["out"])
    BY <1>1, <2>1, <2>2, <2>3, ChainsGrows DEF Chained
  <2>5. stage \in {"gate", "train"} => EndsWith(ledger'["out"], data[DatasetRoot])
    BY <1>1, <2>1, EndsSkips DEF Chained, TrainsOnLast
  <2>6. stage \in {"train", "eval"} => Names(ledger'["out"], lock)
    BY <1>1, <2>1, NamesGrows DEF Chained, JudgesTrained
  <2>7. TrainsOnLast'
    BY <1>2, <2>5 DEF TrainsOnLast, DatasetRoot
  <2>8. JudgesTrained'
    BY <1>2, <2>6 DEF JudgesTrained
  <2> QED BY <1>2, <2>1, <2>4, <2>7, <2>8, RootsAre DEF Chained
<1> QED BY <1>2, <1>3 DEF ChainInv

\* The lines that gate, train and eval append.
LEMMA RecordChain ==
    ASSUME TypeInv, ChainInv, UNCHANGED document, Gate \/ TrainRecord \/ EvalRecord
    PROVE  ChainInv'
<1>1. gate \in {None, "passed", "skipped"} /\ reading \in Contents /\ lock \in Policies
  BY DEF TypeInv, Control, Trainings
<1>2. CASE Gate
  <2>1. stage = "gate"
    BY <1>2 DEF Gate
  <2>2. ASSUME NEW passed \in BOOLEAN, UNCHANGED lock,
               AppendFirst([Step("Evaluate") EXCEPT !.expert = TRUE, !.passed = passed])
        PROVE  ChainInv'
    <3> DEFINE step == [Step("Evaluate") EXCEPT !.expert = TRUE, !.passed = passed]
    <3>1. step \in Steps /\ step.kind = "Evaluate" /\ step.expert
      BY StepsTyped DEF Step
    <3>2. ~IsData(step)
      BY <3>1 DEF IsData
    <3>3. AppendFirst(step)
      BY <2>2
    <3> HIDE DEF step
    <3> QED BY <2>1, <2>2, <3>1, <3>2, <3>3, FirstChain
  <2>3. ASSUME Enter("train"), UNCHANGED <<training, disk, chained, resumed>>
        PROVE  ChainInv'
    <3>1. stage' = "train" /\ phase' = "begin" /\ UNCHANGED <<ledger, data, lock, chained, resumed>>
      BY <2>3 DEF Enter, disk
    <3> QED BY <2>1, <3>1, RootsAre DEF ChainInv, Chained, TrainsOnLast, JudgesTrained,
                              DatasetRoot
  <2> QED BY <1>2, <2>2, <2>3 DEF Gate
<1>3. CASE TrainRecord
  <2> DEFINE step == [Step("Train") EXCEPT !.content = reading, !.policy = lock, !.gate = gate]
  <2>1. step \in Steps
    BY <1>1, StepsTyped
  <2>2. step.kind = "Train" /\ step.content = reading /\ step.policy = lock
    BY DEF Step
  <2>3. ~IsData(step)
    BY <2>2 DEF IsData
  <2>4. AppendFirst(step) /\ stage = "train" /\ phase = "record" /\ UNCHANGED lock
    BY <1>3 DEF TrainRecord
  <2> HIDE DEF step
  <2> QED BY <2>1, <2>2, <2>3, <2>4, FirstChain
<1>4. CASE EvalRecord
  <2> DEFINE step == [Step("Evaluate") EXCEPT !.policy = lock]
  <2>1. step \in Steps
    BY <1>1, StepsTyped
  <2>2. step.kind = "Evaluate" /\ step.policy = lock
    BY DEF Step
  <2>3. ~IsData(step)
    BY <2>2 DEF IsData
  <2>4. AppendFirst(step) /\ stage = "eval" /\ UNCHANGED lock
    BY <1>4 DEF EvalRecord
  <2> HIDE DEF step
  <2> QED BY <2>1, <2>2, <2>3, <2>4, FirstChain
<1> QED BY <1>2, <1>3, <1>4

\* The steps of train, eval and the second append that leave <out>'s ledger as it is.
LEMMA QuietChain ==
    ASSUME TypeInv, ChainInv, UNCHANGED document,
           \/ TrainBegin \/ TrainerRuns \/ BundleLands \/ TrainFinish
           \/ EvalBegin \/ EvalFinish \/ AppendSecond
    PROVE  ChainInv'
<1>1. UNCHANGED <<data, chained, resumed>>
  BY DEF TrainBegin, TrainerRuns, BundleLands, TrainFinish, EvalBegin, EvalFinish, AppendSecond
<1>2. CASE TrainBegin \/ TrainerRuns \/ BundleLands \/ TrainFinish
  <2>1. stage = "train" /\ stage' = "train" /\ phase' \in {"write", "record"} /\ ledger' = ledger
    BY <1>2 DEF TrainBegin, TrainerRuns, BundleLands, TrainFinish
  <2>2. ~resumed => reading' = data[DatasetRoot]
    BY <1>2 DEF TrainBegin, TrainerRuns, BundleLands, TrainFinish, training, ChainInv, Chained, TrainsOnLast
  <2> QED BY <1>1, <2>1, <2>2, RootsAre DEF ChainInv, Chained, TrainsOnLast,
                                  JudgesTrained, DatasetRoot
<1>3. CASE EvalBegin \/ EvalFinish
  <2>1. stage = "eval" /\ stage' = "eval" /\ ledger' = ledger /\ lock' = lock
    BY <1>3 DEF EvalBegin, EvalFinish
  <2> QED BY <1>1, <2>1, RootsAre DEF ChainInv, Chained, TrainsOnLast, JudgesTrained
<1>4. CASE AppendSecond
  <2>1. ledger'["out"] = ledger["out"] /\ lock' = lock
    BY <1>4, AppendSecondType DEF AppendSecond
  <2>2. stage \in {"gate", "train", "eval"} /\ phase = "second"
    BY <1>4 DEF AppendSecond, TypeInv, Place
  <2>3. /\ phase' = "begin"
        /\ \/ stage' \in {"idle", "showcase"}
           \/ stage = "gate" /\ stage' = "train"
           \/ stage = "train" /\ stage' = "eval"
    BY <1>4, <2>2, AfterStages DEF AppendSecond, Quit, Enter
  <2> QED BY <1>1, <2>1, <2>2, <2>3, RootsAre DEF ChainInv, Chained, TrainsOnLast,
                                  JudgesTrained, DatasetRoot
<1> QED BY <1>2, <1>3, <1>4

\* A cycle that is always run from its beginning finds a ledger that chains when it comes
\* to its end: each train step read the dataset written last before it and each policy that
\* was judged is one of a train step, whatever runs before were killed between two writes.
THEOREM AlwaysFullCyclesChain == Spec => []FullCyclesChain
<1>1. TypeInv /\ ChainInv /\ [Next]_vars => ChainInv'
  <2> SUFFICES ASSUME TypeInv, ChainInv, [Next]_vars PROVE ChainInv'
    OBVIOUS
  <2>1. CASE UNCHANGED vars
    BY <2>1 DEF vars, run_, disk, training, ChainInv, Chained, TrainsOnLast,
                JudgesTrained, DatasetRoot
  <2>2. CASE Next
    BY <2>2, StartStopChain, DataChain, RecordChain, QuietChain DEF Next
  <2> QED BY <2>1, <2>2
<1>2. ChainInv => FullCyclesChain
  BY DEF ChainInv, Chained, FullCyclesChain
<1> QED BY <1>1, <1>2, InitType, NextType, InitChain, PTL DEF Spec

-----------------------------------------------------------------------------
(***************************************************************************)
(* Which ledger is ahead of which.                                         *)
(***************************************************************************)
\* The lines of these kinds of one ledger are also lines of another.
Held(a, b, kinds) ==
    \A i \in DOMAIN a : a[i].kind \in kinds => \E j \in DOMAIN b : a[i] = b[j]

LEMMA HeldGrows ==
    ASSUME NEW a \in Seq(Steps), NEW b \in Seq(Steps), NEW step \in Steps, NEW kinds,
           Held(a, b, kinds)
    PROVE  /\ Held(a, Append(b, step), kinds)
           /\ step.kind \notin kinds => Held(Append(a, step), b, kinds)
           /\ (\E j \in DOMAIN b : b[j] = step) => Held(Append(a, step), b, kinds)
           /\ Held(Append(a, step), Append(b, step), kinds)
<1> DEFINE ax == Append(a, step)
           bx == Append(b, step)
<1>1. /\ \A i \in DOMAIN ax : (i \in DOMAIN a /\ ax[i] = a[i]) \/ ax[i] = step
      /\ \A j \in DOMAIN b : j \in DOMAIN bx /\ bx[j] = b[j]
      /\ \E j \in DOMAIN bx : bx[j] = step
  <2>1. DOMAIN a = 1 .. Len(a) /\ DOMAIN ax = 1 .. (Len(a) + 1) /\ Len(a) \in Nat
    OBVIOUS
  <2>2. \A i \in 1 .. Len(a) : ax[i] = a[i]
    OBVIOUS
  <2>3. ax[Len(a) + 1] = step
    OBVIOUS
  <2>4. \A i \in 1 .. (Len(a) + 1) : i \in 1 .. Len(a) \/ i = Len(a) + 1
    BY <2>1
  <2>5. \A j \in DOMAIN b : j \in DOMAIN bx /\ bx[j] = b[j]
    OBVIOUS
  <2>6. Len(b) + 1 \in DOMAIN bx /\ bx[Len(b) + 1] = step
    OBVIOUS
  <2> HIDE DEF ax, bx
  <2> QED BY <2>1, <2>2, <2>3, <2>4, <2>5, <2>6
<1> HIDE DEF ax, bx
<1>2. Held(a, bx, kinds)
  BY <1>1 DEF Held
<1>3. step.kind \notin kinds => Held(ax, b, kinds)
  BY <1>1 DEF Held
<1>4. (\E j \in DOMAIN b : b[j] = step) => Held(ax, b, kinds)
  BY <1>1 DEF Held
<1>5. Held(ax, bx, kinds)
  BY <1>1, <1>2 DEF Held
<1> QED BY <1>2, <1>3, <1>4, <1>5 DEF ax, bx

DataKinds == {"Collect", "Distill"}

\* A merge's step is told to the root it read before <out> hears of it.
Told ==
    stage = "merge" /\ phase = "mirror" =>
      \E j \in DOMAIN ledger["collect"] :
        ledger["collect"][j] = ledger["merge"][Len(ledger["merge"])]

\* The property, and what a merge has told by its last write.
OrderInv ==
    /\ Held(ledger[DatasetRoot], ledger["out"], {"Train", "Evaluate"})
    /\ Held(ledger["out"], ledger["collect"], DataKinds)
    /\ Held(ledger["collect"], ledger["merge"], {"Distill"})
    /\ Told

\* The ledgers are sequences of steps.
LEMMA LedgersAre ==
    ASSUME TypeInv
    PROVE  /\ \A l \in {"out", "collect", "merge", DatasetRoot} : ledger[l] \in Seq(Steps)
           /\ DOMAIN ledger = Ledgers /\ Ledgers = {"out", "collect", "merge"}
BY RootsAre DEF TypeInv, LedgersHold, Ledgers

\* No ledger holds a line to begin with.
LEMMA InitOrder == Init => OrderInv
<1> SUFFICES ASSUME Init PROVE OrderInv
  OBVIOUS
<1>1. \A l \in {"out", "collect", "merge"} : ledger[l] = << >>
  BY DEF Init, Roots
<1> QED BY <1>1, RootsAre DEF Init, OrderInv, Held, Told

\* A data stage's line is in its own root's ledger first.
LEMMA RecordDataOrder ==
    ASSUME TypeInv, OrderInv, RecordData, UNCHANGED document
    PROVE  OrderInv'
<1> DEFINE step == [Step(DataKind[stage]) EXCEPT !.content = data[stage]]
<1>1. stage \in {"collect", "merge"} /\ stage' = stage /\ (phase' = "mirror" => stage = "collect")
  BY DEF RecordData, Roots
<1>2. DataKind[stage] = (IF stage = "merge" THEN "Distill" ELSE "Collect") /\ data[stage] \in Contents
  BY <1>1 DEF DataKind, TypeInv, RootsHold, Roots
<1>3. step \in Steps /\ step.kind = DataKind[stage]
  BY <1>1, <1>2, StepsTyped DEF Step
<1>4. ledger' = [ledger EXCEPT ![stage] = Append(@, step)]
  BY DEF RecordData
<1> HIDE DEF step
<1>5. /\ ledger'["out"] = ledger["out"]
      /\ \A l \in {"collect", "merge"} :
           ledger'[l] = IF l = stage THEN Append(ledger[l], step) ELSE ledger[l]
      /\ ledger'[DatasetRoot] \in {ledger[DatasetRoot], Append(ledger[DatasetRoot], step)}
  BY <1>1, <1>4, LedgersAre, RootsAre
<1>6. Held(ledger'[DatasetRoot], ledger'["out"], {"Train", "Evaluate"})
  <2>1. step.kind \notin {"Train", "Evaluate"}
    BY <1>2, <1>3
  <2>2. Held(Append(ledger[DatasetRoot], step), ledger["out"], {"Train", "Evaluate"})
    BY <1>3, <2>1, LedgersAre, HeldGrows DEF OrderInv
  <2> QED BY <1>5, <2>2 DEF OrderInv
<1>7. Held(ledger'["out"], ledger'["collect"], DataKinds)
  BY <1>3, <1>5, LedgersAre, HeldGrows DEF OrderInv
<1>8. Held(ledger'["collect"], ledger'["merge"], {"Distill"})
  BY <1>1, <1>2, <1>3, <1>5, LedgersAre, HeldGrows DEF OrderInv
<1>9. Told'
  BY <1>1 DEF Told
<1> QED BY <1>6, <1>7, <1>8, <1>9 DEF OrderInv, DatasetRoot

\* Then a merge tells the root it read.
LEMMA RecordInputsOrder ==
    ASSUME TypeInv, OrderInv, RecordInputs, UNCHANGED document
    PROVE  OrderInv'
<1> DEFINE step == ledger["merge"][Len(ledger["merge"])]
<1>1. stage = "merge" /\ phase = "inputs"
  BY DEF RecordInputs
<1>2. ledger["merge"] \in Seq(Steps) /\ ledger["merge"] # << >> /\ step.kind = "Distill"
  BY <1>1, RootsAre, LedgersAre DEF TypeInv, Place, DataKind
<1>3. step \in Steps /\ \E j \in DOMAIN ledger["merge"] : ledger["merge"][j] = step
  BY <1>2
<1>4. ledger' = [ledger EXCEPT !["collect"] = Append(@, step)]
  BY DEF RecordInputs
<1>5. ledger'["merge"] = ledger["merge"] /\ step' = step
  BY <1>4, LedgersAre
<1> HIDE DEF step
<1>6. /\ ledger'["out"] = ledger["out"]
      /\ ledger'["collect"] = Append(ledger["collect"], step)
      /\ ledger'[DatasetRoot] \in {ledger[DatasetRoot], Append(ledger[DatasetRoot], step)}
  BY <1>4, LedgersAre, RootsAre
<1>7. Held(ledger'[DatasetRoot], ledger'["out"], {"Train", "Evaluate"})
  <2>1. step.kind \notin {"Train", "Evaluate"}
    BY <1>2 DEF step
  <2>2. Held(Append(ledger[DatasetRoot], step), ledger["out"], {"Train", "Evaluate"})
    BY <1>3, <2>1, LedgersAre, HeldGrows DEF OrderInv
  <2> QED BY <1>6, <2>2 DEF OrderInv
<1>8. Held(ledger'["out"], ledger'["collect"], DataKinds)
  BY <1>3, <1>6, LedgersAre, HeldGrows DEF OrderInv
<1>9. Held(ledger'["collect"], ledger'["merge"], {"Distill"})
  BY <1>3, <1>5, <1>6, LedgersAre, HeldGrows DEF OrderInv
<1>10. Told'
  <2>1. ledger["collect"] \in Seq(Steps)
    BY LedgersAre
  <2>2. \E j \in DOMAIN ledger'["collect"] : ledger'["collect"][j] = step
    BY <1>3, <1>6, <2>1
  <2> QED BY <1>5, <2>2 DEF Told, step
<1> QED BY <1>7, <1>8, <1>9, <1>10 DEF OrderInv, DatasetRoot

\* One more line in <out>: a data line that the collected root has, or another.
LEMMA OutGrowsOrder ==
    ASSUME TypeInv, OrderInv, UNCHANGED document, NEW step \in Steps,
           ledger' = [ledger EXCEPT !["out"] = Append(@, step)],
           step.kind \in DataKinds => \E j \in DOMAIN ledger["collect"] : ledger["collect"][j] = step,
           ~(stage' = "merge" /\ phase' = "mirror")
    PROVE  OrderInv'
<1>1. /\ ledger'["out"] = Append(ledger["out"], step)
      /\ ledger'["collect"] = ledger["collect"] /\ ledger'["merge"] = ledger["merge"]
      /\ ledger'[DatasetRoot] = ledger[DatasetRoot]
  BY LedgersAre, RootsAre
<1>2. Held(ledger'[DatasetRoot], ledger'["out"], {"Train", "Evaluate"})
  BY <1>1, LedgersAre, HeldGrows DEF OrderInv
<1>3. Held(ledger'["out"], ledger'["collect"], DataKinds)
  BY <1>1, LedgersAre, HeldGrows DEF OrderInv
<1> QED BY <1>1, <1>2, <1>3 DEF OrderInv, Told, DatasetRoot

\* The mirror of a root's last line of its kind.
LEMMA MirrorOrder ==
    ASSUME TypeInv, OrderInv, MirrorData, UNCHANGED document
    PROVE  OrderInv'
<1>1. stage \in {"collect", "merge"} /\ phase = "mirror" /\ phase' = "begin"
  BY DEF MirrorData, Roots, Enter
<1>2. /\ ledger[stage] \in Seq(Steps) /\ ledger[stage] # << >>
      /\ ledger[stage][Len(ledger[stage])].kind = DataKind[stage]
  BY <1>1, RootsAre, LedgersAre DEF TypeInv, Place
<1>3. Mirrored(stage) = ledger[stage][Len(ledger[stage])] /\ Len(ledger[stage]) \in DOMAIN ledger[stage]
  BY <1>2, LastOfFound DEF Mirrored
<1> DEFINE step == Mirrored(stage)
<1>4. step \in Steps
  BY <1>2, <1>3
<1>5. \E j \in DOMAIN ledger["collect"] : ledger["collect"][j] = step
  BY <1>1, <1>3 DEF OrderInv, Told
<1>6. ledger' = [ledger EXCEPT !["out"] = Append(@, step)]
  BY DEF MirrorData
<1> HIDE DEF step
<1> QED BY <1>1, <1>4, <1>5, <1>6, OutGrowsOrder

\* The lines of gate, train and eval are in <out> first.
LEMMA RecordOrder ==
    ASSUME TypeInv, OrderInv, UNCHANGED document, Gate \/ TrainRecord \/ EvalRecord
    PROVE  OrderInv'
<1>1. gate \in {None, "passed", "skipped"} /\ reading \in Contents /\ lock \in Policies
  BY DEF TypeInv, Control, Trainings
<1>2. ASSUME NEW step \in Steps, AppendFirst(step), step.kind \notin DataKinds PROVE OrderInv'
  BY <1>2, OutGrowsOrder DEF AppendFirst, FirstLedger
<1>3. ASSUME NEW passed \in BOOLEAN,
             AppendFirst([Step("Evaluate") EXCEPT !.expert = TRUE, !.passed = passed])
      PROVE  OrderInv'
  <2> DEFINE step == [Step("Evaluate") EXCEPT !.expert = TRUE, !.passed = passed]
  <2>1. step \in Steps /\ step.kind \notin DataKinds
    BY StepsTyped DEF Step, DataKinds
  <2>2. AppendFirst(step)
    BY <1>3
  <2> HIDE DEF step
  <2> QED BY <1>2, <2>1, <2>2
<1>4. CASE ledger' = ledger /\ Enter("train")
  BY <1>4 DEF OrderInv, Told, DatasetRoot, Enter
<1>5. CASE Gate
  BY <1>3, <1>4, <1>5 DEF Gate, disk
<1>6. CASE TrainRecord
  <2> DEFINE step == [Step("Train") EXCEPT !.content = reading, !.policy = lock, !.gate = gate]
  <2>1. step \in Steps /\ step.kind \notin DataKinds
    BY <1>1, StepsTyped DEF Step, DataKinds
  <2>2. AppendFirst(step)
    BY <1>6 DEF TrainRecord
  <2> HIDE DEF step
  <2> QED BY <1>2, <2>1, <2>2
<1>7. CASE EvalRecord
  <2> DEFINE step == [Step("Evaluate") EXCEPT !.policy = lock]
  <2>1. step \in Steps /\ step.kind \notin DataKinds
    BY <1>1, StepsTyped DEF Step, DataKinds
  <2>2. AppendFirst(step)
    BY <1>7 DEF EvalRecord
  <2> HIDE DEF step
  <2> QED BY <1>2, <2>1, <2>2
<1> QED BY <1>5, <1>6, <1>7

\* The second append writes to the dataset root what <out> ends with.
LEMMA SecondOrder ==
    ASSUME TypeInv, OrderInv, AppendSecond, UNCHANGED document
    PROVE  OrderInv'
<1> DEFINE step == ledger["out"][Len(ledger["out"])]
<1>1. ledger["out"] \in Seq(Steps) /\ ledger["out"] # << >>
  BY LedgersAre DEF TypeInv, Place, AppendSecond
<1>2. step \in Steps /\ Len(ledger["out"]) \in DOMAIN ledger["out"]
  BY <1>1
<1>3. \E j \in DOMAIN ledger["out"] : ledger["out"][j] = step
  BY <1>2
<1>4. SecondLedger = DatasetRoot
  BY DEF SecondLedger, FirstLedger
<1>5. ledger' = [ledger EXCEPT ![DatasetRoot] = Append(@, step)]
  BY <1>4 DEF AppendSecond, FirstLedger
<1>6. /\ step.kind \in DataKinds => \E j \in DOMAIN ledger["collect"] : ledger["collect"][j] = step
      /\ step.kind = "Distill" => \E j \in DOMAIN ledger["merge"] : ledger["merge"][j] = step
  <2>1. step.kind \in DataKinds => \E j \in DOMAIN ledger["collect"] : ledger["collect"][j] = step
    BY <1>2 DEF OrderInv, Held
  <2>2. ASSUME step.kind = "Distill"
        PROVE  \E j \in DOMAIN ledger["merge"] : ledger["merge"][j] = step
    <3>1. PICK j \in DOMAIN ledger["collect"] : ledger["collect"][j] = step
      BY <2>1, <2>2 DEF DataKinds
    <3> HIDE DEF step
    <3> QED BY <2>2, <3>1 DEF OrderInv, Held
  <2> QED BY <2>1, <2>2
<1> HIDE DEF step
<1>7. /\ ledger'["out"] = ledger["out"]
      /\ ledger'[DatasetRoot] = Append(ledger[DatasetRoot], step)
      /\ \A l \in {"collect", "merge"} : ledger'[l] = IF l = DatasetRoot THEN Append(ledger[l], step) ELSE ledger[l]
  BY <1>5, LedgersAre, RootsAre
<1>8. Held(ledger'[DatasetRoot], ledger'["out"], {"Train", "Evaluate"})
  BY <1>2, <1>3, <1>7, LedgersAre, HeldGrows DEF OrderInv
<1>9. Held(ledger'["out"], ledger'["collect"], DataKinds)
  BY <1>2, <1>7, LedgersAre, HeldGrows DEF OrderInv
<1>10. Held(ledger'["collect"], ledger'["merge"], {"Distill"})
  <2>1. CASE DatasetRoot = "merge"
    <3>1. ledger'["collect"] = ledger["collect"] /\ ledger'["merge"] = Append(ledger["merge"], step)
      BY <1>7, <2>1
    <3> QED BY <1>2, <3>1, LedgersAre, HeldGrows DEF OrderInv
  <2>2. CASE DatasetRoot # "merge"
    <3>1. ledger'["collect"] = Append(ledger["collect"], step) /\ ledger'["merge"] = ledger["merge"]
      BY <1>7, <2>2, RootsAre
    <3> QED BY <1>2, <1>6, <3>1, LedgersAre, HeldGrows DEF OrderInv
  <2> QED BY <2>1, <2>2
<1>11. Told'
  BY DEF AppendSecond, Quit, Enter, Told
<1> QED BY <1>8, <1>9, <1>10, <1>11 DEF OrderInv, DatasetRoot

\* Wherever runs are killed between two appends, <out>'s ledger is never behind the dataset
\* root's in train and evaluate steps, nor ahead of the collected root's in the others; and
\* the collected root's is never ahead of the merged root's in a merge's step.
THEOREM LedgersAlwaysInOrder == Spec => []LedgersInOrder
<1>1. TypeInv /\ OrderInv /\ [Next]_vars => OrderInv'
  <2> SUFFICES ASSUME TypeInv, OrderInv, [Next]_vars PROVE OrderInv'
    OBVIOUS
  <2>1. CASE UNCHANGED vars
    BY <2>1 DEF vars, run_, disk, OrderInv, Told, DatasetRoot
  <2>2. CASE Next
    <3>1. UNCHANGED document
      BY <2>2 DEF Next
    <3>2. CASE \/ Stop \/ (\E from \in {"collect", "train", "eval", "showcase"} : Start(from))
               \/ RefuseDemonstrations \/ End \/ BeginData \/ FinishData \/ TrainBegin
               \/ TrainerRuns \/ BundleLands \/ TrainFinish \/ EvalBegin \/ EvalFinish
      <4>1. ledger' = ledger
        BY <3>2 DEF Stop, Start, RefuseDemonstrations, End, BeginData, FinishData, TrainBegin,
                    TrainerRuns, BundleLands, TrainFinish, EvalBegin, EvalFinish, disk
      <4>2. ~(stage' = "merge" /\ phase' = "mirror")
        BY <3>2 DEF Stop, Start, RefuseDemonstrations, End, Quit, Enter, BeginData, FinishData,
                    TrainBegin, TrainerRuns, BundleLands, TrainFinish, EvalBegin, EvalFinish
      <4> QED BY <3>1, <4>1, <4>2 DEF OrderInv, Told, DatasetRoot
    <3>3. CASE \/ RecordData \/ RecordInputs \/ MirrorData
               \/ Gate \/ TrainRecord \/ EvalRecord \/ AppendSecond
      BY <3>1, <3>3, RecordDataOrder, RecordInputsOrder, MirrorOrder, RecordOrder, SecondOrder
    <3> QED BY <2>2, <3>2, <3>3 DEF Next
  <2> QED BY <2>1, <2>2
<1>2. OrderInv => LedgersInOrder
  BY DEF OrderInv, Held, DataKinds, LedgersInOrder
<1> QED BY <1>1, <1>2, InitType, NextType, InitOrder, PTL DEF Spec
=============================================================================
