---------------------------- MODULE LearningCycle ----------------------------
(***************************************************************************)
(* `es loop cycle` (es/src/cmd/cycle.rs): collect, merge, expert gate,     *)
(* train, evaluate and showcase in one process, which may be killed or     *)
(* fail between any two writes, and be started again in the same <out>     *)
(* from the beginning or, by --from, from a later stage.  What a run finds *)
(* is what the files say: the dataset roots, train/, eval/ and the ledgers *)
(* loop.jsonl of <out> and of each root.                                   *)
(*                                                                         *)
(* A dataset's content hash is a record (which collection, whether half    *)
(* its demonstrations succeeded, whether a merge wrote it), a policy hash  *)
(* the content it was trained on and the run that trained it.  Reading a   *)
(* ledger and writing it back with one more line is one step; the history  *)
(* variable resumed is read by no guard.                                   *)
(***************************************************************************)
EXTENDS SequencesExt

CONSTANTS
  None, Torn,      \* nothing on disk; a root some of whose episodes were rewritten
  Documents,       \* the cycle documents: has [collect] an expert? a merge?
  Collections,     \* names of what a collect stage may collect
  MaxRuns          \* bound on the runs of the command

ASSUME CycleAssumption ==
    /\ Documents \subseteq [expert : BOOLEAN, merges : BOOLEAN]
    /\ MaxRuns \in Nat

Roots == {"collect", "merge"}                    \* each named for the stage that writes it
Content == [name : Collections, good : BOOLEAN, merged : BOOLEAN]
Policy == [content : Content \cup {Torn}, run : 1 .. MaxRuns]
DataKind == [collect |-> "Collect", merge |-> "Distill"]

VARIABLES
  document,
  stage, phase, gate,   \* the running cycle: where it is and what its gate said
  runs,
  data,                 \* per dataset root: its content, Torn, or None
  reading, trainer, packed,   \* the content the trainer opened, how far it is with the
                        \* mark, and whether the mark's bundle was packed
  weights, bundle, lock,      \* train/: weights/model-<mark>, checkpoints/<mark>.esb, and
                        \* training.lock's policy for the mark
  report, previous,     \* eval/report.json and report-prev.json
  ledger,               \* loop.jsonl of <out> and of each root
  chained,              \* what the last cycle to reach its end said of <out>'s ledger
  resumed               \* history: was any run started by --from a later stage?

training == <<reading, trainer, packed>>
run_ == <<stage, phase, gate, runs, training>>
disk == <<data, weights, bundle, lock, report, previous, ledger>>
vars == <<document, run_, disk, chained, resumed>>

Init ==
    /\ document \in Documents
    /\ stage = "idle" /\ phase = "begin" /\ gate = None /\ runs = 0
    /\ reading = None /\ trainer = "before" /\ packed = FALSE
    /\ data = [r \in Roots |-> None]
    /\ weights = None /\ bundle = None /\ lock = None /\ report = None /\ previous = None
    /\ ledger = [l \in {"out"} \cup Roots |-> << >>]
    /\ chained = TRUE /\ resumed = FALSE

DatasetRoot == IF document.merges THEN "merge" ELSE "collect"

-----------------------------------------------------------------------------
(***************************************************************************)
(* The ledger (es-data/src/collect/ledger.rs).                             *)
(***************************************************************************)
Step(kind) == [kind |-> kind, content |-> None, policy |-> None, gate |-> None,
               expert |-> FALSE, passed |-> FALSE]

\* The last step of a kind in the first n, or None.
LastOf(steps, n, kind) ==
    LET i == SelectLastInSubSeq(steps, 1, n, LAMBDA s : s.kind = kind)
    IN  IF i = 0 THEN None ELSE steps[i]

Recorded(root) ==
    LET step == LastOf(ledger[root], Len(ledger[root]), DataKind[DatasetRoot])
    IN  IF step = None THEN None ELSE step.content

IsData(step) == step.kind \in {"Collect", "Distill"}

\* check_chain: each train step read the dataset written last before it, and each
\* policy that was judged is a checkpoint of some train step before.
Chains(steps) ==
    \A i \in DOMAIN steps :
      LET written == SelectLastInSubSeq(steps, 1, i, IsData)
          trained == {steps[j].policy : j \in {k \in 1 .. i : steps[k].kind = "Train"}}
      IN  /\ steps[i].kind = "Train" /\ written # 0 =>
               steps[i].content = steps[written].content
          /\ steps[i].kind = "Evaluate" /\ ~steps[i].expert /\ trained # {} =>
               steps[i].policy \in trained

-----------------------------------------------------------------------------
(***************************************************************************)
(* Starting, moving on and stopping.                                       *)
(***************************************************************************)
Enter(next) == stage' = next /\ phase' = "begin"

AfterData == IF document.expert THEN "gate" ELSE "train"
After == [collect |-> IF document.merges THEN "merge" ELSE AfterData,
          merge |-> AfterData, gate |-> "train", train |-> "eval", eval |-> "showcase"]

\* check_resume.
MayResume(from) ==
    from = "collect" \/
      /\ data[DatasetRoot] # None
      /\ Recorded("out") \in {None, data[DatasetRoot]}
      /\ from # "train" => bundle # None /\ lock \in Policy
      /\ from = "showcase" => report # None

Start(from) ==
    /\ stage = "idle" /\ runs < MaxRuns /\ MayResume(from)
    /\ Enter(from)
    /\ runs' = runs + 1 /\ gate' = None
    /\ resumed' = (resumed \/ from # "collect")
    /\ UNCHANGED <<training, disk, chained>>

Quit == stage' = "idle" /\ phase' = "begin" /\ gate' = None /\ UNCHANGED <<runs, training>>

\* The process is killed, or the stage it is in fails.
Stop ==
    /\ stage # "idle" /\ Quit
    /\ UNCHANGED <<disk, chained, resumed>>

-----------------------------------------------------------------------------
(***************************************************************************)
(* The collect and merge stages write a dataset root.                      *)
(***************************************************************************)
WrongMerged(content) == content

Merged(content) == [content EXCEPT !.merged = TRUE]

BeginData ==
    /\ stage \in Roots /\ phase = "begin"
    /\ data' = [data EXCEPT ![stage] = IF @ = None THEN None ELSE Torn]
    /\ phase' = "write"
    /\ UNCHANGED <<stage, gate, runs, training, weights, bundle, lock, report, previous, ledger,
                   chained, resumed>>

\* LeRobotWriter::finish, segments and outcomes.
FinishData ==
    /\ stage \in Roots /\ phase = "write"
    /\ \E content \in IF stage = "merge" THEN {Merged(data.collect)}
                      ELSE [name : Collections, good : BOOLEAN, merged : {FALSE}] :
         data' = [data EXCEPT ![stage] = content]
    /\ phase' = "record"
    /\ UNCHANGED <<stage, gate, runs, training, weights, bundle, lock, report, previous, ledger,
                   chained, resumed>>

\* The stage's own step, in its own root.  A merge has the roots it read to tell.
RecordData ==
    /\ stage \in Roots /\ phase = "record"
    /\ LET step == [Step(DataKind[stage]) EXCEPT !.content = data[stage]]
       IN  ledger' = [ledger EXCEPT ![stage] = Append(@, step)]
    /\ phase' = IF stage = "merge" THEN "inputs" ELSE "mirror"
    /\ UNCHANGED <<stage, gate, runs, training, data, weights, bundle, lock, report, previous,
                   chained, resumed>>

\* distill writes the same step to every other root it read, after its own.
RecordInputs ==
    /\ stage = "merge" /\ phase = "inputs"
    /\ ledger' = [ledger EXCEPT !.collect = Append(@, ledger["merge"][Len(ledger["merge"])])]
    /\ phase' = "mirror"
    /\ UNCHANGED <<stage, gate, runs, training, data, weights, bundle, lock, report, previous,
                   chained, resumed>>

WrongMirroredFirst(root) ==
    ledger[root][SelectInSeq(ledger[root], LAMBDA s : s.kind = DataKind[root])]

Mirrored(root) == LastOf(ledger[root], Len(ledger[root]), DataKind[root])

\* mirror: <out> gets the same line.
MirrorData ==
    /\ stage \in Roots /\ phase = "mirror"
    /\ ledger' = [ledger EXCEPT !.out = Append(@, Mirrored(stage))]
    /\ Enter(After[stage])
    /\ UNCHANGED <<gate, runs, training, data, weights, bundle, lock, report, previous, chained, resumed>>

-----------------------------------------------------------------------------
(***************************************************************************)
(* append_both: <out> first, the dataset root second.                      *)
(***************************************************************************)
WrongFirstLedger == DatasetRoot

FirstLedger == "out"
SecondLedger == IF FirstLedger = "out" THEN DatasetRoot ELSE "out"

AppendFirst(step) ==
    /\ ledger' = [ledger EXCEPT ![FirstLedger] = Append(@, step)]
    /\ phase' = "second"
    /\ UNCHANGED <<stage, runs, training, data, chained, resumed>>

\* The second append ends the stage; a gate that failed ends the run.
AppendSecond ==
    /\ phase = "second"
    /\ LET step == ledger[FirstLedger][Len(ledger[FirstLedger])]
           failed == stage = "gate" /\ ~step.passed
       IN  /\ ledger' = [ledger EXCEPT ![SecondLedger] = Append(@, step)]
           /\ IF failed THEN Quit
              ELSE /\ Enter(After[stage])
                   /\ gate' = IF stage = "gate" THEN "passed" ELSE gate
                   /\ UNCHANGED <<runs, training>>
    /\ UNCHANGED <<data, weights, bundle, lock, report, previous, chained, resumed>>

\* The expert gate judges the demonstrator, or --skip-expert-gate.
Gate ==
    /\ stage = "gate" /\ phase = "begin"
    /\ \/ \E passed \in BOOLEAN :
            AppendFirst([Step("Evaluate") EXCEPT !.expert = TRUE, !.passed = passed])
          /\ UNCHANGED <<gate, weights, bundle, lock, report, previous>>
       \/ /\ gate' = "skipped" /\ Enter("train")
          /\ UNCHANGED <<runs, training, disk, chained, resumed>>

-----------------------------------------------------------------------------
(***************************************************************************)
(* Train (es/src/cmd/train.rs, run).                                       *)
(***************************************************************************)
WrongDemonstrationsFailed(steps) ==
    LET first == SelectInSeq(steps, LAMBDA s : s.kind = "Collect")
    IN  document.expert /\ first # 0 /\ ~steps[first].content.good

\* check_demonstrations: the last collection was demonstrations and most failed.
DemonstrationsFailed(steps) ==
    LET last == LastOf(steps, Len(steps), "Collect")
    IN  document.expert /\ last # None /\ ~last.content.good

RefuseDemonstrations ==
    /\ stage = "train" /\ phase = "begin" /\ DemonstrationsFailed(ledger.out)
    /\ Quit
    /\ UNCHANGED <<disk, chained, resumed>>

\* The lock a run writes before it trains names no checkpoint yet.
LockAtStart == None

TrainBegin ==
    /\ stage = "train" /\ phase = "begin" /\ ~DemonstrationsFailed(ledger.out)
    /\ data[DatasetRoot] # None
    /\ reading' = data[DatasetRoot] /\ trainer' = "before" /\ packed' = FALSE
    /\ lock' = LockAtStart
    /\ phase' = "write"
    /\ UNCHANGED <<stage, gate, runs, data, weights, bundle, report, previous, ledger, chained,
                   resumed>>

Trained == [content |-> reading, run |-> runs]

\* The trainer, a process of its own, says that it is at the mark, writes it, and
\* then says that it is past it, unless the mark is its last.
TrainerRuns ==
    /\ stage = "train" /\ phase = "write"
    /\ \/ trainer = "before" /\ trainer' = "at" /\ UNCHANGED weights
       \/ trainer = "at" /\ trainer' = "wrote" /\ weights' = Trained
       \/ trainer = "wrote" /\ trainer' \in {"past", "exited"} /\ UNCHANGED weights
       \/ trainer = "past" /\ trainer' = "exited" /\ UNCHANGED weights
    /\ UNCHANGED <<stage, phase, gate, runs, reading, packed, data, bundle, lock, report,
                   previous, ledger, chained, resumed>>

WrongMarkComplete == trainer # "before" /\ weights # None

\* Files on disk do not say whose they are: the trainer has to be past the mark.
MarkComplete == trainer \in {"past", "exited"} /\ weights # None

\* A complete mark is packed while the trainer goes on, or else when it has exited.
BundleLands ==
    /\ stage = "train" /\ phase = "write" /\ ~packed /\ MarkComplete
    /\ bundle' = weights /\ packed' = TRUE
    /\ UNCHANGED <<stage, phase, gate, runs, reading, trainer, data, weights, lock, report,
                   previous, ledger, chained, resumed>>

\* A policy hash is H(training_hash, checkpoint_hash): what was to be read, and
\* the bytes that were packed.
TrainFinish ==
    /\ stage = "train" /\ phase = "write" /\ trainer = "exited" /\ packed
    /\ lock' = [Trained EXCEPT !.run = bundle.run]
    /\ phase' = "record"
    /\ UNCHANGED <<stage, gate, runs, training, data, weights, bundle, report, previous,
                   ledger, chained, resumed>>

\* train_step refuses a dataset other than the one its own ledger says was written.
TrainRecord ==
    /\ stage = "train" /\ phase = "record"
    /\ Recorded(DatasetRoot) \in {None, reading}
    /\ AppendFirst([Step("Train") EXCEPT !.content = reading, !.policy = lock, !.gate = gate])
    /\ UNCHANGED <<gate, weights, bundle, lock, report, previous>>

-----------------------------------------------------------------------------
(***************************************************************************)
(* Evaluate, showcase and the end.                                         *)
(***************************************************************************)
EvalBegin ==
    /\ stage = "eval" /\ phase = "begin"
    /\ previous' = IF report # None THEN report ELSE previous
    /\ report' = None
    /\ phase' = "write"
    /\ UNCHANGED <<stage, gate, runs, training, data, weights, bundle, lock, ledger, chained, resumed>>

EvalFinish ==
    /\ stage = "eval" /\ phase = "write" /\ bundle # None
    /\ report' = bundle
    /\ phase' = "record"
    /\ UNCHANGED <<stage, gate, runs, training, data, weights, bundle, lock, previous, ledger,
                   chained, resumed>>

EvalRecord ==
    /\ stage = "eval" /\ phase = "record" /\ lock # None
    /\ AppendFirst([Step("Evaluate") EXCEPT !.policy = lock])
    /\ UNCHANGED <<gate, weights, bundle, lock, report, previous>>

\* After the showcase, which reads eval/ and writes nothing a later run reads.
End ==
    /\ stage = "showcase"
    /\ chained' = Chains(ledger.out)
    /\ Quit
    /\ UNCHANGED <<disk, resumed>>

Next ==
    /\ \/ \E from \in {"collect", "train", "eval", "showcase"} : Start(from)
       \/ Stop
       \/ BeginData \/ FinishData \/ RecordData \/ RecordInputs \/ MirrorData
       \/ Gate
       \/ RefuseDemonstrations \/ TrainBegin \/ TrainerRuns \/ BundleLands \/ TrainFinish \/ TrainRecord
       \/ EvalBegin \/ EvalFinish \/ EvalRecord
       \/ AppendSecond
       \/ End
    /\ UNCHANGED document

Spec == Init /\ [][Next]_vars

-----------------------------------------------------------------------------
(***************************************************************************)
(* Properties.                                                             *)
(***************************************************************************)
Steps == [kind : {"Collect", "Distill", "Train", "Evaluate"},
          content : Content \cup {Torn, None}, policy : Policy \cup {None},
          gate : {None, "passed", "skipped"}, expert : BOOLEAN, passed : BOOLEAN]

\* Each root holds what its own stage writes.
TypeOK ==
    /\ stage \in {"idle", "collect", "merge", "gate", "train", "eval", "showcase"}
    /\ phase \in {"begin", "write", "record", "inputs", "mirror", "second"}
    /\ gate \in {None, "passed", "skipped"}
    /\ \A r \in Roots :
         \/ data[r] \in {None, Torn}
         \/ data[r] \in Content /\ data[r].merged = (r = "merge")
    /\ trainer \in {"before", "at", "wrote", "past", "exited"} /\ packed \in BOOLEAN
    /\ {weights, bundle, lock, report, previous} \subseteq Policy \cup {None}
    /\ \A l \in DOMAIN ledger : \A i \in DOMAIN ledger[l] : ledger[l][i] \in Steps

\* The policy an evaluate step names is the one whose bundle was run, though the
\* two are read from different files at different times and a run may have died
\* after it had replaced the bundle and before it could say so in the lock.
JudgedIsNamed ==
    stage = "eval" /\ phase = "second" =>
      ledger[FirstLedger][Len(ledger[FirstLedger])].policy = report

\* Whatever runs are killed where, a cycle that is always run from its beginning
\* finds a ledger that chains when it comes to its end.
FullCyclesChain == ~resumed => chained

FailedData == document.expert /\ reading \in Content /\ ~reading.good
InTraining == stage = "train" /\ phase # "begin"

\* "Whatever path reaches training": demonstrations that <out>'s ledger says mostly
\* failed are not trained on, --from train included.
FailedNeverTrains ==
    InTraining /\ FailedData =>
      \A i \in DOMAIN ledger.out : ledger.out[i].kind = "Collect" =>
        ledger.out[i].content # [reading EXCEPT !.merged = FALSE]

\* What the check does keep: where no merge stands between a collection and training,
\* demonstrations that mostly failed are trained on only if <out>'s ledger has no
\* collect step at all, that is if no collection was ever mirrored there.
RefusedOnceRecorded ==
    InTraining /\ FailedData /\ ~document.merges => Recorded("out") = None

\* A crash between any two of the appends leaves the ledgers of one step in the order
\* they are written: train and evaluate steps in <out> before the dataset root, a
\* merge's step in its own root before the root it read, and data steps in <out> last.
LedgersInOrder ==
    LET copied(l, m, kinds) ==
          \A i \in DOMAIN ledger[l] : ledger[l][i].kind \in kinds =>
            \E j \in DOMAIN ledger[m] : ledger[l][i] = ledger[m][j]
    IN  /\ copied(DatasetRoot, "out", {"Train", "Evaluate"})
        /\ copied("out", "collect", {"Collect", "Distill"})
        /\ copied("collect", "merge", {"Distill"})
=============================================================================
