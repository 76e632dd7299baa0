# electric_sheep: a TLA+ verification of its control and learning path

electric_sheep trains robot policies in simulation and runs them on robots.
Between the policy and the joints there is a chain of small state machines:
an env batch that decides when an episode ends, a runner that queues
inferences and blends their action chunks, a Safety Plane that may override any
of it, a deployment loop and a HIL bridge that do the same on hardware, and a
telemetry server that watches. Around it there is the loop that makes policies:
an editor in which a scene and its task are written, a collector that records
demonstrations and interventions, and a command that collects, trains and
evaluates in a directory it must be able to come back to. This directory models
both. The numeric parts of the repository (physics, rendering, kernels), its file
formats and its user interface are outside it.

Paths below are relative to `crates/` of the repository unless they start with
`docs/`. `PROJECT.json` maps every definition to the lines it stands for.

1. [The system](#1-the-system)
2. [Modules and plan](#2-modules-and-plan)
3. [Conventions](#3-conventions)
4. [The models, one by one](#4-the-models-one-by-one)
5. [Runs and bounds](#5-runs-and-bounds)
6. [Fairness](#6-fairness)
7. [What is proved](#7-what-is-proved)
8. [Where code and documents disagree](#8-where-code-and-documents-disagree)
9. [What is not modelled](#9-what-is-not-modelled)
10. [What the plan has left](#10-what-the-plan-has-left)

## 1. The system

### How the parts meet

```
             es loop collect / es eval / es-py rollout          (callers)
                 |            |                 |
   EnvBatch   Env::step    DomainRunner: observe -> infer -> emit -> advance
  (episodes,     |            |   AsyncInference (pipeline, control ticks)
   control       |            |   ChunkBuffer + PlaneFeed (one per env)
   graph)        |            v
                 |        SafetyPlane::validate (one per env) -> SafeAction
                 |
  on the robot:  EmbeddedRuntime::tick = infer + EmbeddedCore::step -> validate
  bench robot :  HilLink (UDP) -> HilCore::tick = log + EmbeddedCore -> validate
                 replay(log) -> the same decisions
  any of them :  telemetry Server::publish -> clients

  editor      :  SceneModel --save--> scene.esscene, task.estask, generated/
  es loop cycle: collect -> merge -> expert gate -> train -> eval -> showcase
                    |                                |
                 Collector over DomainRunner,     a trainer process
                 policy wrapped by an intervener
```

One thread drives an env batch, a runner and its planes; the interleavings that
matter there are the caller's order of phases, results that arrive late, and
episodes that end between any two phases. The HIL link is one thread against a
network. The telemetry server has threads of its own; the learning cycle has a
second process, and the runs of the command before it, whose files it finds. The
editor's model is one thread whose files others may change.

### Inventory

**Safety Plane** (`es-safety`: plane.rs, counters.rs, config.rs).
State: the accepted chunk and a cursor over its rows; the command chain
(last safe command, the one before, velocity); the fallback's waypoint index;
last heartbeat and last sensor ticks; the emergency-stop latch; the seed flag;
the violation window. Operations: `validate`, `observe_state`, `heartbeat`,
`sensor_seen`, `reset_latch`, `begin_episode`, `reset_counters`. Hard: every
input is untrusted and the answer is always an action; five watchdogs with
different clocks are read in one call; the rate watchdog reads what earlier
calls recorded; clamp stages undo one another.
Correct when: every command is inside the hard limits and the velocity bound, a
row runs only while every input is in date, the latch holds, the deadline counts
new chunks only, the report `Policy` means untouched.

**Chunk buffer, inference queue, schedule** (`es-env`: chunk_buffer.rs,
inference.rs, scheduler.rs). State: up to `CHUNK_SLOTS` overlapping chunks with
their start ticks, the feed's last seq and arrival count; a FIFO of submissions.
Operations: `push`, `action_at`, `plane_chunk`, `end_episode`, `submit`, `poll`,
`drop_env`, `observation_envs`. Hard: a full queue drops the newest, results are
late by construction, chunks overlap, batches are ragged.
Correct when: no env starves, the bounded queue bounds the wait, lookahead equals
what blending serves.

**Domain runner** (domains.rs). State: control tick, per env the latest
observation, buffer, feed. Operations: `observe_window`, `infer_window`,
`emit_actions`, `reset_env`, `advance`. Hard: it hands rows over before they are
due, stops handing over when the policy stops, and shares each env's rows with a
plane that keeps a cursor of its own.
Correct when: no row of an earlier episode runs, none runs early or past the
budget, a dead policy stops the robot.

**Env batch** (env.rs, episode.rs) and **control graph** (control.rs). State: per
env the step count, hold counters, health, stage stack, open episode. Operations:
`step`, `reset`, `set_failure_policy`, `seek_episode`. Hard: envs of one batch end,
fail and are quarantined at different moments of one step; the graph is walked by
an explicit stack with retries, loops and a cap.
Correct when: recorded episodes are whole, no stage outlives its timeout, the
stages that run are the ones the tree unrolls to.

**Embedded runtime** (`es-runtime-embedded`). State: the core (plane, chunk, rows
consumed, started, seq). Operations: `tick` and what it forwards to the plane.
Hard: a failing inference must not stop the loop and is not retried early.
Correct when: the policy runs exactly on its ticks, rows run in order and once,
full chunks never run dry.

**HIL bridge** (`es-ros2/src/hil`). Core: a pending command, a pending heartbeat,
the log. Link: session, peer, last sequence number, loss counter. Replay: a fold
over the log. Hard: datagrams are lost, repeated and reordered; the process may
die between any two log records; the sink may fail.
Correct when: a command runs at most once and in order, every log prefix replays
to the decisions it holds, and only the log of a whole run verifies.

**Telemetry server** (`es-telemetry/src/transport.rs`). State: the client map
behind a mutex, the handshaking counter, a bounded queue per client, two threads
per client. Operations: accept, handshake, register, subscribe, publish, leave.
Hard: the accept loop reads two pieces of shared state one after the other; the
publisher must never wait.
Correct when: the cap holds, all clients see one order, a client that leaves gets
what was queued, publish completes.

**Data collection** (`es-data/src/collect.rs`). State: the runner's pipeline and
buffer, the flags the last inference left, the marked frames, the columns of the
episode. Operations: `Collector::run`'s frame and close, the wrapper's `infer`.
Hard: a decision is made on one tick, released on another and drives a third, and
the code that marks the frames sees only the flags.
Correct when: the frames marked as the intervener's are those its chunk drove.

**Learning cycle** (`es/src/cmd/cycle.rs`, `train.rs`, `es-data/src/training/cycle.rs`,
`collect/ledger.rs`). State: the running stage and what its gate said; all else is
files of `<out>`: dataset roots, `train/` (weights, bundle, lock), `eval/` (report and
the one before), and a ledger `loop.jsonl` in `<out>` and in each root. Operations:
start, with or without `--from`; the stages collect, merge, expert gate, train, eval
and showcase; being killed. Hard: two ledgers, two dataset roots and three training
files are written one after the other, and a run may die between any two writes;
the trainer is a process that writes on its own; `--from` enters behind the
stages that would have refused.
Correct when: the policy a ledger names is the one that was judged, failed
demonstrations are not trained on, of two ledgers that share a line the one written
first is never behind, and a cycle always run from the beginning comes out chained.

**Scene editing** (`es-editor-scene/src/model.rs`). State: the documents, the saved
ones, undo and redo stacks, which revision the preview file was written for, what
was said of generated/; the project's files. Operations: `open`, `apply`, `undo`,
`redo`, `toggle_hidden`, `scene_file`, `save`, `refresh`. Hard: commands that are
refused have written files; re-expansion after an undo may fail; a save is two
renames, a deletion and a directory emptied and refilled.
Correct when: whoever reads the scene from a file reads the one under edit, and
generated/ passes for written only when it is.

**Not modelled, in short**: ROS 2 session start-up, evaluation shards, hand labels
and the filters of a merge, graph editing (section 10); codecs, IR validation,
compilers, policies, physics, math, rendering, import, scripting, bindings, user
interface (section 9).

The hazards each part is exposed to are listed with their lines in
`PROJECT.json` under `hazards`; the properties of section 5 are there for them.

## 2. Modules and plan

Order of work: the plane first, since everything else ends in it, then what
feeds it in simulation, then what feeds it on hardware, then episodes and
telemetry, then the learning cycle, the collector and the editor. Modules marked (A) are abstract specifications that a detailed module
is shown to implement.

| Module | Models | Uses |
|---|---|---|
| `ViolationRing` | the bit ring of the violation window | |
| `Envelope` | `Envelope::sanitize`, the clamp stages, the scrub | |
| `HeldChunk` | the accepted chunk, its cursor, `accept` | |
| `SafetyPlane` | the whole plane | `Envelope`, `ViolationRing`, `HeldChunk` |
| `RateWatchdog` (A) | a window of the last steps, full or silent | implemented by `SafetyPlane` |
| `Schedule`, `AsyncInference`, `ChunkBuffer` | scheduler, pipeline, buffer and feed | `HeldChunk` |
| `DomainRunner` | the control loop of a batch | the three above |
| `PlaneSteps` | the plane as a deterministic value | `HeldChunk` |
| `EmbeddedCore` | the control core, one `step` a tick | `PlaneSteps` |
| `EmbeddedDriver` | what the core's two drivers have in common | `EmbeddedCore` |
| `EmbeddedRuntime` | the on-robot loop | `EmbeddedDriver` |
| `HilLog`, `HilCore` | log and replay, the HIL core | `EmbeddedCore`, `EmbeddedDriver` |
| `HilLink` | the UDP session around the core | `HilCore` |
| `CommandStream` (A) | in-order, at-most-once commands | implemented by `HilLink` |
| `ControlExecutor`, `EnvBatch` | the control graph's stack machine, the batch | |
| `StagePlan` (A) | the stages a tree unrolls to | implemented by `EnvBatch` |
| `TelemetryServer` | server threads and publishers | |
| `LearningCycle` | `es loop cycle`, its files and its crashes | |
| `Collector` | `Collector::run` and the intervener's wrapper | `AsyncInference`, `ChunkBuffer` |
| `SceneModel` | the scene document and task under edit, and a project's files | |
| `MCSafetyPlane`, `MCDomainRunner`, `MCEnvBatch`, `MCLearningCycle`, `MCCollector`, `MCSceneModel` | constants for TLC | |
| `SafetyPlaneProofs`, `DomainRunnerProofs`, `EmbeddedRuntimeProofs`, `HilLinkProofs`, `EnvBatchProofs`, `TelemetryServerProofs`, `LearningCycleProofs`, `SceneModelProofs` | theorems about the module of that name; `EmbeddedRuntimeProofs` also has the lemmas on the embedded core that `HilLinkProofs` uses, which is why `HilLinkProofs` extends it | TLAPS |

The embedded core is one definition used three times: by the on-robot loop, by
the HIL core, and by the replay of its log, as one crate is in the code. The
pipeline and the chunk buffer are likewise one definition for the runner and for
the collector.

## 3. Conventions

* **Numbers.** One joint stands for NJ, and integer quanta for floats, with
  dt = 1. The plane's stages work on each joint alone, except that the events of
  all joints are one set. NaN and infinities are one model value, `NonFinite`.
  Rounding is not modelled: statements about exact bounds are about the
  arithmetic, not about the last bit of a float.
* **Time** is the control tick, period 1, so budgets are in ticks. Every clock is
  bounded by `MaxTick` in a guard.
* **Raw configuration** goes into the models unsanitized where the code sanitizes
  it; the operators do what `Envelope::sanitize` does.
* **Data in rows.** In the runner a row is a `Part`: chunk, row, the tick it was
  predicted for, the episode observed. In the HIL models a row names its command
  and the observation it answers. In `EnvBatch` a recorded row is its `done` flag.
* **Absent values.** `None` is a model value for `Option::None`.
* **Variants** named `Wrong...` before a definition are plausible slips of it. No
  specification uses them; substituting one must break the property it was
  written for, which is how each property was shown to depend on the code.
* **History variables** are marked as such where they are declared. No guard reads
  them.
* `CHECK_DEADLOCK FALSE` is set where a run ends: at the tick bound, after
  `finish`, when every connection is closed and every frame published, when the last
  episode is collected, or after the last run of the command. The batch and the
  editor never end, and deadlock is checked for them.

## 4. The models, one by one

### Safety Plane

`Validate` is the disjunction of the three ways through `validate`: latched (which
returns before the chunk is looked at, so a chunk handed over meanwhile is lost),
a fallback step, a policy step. All watchdogs are evaluated, whichever trips
first, as in the code. `Finish` is the common tail. `Chunks` offers an older
chunk, the stored one again and a new one. The ring keeps its running count as
the code does; `RingInv` says the count is the number of set bits. `age` is a history
variable: how old the last validate was told the observation is.

Left out: `prev_vel` (no code reads it) and the per-kind counters. `from_ir`
refuses configurations; `from_config` sanitizes them; the model has the second.

Worth knowing, and true of code and model alike:

* The acceleration stage runs after the position stage and may push a command
  past the *soft* limit. The hard limit is enforced once more by the scrub.
* The waypoint index of `RetractToHome` survives `begin_episode`.
* `RetractToHome` and the torque and workspace projections are not bounded in
  velocity; `VelocityBounded` says so in its guard.
* The scrub can stop a decelerating joint at a hard limit faster than the
  acceleration limit allows.
* The first call of `observe_state` after construction or `begin_episode` seeds
  the command chain; later ones do nothing.

### Runner

Each phase of a control tick is an action; the callers run them in one order, and
`SkipInfer` is a caller that goes on without its policy. `Step` ends any set of
episodes (as `step_with_policy` does), `CloseEpisode` is what `es loop collect`
does between two ticks, for every env of the batch: it rewinds the simulation tick
but not the control tick. Of the plane only the held chunk, the latch and the two
watchdogs with inputs from here are kept; in the envs of `Tripping` the other
watchdogs are a free choice, so that a fallback may come at any tick. The other
envs keep the state space small, and share the pipeline with them. `ran` is what the plane executed, `commanded` what
`emit_actions` reports.

The buffer and the plane share K = `execute_chunk`: the cross-IR rule XIR-022
refuses a pair of documents that disagree. An env that was never observed has
age `tick + 1`, as in the code. A full queue drops the newest submission and the
env counts as submitted. Left out: served/underrun counters, byte budgets, port
checks and the arithmetic of `absolute_target`.

Worth knowing: under `EmergencyStop` with a latency of one tick or more, the first
tick of an episode is an underrun and latches; the loop stays latched until
somebody calls `reset_latch` or closes the episode. And after a fallback tick a
`JointDelta` row that was left over can run on a tick for which the buffer has no
row.

### Embedded runtime

`ReplanTick` and `ReuseTick` split `tick` on `should_replan`. Inference may return
any number of rows; zero is a failure at any of its stages. A failure is not
retried before the next replan tick. `ObserveState`, `Heartbeat` and `ResetLatch`
may come between any two ticks, as callers are free to. `replan_interval` is
capped by K. The telemetry ring and bundle loading are left out.

### HIL

`HilCore.Tick` is the code's `tick`: bin the heartbeat, take the pending command,
write STEP, ask the embedded core, write DECISION. The log is a sequence of
records; `Raw` is the sink, and when a write fails the error is latched and
nothing more is written. Every prefix of the log is a crash point, so crashes need
no action. `HilLog.Replay` is replay.rs: it stops at the first record that is not
whole, keeps the decisions it has, and verifies only with a matching trailer; the
fold over the records is the recursive function `ReplayStates`. The
hash of the decisions is the sequence of the decisions itself: equal hashes mean
equal decisions, which assumes no collision.

`HilLink` puts the session protocol in front of the core: `net` keeps every datagram ever sent, so receiving one
again, late, in another order or never needs no more than the choice of a
datagram. Draining the socket at the head of a tick equals receiving one by one
before it, because nothing reads the link in between. A `Hello` of another
deployment changes nothing but counters and is only the absence of a step.
Session ids are fresh: the code derives them from the wall clock and a counter,
which is an assumption here. `CommandStream` is implemented with `sent <- Sent` (the
commands on the network) and `done <- given`, a history variable of the commands the
core was handed in a tick: the log is not enough, since the loop goes on after its
sink has failed.

Worth knowing: an accepted `Hello` or `Bye` does not clear a command that waits for
the next tick, so the last command of a session may still run in the first tick of
the next. "The highest seq wins" (hil/core.rs:109) holds within a session; across
a `Hello` accepted in the same drain the newer session wins, whatever the numbers.
The HIL core calls neither `sensor_seen` nor `reset_latch`.

### Env batch and control graph

`Evaluate` is one env of `Env::step`, in ascending order, `CloseStep` the reset of
the envs that ended, `Reset` a caller's reset of any set of envs between
two steps. Termination holds or not, a
failure happens or not and the failure policy answers it, as free choices. An env
in quarantine ends its episode in the same step and records the row that ends it.

`ControlExecutor` is a function from a stage state to the next: enter on the first
step, count a tick, fail at the timeout, advance on success. Expressions are free
truth values chosen per walk. `MaxDescent` 12 stands for `MAX_DESCENT` 256, so that a loop
over an empty sequence reaches it in the model as it does in the code. `StagePlan`
unrolls the same tree without a stack: `todo` is what is left to do, and each step
of the batch must advance, fail or restart the plan of each env or leave it.

Left out: physics, observation and stage ports, stage rewards, randomization draws
and `seek_episode`. Worth knowing: a stage with a timeout of one tick always
fails (section 8); when the cap cuts off a walk on entry with an empty
stack, that step's outcome says done without failed, though the stage is marked
failed.

### Telemetry server

One action per step between two accesses to shared state: the accept loop's two
reads are two actions (`Accept` reads the handshaking counter; `Refuse` and
`Admit` read the map), and a connection registers in the map before it gives its
handshaking slot back. `Publish`, `Fan` and `Published` are taking the mutex, one
client's turn and giving it back. A writer takes a frame, then writes it or
fails. Peers are free never to read. Sent and dropped counters are kept, since a
property relates them to what was delivered.

Left out: shutdown, tokens and versions (each is one way for a handshake to
fail), the count of live threads. Worth knowing: because a connection on its way
from the counter to the map is in both, a refusal can be spurious, never an
admission; and a client's thread may outlive its slot while its writer is blocked.

### Learning cycle

The command is a process that goes from stage to stage (`stage`, and `phase` within
it); everything that outlives it is on disk. `Stop` is both a kill and a stage that
fails, and may come between any two writes. `Start` is a run from the beginning or
by `--from`, if `check_resume` lets it.

A dataset's content hash is a record, so that two contents are equal when their
hashes are: which collection it is, whether half of its demonstrations succeeded,
whether a merge wrote it. A root that is being rewritten is `Torn`. A policy hash is
the content it was trained on and the run whose weights were packed. The trainer,
which is a process of its own, goes through "before", "at", "wrote", "past" and "exited"
with respect to the mark that is judged; `weights` is on disk and may be an earlier
run's. `BundleLands` may happen while it goes on or when it has exited, as in the code.
Appending a line is one step: the code reads the file, adds the line and renames a
new file over it. Two ledgers are two steps: a merge writes its own root's
(`RecordData`), then that of the root it read (`RecordInputs`,
`es-data/src/collect/distillation.rs:254`), and the cycle mirrors the line to `<out>` last
(`MirrorData`).

Left out: the `evaluation_hash` refusal, previews, perturbations, success-only data,
telemetry and cycles on a given `[dataset]`. Every document is tried that has an
expert or not and a merge or not.

Worth knowing, and true of code and model alike, is what `--from` can do; section 8
lists it.

### Collector

`Frame` is one pass of the collector's loop with one env observed on every control
tick: submit on the policy's ticks, poll, push, ask the wrapper. The wrapper is
asked when a submission is *released*, and its flags stand until it is asked again.
An abort repeats the intervener's last rows. The plane is reduced to what a frame's
provenance reads: it clamped, fell back, or neither. `contributed` is a history
variable that says which frames blend in rows of an intervener's chunk.

### Scene editing

Documents are model values; whether a scene expands depends on files it names
(`expanding`, which may change at any time), and whether a task compiles on the scene
*file* it is compiled against. Since a revision only grows, of the preview's revision
one bit is left: is it this one? `Apply` is `apply` with `compiles` tried, and tried again
with the documents before when it fails, including the preview files these trials
leave behind. `Save`, `SaveFails` and `DiesSaving` are the outcomes of the two renames, the
deletion and `regenerate`; a death may come after any of them. Files are edited by hand only between sessions; while a
session is open its user edits through it.

Left out: what a command does to a document, selection, drawing and geometry
checks, and a failing write of the preview alone. Worth knowing: after a save whose
second write failed, an undo back to the saved documents makes them clean while
scene.esscene holds another scene. `half` marks these states, the one exception in
`ReadsTheEdited`; `WrittenIsGenerated` has none.

## 5. Runs and bounds

| Run | Checks | Instance, and why it is enough |
|---|---|---|
| `plane` | `TypeOK`, `InsideHard`, `VelocityBounded`, `PolicyMeansUntouched`, `ExecutedInDate`, `DeadlineCountsNewChunks`, `LatchHolds`, `RateWatchdogSpec` | every limit and watchdog at once: a soft range that is not inside the hard one, a row inside, a row on the edge and a non-finite one, a pose outside, speeds in and out of bounds, budgets of one tick, a rate window of two that trips at two violations, three ticks: one to fill each budget and window, one to pass it, one to see what follows. The fallback latches. |
| `runner` | `TypeOK`, `EpisodeIsolation`, `RowsOnTime`, `DeadPolicyStops`, `LookaheadExact`, `RoundRobinBounded` | three envs observed two at a time (a ragged block), a pipeline of one with latency one (full whenever two submit), two chunk slots against three overlapping chunks, four deployments (hard switch, increments, linear ramp under a latching stop, temporal ensembling), seven ticks and one episode boundary per env, which may come between any two ticks. |
| `runner_drift` | `CommandedNeverDrifts` (violated) | section 8 |
| `embedded_loop` | `RuntimeTypeOK`, `ReplansOnTime`, `NewestChunkOnly`, `RowsInOrder` | inference every third tick against chunks of two rows, so that the cap matters; six ticks are three replans. |
| `hil` | `TypeOK`, `ReplaysIdentically`, `VerifiedIsWhole`, `RunsInDate`, `LostAreSkipped`, `CommandStreamSpec` | two controllers with up to three datagrams each and four together, two handshakes (a third session id), three ticks, so that a heartbeat can be two ticks old against a timeout of one, a deadline of one tick, an observation that has to be of the same tick, a sink that fails at any write: enough to replay a recorded session into a later one, and to die or lose the log at any record. Every prefix is replayed in every state. |
| `telemetry` | `TypeOK`, `SlotsWithinCap`, `OneOrder`, `ClosedMeansDrained`, `PublishCompletes` | three connections for two slots, a queue of one, two publishers with two frames: one connection more than the cap and one frame more than the queue. |
| `env_batch` | `TypeOK`, `WithinBudget`, `EpisodesWhole`, `StagesFollowPlan` | two envs, three graphs (a sequence with a counted loop and a branch, a retried two-stage body, a loop over nothing), hold of two ticks, budget of seven steps: longer than any timeout along a path. |
| `stage_one_step` | `UnconditionalStageCompletes` (violated) | section 8 |
| `learning_cycle` | `TypeOK`, `JudgedIsNamed`, `FullCyclesChain`, `RefusedOnceRecorded`, `LedgersInOrder` | three runs in one `<out>`, each killed anywhere, two collections, all four documents. Three runs are a good one, one that dies half-way over it, and one that finds what the two left. |
| `failed_trains` | `FailedNeverTrains` (violated) | the same; section 8 |
| `scene_edit` | `ReadsTheEdited`, `WrittenIsGenerated` | two scenes and two tasks of which one fits only one scene (so that commands are refused, and saved tasks stop compiling), three undo steps, writes that fail, an editor that dies saving. |
| `labels` | `MarkedFramesAreDriven` (violated) | one control tick of latency, chunks of two rows, a replan every two ticks, as the repository's demo deployments have it; section 8 |

What they show, in a line each:

* `InsideHard`, `VelocityBounded`: no order of stages, fallback, seed or scrub
  leaves the envelope. `PolicyMeansUntouched`: the report cannot lie.
* `DeadlineCountsNewChunks`: handing the same chunk over again neither restarts the
  clock nor rewinds the cursor. `ExecutedInDate`: one late input, be it the chunk, the
  heartbeat, a sensor or the observation, is enough to stop a row on that very tick. `LatchHolds`: nothing but the two resets leaves the latch.
* `RateWatchdogSpec`: the ring is a window of the last steps, silent until full,
  that never records its own trip.
* `EpisodeIsolation`: what was in flight, buffered or held at a reset never runs.
  `RowsOnTime`: never early, never later than the budget. `DeadPolicyStops`: a robot
  whose policy died stops within the budget (for increments, within the chunk and
  the budget). `LookaheadExact`: rows handed over in advance are those blending
  would serve, until a fallback tick. `RoundRobinBounded`: the ragged round robin
  leaves no env out.
* `ReplansOnTime`, `NewestChunkOnly`, `RowsInOrder`: the cadence is kept through
  failures and latches, and rows run in order and once.
* `ReplaysIdentically`, `VerifiedIsWhole`: the log decides, and a failed or dead run
  never passes for a whole one. `RunsInDate`: a command does not run on an old
  observation though it was received in time, nor once its controller has gone silent.
* `CommandStreamSpec`: at most once, in order, never from a session taken over.
  `LostAreSkipped`: the loss counter is exact.
* `SlotsWithinCap`, `OneOrder`, `ClosedMeansDrained`, `PublishCompletes`: the cap holds
  across the accept loop's two reads, there is one order for all clients, a client
  that leaves gets what was queued, and the publisher waits for no peer.
* `WithinBudget`, `EpisodesWhole`, `StagesFollowPlan`: an episode that is recorded has
  every row from its first to the one that ends it, and the stages run are the
  tree's.
* `JudgedIsNamed`: the bundle that was evaluated and the hash that is recorded come
  from different files, and still agree after any crash. `FullCyclesChain`: crashes
  alone never break the chain of hashes. `RefusedOnceRecorded`: what the refusal of
  failed demonstrations does keep when `--from` enters behind a collection; it reads
  only `<out>`'s ledger, hence the two exceptions, a merge in between (`failed_trains`)
  and a collection that never reached `<out>`. `LedgersInOrder`: which of two ledgers
  can be behind, and in what, a merge's three writes included.
* `ReadsTheEdited`: the one preview file, which tried and refused commands overwrite,
  never passes for another revision. `WrittenIsGenerated`: a half-made or edited
  generated/ never passes for the saved documents'.

## 6. Fairness

Only `TelemetryServer` states fairness: weak fairness of each publisher's next
step while it holds the mutex (`Fan`, `Published`). A thread between `lock()` and the
end of the scope executes no call that blocks, so the operating system's
scheduler is all that is needed. Nothing is assumed of peers, writers or the
accept loop. All other specifications are safety specifications: the control
loops are called by their environment, and a robot that is no longer called does
nothing; a cycle may be killed at any moment and an editor left alone, so neither
owes anybody progress.

## 7. What is proved

TLAPS checks these for every value of the constants that satisfies the modules'
assumptions. Of the plane, for any limits, usable or not, any window length, chunk
horizon, fallback, sensors, rows and measurements, any number of ticks:

* `EnvelopeSane`: `sanitize` leaves an ordered hard range, a soft range inside it,
  and non-negative rate limits.
* `TypeCorrect`: `Spec => []TypeOK`, with `RingInv`: the ring's count is exact, so
  that `ones -= 1` cannot underflow (`RingNewInv`, `RingPushInv`, `RingCountBounded`).
* `AlwaysInsideHard`, `AlwaysVelocityBounded`.
* `LatchAlwaysHolds`, `DeadlineAlwaysCounts`: the two action properties.
* `AlwaysInDate`, `PolicyAlwaysUntouched`: what an executed row says of its inputs.
* `RateWatchdogImplemented`: `Spec => RateWatchdogSpec`, the plane's ring implements the
  abstract watchdog.

Of the runner, for any number of envs, schedule, latency and queue, any contract and
deployment, any pattern of tripping watchdogs, episode ends and stopped policies:

* `RunnerTypeCorrect`, `AlwaysEpisodeIsolation`, `AlwaysRowsOnTime`.
* `AlwaysDeadPolicyStops`, `AlwaysLookaheadExact`, `AlwaysRoundRobinBounded`.

Of the embedded loop, for any replan interval, any inference results and any number of ticks:

* `RuntimeTypeCorrect`, `AlwaysReplansOnTime`, `AlwaysNewestChunkOnly`, `AlwaysRowsInOrder`.

Of the HIL bridge, for any controllers, commands, deadlines, number of ticks and handshakes,
any loss, repetition and reordering of datagrams and a sink that may fail on any write:

* `HilTypeCorrect`; `AlwaysReplaysIdentically`, `AlwaysVerifiedIsWhole`: every prefix of the log.
* `AlwaysRunsInDate`, `AlwaysLostAreSkipped`.
* `LinkImplementsStream`: `Spec => CommandStreamSpec`, at most once and in order.

Of the env batch, for any number of envs, hold and episode budget and any control graphs that
the validation accepts, with any descent cap, timeouts, counts and conditions:

* `EnvsTyped`, `EpisodesAlwaysWhole`.
* `StagesAlwaysFollowPlan`: `Spec => StagesFollowPlan`, the stack machines implement `StagePlan`.
* `AlwaysWithinBudget`: for graphs without an Until, with the budget of the graph as it is.

Of the telemetry server, for any connections, publishers, slots, queue length and frames:

* `ServerTypeCorrect`, `SlotsAlwaysWithinCap`, `AlwaysOneOrder`, `ClosedAlwaysDrained`.

Of the learning cycle, for any number of runs, collections and documents:

* `CycleTypeCorrect`: what killed runs leave is well formed.
* `AlwaysJudgedIsNamed`, `RecordedAlwaysRefused`, `AlwaysFullCyclesChain`, `LedgersAlwaysInOrder`.

Of the scene model, for any scenes and tasks and any number of undo steps:

* `AlwaysReadsTheEdited`, `AlwaysWrittenIsGenerated`.

The argument for the plane. The inductive invariant is `IInv == TypeOK /\ InsideHard /\
VelocityBounded`. Neither safety part is inductive alone: that the scrub keeps the
velocity bound needs the hold target inside the hard range (it moves a command
towards a point of a range that the previous command is in), and the clamp stages
bound the next step only from a chain whose velocity is bounded already.
`ClipFacts` and `StagesWithinVelocity` carry it: each stage clips to an interval that
contains a point within `VelMax` of the last command, so it keeps a step within
`VelMax` within it. Each action has a lemma (`InitInv`, `ObserveInv`, `ValidateInv`
with `FinishInv` for the common tail), and `NextInv` joins them.

The two facts about executed rows have an invariant of their own, `ActionInv`: both
and `out.tick < now`. A row is in date on the tick that runs it because the
watchdogs were silent on that tick; it stays so because a heartbeat or a sensor
that reports later is not older than the row, which is where the third conjunct
is needed, and because `age` is that tick's. A policy row that no stage changed is inside the soft limits, so by
`EnvelopeSane` inside the hard ones, and the scrub leaves it (`UntouchedRow`).

The refinement needs no invariant beyond `TypeOK`. `PushSlides`: pushing a bit is
sliding the contents read oldest first, because a ring that is filling holds step k
in slot k - 1 and the slot a full ring overwrites is its oldest step. `FullCount`: the
indices of a full ring are a bijection onto its slots, so the count kept by `push` is
the number of violations in the contents. Then each `Finish` is a `Step` of the
watchdog, `BeginEpisode` and `ResetCounters` are `Forget`, and the rest stutters.

The argument for the runner. No property of an executed row is inductive: the row was
chosen when a result was submitted, buffered, blended, handed over and stalled, and
`RunnerInv` says what holds of it at each station. `InLine`: submissions are queued in the
order of their ticks and for the episode their env is in (a reset drops the others,
`ResetInLine`). `Holds`: whatever a buffer has was due no later than anything still queued, so that
a pushed chunk starts no earlier than those it overlaps, and the chunk that a full
buffer loses is never the one that reaches furthest (`Succeeds`, `PushStores`). `FeedInTime`: a
result the feed has not seen arrived in this very tick, or covers none to come
(`Spent`), because a feed that is shown a new result with a row in it always takes it.
`HeldInTime`: the cursor moves at most once a tick, so it is never ahead of the tick.
`Current`: what the plane holds under the feed's number is of this episode, is covered by
the buffer, and is what the buffer serves until another result arrives. The phases
then have a lemma each: `DeliveryInTime`, `HandsOver` with `EmitsInTime`, `TickCloses` and
`EpisodeCloses`; `RunsInDate` reads the four properties off the row that is due. The bound for
increments is the horizon longer because the feed stamps a new number on every
tick that anything covers (`Slack`). The loops of the code are recursive functions; `LoopExists` and
`Climbs` unfold them by induction over the finite set of their indices.

The round robin has an invariant of its own, `RoundsInv`: since the tick of its latest
observation no slot of the simulation clock was one of the env. `EveryCycle` shows that
among `Cycle * ObsPeriod` ticks one is, by the arithmetic of quotients and remainders
(`DivMod`, `Products`, `Quotient`) for a last block of any size.

The argument for the cycle. `TypeInv` strengthens `TypeOK` with `Place`, which says what
each stage has done by each phase: there is a line to mirror, it is the stage's own and
of the data in its root, the collected root is whole while a merge reads it, the trainer has
opened a content. `JudgeInv` adds three facts to `JudgedIsNamed`: weights on disk are this
run's once its trainer has written the mark; a bundle packed by this run is made of
them; and a lock that names a checkpoint names the bundle. The last one holds only
because the lock is emptied *before* anything else of train/ is touched. `RefuseInv` says
that without a merge, between collecting and training, the last collection `<out>`
records, if any, is what the root holds, so that the check reads the step of the very data the
trainer opens. `ChainInv`: while no run was started in the middle, what is trained on is what
the ledger of <out> ends with, and the lock names a policy of one of its train steps; then
each line keeps the chain (`ChainsGrows`). `OrderInv` adds to `LedgersInOrder` that a merge
has told the collected root before its line is mirrored (`Told`). That a ledger which grows says
the same of its earlier lines (`LastOfGrows`, `LastOfSkips`, `LastOfFound`) rests on a set of
indices having a greatest one, which is the well-foundedness of < read backwards.

The argument for the editor. Neither property is inductive: `PreviewIsCurrent` says
that a preview of this revision holds this scene whenever somebody may read it, and
`SavedSceneOnDisk` that the scene file holds the saved scene unless a save failed
half-way. `ApplyRead` follows the preview through the trial compilation of a command and,
if that fails, of the documents before it (`CompiledKeeps`).

The argument for the telemetry server. The cap is checked in one piece of shared
state and the other one is what is about to enter it, so the invariant `SlotInv` has to
say what the accept loop may still believe between its two reads: the slots it counted,
together with the map as it is now, leave room for the connection it holds, because a
connection registers before it gives its handshaking slot back. `LockInv` says who holds the mutex
and that the frame being fanned out is the newest of the order; `LaneInv` relates a
client's queue, what was delivered, what was dropped and where it joined. One order for
all clients follows since a frame is appended to a queue only under the mutex.

The argument for the embedded loop. `RuntimeInv` is `TimeInv` (the last replan is where
the cadence puts it, and the next one is not past), `RowInv` (the rows consumed are
those of the chunk in force, in order, and a chunk never runs out before the next
replan because the interval is capped by K) and `NewestChunkOnly` itself.

The argument for the HIL bridge. `Replay` is a recursive function over the log, and it is
unfolded by an induction over the finite set of its indices (`ReplayExists`,
`ReplayUnfolds`, which rest on `SetInduction`): the replay of a log with one more record is one
step from the replay without it. With this `ReplayInv` says that a log
the sink took whole replays to the core's state and to all its decisions, and
that what a sink took in part replays to what it claims. From it
follow `ReplaysIdentically` for every prefix, and `VerifiedIsWhole`, for a trailer is only
written over a log that nothing failed on. `DateInv` says of what a pending command
and a held row were received and observed on. `StreamInv` relates the link's last sequence
number to the commands already handed over, so that a datagram which is accepted was
not handed over before: this gives the refinement, `LinkImplementsStream`. `LossInv` says
that the loss counter is the number of sequence numbers the link has passed over, and each
`Receive` adds the gap `{session} \X (lastSeq + 1 .. seq - 1)` to that set.

The argument for the env batch. `IterateKeeps` is the heart of the refinement: what a walk in
progress has still to do (`Remaining`: the rests of its frames, the top one first, behind the
node it is about to enter) is left as it is by one iteration of the loop of `run`, or
has its first item unfolded once. So an iteration is a step of `Settle` or none,
and a walk that ended has settled the plan it began with (`WalkSettles`, for any cap: a walk that
was cut off fails the episode, and a plan may always fail). That needs to know of every
frame what its index stands for (`Fits`), and that only the top of a stack is a
stage (`Clear`, `Standing`). `ControlStepFollows` puts entry, tick and walk together, over the
four ways a step may go (`ControlStepCases`). `Inv` relates the envs to the cursor: an env
that the step has not come to yet is neither done nor ended, so a quarantine never hides
the row of an episode that goes on.

For `WithinBudget` the invariant is `Spent`: the steps taken, with what the plan may still cost, are
at most the root's budget and the ticks of the active stage. Unfolding an item never makes a
plan dearer (`UnfoldCosts`; a loop is `(m - k) * v` after k rounds), so neither does
settling it, and a stage that is passed took fewer ticks than it was charged. The budget itself is
recursive over the tree. That its equation has a solution on every node and one only
(`SolutionExists`, `SolutionsAgree`, `BudgetIs`) rests on the tree having no cycle: in a
set of nodes without a solution there would be a node none of whose children is in it.

Assumptions: `EnvelopeAssumption`, `WindowLenAssumption`, `PlaneAssumption`, `ScheduleAssumption`,
`InferenceAssumption`, `BufferAssumption`, `RunnerAssumption`, `CycleAssumption`,
`SceneAssumption`, `PlaneStepsAssumption`, `DriverAssumption`, `RuntimeAssumption`, `HilAssumption`,
`LinkAssumption`, `ControlAssumption`, `EnvAssumption` and `ServerAssumption`, which say what the types and the validation of the code say (naturals, known
variants, K within 1..H, an observation block no larger than the batch, `None` distinct
from every value it is the absence of). `ControlAssumption` is what `ControlGraph::validate`
(`es-ir/src/control.rs:234`) checks of a graph: a root nothing refers to, children that exist,
no cycle, one body per loop, a positive timeout. TLC evaluates them in the runs `plane`, `runner`,
`learning_cycle`, `scene_edit`, `embedded_loop`, `hil`, `env_batch` and `telemetry`.

Every safety property that a passing run checks is proved. Out of the prover's reach and left to
TLC: `PublishCompletes` (liveness under fairness).

## 8. Where code and documents disagree

* **`runner_drift`.** `es-env/src/domains.rs:380` says the plane's row and the reported
  one "cannot drift". One tick on which another watchdog trips leaves the plane's
  cursor one row behind the buffer, which goes by the tick: until the next result
  the `commanded` column of a recorded frame names row *i* and the plane executed
  row *i - 1*. `LookaheadExact` states what does hold.
* **`stage_one_step`.** `docs/design/control-graph.md:107` lists success before the
  timeout and line 114 says that a stage without a success predicate completes on
  its first step. `ControlExecutor::step` (`es-env/src/control.rs:178`) looks at the
  timeout first: a stage with `timeout_ticks` 1, which CTRL-005 accepts, fails the
  episode on its first step.
* **`labels`.** `docs/design/learning-loop.md:298` marks `[t + latency, t + latency + K)` for
  a decision at tick *t*, and line 308 says that a labelled frame is one the injected
  chunk contributed to. The collector (`es-data/src/collect.rs:533`) marks from the frame
  on which the chunk is *released*, which is the latency later already, and marks again
  on every frame until the next inference: with a replan of more than one tick the
  policy's own frames are recorded as the intervener's.
* **`failed_trains`.** The help of `es loop cycle` says that a collection most of whose
  demonstrations failed "is not trained on: the cycle stops before the train stage,
  `--from train` included" (`es/src/cmd/cycle.rs:96`), and the comment at 285 that "whatever
  path reaches training reads the same collect step". `check_demonstrations` reads the
  last collect step of `<out>`'s ledger, and that need not be of the data that is there:
  a first run collects failed demonstrations, mirrors the step, merges them and is killed
  before the merge is recorded; a second one collects good ones and is killed before it
  merges; then `--from train` finds a good collect step and, since no distill step was
  ever mirrored, no reason to refuse the merged root either (`check_resume`, 870), and
  trains on the merge of the failed collection. Without a merge there is one way left,
  which `RefusedOnceRecorded` states as its exception: collect appends to the root's
  ledger and mirrors to `<out>` afterwards, and a first run killed in between leaves `<out>`
  without a collect step, so that the check has nothing to refuse on `--from train`.

Met while modelling the learning cycle, without a run of their own; all are
behaviours of the model too:

* `--from train` skips the expert gate, and the train step records no gate at all
  rather than "skipped" (`es/src/cmd/cycle.rs:499`; `docs/design/training-recipe.md:748` knows
  passed and skipped only).
* A run that collected anew and died in train before the lock was rewritten leaves
  the old bundle and lock with the new data. `--from eval` then judges the previous
  checkpoint and says so correctly, but not the data in place
  (`docs/design/training-recipe.md:771`).
* With a merge, a crash between collect and merge and then `--from train` trains on the
  old merged root; `check_chain` refuses only at the end, after training.
* `append_loop_step` is documented as append-only and rewrites the whole file; the
  rename makes that one step.

Met in the editor, likewise: `save` writes task.estask when there is a specification and
never removes it (`es-editor-scene/src/model.rs:391`), so that a task that was saved and
then taken back is saved as clean and is there again on the next open, against
`es-editor-scene/tests/scene_model.rs:352` ("what is saved re-reads to the same document and
specification"); `Regen::Failed` is documented as "`generated/` was emptied", and `on_disk`
says it without emptying anything; and the half-failed save of section 4.

Elsewhere: `docs/design/safety-plane.md:272` says that `ZeroVelocity`
never exceeds the acceleration limit, and the scrub at a hard limit does;
hil/core.rs:109 and `docs/design/ros2-boundary.md:361` say the highest seq wins, which
is so within one session.

## 9. What is not modelled

* **Numeric code**: `es-math`, `es-physics-*`, `es-actuator`, `es-sensor`, `es-gpu`,
  `es-render`, `es-splat`, the kernels of `es-compile`. Bit equality is their
  property, and tests on bits check it.
* **Pure transformations**: `es-ir`, `es-ir-types`, `es-import`, `es-usd`, `es-assets`,
  `es-script`, the codecs of `es-ros2` and `es-telemetry`. No state to interleave.
* **Policies and backends**: every model chooses their outcome freely.
* **User interface and tools**: `es-editor`, `es-editor-model`, `es-tools`, `es-py`.
* **Of the modelled parts**: each subsection of section 4 says what it leaves out.
* **The rest of the learning loop**: sharded evaluation and its merge, hand labels, the
  filters and deduplication of a merge, perturbations. They are folds over files with
  little state of their own; the partition of units over shards is the one worth a
  module.
* **The ROS 2 session**: the window between the start-up probe and the watch is real,
  but what a watch reports first belongs to zenoh's liveliness protocol, of which the
  repository has only the calls.
* **Graph editing**: `es-editor-graph` keeps whole documents on its stacks and touches no
  file, so that its undo is correct by its shape.

## 10. What the plan has left

Models, in order:

1. Evaluation: the partition of (cell, episode) units over shards, the merge that
   refuses an incomplete set, `seek_episode` and the pairing of draws.
2. Hand labels and a merge of several roots into one, whose collected episodes keep
   their marks.
3. The telemetry server's shutdown, while clients shake hands and publishers publish.

Proofs: every safety property has one. What a model of item 1 to 3 claims is to be proved with it:
that the shards of an evaluation cover every unit once is an induction over their bounds, like
`EveryCycle` of the runner.
