---------------------------- MODULE AsyncInference ----------------------------
(***************************************************************************)
(* es-env/src/inference.rs: the simulated inference pipeline, a bounded    *)
(* FIFO over control ticks.                                                *)
(***************************************************************************)
EXTENDS Integers, Sequences

CONSTANTS
  Latency,     \* latency_ticks, rounded up to whole control ticks
  InferBatch   \* the inference domain's batch

ASSUME InferenceAssumption == Latency \in Nat /\ InferBatch \in Nat \ {0}

\* default_max_pending: the work in flight when the pipeline keeps up.
MaxPending == InferBatch * Latency + InferBatch

NewPipeline == [queue |-> << >>, dropped |-> 0]

\* submit: a full queue refuses the newest.
Submit(pipe, submission) ==
    IF Len(pipe.queue) >= MaxPending
      THEN [pipe EXCEPT !.dropped = @ + 1]
      ELSE [pipe EXCEPT !.queue = Append(@, submission)]

Ready(submission, tick) == submission.tick + Latency <= tick

\* poll stops at the batch, or at the first submission that is not ready.
Releasable(queue, tick) ==
    CHOOSE n \in 0 .. Len(queue) :
      /\ n <= InferBatch
      /\ \A i \in 1 .. n : Ready(queue[i], tick)
      /\ n = InferBatch \/ n = Len(queue) \/ ~Ready(queue[n + 1], tick)

Released(pipe, tick) == SubSeq(pipe.queue, 1, Releasable(pipe.queue, tick))

Poll(pipe, tick) ==
    [pipe EXCEPT !.queue =
       SubSeq(@, Releasable(@, tick) + 1, Len(@))]

\* A slip the properties are run against, as all definitions named Wrong* are.
WrongDropEnvNone(pipe, env) == pipe

\* drop_env: the rest keeps its order.
DropEnv(pipe, env) ==
    LET kept[n \in 0 .. Len(pipe.queue)] ==
          IF n = 0 THEN << >>
          ELSE IF pipe.queue[n].env = env THEN kept[n - 1]
          ELSE Append(kept[n - 1], pipe.queue[n])
    IN  [pipe EXCEPT !.queue = kept[Len(pipe.queue)]]
=============================================================================
