--------------------------- MODULE EmbeddedRuntime ---------------------------
(***************************************************************************)
(* The deployment runtime, es-runtime-embedded/src/runtime.rs: it runs the *)
(* policy when the core asks for it and always answers with a SafeAction.  *)
(* An inference that fails at any stage is an empty chunk.                 *)
(***************************************************************************)
EXTENDS EmbeddedDriver

CONSTANTS
  H,                \* rows of an action tensor
  InferenceEvery    \* rate.control / rate.inference

Commands == [at : 0 .. MaxTick, row : 1 .. H]   \* the rows of the policy

\* A command of the policy is no measured pose, a chunk is not None.
ASSUME RuntimeAssumption ==
    /\ H \in Nat \ {0} /\ ExecuteChunk <= H
    /\ InferenceEvery \in Nat
    /\ (Poses \cup {Home}) \cap Commands = {}
    /\ \A n \in 0 .. H : None \notin [1 .. n -> Commands]

\* replan_interval: rows past K are no commands, so the chunk caps the interval.
ReplanInterval ==
    LET ticks == IF InferenceEvery = 0 THEN 1 ELSE InferenceEvery
    IN  IF ticks <= ExecuteChunk THEN ticks ELSE ExecuteChunk

VARIABLES
  out,          \* the action of the last tick
  inferredAt    \* history: the tick of the last inference, or None

runtimeVars == <<core, now, out, inferredAt>>

RuntimeInit ==
    /\ core = NewCore(ReplanInterval)
    /\ now = 0
    /\ out = [q |-> Home, source |-> "None", events |-> {}]
    /\ inferredAt = None

ObserveState(pose) ==
    /\ core' = [core EXCEPT !.plane = PlaneObserve(@, pose)]
    /\ UNCHANGED <<now, out, inferredAt>>

Heartbeat ==
    /\ core' = [core EXCEPT !.plane = PlaneHeartbeat(@, now)]
    /\ UNCHANGED <<now, out, inferredAt>>

ResetLatch ==
    /\ core' = [core EXCEPT !.plane = PlaneResetLatch(@)]
    /\ UNCHANGED <<now, out, inferredAt>>

\* infer and pack: n rows of the policy's answer, none after a failure.
Inferred(n) == [i \in 1 .. n |-> [at |-> now, row |-> i]]

StepWith(rows, age) ==
    LET next == CoreStep(core, rows, now, age)
    IN  /\ now < MaxTick
        /\ core' = next.core
        /\ out' = next.action
        /\ now' = now + 1

ReplanTick(n, age) ==
    /\ ShouldReplan(core)
    /\ StepWith(Inferred(n), age)
    /\ inferredAt' = now

ReuseTick(age) ==
    /\ ~ShouldReplan(core)
    /\ StepWith(None, age)
    /\ UNCHANGED inferredAt

Ages == {0} \cup IF MaxObsAge = None THEN {} ELSE {MaxObsAge + 1}

RuntimeNext ==
    \/ \E pose \in Poses : ObserveState(pose)
    \/ Heartbeat
    \/ ResetLatch
    \/ \E n \in 0 .. H, age \in Ages : ReplanTick(n, age)
    \/ \E age \in Ages : ReuseTick(age)

RuntimeSpec == RuntimeInit /\ [][RuntimeNext]_runtimeVars

-----------------------------------------------------------------------------
RuntimeTypeOK ==
    /\ core.seq \in Nat /\ core.consumed \in 0 .. ReplanInterval /\ core.started \in BOOLEAN
    /\ core.chunk.seq = core.seq
    /\ core.plane.held.seq \in NoSeq .. core.seq
    /\ core.plane.q \in Commands \cup Poses \cup {Home}
    /\ now \in 0 .. MaxTick
    /\ inferredAt \in 0 .. MaxTick \cup {None}

\* The policy runs on the ticks 0, R, 2R, ... and on no other, whatever fails:
\* neither an error of the inference nor a fallback nor the latch moves it.
ReplansOnTime ==
    now > 0 => inferredAt = ((now - 1) \div ReplanInterval) * ReplanInterval

\* What runs is a row of the newest inference, never of one it replaced, and no
\* row runs before its time: its index is at most its chunk's age.
NewestChunkOnly ==
    out.source = "Policy" =>
        /\ out.q.at = inferredAt
        /\ out.q.row <= now - inferredAt

\* A row is executed at most once and rows are never reordered: between two
\* rows of one inference the index only grows.
RowsInOrder ==
    [][/\ now' # now /\ out'.source = "Policy"
       /\ core.plane.q \in Commands /\ core.plane.q.at = out'.q.at
       => out'.q.row > core.plane.q.row]_runtimeVars
=============================================================================
