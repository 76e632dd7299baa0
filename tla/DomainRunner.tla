----------------------------- MODULE DomainRunner -----------------------------
(***************************************************************************)
(* es-env/src/domains.rs: the control loop that joins the schedule, the    *)
(* inference pipeline, one chunk buffer and one plane feed per env, and    *)
(* one Safety Plane per env.  `step_with_policy` and `es loop collect` run *)
(* its phases in this order; one thread drives them.                       *)
(*                                                                         *)
(* Of a plane only the held chunk, the latch and the two watchdogs whose   *)
(* inputs come from here are kept; the others (heartbeat, sensors, rate,   *)
(* a NaN row) trip freely in the envs of `Tripping`.  See SafetyPlane.      *)
(***************************************************************************)
EXTENDS Schedule, AsyncInference, ChunkBuffer

CONSTANTS
  MaxObsAge,         \* the plane's budget for the age of an observation
  Tripping,          \* the envs whose other watchdogs may trip
  PolicyMayStop,     \* may the caller go on without its policy?
  MaxTick, MaxEpisode           \* bounds on the runs TLC explores

ASSUME RunnerAssumption ==
    /\ InferBatch <= ObsBatch
    /\ MaxObsAge \in Nat
    /\ Tripping \subseteq Envs
    /\ PolicyMayStop \in BOOLEAN
    /\ MaxTick \in Nat /\ MaxEpisode \in Nat

VARIABLES
  phase, controlTick, simTick,
  pipe,                \* the inference pipeline
  latest,              \* per env: [tick, episode, submitted], or NoObservation
  buffer, feed,        \* per env: the chunk buffer and the plane feed
  held, latched,       \* per env: what its plane holds
  commanded,           \* per env: the row emit_actions reported, << >> for none
  ran,                 \* per env: the row its plane executed, << >> for a fallback
  episode, delivered   \* per env, history: episode number, tick of its last result

env_ == <<latest, buffer, feed, held, latched, commanded, ran, episode, delivered>>
vars == <<phase, controlTick, simTick, pipe, env_, deployment>>

NoObservation == [tick |-> -1, episode |-> -1, submitted |-> TRUE]

Init ==
    /\ deployment \in Deployments
    /\ phase = "observe" /\ controlTick = 0 /\ simTick = 0
    /\ pipe = NewPipeline
    /\ latest = [e \in Envs |-> NoObservation]
    /\ buffer = [e \in Envs |-> NewBuffer]
    /\ feed = [e \in Envs |-> NewFeed]
    /\ held = [e \in Envs |-> NothingHeld]
    /\ latched = [e \in Envs |-> FALSE]
    /\ commanded = [e \in Envs |-> << >>]
    /\ ran = [e \in Envs |-> << >>]
    /\ episode = [e \in Envs |-> 0]
    /\ delivered = [e \in Envs |-> -1]

-----------------------------------------------------------------------------
Observe ==
    /\ phase = "observe" /\ controlTick < MaxTick
    /\ latest' = [e \in Envs |->
         IF e \in ObservedIn(simTick)
           THEN [tick |-> controlTick, episode |-> episode[e], submitted |-> FALSE]
           ELSE latest[e]]
    /\ phase' = "infer"
    /\ UNCHANGED <<controlTick, simTick, pipe, buffer, feed, held, latched,
                   commanded, ran, episode, delivered>>

InferenceDue ==
    /\ controlTick % deployment.replan = 0
    /\ InferenceIn(simTick)

\* Submission goes by ascending env, and a refused one counts as submitted.
SubmitAll ==
    LET after[n \in 0 .. NumEnvs] ==
          IF n = 0 THEN pipe
          ELSE IF latest[n - 1].submitted THEN after[n - 1]
          ELSE Submit(after[n - 1], [env |-> n - 1, tick |-> controlTick,
                                     episode |-> latest[n - 1].episode])
    IN  after[NumEnvs]

\* A result applies at its own deadline, not when it happens to arrive.
Deliver(results, e) ==
    LET after[n \in 0 .. Len(results)] ==
          IF n = 0 THEN buffer[e]
          ELSE IF results[n].env # e THEN after[n - 1]
          ELSE Push(after[n - 1], [valid |-> H, episode |-> results[n].episode],
                    results[n].tick + Latency)
    IN  after[Len(results)]

Infer ==
    /\ phase = "infer"
    /\ LET submitted == IF InferenceDue THEN SubmitAll ELSE pipe
           results == Released(submitted, controlTick)
           reached == {results[i].env : i \in DOMAIN results}
       IN  /\ pipe' = Poll(submitted, controlTick)
           /\ buffer' = [e \in Envs |-> Deliver(results, e)]
           /\ delivered' = [e \in Envs |->
                IF e \in reached THEN controlTick ELSE delivered[e]]
    /\ latest' = IF InferenceDue
                   THEN [e \in Envs |-> [latest[e] EXCEPT !.submitted = TRUE]]
                   ELSE latest
    /\ phase' = "emit"
    /\ UNCHANGED <<controlTick, simTick, feed, held, latched, commanded, ran,
                   episode>>

\* The phases are the caller's to call: a control loop whose policy has stopped
\* answering goes on to the action phase without this one.
SkipInfer ==
    /\ phase = "infer" /\ PolicyMayStop
    /\ phase' = "emit"
    /\ UNCHANGED <<controlTick, simTick, pipe, env_>>

\* An env never observed is one tick older than the run.
ObsAge(e) == IF latest[e] = NoObservation THEN controlTick + 1
             ELSE controlTick - latest[e].tick

\* What the plane of env e holds once it has been handed this tick's chunk.
Handed(e) ==
    Accept(held[e],
           [seq |-> FeedAfter(buffer[e], feed[e], controlTick).seq,
            rows |-> PlaneRows(buffer[e], feed[e], controlTick), mode |-> deployment.mode],
           controlTick)

FallsBack(e) ==
    \/ Underrun(Handed(e))
    \/ ObsAge(e) > MaxObsAge
    \/ controlTick - Handed(e).tick > deployment.budget

Runs(e, tripped) == ~latched[e] /\ ~FallsBack(e) /\ e \notin tripped

Emit ==
    /\ phase = "emit"
    /\ \E tripped \in SUBSET Tripping :
         /\ held' = [e \in Envs |->
              IF latched[e] THEN held[e]
              ELSE IF Runs(e, tripped) THEN Advance(Handed(e)) ELSE Handed(e)]
         /\ latched' = [e \in Envs |->
              latched[e] \/ (deployment.latching /\ ~Runs(e, tripped))]
         /\ ran' = [e \in Envs |->
              IF Runs(e, tripped) THEN Candidate(Handed(e)) ELSE << >>]
    /\ feed' = [e \in Envs |-> FeedAfter(buffer[e], feed[e], controlTick)]
    /\ commanded' = [e \in Envs |-> ActionAt(buffer[e], controlTick)]
    /\ phase' = "step"
    /\ UNCHANGED <<controlTick, simTick, pipe, latest, buffer, episode, delivered>>

\* reset_env for the envs whose episode ended.
ResetEnvs(done) ==
    LET dropped[n \in 0 .. NumEnvs] ==
          IF n = 0 THEN pipe
          ELSE IF n - 1 \in done THEN DropEnv(dropped[n - 1], n - 1)
          ELSE dropped[n - 1]
    IN  /\ feed' = [e \in Envs |->
             IF e \in done THEN FeedEndEpisode(feed[e], buffer[e]) ELSE feed[e]]
        /\ buffer' = [e \in Envs |->
             IF e \in done THEN Clear(buffer[e]) ELSE buffer[e]]
        /\ latest' = [e \in Envs |->
             IF e \in done THEN NoObservation ELSE latest[e]]
        /\ pipe' = dropped[NumEnvs]
        /\ episode' = [e \in Envs |-> IF e \in done THEN episode[e] + 1 ELSE episode[e]]
        /\ delivered' = [e \in Envs |-> IF e \in done THEN -1 ELSE delivered[e]]

\* The physics step, which ends the episodes it ends; then the tick closes.
Step ==
    /\ phase = "step"
    /\ \E done \in SUBSET {e \in Envs : episode[e] < MaxEpisode} : ResetEnvs(done)
    /\ controlTick' = controlTick + 1
    /\ simTick' = simTick + InferPeriod
    /\ phase' = "observe"
    /\ UNCHANGED <<held, latched, commanded, ran>>

\* A caller that closes every episode between two control ticks, as es loop collect
\* does: the batch reset rewinds the simulation clock, never the control tick.
CloseEpisode ==
    /\ phase = "observe" /\ \A e \in Envs : episode[e] < MaxEpisode
    /\ ResetEnvs(Envs)
    /\ simTick' = 0
    /\ latched' = [e \in Envs |-> FALSE]
    /\ UNCHANGED <<phase, controlTick, held, commanded, ran>>

Next ==
    /\ Observe \/ Infer \/ SkipInfer \/ Emit \/ Step \/ CloseEpisode
    /\ UNCHANGED deployment

Spec == Init /\ [][Next]_vars

-----------------------------------------------------------------------------
(***************************************************************************)
(* Properties.                                                             *)
(***************************************************************************)
TypeOK ==
    /\ phase \in {"observe", "infer", "emit", "step"}
    /\ controlTick \in Nat /\ simTick \in Nat
    /\ \A i \in DOMAIN pipe.queue :
         pipe.queue[i] \in [env : Envs, tick : Nat, episode : Nat]
    /\ Len(pipe.queue) <= MaxPending
    /\ \A e \in Envs :
         /\ Cardinality(buffer[e].chunks) <= ChunkSlots
         /\ feed[e].seq \in Nat /\ feed[e].arrivals \in 0 .. Arrivals(buffer[e])
         /\ held[e].cursor \in 0 .. Len(held[e].rows)
         /\ Len(held[e].rows) <= H
         /\ latched[e] \in BOOLEAN

\* The row parts plane e executed in this control tick.
RanParts(e) == {ran[e][i] : i \in DOMAIN ran[e]}

\* A plane never executes a row that was predicted from an observation of an
\* earlier episode of its env: whatever was in flight in the pipeline, waiting
\* in the buffer or held by the plane when the episode ended is gone.
EpisodeIsolation ==
    phase = "step" =>
      \A e \in Envs : \A part \in RanParts(e) : part.episode = episode[e]

\* An executed row is never ahead of the tick it was predicted for, and never
\* behind it by more than the inference budget, however many fallback ticks
\* stalled the plane's cursor and however late the result came.
RowsOnTime ==
    phase = "step" =>
      \A e \in Envs : \A part \in RanParts(e) :
        controlTick - part.for \in 0 .. deployment.budget

\* A policy that stops producing is noticed: no row is executed once the last
\* result of the episode is older than the inference budget.  For increments,
\* stamped every tick, it takes the rest of the chunk and then the budget: a row
\* a fallback tick left behind is still there when the buffer has run out.
DeadPolicyStops ==
    phase = "step" =>
      \A e \in Envs : ran[e] # << >> =>
        /\ delivered[e] # -1
        /\ controlTick - delivered[e] <=
             IF deployment.space = "JointDelta" THEN H - 1 + deployment.budget
                                     ELSE deployment.budget

\* The lookahead is exact: a plane that has not fallen back since it accepted
\* its chunk executes the very row per-tick blending serves.
LookaheadExact ==
    phase = "step" =>
      \A e \in Envs :
        ran[e] # << >> /\ controlTick = held[e].tick + held[e].cursor - 1 =>
          ran[e] = commanded[e]

\* The row emit_actions reports as commanded is the one the plane judged:
\* domains.rs:380 says "the comment on the rebuild
\* branch above says why the two cannot drift".
CommandedNeverDrifts ==
    phase = "step" =>
      \A e \in Envs :
        ran[e] # << >> /\ commanded[e] # << >> => ran[e] = commanded[e]

\* The round robin leaves no env out, the ragged last block included: the latest
\* observation of an env is never older than one cycle of observation slots, and
\* in its first episode no env waits longer than that for its first one.
RoundRobinBounded ==
    phase = "emit" =>
      \A e \in Envs :
        latest[e] # NoObservation \/ episode[e] = 0 =>
          ObsAge(e) <= CeilDiv(Cycle * ObsPeriod, InferPeriod)
=============================================================================
