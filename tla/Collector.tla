------------------------------- MODULE Collector -------------------------------
(***************************************************************************)
(* es-data/src/collect.rs, Collector::run: the episodes of `es loop        *)
(* collect` over one env.  A wrapper around the policy lets an intervener  *)
(* take over a chunk; the collector marks the frames it takes to be that   *)
(* chunk's and records who drove each frame.                               *)
(*                                                                         *)
(* The plant, the plane and the renderer are reduced to what a frame's     *)
(* provenance reads: whether the plane clamped or fell back, and whether   *)
(* the step ended the episode.  Every control tick observes the env.       *)
(***************************************************************************)
EXTENDS AsyncInference, ChunkBuffer

CONSTANTS
  MaxSteps,          \* the step budget of an episode
  Episodes           \* n_episodes

VARIABLES
  tick, pipe, buffer,      \* the runner: its control tick is never rewound
  episode, frame, closing, \* the episode, its next frame, and whether it is over
  injected, aborted,       \* set by the last infer
  human,                   \* the frames marked as the intervener's
  sources,                 \* action_source per frame of the episode
  human_chunks,            \* history: the chunks of this episode that hold the
                           \* intervener's rows; an abort repeats its last ones
  contributed              \* history, per frame: did one of them have a part in it?

vars == <<tick, pipe, buffer, episode, frame, closing, injected, aborted, human, sources,
          human_chunks, contributed, deployment>>

\* begin_episode, and the columns of a new episode.
BeginEpisode ==
    /\ frame' = 0 /\ closing' = FALSE
    /\ injected' = FALSE /\ aborted' = FALSE
    /\ human' = {} /\ sources' = << >>
    /\ human_chunks' = {} /\ contributed' = << >>

Init ==
    /\ deployment \in Deployments
    /\ tick = 0 /\ pipe = NewPipeline /\ buffer = NewBuffer
    /\ episode = 0 /\ frame = 0 /\ closing = FALSE
    /\ injected = FALSE /\ aborted = FALSE /\ human = {} /\ sources = << >>
    /\ human_chunks = {} /\ contributed = << >>

Env == 0

\* infer_window submits on the ticks the policy is asked again.
Submitted ==
    IF tick % deployment.replan = 0
      THEN Submit(pipe, [env |-> Env, tick |-> tick, episode |-> episode]) ELSE pipe

\* infer is called when a submission is released, not when it is made; its chunk
\* applies from that tick on.
Delivered(results) ==
    IF results = << >> THEN buffer
    ELSE Push(buffer, [valid |-> H, episode |-> results[1].episode], results[1].tick + Latency)

\* What the intervener says when it is asked: the policy's tick, a chunk, or enough.
\* The flags stand until it is asked again.
Asked(results, answer) ==
    IF results = << >> THEN UNCHANGED <<injected, aborted>>
    ELSE injected' = (answer = "chunk") /\ aborted' = (answer = "abort")

\* classify: the counters' deltas come before the mark.
Source(event, marked) ==
    IF event # "none" THEN event ELSE IF marked THEN "human" ELSE "policy"

MarkedFrom == frame + Latency

Frame ==
    /\ episode < Episodes /\ ~closing
    /\ LET results == Released(Submitted, tick)
           served == ActionAt(Delivered(results), tick)
       IN  /\ pipe' = Poll(Submitted, tick)
           /\ buffer' = Delivered(results)
           /\ \E answer \in {"policy", "chunk", "abort"} :
                /\ Asked(results, answer)
                /\ human_chunks' = IF results # << >> /\ answer # "policy"
                                     THEN human_chunks \cup {buffer.next} ELSE human_chunks
           /\ human' = IF injected' THEN human \cup MarkedFrom .. MarkedFrom + ExecuteChunk - 1
                       ELSE human
           /\ \E event \in IF served = << >> THEN {"fallback"} ELSE {"none", "clamped", "fallback"} :
                sources' = Append(sources, Source(event, frame \in human'))
           /\ contributed' = Append(contributed,
                \E i \in DOMAIN served : served[i].chunk \in human_chunks')
    /\ \E done \in BOOLEAN : closing' = (done \/ aborted' \/ frame + 1 = MaxSteps)
    /\ frame' = frame + 1 /\ tick' = tick + 1
    /\ UNCHANGED <<episode, deployment>>

\* The open episode is closed and written, and the runner lets go of its chunks.
CloseEpisode ==
    /\ closing
    /\ buffer' = Clear(buffer) /\ pipe' = DropEnv(pipe, Env)
    /\ episode' = episode + 1
    /\ BeginEpisode
    /\ UNCHANGED <<tick, deployment>>

Next == Frame \/ CloseEpisode

Spec == Init /\ [][Next]_vars

-----------------------------------------------------------------------------
\* learning-loop.md:308 "a labelled frame is one the injected chunk contributed to":
\* no frame is marked as the intervener's in which no chunk of its had a part.
MarkedFramesAreDriven ==
    \A f \in human : f < frame => contributed[f + 1]
=============================================================================
