----------------------------- MODULE ChunkBuffer -----------------------------
(***************************************************************************)
(* es-env/src/chunk_buffer.rs: the buffer of overlapping predictions that  *)
(* one env draws its actions from, and the feed that turns it into chunks  *)
(* for the Safety Plane.                                                   *)
(*                                                                         *)
(* The number in a row is abstracted to where it came from: a Part names   *)
(* the chunk, the row of it, the tick that row was predicted for and the   *)
(* episode observed.  An action is the sequence of the parts blended into  *)
(* it, oldest first, as the reduction order is; << >> is no action.        *)
(* The buffer and the plane share one K: cross-IR check XIR-022 refuses a  *)
(* contract and a deployment that disagree on it.                          *)
(***************************************************************************)
EXTENDS HeldChunk, FiniteSets

CONSTANTS
  H,                 \* chunk horizon
  ChunkSlots,        \* CHUNK_SLOTS: overlapping chunks one buffer keeps
  Deployments        \* the execution settings a run may be started with

Blends == {"HardSwitch", "LinearBlend", "TemporalEnsemble"}

(***************************************************************************)
(* What the contract and the deployment settle once, before the first      *)
(* tick: how overlapping chunks blend and over how many steps the ramp of  *)
(* LinearBlend runs, the execution mode, the action space, the control     *)
(* ticks between two policy invocations, whether the plane's fallback is   *)
(* EmergencyStop, and its budget for the age of the last chunk.            *)
(***************************************************************************)
DeploymentType ==
    [blend : Blends, ramp : Nat, mode : Modes, space : {"JointPosition", "JointDelta"},
     replan : Nat \ {0}, latching : BOOLEAN, budget : Nat]

ASSUME BufferAssumption ==
    /\ H \in Nat \ {0} /\ ExecuteChunk \in 1 .. H
    /\ ChunkSlots \in Nat \ {0}
    /\ Deployments \subseteq DeploymentType

VARIABLE deployment   \* the one the run was started with; no step changes it

NewBuffer == [chunks |-> {}, next |-> 1]

Oldest(chunks) == CHOOSE c \in chunks : \A d \in chunks : c.seq <= d.seq

\* Variants named Wrong* are the plausible slips each property is run against.
WrongPushKeepsAll(buffer, chunk, arrival) ==
    LET slot == [start |-> arrival, valid |-> chunk.valid,
                 seq |-> buffer.next, episode |-> chunk.episode]
    IN  [chunks |-> buffer.chunks \cup {slot}, next |-> buffer.next + 1]

\* push: an empty chunk is dropped; a full buffer loses its oldest arrival.
Push(buffer, chunk, arrival) ==
    LET slot == [start |-> arrival, valid |-> chunk.valid,
                 seq |-> buffer.next, episode |-> chunk.episode]
        kept == IF Cardinality(buffer.chunks) < ChunkSlots
                  THEN buffer.chunks
                  ELSE buffer.chunks \ {Oldest(buffer.chunks)}
    IN  IF chunk.valid = 0 THEN buffer
        ELSE [chunks |-> kept \cup {slot}, next |-> buffer.next + 1]

Arrivals(buffer) == buffer.next - 1
Clear(buffer) == [buffer EXCEPT !.chunks = {}]

\* ACT averages every overlapping prediction; the others stop at K rows.
Span(chunk) ==
    IF deployment.blend = "TemporalEnsemble" \/ chunk.valid < ExecuteChunk
      THEN chunk.valid ELSE ExecuteChunk

Overlapping(buffer, tick) ==
    {c \in buffer.chunks : tick \in c.start .. (c.start + Span(c) - 1)}

Part(chunk, tick) == [chunk |-> chunk.seq, row |-> tick - chunk.start,
                      for |-> tick, episode |-> chunk.episode]

\* The ramp of LinearBlend has reached the newest chunk's own row.
Ramped(newest, tick) == tick - newest.start + 1 >= deployment.ramp

\* The overlap set, sorted by arrival: the oldest chunk first.
ByArrival(chunks) ==
    CHOOSE order \in [1 .. Cardinality(chunks) -> chunks] :
      \A i, j \in DOMAIN order : i < j => order[i].seq < order[j].seq

\* action_at: the lookup that counts nothing.
ActionAt(buffer, tick) ==
    LET order == ByArrival(Overlapping(buffer, tick))
        parts == [i \in DOMAIN order |-> Part(order[i], tick)]
        n == Len(parts)
    IN  IF n < 2 \/ deployment.blend = "TemporalEnsemble" THEN parts
        ELSE IF deployment.blend = "LinearBlend" /\ ~Ramped(order[n], tick)
          THEN SubSeq(parts, n - 1, n)
        ELSE SubSeq(parts, n, n)

-----------------------------------------------------------------------------
(***************************************************************************)
(* PlaneFeed: what one plane was last handed.                              *)
(***************************************************************************)
NewFeed == [seq |-> 0, arrivals |-> 0]

WrongFeedEndEpisodeSameSeq(feed, buffer) == [feed EXCEPT !.arrivals = Arrivals(buffer)]

\* end_episode: a fresh seq with nothing behind it makes the plane let go.
FeedEndEpisode(feed, buffer) == [seq |-> feed.seq + 1,
                                 arrivals |-> Arrivals(buffer)]

WrongLookaheadFromNext(buffer, tick) ==
    LET covered == {n \in 1 .. H : ActionAt(buffer, tick + n) # << >>}
    IN  [i \in 1 .. Cardinality(covered) |-> ActionAt(buffer, tick + i)]

\* The rows a result will drive: this tick's and the following ones, up to H,
\* until the first tick that nothing covers.
Lookahead(buffer, tick) ==
    LET covered(n) == \A i \in 0 .. n - 1 : ActionAt(buffer, tick + i) # << >>
        valid == CHOOSE n \in 0 .. H :
                   covered(n) /\ (n = H \/ ~covered(n + 1))
    IN  [i \in 1 .. valid |-> ActionAt(buffer, tick + i - 1)]

WrongFeedEveryTick(buffer, feed, tick) ==
    IF ActionAt(buffer, tick) = << >> THEN feed
    ELSE [seq |-> feed.seq + 1, arrivals |-> Arrivals(buffer)]

\* plane_chunk: the feed after it.  An increment is stamped every tick; an
\* absolute row only when a result has arrived since the last stamp.
FeedAfter(buffer, feed, tick) ==
    IF \/ ActionAt(buffer, tick) = << >>
       \/ deployment.space # "JointDelta" /\ Arrivals(buffer) = feed.arrivals
      THEN feed
      ELSE [seq |-> feed.seq + 1, arrivals |-> Arrivals(buffer)]

\* plane_chunk: the rows handed over.  None of them are read under a seq the
\* plane has already seen.
PlaneRows(buffer, feed, tick) ==
    IF FeedAfter(buffer, feed, tick) = feed THEN << >>
    ELSE IF deployment.space = "JointDelta" THEN <<ActionAt(buffer, tick)>>
    ELSE Lookahead(buffer, tick)
=============================================================================
