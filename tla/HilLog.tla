------------------------------- MODULE HilLog -------------------------------
(***************************************************************************)
(* The .eshil input log of a hardware-in-the-loop run and its replay:      *)
(* es-ros2/src/hil/log.rs and replay.rs.  A record is a TLA+ record, a     *)
(* blake3 hash the sequence of decisions it digests.                       *)
(***************************************************************************)
EXTENDS EmbeddedCore

Observed(tick, pose) == [tag |-> "Observe", tick |-> tick, pose |-> pose]
Beat(tick) == [tag |-> "Heartbeat", tick |-> tick]
Step(tick, age, rows) == [tag |-> "Step", tick |-> tick, age |-> age, rows |-> rows]
Decision(tick, action) == [tag |-> "Decision", tick |-> tick, action |-> action]
Trailer(hash) == [tag |-> "Trailer", hash |-> hash]

\* The state of a replay: the rebuilt core, the step waiting for its decision,
\* what the log claims and what the core decided.
ReplayStart == [core |-> NewCore(1), pending |-> None,
                live |-> << >>, replayed |-> << >>]

\* One record of the loop.
ReplayRecord(replay, record) ==
    CASE record.tag = "Observe" ->
           [replay EXCEPT !.core.plane = PlaneObserve(@, record.pose)]
      [] record.tag = "Heartbeat" ->
           [replay EXCEPT !.core.plane = PlaneHeartbeat(@, record.tick)]
      [] record.tag = "Step" -> [replay EXCEPT !.pending = record]
      [] record.tag = "Decision" ->
           LET step == replay.pending
               next == CoreStep(replay.core, step.rows, step.tick, step.age)
           IN  [core |-> next.core, pending |-> None,
                live |-> Append(replay.live, record),
                replayed |-> Append(replay.replayed,
                                    Decision(step.tick, next.action))]
      [] OTHER -> replay

\* The replay after each record of a log.
ReplayStates(log) ==
    LET after[n \in 0 .. Len(log)] ==
          IF n = 0 THEN ReplayStart ELSE ReplayRecord(after[n - 1], log[n])
    IN  after

\* A log that ends before its trailer is a crashed run: `truncated`.
Replay(log) ==
    LET whole == log # << >> /\ log[Len(log)].tag = "Trailer"
        end == ReplayStates(log)[Len(log)]
    IN  [core |-> end.core,
         steps |-> Len(end.live),
         identical |-> end.live = end.replayed /\ Len(end.live) > 0,
         live |-> IF whole THEN log[Len(log)].hash ELSE end.live,
         replayed |-> end.replayed,
         truncated |-> ~whole]

IsVerified(report) ==
    /\ report.identical
    /\ ~report.truncated
    /\ report.steps > 0
    /\ report.live = report.replayed
=============================================================================
