------------------------------- MODULE HilCore -------------------------------
(***************************************************************************)
(* es-ros2/src/hil/core.rs: what arrived since the last tick is bound into *)
(* the integer inputs of one core step, and every input and decision is    *)
(* appended to the log.  A log write may fail; the error is latched and    *)
(* the control loop goes on.                                               *)
(***************************************************************************)
EXTENDS HilLog, EmbeddedDriver, FiniteSets

CONSTANTS
  DeadlineTicks,   \* ceil(inference_budget / control_period)
  LogMayFail       \* whether the sink may fail to write

ASSUME HilAssumption ==
    /\ DeadlineTicks \in Nat
    /\ LogMayFail \in BOOLEAN

VARIABLES
  log, logError,
  hash,            \* the decisions digested so far
  pendingCmd, pendingBeat, lastObsTick,
  stats,           \* [commands, superseded, deadlineMiss]
  ended,           \* finish was called, or the process died
  lastBeat,        \* history: the tick of the last heartbeat heard
  given            \* history: the ids of the commands the core was given, in order

coreVars == <<core, log, logError, hash, pendingCmd, pendingBeat, lastObsTick,
              stats, now, ended, lastBeat, given>>

CoreInit ==
    /\ core = NewCore(1)
    /\ log = << >> /\ logError = FALSE /\ hash = << >>
    /\ pendingCmd = None /\ pendingBeat = FALSE /\ lastObsTick = None
    /\ stats = [commands |-> 0, superseded |-> 0, deadlineMiss |-> 0]
    /\ now = 0 /\ ended = FALSE
    /\ lastBeat = 0 /\ given = << >>

\* A command is [id, obs, rows].  A later one of the same window replaces it.
OnCommand(cmd) ==
    /\ ~ended
    /\ pendingCmd' = cmd
    /\ stats' = IF pendingCmd # None
                  THEN [stats EXCEPT !.superseded = @ + 1] ELSE stats
    /\ UNCHANGED <<core, log, logError, hash, pendingBeat, lastObsTick, now, ended,
                   lastBeat, given>>

OnHeartbeat ==
    /\ ~ended
    /\ pendingBeat' = TRUE
    /\ lastBeat' = now
    /\ UNCHANGED <<core, log, logError, hash, pendingCmd, lastObsTick, stats, now, ended,
                   given>>

\* Variants named Wrong* are the plausible slips each property is run against.
WrongRawUnlatched(records) ==   \* goes on after a record it could not write
    \E n \in IF LogMayFail THEN 1 .. 2 ELSE {1} :
        /\ log' = log \o SubSeq(records, n, Len(records))
        /\ logError' = (n > 1)

\* raw: after the first error nothing more is written.
Raw(records) ==
    \E n \in IF logError THEN {0}
             ELSE IF LogMayFail THEN 0 .. Len(records)
             ELSE {Len(records)} :
        /\ log' = log \o SubSeq(records, 1, n)
        /\ logError' = (logError \/ n < Len(records))

WrongObservationReceipt == IF pendingCmd = None THEN lastObsTick ELSE now

\* The observation the newest submitted command answers.
Observation == IF pendingCmd = None THEN lastObsTick ELSE pendingCmd.obs

ObsAge == IF Observation = None THEN 0 ELSE Since(now, Observation)

Rows == IF pendingCmd = None THEN None ELSE pendingCmd.rows

WrongTickRecordsNoBeat(pose, action) ==
    <<Observed(now, pose), Step(now, ObsAge, Rows), Decision(now, action)>>

TickRecords(pose, action) ==
    <<Observed(now, pose)>> \o (IF pendingBeat THEN <<Beat(now)>> ELSE << >>)
      \o <<Step(now, ObsAge, Rows), Decision(now, action)>>

\* HilLink::tick after the drain: observe_state, then one control tick.
Tick(pose) ==
    LET seen == PlaneObserve(core.plane, pose)
        beaten == IF pendingBeat THEN PlaneHeartbeat(seen, now) ELSE seen
        next == CoreStep([core EXCEPT !.plane = beaten], Rows, now, ObsAge)
    IN  /\ ~ended /\ now < MaxTick
        /\ core' = next.core
        /\ Raw(TickRecords(pose, next.action))
        /\ hash' = Append(hash, Decision(now, next.action))
        /\ lastObsTick' = Observation
        /\ stats' = IF pendingCmd = None THEN stats
                    ELSE [stats EXCEPT !.commands = @ + 1,
                            !.deadlineMiss = IF now > pendingCmd.obs + DeadlineTicks
                                               THEN @ + 1 ELSE @]
        /\ given' = IF pendingCmd = None THEN given ELSE Append(given, pendingCmd.id)
        /\ pendingCmd' = None /\ pendingBeat' = FALSE
        /\ now' = now + 1
        /\ UNCHANGED <<ended, lastBeat>>

\* finish: the trailer carries the hash of every decision the run made.
Finish ==
    /\ ~ended
    /\ ended' = TRUE
    /\ Raw(<<Trailer(hash)>>)
    /\ UNCHANGED <<core, hash, pendingCmd, pendingBeat, lastObsTick, stats, now, lastBeat,
                   given>>

-----------------------------------------------------------------------------
(***************************************************************************)
(* Properties.                                                             *)
(***************************************************************************)
Prefixes == {SubSeq(log, 1, n) : n \in 0 .. Len(log)}

\* The decisions are a function of the log: whatever arrived and whenever,
\* wherever the run died and wherever its log stops, the complete records
\* replay to the decisions they claim.
ReplaysIdentically ==
    \A prefix \in Prefixes :
      LET report == Replay(prefix)
      IN  /\ report.identical = (report.steps > 0)
          /\ ~logError /\ prefix = log => report.core = core

ObservedRecords == {i \in DOMAIN log : log[i].tag = "Observe"}

\* A verified log is a whole run: none of its inputs or decisions is missing,
\* however the sink failed in between.
VerifiedIsWhole ==
    IsVerified(Replay(log)) => /\ ended
                               /\ Replay(log).steps = now
                               /\ Cardinality(ObservedRecords) = now

\* A controller that falls silent or lags is cut off: a command runs only while
\* the observation it answers and the last heartbeat heard are in date.
Ran(record) == record.action.source = "Policy"
RunsInDate ==
    \A i \in DOMAIN hash : Ran(hash[i]) =>
        LET tick == hash[i].tick IN
        /\ ~Over(tick - hash[i].action.q.obs, MaxObsAge)
        /\ i = Len(hash) => ~Over(tick - lastBeat, HeartbeatTimeout)
=============================================================================
