----------------------------- MODULE SafetyPlane -----------------------------
(***************************************************************************)
(* The Safety Plane: es-safety/src/plane.rs.  Once per control period the  *)
(* runtime hands `validate` the policy's chunk; the plane answers with an  *)
(* action it may execute, always.                                          *)
(*                                                                         *)
(* Time is the control tick (period_us = 1), so the watchdog budgets are   *)
(* in ticks.  The model bounds it by MaxTick.  prev_vel is left out: no    *)
(* code reads it.  The summed counters are in SafetyCounters.              *)
(***************************************************************************)
EXTENDS Envelope, ViolationRing, HeldChunk

CONSTANTS
  H,                          \* chunk horizon
  FallbackKind, Trajectory,   \* the configured fallback; RetractToHome's waypoints
  InferenceBudget, MaxObsAge, HeartbeatTimeout,   \* in ticks, or None
  Sensors, MaxGap,            \* the watched sensors and their dropout gap
  MaxOnes,                    \* floor(max_frac * WindowLen), or None
  None,
  Rows, Poses, Speeds,        \* what a policy and a robot may report (inputs)
  MaxTick                     \* bound on the control tick

FallbackKinds == {"HoldPosition", "ZeroVelocity", "RetractToHome",
                  "HandoffController", "EmergencyStop"}

ASSUME PlaneAssumption ==
    /\ H \in Nat \ {0} /\ ExecuteChunk \in 1 .. H
    /\ FallbackKind \in FallbackKinds
    /\ Trajectory \in Seq(Int \cup {NonFinite})
    /\ None \notin Int
    /\ \A limit \in {InferenceBudget, MaxObsAge, HeartbeatTimeout, MaxOnes} :
         limit \in Nat \cup {None}
    /\ MaxGap \in [Sensors -> Nat]
    /\ Rows \subseteq Int \cup {NonFinite}
    /\ Poses \subseteq Int \cup {NonFinite}
    /\ Speeds \subseteq Int \cup {NonFinite}
    /\ MaxTick \in Nat

\* Fallback::stationary degrades a retraction without waypoints to holding.
Fallback == IF FallbackKind = "RetractToHome" /\ Trajectory = << >>
              THEN "HoldPosition" ELSE FallbackKind

Kinds == {"NonFinite", "Position", "Velocity", "Acceleration", "Torque",
          "Workspace", "RateLimit", "StaleObservation", "InferenceDeadline",
          "ChunkUnderrun", "HeartbeatLoss", "SensorDropout", "ViolationRate",
          "EstopLatched"}

RowSeqs == UNION {[1 .. n -> Rows] : n \in 0 .. H}   \* actions[..valid]

VARIABLES
  stored,        \* the accepted chunk: [seq, rows, mode, cursor, tick]
  lastSafe, prevSafe, vel,   \* the command chain
  retractIdx, lastBeat, lastSeen, estopLatched, seeded,
  window,        \* the ViolationRate ring
  out,           \* the SafeAction returned last: [tick, q, source, events]
  now,           \* the control tick of the next validate
  age            \* history: the obs_age the last validate was called with

chain == <<lastSafe, prevSafe, vel>>
vars == <<stored, lastSafe, prevSafe, vel, retractIdx, lastBeat, lastSeen,
          estopLatched, seeded, window, out, now, age>>

Init ==
    /\ stored = NothingHeld
    /\ lastSafe = Mid(Soft) /\ prevSafe = Mid(Soft) /\ vel = 0
    /\ retractIdx = 0
    /\ lastBeat = 0 /\ lastSeen = [s \in Sensors |-> 0]
    /\ estopLatched = FALSE /\ seeded = FALSE
    /\ window = RingNew
    /\ out = [tick |-> -1, q |-> Mid(Soft), source |-> "None", events |-> {}]
    /\ now = 0 /\ age = 0

-----------------------------------------------------------------------------
(***************************************************************************)
(* What the runtime calls besides validate.                                *)
(***************************************************************************)
ResetLatch ==
    /\ estopLatched
    /\ estopLatched' = FALSE
    /\ UNCHANGED <<stored, chain, retractIdx, lastBeat, lastSeen, seeded,
                   window, out, now, age>>

BeginEpisode ==
    /\ estopLatched' = FALSE
    /\ seeded' = FALSE
    /\ window' = RingNew
    /\ UNCHANGED <<stored, chain, retractIdx, lastBeat, lastSeen, out, now, age>>

ResetCounters ==
    /\ window' = RingNew
    /\ UNCHANGED <<stored, chain, retractIdx, lastBeat, lastSeen, estopLatched,
                   seeded, out, now, age>>

Heartbeat ==
    /\ lastBeat' = now
    /\ UNCHANGED <<stored, chain, retractIdx, lastSeen, estopLatched, seeded,
                   window, out, now, age>>

SensorSeen(s) ==
    /\ lastSeen' = [lastSeen EXCEPT ![s] = now]
    /\ UNCHANGED <<stored, chain, retractIdx, lastBeat, estopLatched, seeded,
                   window, out, now, age>>

\* Measurement enters the command chain once; later calls return at once.
ObserveState(q, qd) ==
    /\ ~seeded
    /\ seeded' = TRUE
    /\ lastSafe' = IF q = NonFinite THEN lastSafe
                     ELSE Clip(q, Hard.lower, Hard.upper)
    /\ vel' = IF qd = NonFinite THEN vel ELSE Clip(qd, -VelMax, VelMax)
    /\ prevSafe' = lastSafe'
    /\ UNCHANGED <<stored, retractIdx, lastBeat, lastSeen, estopLatched,
                   window, out, now, age>>

-----------------------------------------------------------------------------
(***************************************************************************)
(* validate(chunk, obs_age, now).                                          *)
(***************************************************************************)
Accepted(c) == Accept(stored, c, now)

\* Variants named Wrong* are the plausible slips each property is run against.
WrongTicksSinceLate(earlier) == IF now > earlier THEN now - earlier - 1 ELSE 0

\* PhysTick::ticks_since(..).unwrap_or(0): a tick in the future is no age.
TicksSince(earlier) == IF now >= earlier THEN now - earlier ELSE 0

Exceeds(value, limit) == limit # None /\ value > limit

RateTripped == MaxOnes # None /\ RingOver(window, MaxOnes)

\* The watchdogs; every one is evaluated, whichever tripped before it.
Trips(st, obsAge) ==
    UNION { IF Underrun(st) THEN {"ChunkUnderrun"} ELSE {},
            IF ~Underrun(st) /\ Candidate(st) = NonFinite
              THEN {"NonFinite"} ELSE {},
            IF Exceeds(obsAge, MaxObsAge) THEN {"StaleObservation"} ELSE {},
            IF Exceeds(TicksSince(st.tick), InferenceBudget)
              THEN {"InferenceDeadline"} ELSE {},
            IF Exceeds(TicksSince(lastBeat), HeartbeatTimeout)
              THEN {"HeartbeatLoss"} ELSE {},
            IF \E s \in Sensors : TicksSince(lastSeen[s]) > MaxGap[s]
              THEN {"SensorDropout"} ELSE {},
            IF RateTripped THEN {"ViolationRate"} ELSE {} }

FallbackAction ==
    IF Fallback = "ZeroVelocity" THEN lastSafe + Decelerated(vel)
    ELSE IF Fallback = "RetractToHome" THEN Trajectory[retractIdx + 1]
    ELSE lastSafe

WrongFinishEcho(q, source, events) ==
    /\ out' = [tick |-> now, q |-> q, source |-> source, events |-> events]
    /\ window' = RingPush(window, events # {})
    /\ vel' = q - lastSafe
    /\ prevSafe' = lastSafe
    /\ lastSafe' = q
    /\ now' = now + 1
    /\ UNCHANGED <<lastBeat, lastSeen, seeded>>

\* finish: the common tail.  The ring never records the rate watchdog's own trip.
Finish(q, source, events) ==
    /\ out' = [tick |-> now, q |-> q, source |-> source, events |-> events]
    /\ window' = RingPush(window, events \ {"ViolationRate"} # {})
    /\ vel' = q - lastSafe
    /\ prevSafe' = lastSafe
    /\ lastSafe' = q
    /\ now' = now + 1
    /\ UNCHANGED <<lastBeat, lastSeen, seeded>>

LatchedStep ==
    /\ estopLatched
    /\ Finish(Scrub(lastSafe, lastSafe), "EmergencyStop", {"EstopLatched"})
    /\ UNCHANGED <<stored, retractIdx, estopLatched>>

WrongFallbackStepUnderrunFree(c, obsAge) ==
    LET st == Accepted(c)
        trips == Trips(st, obsAge)
    IN  /\ ~estopLatched
        /\ trips # {}
        /\ Finish(Scrub(FallbackAction, lastSafe), Fallback, trips)
        /\ stored' = st
        /\ estopLatched' = (Fallback = "EmergencyStop" /\ trips # {"ChunkUnderrun"})
        /\ UNCHANGED retractIdx

\* A fallback step does not consume a chunk row.
FallbackStep(c, obsAge) ==
    LET st == Accepted(c)
        trips == Trips(st, obsAge)
    IN  /\ ~estopLatched
        /\ trips # {}
        /\ Finish(Scrub(FallbackAction, lastSafe), Fallback, trips)
        /\ stored' = st
        /\ estopLatched' = (Fallback = "EmergencyStop")
        /\ retractIdx' = IF Fallback = "RetractToHome"
                            /\ retractIdx + 1 < Len(Trajectory)
                           THEN retractIdx + 1 ELSE retractIdx

PolicyStep(c, obsAge) ==
    LET st == Accepted(c)
        stages == Stages(Candidate(st), lastSafe, prevSafe, vel)
        events == StageEvents(stages)
    IN  /\ ~estopLatched
        /\ Trips(st, obsAge) = {}
        /\ Finish(Scrub(stages.d2, lastSafe),
                  IF events = {} THEN "Policy" ELSE "Clamped", events)
        /\ stored' = Advance(st)
        /\ UNCHANGED <<retractIdx, estopLatched>>

Validate(c, obsAge) ==
    /\ now < MaxTick /\ age' = obsAge
    /\ \/ LatchedStep
       \/ FallbackStep(c, obsAge)
       \/ PolicyStep(c, obsAge)

\* The chunks a runtime may pass: an older one, the stored one again, a new one.
Chunks ==
    [seq : {stored.seq - 1, stored.seq, stored.seq + 1} \cap Nat,
     rows : RowSeqs, mode : Modes]

ObsAges == {0} \cup IF MaxObsAge = None THEN {} ELSE {MaxObsAge, MaxObsAge + 1}

Next ==
    \/ ResetLatch
    \/ BeginEpisode
    \/ ResetCounters
    \/ Heartbeat
    \/ \E s \in Sensors : SensorSeen(s)
    \/ \E q \in Poses, qd \in Speeds : ObserveState(q, qd)
    \/ \E c \in Chunks, obsAge \in ObsAges : Validate(c, obsAge)

Spec == Init /\ [][Next]_vars

-----------------------------------------------------------------------------
(***************************************************************************)
(* Properties.                                                             *)
(***************************************************************************)
Sources == FallbackKinds \cup {"Policy", "Clamped", "None"}
Executed == {"Policy", "Clamped"}   \* the sources that ran a chunk row

TypeOK ==
    /\ stored \in [seq : Int, rows : Seq(Int \cup {NonFinite}), mode : Modes,
                   cursor : Nat, tick : Int]
    /\ lastSafe \in Int /\ prevSafe \in Int /\ vel \in Int
    /\ retractIdx \in Nat
    /\ Trajectory # << >> => retractIdx < Len(Trajectory)
    /\ lastBeat \in Int /\ lastSeen \in [Sensors -> Int]
    /\ estopLatched \in BOOLEAN /\ seeded \in BOOLEAN
    /\ RingInv(window)
    /\ out \in [tick : Int, q : Int, source : Sources, events : SUBSET Kinds]
    /\ now \in Nat /\ age \in ObsAges

\* INV-13 and the final scrub: whatever the policy, the robot and the watchdogs
\* do, the command and the hold target stay inside the hard limits.
InsideHard ==
    /\ lastSafe \in Hard.lower .. Hard.upper
    /\ out.q \in Hard.lower .. Hard.upper

\* The velocity row of the envelope bounds every command, fallback steps and
\* the first step after a seed included.  Two configurations are outside it:
\* RetractToHome jumps to its waypoint whatever the distance, and the torque
\* and workspace projections move a command that starts outside them at once.
VelocityBounded ==
    Fallback # "RetractToHome" /\ ActionSpace = "JointPosition" =>
        /\ vel \in -VelMax .. VelMax
        /\ lastSafe - prevSafe \in -VelMax .. VelMax

\* ActionSource::Policy means untouched: the command is, bit for bit, the row of
\* the stored chunk that the cursor has just passed, and nothing was recorded.
PolicyMeansUntouched ==
    out.source = "Policy" => out.events = {} /\ out.q = stored.rows[stored.cursor]

\* A row is executed only while the observation, the chunk, the heartbeat and every
\* sensor are within their budgets at that tick, and only if it lies in the executable
\* prefix of the chunk.
ExecutedInDate ==
    out.source \in Executed =>
        /\ stored.cursor <= ExecutableLen(stored)
        /\ stored.rows[stored.cursor] # NonFinite
        /\ ~Exceeds(age, MaxObsAge)
        /\ ~Exceeds(out.tick - stored.tick, InferenceBudget)
        /\ ~Exceeds(out.tick - lastBeat, HeartbeatTimeout)
        /\ \A s \in Sensors : out.tick - lastSeen[s] <= MaxGap[s]

\* Resubmitting a chunk cannot postpone the inference deadline: its clock is
\* restarted only by a strictly newer seq, and the cursor never moves back
\* over the rows of the same chunk.
DeadlineCountsNewChunks ==
    [][/\ stored'.tick # stored.tick => stored'.seq > stored.seq
       /\ stored'.seq = stored.seq =>
            /\ stored'.rows = stored.rows
            /\ stored'.cursor \in {stored.cursor, stored.cursor + 1}]_vars

\* The emergency stop: engaged by any trip under that policy, it survives every
\* validate, answers only EmergencyStop, and keeps the command still once the
\* plane is seeded.  No validate leaves the latch.
LatchHolds ==
    [][out' # out =>
        /\ out'.source = "EmergencyStop" => estopLatched'
        /\ estopLatched => /\ out'.source = "EmergencyStop"
                          /\ lastSafe' = lastSafe
                          /\ stored' = stored]_vars

\* The ring implements the watchdog it stands for.
Rate == INSTANCE RateWatchdog WITH recent <- RingContents(window),
                                   events <- out.events
RateWatchdogSpec == Rate!Spec
=============================================================================
