----------------------------- MODULE PlaneSteps -----------------------------
(***************************************************************************)
(* The Safety Plane as the embedded core and the log replay see it: a      *)
(* deterministic machine, one operator per call, on a state of its own     *)
(* (es-safety/src/plane.rs).  SafetyPlane models its envelope, the other   *)
(* fallbacks and the remaining watchdogs; here a row is an opaque command. *)
(***************************************************************************)
EXTENDS HeldChunk

CONSTANTS
  Mode,                       \* execution mode of the deployment
  Fallback,                   \* "HoldPosition" or "EmergencyStop"
  InferenceBudget, MaxObsAge, HeartbeatTimeout,   \* in ticks, or None
  Home,                       \* the hold target before any measurement
  None

ASSUME PlaneStepsAssumption ==
    /\ Mode \in Modes
    /\ Fallback \in {"HoldPosition", "EmergencyStop"}
    /\ ExecuteChunk \in Nat \ {0}
    /\ None \notin Int
    /\ {InferenceBudget, MaxObsAge, HeartbeatTimeout} \subseteq Nat \cup {None}

NewPlane == [held |-> NothingHeld, q |-> Home, latched |-> FALSE,
             seeded |-> FALSE, beat |-> 0]

Since(tick, earlier) == IF tick >= earlier THEN tick - earlier ELSE 0
Over(value, limit) == limit # None /\ value > limit

PlaneObserve(p, pose) ==
    IF p.seeded THEN p ELSE [p EXCEPT !.seeded = TRUE, !.q = pose]

PlaneHeartbeat(p, tick) == [p EXCEPT !.beat = tick]

PlaneResetLatch(p) == [p EXCEPT !.latched = FALSE]

PlaneTrips(p, held, age, tick) ==
    UNION { IF Underrun(held) THEN {"ChunkUnderrun"} ELSE {},
            IF Over(age, MaxObsAge) THEN {"StaleObservation"} ELSE {},
            IF Over(Since(tick, held.tick), InferenceBudget)
              THEN {"InferenceDeadline"} ELSE {},
            IF Over(Since(tick, p.beat), HeartbeatTimeout)
              THEN {"HeartbeatLoss"} ELSE {} }

\* validate, as [plane, action].
PlaneValidate(p, chunk, age, tick) ==
    LET held == Accept(p.held, chunk, tick)
        trips == PlaneTrips(p, held, age, tick)
    IN  IF p.latched
          THEN [plane |-> p, action |-> [q |-> p.q, source |-> "EmergencyStop",
                                         events |-> {"EstopLatched"}]]
        ELSE IF trips # {}
          THEN [plane |-> [p EXCEPT !.held = held,
                                    !.latched = (Fallback = "EmergencyStop")],
                action |-> [q |-> p.q, source |-> Fallback, events |-> trips]]
        ELSE [plane |-> [p EXCEPT !.held = Advance(held), !.q = Candidate(held)],
              action |-> [q |-> Candidate(held), source |-> "Policy",
                          events |-> {}]]
=============================================================================
