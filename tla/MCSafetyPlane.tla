---------------------------- MODULE MCSafetyPlane ----------------------------
(* A small instance of the Safety Plane for TLC. *)
EXTENDS SafetyPlane

Interval(lo, hi) == [lower |-> lo, upper |-> hi]

MCHard      == Interval(0, 6)
MCBadSoft   == Interval(1, 9)
MCWorkspace == Interval(2, 4)
MCNoTrajectory == << >>
MCGap       == [s \in Sensors |-> 1]
MCEdgeSpeeds == {-9, 2}
=============================================================================
