--------------------------- MODULE EmbeddedDriver ---------------------------
(***************************************************************************)
(* What the drivers of a control core have in common: the robot's runtime  *)
(* (EmbeddedRuntime) and the HIL link (HilCore) each own one EmbeddedCore, *)
(* step it once a control tick, and count the ticks.                       *)
(***************************************************************************)
EXTENDS EmbeddedCore

CONSTANTS
  Poses,       \* what the robot, or the plant, may report
  MaxTick      \* bound on the control tick

ASSUME DriverAssumption == MaxTick \in Nat

VARIABLES core, now
=============================================================================
