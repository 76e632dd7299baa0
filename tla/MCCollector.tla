------------------------------ MODULE MCCollector ------------------------------
(* A small instance of the collector for TLC: the policy is asked again when the *)
(* rows of its last chunk have run, as the repository's demo deployments do.     *)
EXTENDS Collector

MCDemo == {[blend |-> "HardSwitch", ramp |-> 0, mode |-> "RecedingHorizon",
            space |-> "JointPosition", replan |-> 2, latching |-> FALSE, budget |-> 2]}
=============================================================================
