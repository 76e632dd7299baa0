---------------------------- MODULE MCDomainRunner ----------------------------
(* Small instances of the domain runner for TLC. *)
EXTENDS DomainRunner

\* A chunk replaces the one before it on arrival.
MCHardSwitch ==
    [blend |-> "HardSwitch", ramp |-> 0, mode |-> "RecedingHorizon",
     space |-> "JointPosition", replan |-> 2, latching |-> FALSE, budget |-> 2]

\* Increments: one row per tick under a fresh seq.
MCIncrements == [MCHardSwitch EXCEPT !.space = "JointDelta", !.budget = 1]

\* A linear ramp between overlapping chunks, under a fallback that latches.
MCRamp ==
    [MCHardSwitch EXCEPT !.blend = "LinearBlend", !.ramp = 2, !.replan = 1,
                         !.latching = TRUE]

\* Temporal ensembling: more overlapping chunks than the buffer has slots.
MCEnsemble ==
    [MCHardSwitch EXCEPT !.blend = "TemporalEnsemble", !.replan = 1,
                         !.mode = "TemporalEnsemble"]

MCDeployments == {MCHardSwitch, MCIncrements, MCRamp, MCEnsemble}
MCSwitchOnly  == {MCHardSwitch}
=============================================================================
