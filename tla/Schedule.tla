------------------------------- MODULE Schedule -------------------------------
(***************************************************************************)
(* es-env/src/scheduler.rs: which domain fires on which simulation tick,   *)
(* and which envs are observed.  The training domain has no reader in      *)
(* es-env and is left out.                                                 *)
(***************************************************************************)
EXTENDS Integers

CONSTANTS
  NumEnvs,                  \* simulation.batch
  ObsBatch, ObsPeriod,      \* observation domain
  InferPeriod               \* inference.period: simulation ticks per control step

\* What Schedule::build refuses to be without.
ASSUME ScheduleAssumption ==
    /\ NumEnvs \in Nat \ {0} /\ ObsPeriod \in Nat \ {0}
    /\ InferPeriod \in Nat \ {0}
    /\ InferPeriod % ObsPeriod = 0
    /\ ObsBatch \in 1 .. NumEnvs

Envs == 0 .. NumEnvs - 1

CeilDiv(a, b) == (a + b - 1) \div b

Fires(period, tick) == tick % period = 0

\* The observation slots it takes to visit every env once.
Cycle == CeilDiv(NumEnvs, ObsBatch)

\* Variants named Wrong* are the plausible slips each property is run against.
WrongObservationEnvsFloor(tick) ==
    LET slot  == (tick \div ObsPeriod) % (NumEnvs \div ObsBatch)
        start == slot * ObsBatch
    IN  IF Fires(ObsPeriod, tick)
          THEN (start .. start + ObsBatch - 1) \cap Envs ELSE {}

\* observation_envs: round robin in blocks, the last of which may be ragged.
ObservationEnvs(tick) ==
    LET slot  == (tick \div ObsPeriod) % Cycle
        start == slot * ObsBatch
    IN  IF Fires(ObsPeriod, tick)
          THEN (start .. start + ObsBatch - 1) \cap Envs ELSE {}

Window(simTick) == simTick .. simTick + InferPeriod - 1

ObservedIn(simTick) == UNION {ObservationEnvs(t) : t \in Window(simTick)}
InferenceIn(simTick) == \E t \in Window(simTick) : Fires(InferPeriod, t)
=============================================================================
