------------------------------ MODULE Envelope ------------------------------
(***************************************************************************)
(* The action envelope of the Safety Plane, for one action component:      *)
(* es-safety/src/config.rs (Envelope) and the clamp and scrub stages of    *)
(* es-safety/src/plane.rs.                                                 *)
(*                                                                         *)
(* Abstraction.  A component is an integer number of quanta, the control   *)
(* period is the unit of time (dt_s = 1), and the stages are componentwise *)
(* in the code, so one component stands for each of the NJ.  A workspace   *)
(* is the interval its projection leaves that component in.                *)
(***************************************************************************)
EXTENDS Integers

CONSTANTS
  RawHard, RawSoft,   \* the configured limits, [lower, upper]
  RawVelMax, RawAccMax, RawTauMax, RawD1Max, RawD2Max,
  Workspace,          \* the projected workspace interval, [lower, upper]
  ActionSpace,        \* "JointPosition", "JointTorque" or "EePose"
  NonFinite           \* stands for NaN and the infinities

ASSUME EnvelopeAssumption ==
    /\ NonFinite \notin Int
    /\ \A raw \in {RawHard, RawSoft} :
         raw \in [lower : Int \cup {NonFinite}, upper : Int \cup {NonFinite}]
    /\ \A raw \in {RawVelMax, RawAccMax, RawTauMax, RawD1Max, RawD2Max} :
         raw \in Int \cup {NonFinite}
    /\ Workspace \in [lower : Int, upper : Int]
    /\ Workspace.lower <= Workspace.upper
    /\ ActionSpace \in {"JointPosition", "JointTorque", "EePose"}

Limits == [lower : Int, upper : Int]

FiniteLimit(raw) == raw.lower # NonFinite /\ raw.upper # NonFinite

(***************************************************************************)
(* Envelope::sanitize: a limit that is not a usable interval is narrowed,  *)
(* a bound that is not a magnitude becomes zero.                           *)
(***************************************************************************)
Hard == IF FiniteLimit(RawHard) /\ RawHard.lower < RawHard.upper
          THEN RawHard
          ELSE [lower |-> 0, upper |-> 0]

SoftWithinHard ==
    /\ FiniteLimit(RawSoft)
    /\ RawSoft.lower >= Hard.lower
    /\ RawSoft.upper <= Hard.upper
    /\ RawSoft.lower <= RawSoft.upper

Soft == IF SoftWithinHard THEN RawSoft ELSE Hard

Bound(raw) == IF raw = NonFinite \/ raw < 0 THEN 0 ELSE raw

VelMax == Bound(RawVelMax)
AccMax == Bound(RawAccMax)
TauMax == Bound(RawTauMax)
D1Max  == Bound(RawD1Max)
D2Max  == Bound(RawD2Max)

-----------------------------------------------------------------------------
Clip(x, lo, hi) == IF x < lo THEN lo ELSE IF x > hi THEN hi ELSE x

Mid(l) == (l.lower + l.upper) \div 2

(***************************************************************************)
(* SafetyPlane::clamp, stages 2 to 7, in order: `last` and `prev` are the  *)
(* two commands before this one and `vel` the velocity they imply.  Stage  *)
(* 1 has nothing to do: a non-finite row never reaches the clamp.          *)
(***************************************************************************)
ClampPosition(a) == Clip(a, Soft.lower, Soft.upper)

\* Variants named Wrong* are the plausible slips each property is run against.
WrongClampVelocityOneSided(a, last) == IF a > last + VelMax THEN last + VelMax ELSE a

ClampVelocity(a, last) == Clip(a, last - VelMax, last + VelMax)
ClampAcceleration(a, last, vel) ==
    Clip(a, last + vel - AccMax, last + vel + AccMax)
ClampTorque(a) ==
    IF ActionSpace = "JointTorque" THEN Clip(a, -TauMax, TauMax) ELSE a
ClampWorkspace(a) ==
    IF ActionSpace = "EePose" THEN Clip(a, Workspace.lower, Workspace.upper) ELSE a
ClampFirstDiff(a, last) == Clip(a, last - D1Max, last + D1Max)
ClampSecondDiff(a, last, prev) ==
    Clip(a, 2 * last - prev - D2Max, 2 * last - prev + D2Max)

\* The value after each stage, with the raw row first.
Stages(row, last, prev, vel) ==
    LET pos == ClampPosition(row)
        spd == ClampVelocity(pos, last)
        acc == ClampAcceleration(spd, last, vel)
        tau == ClampTorque(acc)
        wsp == ClampWorkspace(tau)
        d1  == ClampFirstDiff(wsp, last)
        d2  == ClampSecondDiff(d1, last, prev)
    IN  [row |-> row, pos |-> pos, spd |-> spd, acc |-> acc, tau |-> tau,
         wsp |-> wsp, d1 |-> d1, d2 |-> d2]

WrongStageEventsAccelerationSilent(s) ==
    UNION { IF s.pos # s.row THEN {"Position"}     ELSE {},
            IF s.spd # s.pos THEN {"Velocity"}     ELSE {},
            IF s.tau # s.acc THEN {"Torque"}       ELSE {},
            IF s.wsp # s.tau THEN {"Workspace"}    ELSE {},
            IF s.d1 # s.wsp \/ s.d2 # s.d1 THEN {"RateLimit"} ELSE {} }

\* The violations a clamped row records: one per stage that changed the value.
StageEvents(s) ==
    UNION { IF s.pos # s.row THEN {"Position"}     ELSE {},
            IF s.spd # s.pos THEN {"Velocity"}     ELSE {},
            IF s.acc # s.spd THEN {"Acceleration"} ELSE {},
            IF s.tau # s.acc THEN {"Torque"}       ELSE {},
            IF s.wsp # s.tau THEN {"Workspace"}    ELSE {},
            IF s.d1 # s.wsp \/ s.d2 # s.d1 THEN {"RateLimit"} ELSE {} }

WrongScrubNone(a, last) == IF a = NonFinite THEN last ELSE a

\* The last stage of both paths: hold in place of a non-finite value, then the
\* hard limits.
Scrub(a, last) == Clip(IF a = NonFinite THEN last ELSE a, Hard.lower, Hard.upper)

(***************************************************************************)
(* FallbackKind::ZeroVelocity: one step of deceleration.                   *)
(***************************************************************************)
Decelerated(vel) ==
    IF vel > AccMax THEN vel - AccMax
    ELSE IF vel < -AccMax THEN vel + AccMax ELSE 0
=============================================================================
