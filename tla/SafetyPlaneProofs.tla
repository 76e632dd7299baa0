-------------------------- MODULE SafetyPlaneProofs --------------------------
(***************************************************************************)
(* The Safety Plane, proved for every configuration: every limit (usable   *)
(* or not), window, chunk horizon, fallback, set of sensors, set of policy *)
(* rows and of measurements.  In order: the violation ring, the envelope,  *)
(* what an executed row says of the plane's inputs, and the ring as an     *)
(* implementation of the watchdog it stands for.                           *)
(***************************************************************************)
EXTENDS SafetyPlane, FiniteSetTheorems, SequenceTheorems, TLAPS

-----------------------------------------------------------------------------
(***************************************************************************)
(* The ViolationWindow ring keeps its running count right, for every       *)
(* window length: `ones -= 1` never underflows and the rate the watchdog   *)
(* reads is the share of set bits.                                         *)
(***************************************************************************)
USE WindowLenAssumption

\* The slots in use are finitely many, and so are the set bits of any ring.
LEMMA SetBitsFinite ==
    ASSUME NEW ring PROVE IsFiniteSet(SetBits(ring))
<1>1. IsFiniteSet(Slots)
  BY FS_Interval DEF Slots
<1>2. SetBits(ring) \subseteq Slots
  BY DEF SetBits
<1> QED BY <1>1, <1>2, FS_Subset

\* ViolationWindow::new and clear start from a sound ring.
LEMMA RingNewInv == RingInv(RingNew)
<1>1. SetBits(RingNew) = {}
  BY DEF SetBits, RingNew
<1>2. Cardinality(SetBits(RingNew)) = 0
  BY <1>1, FS_EmptySet
<1> QED BY <1>2 DEF RingInv, RingNew, Rings, Slots

\* The head index wraps only at the end of the window.
LEMMA ModSmall ==
    ASSUME NEW n \in Nat \ {0}, NEW x \in 0 .. n - 1
    PROVE  x % n = x
OBVIOUS

\* ViolationWindow::push keeps the ring sound.
LEMMA RingPushInv ==
    ASSUME NEW ring, RingInv(ring), NEW violated \in BOOLEAN
    PROVE  RingInv(RingPush(ring, violated))
<1> DEFINE next == RingPush(ring, violated)
           old  == SetBits(ring)
<1>1. /\ ring.bits \in [Slots -> BOOLEAN] /\ ring.head \in Slots
      /\ ring.filled \in 0 .. WindowLen /\ ring.ones \in Int
      /\ ring.ones = Cardinality(old)
  BY DEF RingInv, Rings
<1>2. ring.filled < WindowLen =>
        /\ ring.head = ring.filled
        /\ \A i \in Slots : i >= ring.filled => ~ring.bits[i]
  BY DEF RingInv
<1>3. next.head \in Slots
  BY <1>1 DEF RingPush, Slots
<1>4. /\ next.bits = [ring.bits EXCEPT ![ring.head] = violated]
      /\ next.bits \in [Slots -> BOOLEAN]
      /\ next.filled \in 0 .. WindowLen
      /\ next.ones \in Int
  BY <1>1 DEF RingPush
<1>5. next.ones = Cardinality(SetBits(next))
  <2>1. Evicted(ring) <=> ring.head \in old
    BY <1>1, <1>2 DEF Evicted, SetBits
  <2>2. /\ IsFiniteSet(old)
        /\ Cardinality(old) \in Nat
    BY SetBitsFinite, FS_CardinalityType
  <2>3. SetBits(next) = IF violated THEN old \cup {ring.head}
                                    ELSE old \ {ring.head}
    BY <1>1, <1>4 DEF SetBits
  <2>4. next.ones = (ring.ones - (IF Evicted(ring) THEN 1 ELSE 0))
                      + (IF violated THEN 1 ELSE 0)
    BY DEF RingPush
  <2>5. CASE violated
    <3>1. Cardinality(old \cup {ring.head}) =
            IF ring.head \in old THEN Cardinality(old) ELSE Cardinality(old) + 1
      BY <2>2, FS_AddElement
    <3> QED BY <1>1, <2>1, <2>2, <2>3, <2>4, <2>5, <3>1
  <2>6. CASE ~violated
    <3>1. Cardinality(old \ {ring.head}) =
            IF ring.head \in old THEN Cardinality(old) - 1 ELSE Cardinality(old)
      BY <2>2, FS_RemoveElement
    <3> QED BY <1>1, <2>1, <2>2, <2>3, <2>4, <2>6, <3>1
  <2> QED BY <2>5, <2>6
<1>6. next.filled < WindowLen =>
        /\ next.head = next.filled
        /\ \A i \in Slots : i >= next.filled => ~next.bits[i]
  <2> SUFFICES ASSUME next.filled < WindowLen
               PROVE  /\ next.head = next.filled
                      /\ \A i \in Slots : i >= next.filled => ~next.bits[i]
    OBVIOUS
  <2>1. /\ ring.filled + 1 < WindowLen
        /\ next.filled = ring.filled + 1
    BY <1>1 DEF RingPush
  <2>2. ring.head + 1 \in 0 .. WindowLen - 1
    BY <1>1, <1>2, <2>1 DEF Slots
  <2>3. next.head = ring.head + 1
    BY <2>2, ModSmall DEF RingPush
  <2>4. ASSUME NEW i \in Slots, i >= next.filled PROVE ~next.bits[i]
    <3>1. i # ring.head /\ ~ring.bits[i]
      BY <1>1, <1>2, <2>1, <2>4 DEF Slots
    <3> QED BY <1>1, <1>4, <3>1
  <2> QED BY <1>1, <1>2, <2>1, <2>3, <2>4
<1>7. next \in Rings
  BY <1>3, <1>4 DEF RingPush, Rings
<1> QED BY <1>5, <1>6, <1>7 DEF RingInv

\* The count is bounded by the steps seen, so the rate never exceeds one.
LEMMA RingCountBounded ==
    ASSUME NEW ring, RingInv(ring)
    PROVE  ring.ones \in 0 .. WindowLen
<1>1. SetBits(ring) \subseteq Slots /\ IsFiniteSet(Slots)
  BY FS_Interval DEF SetBits, Slots
<1>2. Cardinality(SetBits(ring)) <= Cardinality(Slots)
  BY <1>1, FS_Subset
<1>3. Cardinality(Slots) = WindowLen
  BY FS_Interval DEF Slots
<1>4. Cardinality(SetBits(ring)) \in Nat
  BY SetBitsFinite, FS_CardinalityType
<1> QED BY <1>2, <1>3, <1>4 DEF RingInv

-----------------------------------------------------------------------------
(***************************************************************************)
(* The envelope.  Sanitize always leaves an ordered envelope with the soft *)
(* limit inside the hard one (EnvelopeSane).  Every stage clips to an      *)
(* interval, so a stage either leaves the step alone or moves it towards   *)
(* an interval that already holds a step within VelMax; the scrub moves it *)
(* towards the hold target, which is inside the hard limits.  The inductive *)
(* invariant is the type invariant with InsideHard and VelocityBounded:    *)
(* each of the last two needs the other one's facts about the step before. *)
(***************************************************************************)
\* The configuration the plane runs on is ordered whatever it was given: a
\* degenerate limit narrows, it never removes a clamp (INV-12).
THEOREM EnvelopeSane ==
    /\ Hard \in Limits /\ Soft \in Limits
    /\ Hard.lower <= Hard.upper
    /\ Hard.lower <= Soft.lower /\ Soft.lower <= Soft.upper
    /\ Soft.upper <= Hard.upper
    /\ VelMax \in Nat /\ AccMax \in Nat /\ TauMax \in Nat
    /\ D1Max \in Nat /\ D2Max \in Nat
<1>1. Hard \in Limits /\ Hard.lower <= Hard.upper
  BY EnvelopeAssumption DEF Hard, FiniteLimit, Limits
<1>2. /\ Soft \in Limits /\ Hard.lower <= Soft.lower
      /\ Soft.lower <= Soft.upper /\ Soft.upper <= Hard.upper
  BY <1>1, EnvelopeAssumption DEF Soft, SoftWithinHard, FiniteLimit, Limits
<1>3. \A raw \in Int \cup {NonFinite} : Bound(raw) \in Nat
  BY EnvelopeAssumption DEF Bound
<1> QED
  BY <1>1, <1>2, <1>3, EnvelopeAssumption DEF VelMax, AccMax, TauMax, D1Max, D2Max

\* A clip lands in its interval and leaves what is already there alone.
LEMMA ClipFacts ==
    ASSUME NEW x \in Int, NEW lo \in Int, NEW hi \in Int
    PROVE  /\ Clip(x, lo, hi) \in Int
           /\ lo <= hi => Clip(x, lo, hi) \in lo .. hi
           /\ x \in lo .. hi => Clip(x, lo, hi) = x
BY DEF Clip

\* The midpoint the command chain starts from lies in the soft limit.
LEMMA MidInside ==
    ASSUME NEW lo \in Int, NEW hi \in Int, lo <= hi
    PROVE  (lo + hi) \div 2 \in lo .. hi
OBVIOUS

\* The final scrub puts any command inside the hard limits.
LEMMA ScrubInside ==
    ASSUME NEW a \in Int \cup {NonFinite}, NEW last \in Int
    PROVE  Scrub(a, last) \in Hard.lower .. Hard.upper
BY EnvelopeSane, ClipFacts DEF Scrub, Limits

\* The clamp stages turn a finite row into a finite command.
LEMMA StagesType ==
    ASSUME NEW row \in Int, NEW last \in Int, NEW prev \in Int, NEW v \in Int
    PROVE  /\ Stages(row, last, prev, v).d2 \in Int
           /\ StageEvents(Stages(row, last, prev, v)) \subseteq Kinds
<1> DEFINE s == Stages(row, last, prev, v)
<1>0. /\ Soft.lower \in Int /\ Soft.upper \in Int
      /\ VelMax \in Int /\ AccMax \in Int /\ TauMax \in Int
      /\ D1Max \in Int /\ D2Max \in Int
      /\ Workspace.lower \in Int /\ Workspace.upper \in Int
  BY EnvelopeSane, EnvelopeAssumption DEF Limits
<1>1. s.pos \in Int
  BY <1>0, ClipFacts DEF Stages, ClampPosition
<1>2. s.spd \in Int /\ s.spd = ClampVelocity(s.pos, last)
  BY <1>0, <1>1, ClipFacts DEF Stages, ClampVelocity
<1>3. s.acc \in Int /\ s.acc = ClampAcceleration(s.spd, last, v)
  BY <1>0, <1>2, ClipFacts DEF Stages, ClampAcceleration
<1>4. s.tau \in Int /\ s.tau = ClampTorque(s.acc)
  BY <1>0, <1>3, ClipFacts DEF Stages, ClampTorque
<1>5. s.wsp \in Int /\ s.wsp = ClampWorkspace(s.tau)
  BY <1>0, <1>4, ClipFacts DEF Stages, ClampWorkspace
<1>6. s.d1 \in Int /\ s.d1 = ClampFirstDiff(s.wsp, last)
  BY <1>0, <1>5, ClipFacts DEF Stages, ClampFirstDiff
<1>7. s.d2 \in Int
  BY <1>0, <1>6, ClipFacts DEF Stages, ClampSecondDiff
<1>8. StageEvents(s) \subseteq Kinds
  BY DEF StageEvents, Kinds
<1> QED BY <1>7, <1>8

\* Under JointPosition the clamped command stays within VelMax of the last one,
\* whatever the row, provided the two commands before it did.
LEMMA StagesWithinVelocity ==
    ASSUME NEW row \in Int, NEW last \in Int, NEW prev \in Int, NEW v \in Int,
           ActionSpace = "JointPosition",
           v \in -VelMax .. VelMax, last - prev \in -VelMax .. VelMax
    PROVE  Stages(row, last, prev, v).d2 \in last - VelMax .. last + VelMax
<1> DEFINE s  == Stages(row, last, prev, v)
           lo == last - VelMax
           hi == last + VelMax
           p  == 2 * last - prev
<1>0. /\ VelMax \in Nat /\ AccMax \in Nat /\ D1Max \in Nat /\ D2Max \in Nat
      /\ Soft.lower \in Int /\ Soft.upper \in Int
  BY EnvelopeSane DEF Limits
<1>1. /\ s.pos = Clip(row, Soft.lower, Soft.upper)
      /\ s.spd = Clip(s.pos, last - VelMax, last + VelMax)
      /\ s.acc = Clip(s.spd, last + v - AccMax, last + v + AccMax)
      /\ s.wsp = s.acc
      /\ s.d1  = Clip(s.wsp, last - D1Max, last + D1Max)
      /\ s.d2  = Clip(s.d1, p - D2Max, p + D2Max)
  BY DEF Stages, ClampPosition, ClampVelocity, ClampAcceleration, ClampTorque,
         ClampWorkspace, ClampFirstDiff, ClampSecondDiff
<1>2. p \in Int /\ p \in lo .. hi
  BY <1>0
<1> HIDE DEF s, p
<1>3. s.pos \in Int
  BY <1>0, <1>1 DEF Clip
<1>4. s.spd \in lo .. hi
  BY <1>0, <1>1, <1>3 DEF Clip
<1>5. s.acc \in lo .. hi
  BY <1>0, <1>1, <1>4 DEF Clip
<1>6. s.d1 \in lo .. hi
  BY <1>0, <1>1, <1>5 DEF Clip
<1>7. s.d2 \in lo .. hi
  <2>1. lo \in Int /\ hi \in Int
    BY <1>0
  <2> DEFINE x == s.d1
             y == s.d2
  <2>2. x \in lo .. hi /\ y = Clip(x, p - D2Max, p + D2Max)
    BY <1>1, <1>6
  <2> HIDE DEF lo, hi, x, y
  <2>3. y \in lo .. hi
    BY <1>0, <1>2, <2>1, <2>2 DEF Clip
  <2> QED BY <2>3 DEF y
<1> QED BY <1>7 DEF s

\* The ZeroVelocity fallback never speeds up.
LEMMA DeceleratedBounded ==
    ASSUME NEW v \in Int, NEW m \in Nat, v \in -m .. m
    PROVE  Decelerated(v) \in -m .. m
<1>1. AccMax \in Nat
  BY EnvelopeSane
<1> QED BY <1>1 DEF Decelerated

\* Scrubbing a step within VelMax of a hold target inside the hard limits keeps it
\* within VelMax.
LEMMA ScrubWithinVelocity ==
    ASSUME NEW a \in Int, NEW last \in Hard.lower .. Hard.upper,
           a \in last - VelMax .. last + VelMax
    PROVE  Scrub(a, last) \in last - VelMax .. last + VelMax
<1>1. /\ Hard.lower \in Int /\ Hard.upper \in Int /\ VelMax \in Nat
      /\ a # NonFinite
  BY EnvelopeSane, EnvelopeAssumption DEF Limits
<1>2. Scrub(a, last) = Clip(a, Hard.lower, Hard.upper)
  BY <1>1 DEF Scrub
<1>3. Clip(a, Hard.lower, Hard.upper) \in last - VelMax .. last + VelMax
  BY <1>1 DEF Clip
<1> QED BY <1>2, <1>3
-----------------------------------------------------------------------------
\* The inductive invariant.
IInv == TypeOK /\ InsideHard /\ VelocityBounded

\* The command a fallback produces, before the scrub, is a value the scrub takes.
LEMMA FallbackActionType ==
    ASSUME TypeOK PROVE FallbackAction \in Int \cup {NonFinite}
<1>1. lastSafe \in Int /\ vel \in Int /\ AccMax \in Int
  BY EnvelopeSane DEF TypeOK
<1>2. CASE Fallback = "ZeroVelocity"
  BY <1>1, <1>2 DEF FallbackAction, Decelerated
<1>3. CASE Fallback = "RetractToHome"
  <2>1. /\ Trajectory \in Seq(Int \cup {NonFinite})
        /\ Trajectory # << >>
    BY <1>3, PlaneAssumption DEF Fallback
  <2>2. retractIdx + 1 \in 1 .. Len(Trajectory)
    BY <2>1 DEF TypeOK
  <2>3. Trajectory[retractIdx + 1] \in Int \cup {NonFinite}
    BY <2>1, <2>2
  <2> QED BY <1>3, <2>3 DEF FallbackAction
<1>4. CASE Fallback \notin {"ZeroVelocity", "RetractToHome"}
  BY <1>1, <1>4 DEF FallbackAction
<1> QED BY <1>2, <1>3, <1>4

\* Accepting a chunk keeps the stored one well formed.
LEMMA AcceptedType ==
    ASSUME TypeOK, NEW c \in Chunks
    PROVE  Accepted(c) \in [seq : Int, rows : Seq(Int \cup {NonFinite}),
                           mode : Modes, cursor : Nat, tick : Int]
<1>1. c.seq \in Int /\ c.mode \in Modes /\ c.rows \in RowSeqs
  BY DEF Chunks
<1>2. c.rows \in Seq(Int \cup {NonFinite})
  <2>1. PICK n \in 0 .. H : c.rows \in [1 .. n -> Rows]
    BY <1>1 DEF RowSeqs
  <2>2. c.rows \in [1 .. n -> Int \cup {NonFinite}]
    BY <2>1, PlaneAssumption
  <2>3. n \in Nat
    BY <2>1, PlaneAssumption
  <2> QED BY <2>2, <2>3
<1> QED BY <1>1, <1>2 DEF Accepted, Accept, Fresh, TypeOK, Modes

\* The row about to be executed is one of the chunk's.
LEMMA CandidateType ==
    ASSUME NEW st \in [seq : Int, rows : Seq(Int \cup {NonFinite}),
                       mode : Modes, cursor : Nat, tick : Int],
           ~Underrun(st)
    PROVE  Candidate(st) \in Int \cup {NonFinite}
<1>1. ExecutableLen(st) <= Len(st.rows)
  BY PlaneAssumption DEF ExecutableLen
<1>2. ExecutableLen(st) \in Nat
  BY PlaneAssumption DEF ExecutableLen
<1>3. st.cursor + 1 \in 1 .. Len(st.rows)
  BY <1>1, <1>2 DEF Underrun
<1> QED BY <1>3 DEF Candidate

\* finish with a command inside the limits and the velocity bound keeps both.
LEMMA FinishInv ==
    ASSUME IInv,
           NEW q \in Hard.lower .. Hard.upper,
           NEW source \in Sources,
           NEW events \in SUBSET Kinds,
           Fallback # "RetractToHome" /\ ActionSpace = "JointPosition" =>
             q \in lastSafe - VelMax .. lastSafe + VelMax,
           Finish(q, source, events), age' \in ObsAges,
           stored' \in [seq : Int, rows : Seq(Int \cup {NonFinite}), mode : Modes,
                        cursor : Nat, tick : Int],
           estopLatched' \in BOOLEAN,
           retractIdx' \in Nat,
           Trajectory # << >> => retractIdx' < Len(Trajectory)
    PROVE  IInv'
<1>1. q \in Int /\ lastSafe \in Int /\ now \in Nat /\ VelMax \in Nat
  BY EnvelopeSane DEF IInv, TypeOK, Limits
<1>2. RingInv(window')
  <2>1. window' = RingPush(window, events \ {"ViolationRate"} # {})
    BY DEF Finish
  <2>2. (events \ {"ViolationRate"} # {}) \in BOOLEAN
    OBVIOUS
  <2>3. RingInv(window)
    BY DEF IInv, TypeOK
  <2> QED BY <2>1, <2>2, <2>3, RingPushInv
<1>3. /\ lastSafe' = q /\ prevSafe' = lastSafe /\ vel' = q - lastSafe
      /\ out' = [tick |-> now, q |-> q, source |-> source, events |-> events]
      /\ now' = now + 1
      /\ UNCHANGED <<lastBeat, lastSeen, seeded>>
  BY DEF Finish
<1>4. TypeOK'
  <2>1. /\ lastSafe' \in Int /\ prevSafe' \in Int /\ vel' \in Int
        /\ now' \in Nat
    BY <1>1, <1>3
  <2>2. out' \in [tick : Int, q : Int, source : Sources, events : SUBSET Kinds]
    BY <1>1, <1>3
  <2>3. lastBeat' \in Int /\ lastSeen' \in [Sensors -> Int] /\ seeded' \in BOOLEAN
    BY <1>3 DEF IInv, TypeOK
  <2> QED BY <1>2, <2>1, <2>2, <2>3 DEF TypeOK
<1>5. InsideHard'
  BY <1>3 DEF InsideHard
<1>6. VelocityBounded'
  BY <1>1, <1>3 DEF VelocityBounded
<1> QED BY <1>4, <1>5, <1>6 DEF IInv

\* Construction: SafetyState::new starts on the soft limits' midpoint, at rest.
LEMMA InitInv == Init => IInv
<1> SUFFICES ASSUME Init PROVE IInv
  OBVIOUS
<1>1. /\ Mid(Soft) \in Soft.lower .. Soft.upper
      /\ Soft.lower \in Int /\ Soft.upper \in Int
      /\ Hard.lower \in Int /\ Hard.upper \in Int
  BY EnvelopeSane, MidInside DEF Mid, Limits
<1>2. Mid(Soft) \in Hard.lower .. Hard.upper
  BY <1>1, EnvelopeSane
<1>3. stored \in [seq : Int, rows : Seq(Int \cup {NonFinite}), mode : Modes,
                 cursor : Nat, tick : Int]
  BY DEF Init, NothingHeld, NoSeq, Modes
<1>4. out \in [tick : Int, q : Int, source : Sources, events : SUBSET Kinds]
  BY <1>1 DEF Init, Sources
<1>5. Trajectory # << >> => 0 < Len(Trajectory)
  BY PlaneAssumption
<1>6. TypeOK
  <2>1. retractIdx \in Nat /\ (Trajectory # << >> => retractIdx < Len(Trajectory))
    BY <1>5 DEF Init
  <2>2. /\ lastSafe \in Int /\ prevSafe \in Int /\ vel \in Int /\ now \in Nat
        /\ lastBeat \in Int /\ lastSeen \in [Sensors -> Int]
    <3>1. Mid(Soft) \in Int
      BY <1>1
    <3> QED BY <3>1 DEF Init
  <2>4. estopLatched \in BOOLEAN /\ seeded \in BOOLEAN
    BY DEF Init
  <2>3. RingInv(window)
    BY RingNewInv DEF Init
  <2>5. age \in ObsAges
    BY DEF Init, ObsAges
  <2> QED BY <1>3, <1>4, <2>1, <2>2, <2>3, <2>4, <2>5 DEF TypeOK
<1>7. InsideHard /\ VelocityBounded
  BY <1>1, <1>2, EnvelopeSane DEF Init, InsideHard, VelocityBounded
<1> QED BY <1>6, <1>7 DEF IInv

\* A seed puts the chain on the measured pose, inside the limits and at rest
\* between its last two commands.
LEMMA ObserveInv ==
    ASSUME IInv, NEW q \in Poses, NEW qd \in Speeds, ObserveState(q, qd)
    PROVE  IInv'
<1>1. q \in Int \cup {NonFinite} /\ qd \in Int \cup {NonFinite}
  BY PlaneAssumption
<1>2. /\ lastSafe \in Hard.lower .. Hard.upper /\ vel \in Int
      /\ Hard.lower \in Int /\ Hard.upper \in Int
      /\ Hard.lower <= Hard.upper /\ VelMax \in Nat
  BY EnvelopeSane DEF IInv, InsideHard, TypeOK, Limits
<1>3. lastSafe' \in Hard.lower .. Hard.upper
  BY <1>1, <1>2 DEF ObserveState, Clip
<1>4. vel' = vel \/ vel' \in -VelMax .. VelMax
  BY <1>1, <1>2 DEF ObserveState, Clip
<1>5. prevSafe' = lastSafe'
  BY DEF ObserveState
<1>6. TypeOK'
  <2>1. lastSafe' \in Int /\ prevSafe' \in Int /\ vel' \in Int
    BY <1>2, <1>3, <1>4, <1>5
  <2> QED BY <2>1 DEF IInv, TypeOK, ObserveState
<1>7. InsideHard'
  BY <1>3 DEF IInv, InsideHard, ObserveState
<1>8. VelocityBounded'
  <2>1. lastSafe' - prevSafe' \in -VelMax .. VelMax
    <3>1. lastSafe' \in Int /\ prevSafe' \in Int
      BY <1>2, <1>3, <1>5
    <3>2. \A x, y \in Int : x = y => x - y = 0
      OBVIOUS
    <3>3. lastSafe' - prevSafe' = 0
      BY <1>5, <3>1, <3>2
    <3> QED BY <1>2, <3>3
  <2>2. VelocityBounded
    BY DEF IInv
  <2> QED BY <1>4, <2>1, <2>2 DEF VelocityBounded
<1> QED BY <1>6, <1>7, <1>8 DEF IInv

\* validate, by the path it takes.
LEMMA ValidateInv ==
    ASSUME IInv, NEW c \in Chunks, NEW obsAge \in ObsAges, Validate(c, obsAge)
    PROVE  IInv'
<1>1. /\ lastSafe \in Hard.lower .. Hard.upper /\ lastSafe \in Int
      /\ vel \in Int /\ prevSafe \in Int /\ VelMax \in Nat /\ TypeOK
      /\ Hard.lower \in Int /\ Hard.upper \in Int
  BY EnvelopeSane DEF IInv, InsideHard, TypeOK, Limits
<1>2. Fallback \in Sources /\ Executed \subseteq Sources
  BY PlaneAssumption DEF Fallback, Sources, FallbackKinds, Executed
<1>0. age' \in ObsAges
  BY DEF Validate
<1>3. CASE LatchedStep
  <2>1. Scrub(lastSafe, lastSafe) \in Hard.lower .. Hard.upper
    BY <1>1, ScrubInside
  <2>2. Scrub(lastSafe, lastSafe) \in lastSafe - VelMax .. lastSafe + VelMax
    BY <1>1, ScrubWithinVelocity
  <2>3. "EmergencyStop" \in Sources /\ {"EstopLatched"} \in SUBSET Kinds
    BY DEF Sources, FallbackKinds, Kinds
  <2>4. /\ stored' = stored /\ estopLatched' = estopLatched
        /\ retractIdx' = retractIdx
        /\ Finish(Scrub(lastSafe, lastSafe), "EmergencyStop", {"EstopLatched"})
    BY <1>3 DEF LatchedStep
  <2>5. /\ stored' \in [seq : Int, rows : Seq(Int \cup {NonFinite}), mode : Modes,
                        cursor : Nat, tick : Int]
        /\ estopLatched' \in BOOLEAN /\ retractIdx' \in Nat
        /\ Trajectory # << >> => retractIdx' < Len(Trajectory)
    BY <1>1, <2>4 DEF TypeOK
  <2> QED BY <1>0, <2>1, <2>2, <2>3, <2>4, <2>5, FinishInv
<1>4. CASE FallbackStep(c, obsAge)
  <2> DEFINE q == Scrub(FallbackAction, lastSafe)
             trips == Trips(Accepted(c), obsAge)
  <2>1. FallbackAction \in Int \cup {NonFinite}
    BY <1>1, FallbackActionType
  <2>2. q \in Hard.lower .. Hard.upper
    BY <1>1, <2>1, ScrubInside
  <2>3. trips \in SUBSET Kinds
    BY DEF Trips, Kinds
  <2>4. ASSUME Fallback # "RetractToHome", ActionSpace = "JointPosition"
        PROVE  q \in lastSafe - VelMax .. lastSafe + VelMax
    <3>1. vel \in -VelMax .. VelMax
      BY <2>4 DEF IInv, VelocityBounded
    <3>2. Decelerated(vel) \in -VelMax .. VelMax
      BY <1>1, <3>1, DeceleratedBounded
    <3>3. /\ FallbackAction \in lastSafe - VelMax .. lastSafe + VelMax
          /\ FallbackAction \in Int
      BY <1>1, <2>4, <3>2 DEF FallbackAction
    <3> QED BY <1>1, <3>3, ScrubWithinVelocity
  <2>5. /\ stored' = Accepted(c)
        /\ estopLatched' = (Fallback = "EmergencyStop")
        /\ retractIdx' = IF Fallback = "RetractToHome"
                            /\ retractIdx + 1 < Len(Trajectory)
                           THEN retractIdx + 1 ELSE retractIdx
        /\ Finish(q, Fallback, trips)
    BY <1>4 DEF FallbackStep
  <2>6. /\ stored' \in [seq : Int, rows : Seq(Int \cup {NonFinite}), mode : Modes,
                        cursor : Nat, tick : Int]
        /\ estopLatched' \in BOOLEAN
    BY <1>1, <2>5, AcceptedType
  <2>7. /\ retractIdx' \in Nat
        /\ Trajectory # << >> => retractIdx' < Len(Trajectory)
    BY <1>1, <2>5 DEF TypeOK
  <2> HIDE DEF q, trips
  <2> QED BY <1>0, <1>2, <2>2, <2>3, <2>4, <2>5, <2>6, <2>7, FinishInv
<1>5. CASE PolicyStep(c, obsAge)
  <2> DEFINE st == Accepted(c)
             stages == Stages(Candidate(st), lastSafe, prevSafe, vel)
             q == Scrub(stages.d2, lastSafe)
             source == IF StageEvents(stages) = {} THEN "Policy" ELSE "Clamped"
  <2>1. st \in [seq : Int, rows : Seq(Int \cup {NonFinite}), mode : Modes,
                cursor : Nat, tick : Int]
    BY <1>1, AcceptedType
  <2>2. ~Underrun(st) /\ Candidate(st) # NonFinite
    BY <1>5 DEF PolicyStep, Trips
  <2>3. Candidate(st) \in Int
    BY <2>1, <2>2, CandidateType
  <2>4. stages.d2 \in Int /\ StageEvents(stages) \in SUBSET Kinds
    BY <1>1, <2>3, StagesType
  <2>5. q \in Hard.lower .. Hard.upper
    BY <1>1, <2>4, ScrubInside
  <2>6. ASSUME Fallback # "RetractToHome", ActionSpace = "JointPosition"
        PROVE  q \in lastSafe - VelMax .. lastSafe + VelMax
    <3>1. vel \in -VelMax .. VelMax /\ lastSafe - prevSafe \in -VelMax .. VelMax
      BY <2>6 DEF IInv, VelocityBounded
    <3>2. stages.d2 \in lastSafe - VelMax .. lastSafe + VelMax
      BY <1>1, <2>3, <2>6, <3>1, StagesWithinVelocity
    <3> QED BY <1>1, <2>4, <3>2, ScrubWithinVelocity
  <2>7. /\ stored' = Advance(st)
        /\ UNCHANGED <<retractIdx, estopLatched>>
        /\ Finish(q, source, StageEvents(stages))
    BY <1>5 DEF PolicyStep
  <2> HIDE DEF st
  <2>8. stored' \in [seq : Int, rows : Seq(Int \cup {NonFinite}), mode : Modes,
                     cursor : Nat, tick : Int]
    BY <2>1, <2>7 DEF Advance
  <2>9. /\ estopLatched' \in BOOLEAN /\ retractIdx' \in Nat
        /\ Trajectory # << >> => retractIdx' < Len(Trajectory)
    BY <1>1, <2>7 DEF TypeOK
  <2>10. source \in Sources
    BY <1>2 DEF Executed
  <2> HIDE DEF stages, q, source
  <2> QED BY <1>0, <2>4, <2>5, <2>6, <2>7, <2>8, <2>9, <2>10, FinishInv
<1> QED BY <1>3, <1>4, <1>5 DEF Validate

\* Every call keeps the invariant.
LEMMA NextInv == IInv /\ [Next]_vars => IInv'
<1> SUFFICES ASSUME IInv, [Next]_vars PROVE IInv'
  OBVIOUS
<1>1. CASE ResetLatch
  BY <1>1 DEF ResetLatch, IInv, TypeOK, InsideHard, VelocityBounded, chain
<1>2. CASE BeginEpisode
  BY <1>2, RingNewInv DEF BeginEpisode, IInv, TypeOK, InsideHard, VelocityBounded,
                          chain
<1>3. CASE ResetCounters
  BY <1>3, RingNewInv DEF ResetCounters, IInv, TypeOK, InsideHard,
                          VelocityBounded, chain
<1>4. CASE Heartbeat
  BY <1>4 DEF Heartbeat, IInv, TypeOK, InsideHard, VelocityBounded, chain
<1>5. ASSUME NEW s \in Sensors, SensorSeen(s) PROVE IInv'
  BY <1>5 DEF SensorSeen, IInv, TypeOK, InsideHard, VelocityBounded, chain
<1>6. ASSUME NEW q \in Poses, NEW qd \in Speeds, ObserveState(q, qd) PROVE IInv'
  BY <1>6, ObserveInv
<1>7. ASSUME NEW c \in Chunks, NEW obsAge \in ObsAges, Validate(c, obsAge)
      PROVE  IInv'
  BY <1>7, ValidateInv
<1>8. CASE UNCHANGED vars
  BY <1>8 DEF vars, IInv, TypeOK, InsideHard, VelocityBounded
<1> QED BY <1>1, <1>2, <1>3, <1>4, <1>5, <1>6, <1>7, <1>8 DEF Next

\* The plane's state is well formed, and its ring's running count is right, in
\* every reachable state of every configuration: no index is out of range and
\* no subtraction underflows (INV-13).
THEOREM TypeCorrect == Spec => []TypeOK
<1>1. IInv => TypeOK
  BY DEF IInv
<1> QED BY <1>1, InitInv, NextInv, PTL DEF Spec

\* The command and the hold target are inside the hard limits, always.
THEOREM AlwaysInsideHard == Spec => []InsideHard
<1>1. IInv => InsideHard
  BY DEF IInv
<1> QED BY <1>1, InitInv, NextInv, PTL DEF Spec

\* Successive joint-position commands never differ by more than VelMax, whatever
\* the policy emits and whichever fallback but RetractToHome answers.
THEOREM AlwaysVelocityBounded == Spec => []VelocityBounded
<1>1. IInv => VelocityBounded
  BY DEF IInv
<1> QED BY <1>1, InitInv, NextInv, PTL DEF Spec

\* An emergency stop latches at once and no later validate leaves it: the latched
\* plane answers EmergencyStop, holds the command still and keeps its chunk.
THEOREM LatchAlwaysHolds == Spec => LatchHolds
<1> DEFINE Holds == out' # out =>
             /\ out'.source = "EmergencyStop" => estopLatched'
             /\ estopLatched => /\ out'.source = "EmergencyStop"
                               /\ lastSafe' = lastSafe
                               /\ stored' = stored
<1>1. ASSUME IInv, [Next]_vars PROVE [Holds]_vars
  <2> SUFFICES ASSUME out' # out PROVE Holds
    OBVIOUS
  <2>1. PICK c \in Chunks, obsAge \in ObsAges : Validate(c, obsAge)
    BY <1>1 DEF Next, ResetLatch, BeginEpisode, ResetCounters, Heartbeat,
                SensorSeen, ObserveState, vars
  <2>2. CASE LatchedStep
    <3>1. /\ lastSafe \in Int /\ lastSafe \in Hard.lower .. Hard.upper
          /\ Hard.lower \in Int /\ Hard.upper \in Int
      BY <1>1, EnvelopeSane DEF IInv, TypeOK, InsideHard, Limits
    <3>2. Scrub(lastSafe, lastSafe) = lastSafe
      BY <3>1, EnvelopeSane DEF Scrub, Clip
    <3> QED BY <2>2, <3>2 DEF LatchedStep, Finish
  <2>3. CASE FallbackStep(c, obsAge)
    BY <2>3 DEF FallbackStep, Finish
  <2>4. CASE PolicyStep(c, obsAge)
    <3>1. ~estopLatched
      BY <2>4 DEF PolicyStep
    <3>2. out'.source \in {"Policy", "Clamped"}
      BY <2>4 DEF PolicyStep, Finish
    <3> QED BY <3>1, <3>2
  <2> QED BY <2>1, <2>2, <2>3, <2>4 DEF Validate
<1> QED BY <1>1, InitInv, NextInv, PTL DEF Spec, LatchHolds

\* In every configuration the deadline's clock moves only with a strictly newer
\* seq, so no resubmission postpones it, and a chunk's rows are never replayed.
THEOREM DeadlineAlwaysCounts == Spec => DeadlineCountsNewChunks
<1> DEFINE Counts == /\ stored'.tick # stored.tick => stored'.seq > stored.seq
                     /\ stored'.seq = stored.seq =>
                          /\ stored'.rows = stored.rows
                          /\ stored'.cursor \in {stored.cursor, stored.cursor + 1}
<1>1. ASSUME IInv, [Next]_vars PROVE [Counts]_vars
  <2>1. /\ stored \in [seq : Int, rows : Seq(Int \cup {NonFinite}), mode : Modes,
                       cursor : Nat, tick : Int]
        /\ TypeOK
    BY <1>1 DEF IInv, TypeOK
  <2>2. CASE UNCHANGED stored
    BY <2>1, <2>2
  <2>3. ASSUME NEW c \in Chunks, NEW obsAge \in ObsAges,
               \/ stored' = Accepted(c)
               \/ stored' = Advance(Accepted(c))
        PROVE  Counts
    <3>1. c.seq \in Int
      BY DEF Chunks
    <3>2. Accepted(c) \in [seq : Int, rows : Seq(Int \cup {NonFinite}),
                           mode : Modes, cursor : Nat, tick : Int]
      BY <2>1, AcceptedType
    <3>3. CASE c.seq > stored.seq
      <4>1. Accepted(c).seq = c.seq
        BY <3>3 DEF Accepted, Accept, Fresh
      <4>2. stored'.seq = c.seq
        BY <2>3, <3>2, <4>1 DEF Advance
      <4> QED BY <2>1, <3>1, <3>3, <4>2
    <3>4. CASE ~(c.seq > stored.seq)
      <4>1. Accepted(c) = stored
        BY <3>4 DEF Accepted, Accept
      <4> QED BY <2>1, <2>3, <4>1 DEF Advance
    <3> QED BY <3>3, <3>4
  <2>4. CASE \E c \in Chunks, obsAge \in ObsAges : Validate(c, obsAge)
    BY <2>2, <2>3, <2>4 DEF Validate, LatchedStep, FallbackStep, PolicyStep
  <2> QED BY <1>1, <2>2, <2>4 DEF Next, ResetLatch, BeginEpisode, ResetCounters,
                                  Heartbeat, SensorSeen, ObserveState, vars
<1> QED BY <1>1, InitInv, NextInv, PTL DEF Spec, DeadlineCountsNewChunks

-----------------------------------------------------------------------------
(***************************************************************************)
(* What an executed row says of the plane's inputs: it was in date, and    *)
(* one that is reported as the policy's is the policy's.  Both are facts   *)
(* of the step that ran the row, kept by the calls that follow it: no call *)
(* but validate changes the stored chunk, and a heartbeat or a sensor that *)
(* reports later is not older than the row.  That is why the inductive     *)
(* invariant has out.tick < now.                                           *)
(***************************************************************************)
ActionInv == out.tick < now /\ ExecutedInDate /\ PolicyMeansUntouched

ChunkType == [seq : Int, rows : Seq(Int \cup {NonFinite}), mode : Modes,
              cursor : Nat, tick : Int]

\* A watchdog that has not tripped at tick `now` means that its input is in date.
LEMMA NotTripped ==
    ASSUME NEW earlier \in Int, NEW limit \in Nat \cup {None}, now \in Nat,
           ~Exceeds(TicksSince(earlier), limit)
    PROVE  ~Exceeds(now - earlier, limit)
BY PlaneAssumption DEF Exceeds, TicksSince

\* A report of an earlier tick stays in date when its input is reported again.
LEMMA LaterReport ==
    ASSUME NEW tick \in Int, now \in Nat, tick < now, NEW limit \in Nat \cup {None}
    PROVE  ~Exceeds(tick - now, limit)
BY PlaneAssumption DEF Exceeds

\* A row that no stage changed is inside the hard limits, so the scrub leaves it.
LEMMA UntouchedRow ==
    ASSUME NEW row \in Int, NEW last \in Int, NEW prev \in Int, NEW v \in Int,
           StageEvents(Stages(row, last, prev, v)) = {}
    PROVE  Scrub(Stages(row, last, prev, v).d2, last) = row
<1> DEFINE s == Stages(row, last, prev, v)
<1>1. s.row = row /\ s.pos = Clip(row, Soft.lower, Soft.upper)
  BY DEF Stages, ClampPosition
<1>2. s.d2 = row /\ s.pos = row
  BY <1>1 DEF StageEvents
<1>3. /\ Soft.lower \in Int /\ Soft.upper \in Int
      /\ Hard.lower \in Int /\ Hard.upper \in Int
      /\ Soft.lower <= Soft.upper
      /\ Hard.lower <= Soft.lower /\ Soft.upper <= Hard.upper
  BY EnvelopeSane DEF Limits
<1>4. row \in Hard.lower .. Hard.upper
  BY <1>1, <1>2, <1>3 DEF Clip
<1>5. row # NonFinite
  BY EnvelopeAssumption
<1> QED BY <1>2, <1>3, <1>4, <1>5 DEF Scrub, Clip

LEMMA ActionInit == Init => ActionInv
BY DEF Init, ActionInv, ExecutedInDate, PolicyMeansUntouched, Executed

\* validate ran a row: every watchdog was silent on this very tick.
LEMMA PolicyStepAction ==
    ASSUME TypeOK, NEW c \in Chunks, NEW obsAge \in ObsAges, PolicyStep(c, obsAge),
           age' = obsAge
    PROVE  ActionInv'
<1> DEFINE st == Accepted(c)
           stages == Stages(Candidate(st), lastSafe, prevSafe, vel)
<1>1. /\ st \in ChunkType
      /\ now \in Nat /\ lastBeat \in Int /\ lastSeen \in [Sensors -> Int]
      /\ lastSafe \in Int /\ prevSafe \in Int /\ vel \in Int
  BY AcceptedType DEF TypeOK, ChunkType
<1>2. /\ ~Underrun(st) /\ Candidate(st) # NonFinite
      /\ ~Exceeds(obsAge, MaxObsAge)
      /\ ~Exceeds(TicksSince(st.tick), InferenceBudget)
      /\ ~Exceeds(TicksSince(lastBeat), HeartbeatTimeout)
      /\ ~\E s \in Sensors : TicksSince(lastSeen[s]) > MaxGap[s]
  BY DEF PolicyStep, Trips
<1>3. /\ stored' = Advance(st)
      /\ out' = [tick |-> now, q |-> Scrub(stages.d2, lastSafe),
                 source |-> IF StageEvents(stages) = {} THEN "Policy" ELSE "Clamped",
                 events |-> StageEvents(stages)]
      /\ now' = now + 1 /\ lastBeat' = lastBeat /\ lastSeen' = lastSeen
  BY DEF PolicyStep, Finish
<1> HIDE DEF st
<1>4. /\ stored'.cursor = st.cursor + 1 /\ stored'.rows = st.rows
      /\ stored'.mode = st.mode /\ stored'.tick = st.tick
  BY <1>1, <1>3 DEF Advance, ChunkType
<1>5. stored'.rows[stored'.cursor] = Candidate(st)
  BY <1>4 DEF Candidate
<1>6. ExecutedInDate'
  <2>1. ExecutableLen(stored') = ExecutableLen(st) /\ ExecutableLen(st) \in Nat
    BY <1>1, <1>4, PlaneAssumption DEF ExecutableLen, ChunkType
  <2>2. stored'.cursor <= ExecutableLen(stored')
    BY <1>1, <1>2, <1>4, <2>1 DEF Underrun, ChunkType
  <2>3. /\ ~Exceeds(now - st.tick, InferenceBudget)
        /\ ~Exceeds(now - lastBeat, HeartbeatTimeout)
    BY <1>1, <1>2, NotTripped, PlaneAssumption DEF ChunkType
  <2>4. \A s \in Sensors : now - lastSeen[s] <= MaxGap[s]
    BY <1>1, <1>2, PlaneAssumption DEF TicksSince
  <2> QED BY <1>2, <1>3, <1>4, <1>5, <2>2, <2>3, <2>4 DEF ExecutedInDate, Exceeds
<1>7. PolicyMeansUntouched'
  <2> SUFFICES ASSUME StageEvents(stages) = {}
               PROVE  out'.events = {} /\ out'.q = stored'.rows[stored'.cursor]
    BY <1>3 DEF PolicyMeansUntouched
  <2>1. Candidate(st) \in Int
    BY <1>1, <1>2, CandidateType DEF ChunkType
  <2>2. Scrub(stages.d2, lastSafe) = Candidate(st)
    BY <1>1, <2>1, UntouchedRow
  <2> QED BY <1>3, <1>5, <2>2
<1>8. out'.tick < now'
  BY <1>1, <1>3
<1> QED BY <1>6, <1>7, <1>8 DEF ActionInv

LEMMA ActionNext == TypeOK /\ ActionInv /\ [Next]_vars => ActionInv'
<1> SUFFICES ASSUME TypeOK, ActionInv, [Next]_vars PROVE ActionInv'
  OBVIOUS
<1> USE DEF ActionInv
<1>0. /\ now \in Nat /\ out.tick \in Int
      /\ lastBeat \in Int /\ lastSeen \in [Sensors -> Int]
  BY DEF TypeOK
<1>1. ASSUME UNCHANGED <<stored, out, now, age, lastBeat, lastSeen>> PROVE ActionInv'
  BY <1>1 DEF ExecutedInDate, PolicyMeansUntouched, Exceeds
<1>2. CASE ResetLatch \/ BeginEpisode \/ ResetCounters \/ UNCHANGED vars
  BY <1>1, <1>2 DEF ResetLatch, BeginEpisode, ResetCounters, chain, vars
<1>3. ASSUME NEW q \in Poses, NEW qd \in Speeds, ObserveState(q, qd) PROVE ActionInv'
  BY <1>1, <1>3 DEF ObserveState
<1>4. CASE Heartbeat
  <2>1. ~Exceeds(out.tick - now, HeartbeatTimeout)
    BY <1>0, LaterReport, PlaneAssumption
  <2> QED BY <1>4, <2>1 DEF Heartbeat, ExecutedInDate, PolicyMeansUntouched, Exceeds
<1>5. ASSUME NEW s \in Sensors, SensorSeen(s) PROVE ActionInv'
  <2>1. \A r \in Sensors : \/ lastSeen'[r] = lastSeen[r]
                           \/ lastSeen'[r] = now
    BY <1>0, <1>5 DEF SensorSeen
  <2>2. \A r \in Sensors : out.tick - now <= MaxGap[r]
    BY <1>0, PlaneAssumption
  <2> QED BY <1>5, <2>1, <2>2 DEF SensorSeen, ExecutedInDate, PolicyMeansUntouched, Exceeds
<1>6. ASSUME NEW c \in Chunks, NEW obsAge \in ObsAges, Validate(c, obsAge)
      PROVE  ActionInv'
  <2>1. CASE PolicyStep(c, obsAge)
    BY <1>6, <2>1, PolicyStepAction DEF Validate
  <2>2. CASE LatchedStep \/ FallbackStep(c, obsAge)
    <3>1. /\ out'.source \in FallbackKinds
          /\ out'.tick = now /\ now' = now + 1
      BY <2>2, PlaneAssumption DEF LatchedStep, FallbackStep, Finish, FallbackKinds, Fallback
    <3> QED BY <1>0, <3>1 DEF ExecutedInDate, PolicyMeansUntouched, Executed, FallbackKinds
  <2> QED BY <1>6, <2>1, <2>2 DEF Validate
<1> QED BY <1>2, <1>3, <1>4, <1>5, <1>6 DEF Next

\* Whatever the timing, a row runs only on a tick at which the observation, its chunk,
\* the heartbeat and every sensor are within their budgets, and only from the
\* executable prefix of its chunk (validate, steps 1 to 3).
THEOREM AlwaysInDate == Spec => []ExecutedInDate
<1>1. ActionInv => ExecutedInDate
  BY DEF ActionInv
<1> QED BY <1>1, ActionInit, ActionNext, TypeCorrect, PTL DEF Spec

\* A command reported as the policy's is the policy's row, untouched, in every
\* configuration of the clamp stages (validate, step 4b).
THEOREM PolicyAlwaysUntouched == Spec => []PolicyMeansUntouched
<1>1. ActionInv => PolicyMeansUntouched
  BY DEF ActionInv
<1> QED BY <1>1, ActionInit, ActionNext, TypeCorrect, PTL DEF Spec

-----------------------------------------------------------------------------
(***************************************************************************)
(* The ring implements the watchdog: read oldest first, its bits are the   *)
(* last WindowLen steps and nothing else.  A push is a Slide of the        *)
(* contents: while the ring fills, slot k - 1 holds step k; once it is     *)
(* full, the oldest step is the one under `head`, which is the slot the    *)
(* push overwrites.  The indices of a full ring are a bijection onto the   *)
(* slots, so the running count, which RingInv makes exact, is the number of *)
(* violations among the contents.                                          *)
(***************************************************************************)
\* The one wrap-around an index can make.
LEMMA ModWrap ==
    ASSUME NEW n \in Nat \ {0}, NEW x \in Int, n <= x, x < n + n
    PROVE  x % n = x - n
<1>1. x - n \in 0 .. n - 1
  OBVIOUS
<1>2. (x - n) % n = x - n
  BY <1>1, ModSmall
<1>3. x % n = (x - n) % n
  OBVIOUS
<1> QED BY <1>2, <1>3

\* The k-th step of a full ring is step k + 1 of the ring before the push: it
\* stays in its slot, and the push wrote another.
LEMMA SlotKept ==
    ASSUME NEW n \in Nat \ {0}, NEW head \in 0 .. n - 1, NEW k \in 1 .. n - 1,
           NEW next \in Int, next = IF head + 1 < n THEN head + 1 ELSE 0,
           NEW slot \in Int, slot = IF next + k - 1 < n THEN next + k - 1 ELSE next + k - 1 - n
    PROVE  /\ slot = IF head + k < n THEN head + k ELSE head + k - n
           /\ slot \in 0 .. n - 1 /\ slot # head
<1>1. CASE head + 1 < n
  <2>1. next = head + 1 /\ next + k - 1 = head + k
    BY <1>1
  <2> QED BY <2>1
<1>2. CASE ~(head + 1 < n)
  <2>1. head = n - 1 /\ next = 0
    BY <1>2
  <2>2. slot = k - 1
    BY <2>1
  <2> QED BY <2>1, <2>2
<1> QED BY <1>1, <1>2

\* The step a slot of a full ring holds.
LEMMA SlotOf ==
    ASSUME NEW n \in Nat \ {0}, NEW head \in 0 .. n - 1, NEW i \in 0 .. n - 1,
           NEW at \in Int, at = IF i >= head THEN i - head + 1 ELSE i - head + 1 + n
    PROVE  /\ at \in 1 .. n
           /\ i = IF head + at - 1 < n THEN head + at - 1 ELSE head + at - 1 - n
<1>1. CASE i >= head
  <2>1. at = i - head + 1
    BY <1>1
  <2> QED BY <1>1, <2>1
<1>2. CASE ~(i >= head)
  <2>1. at = i - head + 1 + n
    BY <1>2
  <2> QED BY <1>2, <2>1
<1> QED BY <1>1, <1>2

\* A ring that has not wrapped yet holds step k in slot k - 1.
LEMMA FillingContents ==
    ASSUME NEW ring, RingInv(ring),
           \/ ring.filled < WindowLen
           \/ ring.filled = WindowLen /\ ring.head = 0
    PROVE  RingContents(ring) = [k \in 1 .. ring.filled |-> ring.bits[k - 1]]
<1>1. ring.filled \in 0 .. WindowLen /\ ring.head \in 0 .. WindowLen - 1
  BY DEF RingInv, Rings, Slots
<1>2. ASSUME NEW k \in 1 .. ring.filled
      PROVE  (ring.head + WindowLen - ring.filled + k - 1) % WindowLen = k - 1
  <2>1. CASE ring.filled < WindowLen
    <3>1. ring.head + WindowLen - ring.filled + k - 1 = WindowLen + k - 1
      BY <1>1, <2>1 DEF RingInv
    <3>2. /\ WindowLen + k - 1 \in Int /\ WindowLen <= WindowLen + k - 1
          /\ WindowLen + k - 1 < WindowLen + WindowLen
      BY <1>1
    <3> QED BY <3>1, <3>2, ModWrap
  <2>2. CASE ring.filled = WindowLen /\ ring.head = 0
    <3>1. ring.head + WindowLen - ring.filled + k - 1 = k - 1
      BY <1>1, <2>2
    <3> QED BY <1>1, <3>1, ModSmall
  <2> QED BY <2>1, <2>2
<1> QED BY <1>2 DEF RingContents

\* A full ring holds step k in the slot k - 1 places after `head`, cyclically.
LEMMA FullContents ==
    ASSUME NEW ring, RingInv(ring), ring.filled = WindowLen
    PROVE  RingContents(ring) =
             [k \in 1 .. WindowLen |->
                ring.bits[IF ring.head + k - 1 < WindowLen
                            THEN ring.head + k - 1
                            ELSE ring.head + k - 1 - WindowLen]]
<1>1. ring.head \in 0 .. WindowLen - 1
  BY DEF RingInv, Rings, Slots
<1>2. ASSUME NEW k \in 1 .. WindowLen
      PROVE  (ring.head + WindowLen - ring.filled + k - 1) % WindowLen =
               IF ring.head + k - 1 < WindowLen
                 THEN ring.head + k - 1 ELSE ring.head + k - 1 - WindowLen
  <2>1. ring.head + WindowLen - ring.filled + k - 1 = ring.head + k - 1
    BY <1>1
  <2>2. CASE ring.head + k - 1 < WindowLen
    <3>1. ring.head + k - 1 \in 0 .. WindowLen - 1
      BY <1>1, <2>2
    <3> QED BY <2>1, <2>2, <3>1, ModSmall
  <2>3. CASE ring.head + k - 1 >= WindowLen
    <3>1. /\ ring.head + k - 1 \in Int
          /\ WindowLen <= ring.head + k - 1
          /\ ring.head + k - 1 < WindowLen + WindowLen
      BY <1>1, <2>3
    <3>2. (ring.head + k - 1) % WindowLen = ring.head + k - 1 - WindowLen
      BY <1>1, <3>1, ModWrap
    <3> QED BY <1>1, <2>1, <2>3, <3>2
  <2> QED BY <1>1, <2>2, <2>3
<1> QED BY <1>2 DEF RingContents

LEMMA ContentsType ==
    ASSUME NEW ring, RingInv(ring)
    PROVE  /\ RingContents(ring) \in Seq(BOOLEAN)
           /\ Len(RingContents(ring)) = ring.filled
<1>1. ring.filled \in Nat /\ ring.bits \in [0 .. WindowLen - 1 -> BOOLEAN]
  BY DEF RingInv, Rings, Slots
<1>2. RingContents(ring) \in [1 .. ring.filled -> BOOLEAN]
  <2>1. CASE ring.filled < WindowLen
    BY <1>1, <2>1, FillingContents
  <2>2. CASE ring.filled = WindowLen
    <3>1. ring.head \in 0 .. WindowLen - 1
      BY DEF RingInv, Rings, Slots
    <3>2. \A k \in 1 .. WindowLen :
            (IF ring.head + k - 1 < WindowLen
               THEN ring.head + k - 1
               ELSE ring.head + k - 1 - WindowLen) \in 0 .. WindowLen - 1
      BY <3>1
    <3> QED BY <1>1, <2>2, <3>2, FullContents
  <2> QED BY <2>1, <2>2 DEF RingInv, Rings
<1> QED BY <1>1, <1>2

LEMMA NewContents == RingContents(RingNew) = << >>
<1>1. RingContents(RingNew) \in Seq(BOOLEAN) /\ Len(RingContents(RingNew)) = 0
  BY RingNewInv, ContentsType DEF RingNew
<1> QED BY <1>1

\* A push slides the window by one step.
LEMMA PushSlides ==
    ASSUME NEW ring, RingInv(ring), NEW bit \in BOOLEAN
    PROVE  RingContents(RingPush(ring, bit)) =
             IF Len(RingContents(ring)) < WindowLen
               THEN Append(RingContents(ring), bit)
               ELSE Append(Tail(RingContents(ring)), bit)
<1> DEFINE next == RingPush(ring, bit)
           old  == RingContents(ring)
           new  == RingContents(next)
<1>1. /\ ring.bits \in [0 .. WindowLen - 1 -> BOOLEAN]
      /\ ring.head \in 0 .. WindowLen - 1 /\ ring.filled \in 0 .. WindowLen
  BY DEF RingInv, Rings, Slots
<1>2. /\ next.bits = [ring.bits EXCEPT ![ring.head] = bit]
      /\ next.head = (ring.head + 1) % WindowLen
      /\ next.filled = IF ring.filled < WindowLen THEN ring.filled + 1 ELSE WindowLen
  BY DEF RingPush
<1>3. next.head = IF ring.head + 1 < WindowLen THEN ring.head + 1 ELSE 0
  <2>1. CASE ring.head + 1 < WindowLen
    <3>1. ring.head + 1 \in 0 .. WindowLen - 1
      BY <1>1, <2>1
    <3> QED BY <1>2, <2>1, <3>1, ModSmall
  <2>2. CASE ring.head + 1 = WindowLen
    BY <1>1, <1>2, <2>2, ModWrap
  <2> QED BY <1>1, <2>1, <2>2
<1>4. RingInv(next)
  BY RingPushInv
<1>5. /\ old \in Seq(BOOLEAN) /\ Len(old) = ring.filled
      /\ new \in Seq(BOOLEAN) /\ Len(new) = next.filled
  BY <1>4, ContentsType
<1>6. CASE ring.filled < WindowLen
  <2>1. ring.head = ring.filled /\ next.filled = ring.filled + 1
    BY <1>2, <1>6 DEF RingInv
  <2>2. old = [k \in 1 .. ring.filled |-> ring.bits[k - 1]]
    BY <1>6, FillingContents
  <2>3. new = [k \in 1 .. ring.filled + 1 |-> next.bits[k - 1]]
    <3>1. next.filled < WindowLen \/ (next.filled = WindowLen /\ next.head = 0)
      BY <1>1, <1>3, <1>6, <2>1
    <3> QED BY <1>4, <2>1, <3>1, FillingContents
  <2>4. ASSUME NEW k \in 1 .. ring.filled + 1
        PROVE  new[k] = Append(old, bit)[k]
    BY <1>1, <1>2, <1>5, <1>6, <2>1, <2>2, <2>3
  <2>5. Append(old, bit) \in Seq(BOOLEAN) /\ Len(Append(old, bit)) = ring.filled + 1
    BY <1>5
  <2>6. new = Append(old, bit)
    BY <1>5, <2>1, <2>4, <2>5, SeqEqual
  <2> QED BY <1>5, <1>6, <2>6
<1>7. CASE ring.filled = WindowLen
  <2>1. next.filled = WindowLen
    BY <1>1, <1>2, <1>7
  <2> DEFINE slid == Append(Tail(old), bit)
  <2>2. /\ slid \in Seq(BOOLEAN) /\ Len(slid) = WindowLen
        /\ \A k \in 1 .. WindowLen :
             slid[k] = IF k < WindowLen THEN old[k + 1] ELSE bit
    BY <1>5, <1>7
  <2>3. ASSUME NEW k \in 1 .. WindowLen PROVE new[k] = slid[k]
    <3> DEFINE slot == IF next.head + k - 1 < WindowLen
                         THEN next.head + k - 1
                         ELSE next.head + k - 1 - WindowLen
    <3>1. new[k] = next.bits[slot]
      BY <1>4, <2>1, FullContents
    <3>2. CASE k < WindowLen
      <4>1. old[k + 1] = ring.bits[IF ring.head + k < WindowLen
                                     THEN ring.head + k
                                     ELSE ring.head + k - WindowLen]
        <5>1. k + 1 \in 1 .. WindowLen /\ ring.head + (k + 1) - 1 = ring.head + k
          BY <1>1, <3>2
        <5> QED BY <1>7, <5>1, FullContents
      <4>3. /\ slot = IF ring.head + k < WindowLen THEN ring.head + k
                                                  ELSE ring.head + k - WindowLen
            /\ slot \in 0 .. WindowLen - 1 /\ slot # ring.head
        <5>1. k \in 1 .. WindowLen - 1
          BY <3>2
        <5>2. slot = IF next.head + k - 1 < WindowLen
                       THEN next.head + k - 1
                       ELSE next.head + k - 1 - WindowLen
          OBVIOUS
        <5>3. ring.head \in 0 .. WindowLen - 1 /\ next.head \in Int
          BY <1>1, <1>3
        <5> HIDE DEF slot, next
        <5>4. slot \in Int
          BY <5>1, <5>2, <5>3
        <5> QED BY <1>3, <5>1, <5>2, <5>3, <5>4, SlotKept
      <4>4. next.bits[slot] = ring.bits[slot]
        BY <1>1, <1>2, <4>3
      <4>5. slid[k] = old[k + 1]
        BY <2>2, <3>2
      <4> QED BY <3>1, <4>1, <4>3, <4>4, <4>5
    <3>3. CASE k = WindowLen
      <4>1. slot = ring.head
        BY <1>1, <1>3, <3>3
      <4>2. next.bits[ring.head] = bit
        BY <1>1, <1>2
      <4>3. slid[WindowLen] = bit
        BY <2>2
      <4> HIDE DEF slid, new, next, slot
      <4> QED BY <3>1, <3>3, <4>1, <4>2, <4>3, Zenon
    <3>4. k < WindowLen \/ k = WindowLen
      OBVIOUS
    <3> QED BY <3>2, <3>3, <3>4, Zenon
  <2>4. new = slid
    BY <1>5, <2>1, <2>2, <2>3, SeqEqual
  <2> QED BY <1>5, <1>7, <2>4
<1> QED BY <1>1, <1>6, <1>7

\* The running count is the number of violations in a full window.
LEMMA FullCount ==
    ASSUME NEW ring, RingInv(ring), ring.filled = WindowLen
    PROVE  Cardinality({k \in 1 .. Len(RingContents(ring)) : RingContents(ring)[k]})
             = ring.ones
<1> DEFINE old  == RingContents(ring)
           ones == {k \in 1 .. WindowLen : old[k]}
           slot == [k \in ones |-> IF ring.head + k - 1 < WindowLen
                                     THEN ring.head + k - 1
                                     ELSE ring.head + k - 1 - WindowLen]
<1>1. /\ ring.bits \in [0 .. WindowLen - 1 -> BOOLEAN]
      /\ ring.head \in 0 .. WindowLen - 1
  BY DEF RingInv, Rings, Slots
<1>2. Len(old) = WindowLen
  BY ContentsType
<1>3. \A k \in ones : slot[k] \in 0 .. WindowLen - 1
  BY <1>1
<1>4. \A k \in 1 .. WindowLen :
        old[k] = ring.bits[IF ring.head + k - 1 < WindowLen
                             THEN ring.head + k - 1
                             ELSE ring.head + k - 1 - WindowLen]
  BY FullContents
<1>5. slot \in [ones -> SetBits(ring)]
  BY <1>3, <1>4 DEF SetBits, Slots
<1>6. ASSUME NEW a \in ones, NEW b \in ones, slot[a] = slot[b] PROVE a = b
  BY <1>1, <1>6
<1>7. ASSUME NEW i \in SetBits(ring) PROVE \E k \in ones : slot[k] = i
  <2>1. i \in 0 .. WindowLen - 1 /\ ring.bits[i]
    BY DEF SetBits, Slots
  <2> DEFINE at == IF i >= ring.head THEN i - ring.head + 1
                                     ELSE i - ring.head + 1 + WindowLen
  <2>2. /\ at \in 1 .. WindowLen
        /\ i = IF ring.head + at - 1 < WindowLen
                 THEN ring.head + at - 1 ELSE ring.head + at - 1 - WindowLen
    <3>1. at = IF i >= ring.head THEN i - ring.head + 1
                                 ELSE i - ring.head + 1 + WindowLen
      OBVIOUS
    <3>2. i \in 0 .. WindowLen - 1 /\ ring.head \in 0 .. WindowLen - 1
      BY <1>1, <2>1
    <3> HIDE DEF at
    <3>3. at \in Int
      BY <3>1, <3>2
    <3> QED BY <3>1, <3>2, <3>3, SlotOf
  <2>3. at \in ones
    BY <1>4, <2>1, <2>2
  <2> QED BY <2>2, <2>3
<1>8. slot \in Bijection(ones, SetBits(ring))
  BY <1>5, <1>6, <1>7 DEF Bijection, Injection, Surjection, IsInjective
<1>9. IsFiniteSet(ones)
  <2>1. IsFiniteSet(1 .. WindowLen)
    BY FS_Interval
  <2> QED BY <2>1, FS_Subset
<1>10. Cardinality(SetBits(ring)) = Cardinality(ones)
  BY <1>8, <1>9, FS_Bijection DEF ExistsBijection
<1> QED BY <1>2, <1>10 DEF RingInv

-----------------------------------------------------------------------------
\* fraction() > max_frac on the ring is Tripping on the steps it stands for.
LEMMA TrippedIsTripping ==
    ASSUME RingInv(window) PROVE RateTripped <=> Rate!Tripping
<1> DEFINE recent == RingContents(window)
<1>1. Len(recent) = window.filled
  BY ContentsType
<1>2. CASE window.filled = WindowLen
  <2>1. Rate!Violations(recent) = window.ones
    <3> DEFINE ones == {k \in 1 .. Len(recent) : recent[k]}
    <3>1. Cardinality(ones) = window.ones
      BY <1>2, FullCount
    <3>2. Rate!Violations(recent) = Rate!Cardinality(ones)
      BY DEF Rate!Violations
    <3>3. Rate!Cardinality(ones) = Cardinality(ones)
      BY DEF Rate!Cardinality, Cardinality
    <3> QED BY <3>1, <3>2, <3>3
  <2> QED BY <1>1, <1>2, <2>1 DEF RateTripped, RingOver, Rate!Tripping
<1>3. CASE window.filled # WindowLen
  BY <1>1, <1>3 DEF RateTripped, RingOver, Rate!Tripping
<1> QED BY <1>2, <1>3

\* The common tail of validate is a step of the watchdog, provided that its trip
\* is among the events exactly when it had to be.
LEMMA FinishSteps ==
    ASSUME RingInv(window), NEW q, NEW source, NEW events,
           Finish(q, source, events),
           events = {"EstopLatched"} \/ ("ViolationRate" \in events <=> RateTripped)
    PROVE  Rate!Step
<1> DEFINE bit == events \ {"ViolationRate"} # {}
<1>1. window' = RingPush(window, bit) /\ out'.events = events
  BY DEF Finish
<1>2. RingContents(window)' = Rate!Slide(bit)
  <2>1. bit \in BOOLEAN
    OBVIOUS
  <2> HIDE DEF bit
  <2>2. RingContents(window)' = RingContents(RingPush(window, bit))
    BY <1>1
  <2> QED BY <2>1, <2>2, PushSlides DEF Rate!Slide
<1>3. \/ out'.events = {"EstopLatched"}
      \/ "ViolationRate" \in out'.events <=> Rate!Tripping
  BY <1>1, TrippedIsTripping
<1> QED BY <1>1, <1>2, <1>3 DEF Rate!Step

LEMMA RateInit == Init => Rate!Init
BY NewContents DEF Init, Rate!Init

LEMMA RateNext ==
    TypeOK /\ [Next]_vars => [Rate!Next]_<<RingContents(window), out.events>>
<1> SUFFICES ASSUME TypeOK, [Next]_vars
             PROVE  [Rate!Next]_<<RingContents(window), out.events>>
  OBVIOUS
<1>0. RingInv(window)
  BY DEF TypeOK
<1>1. ASSUME UNCHANGED <<window, out>>
      PROVE  UNCHANGED <<RingContents(window), out.events>>
  BY <1>1
<1>2. CASE ResetLatch \/ Heartbeat \/ UNCHANGED vars
  BY <1>1, <1>2 DEF ResetLatch, Heartbeat, vars
<1>3. ASSUME NEW s \in Sensors, SensorSeen(s)
      PROVE  UNCHANGED <<RingContents(window), out.events>>
  BY <1>1, <1>3 DEF SensorSeen
<1>4. ASSUME NEW q \in Poses, NEW qd \in Speeds, ObserveState(q, qd)
      PROVE  UNCHANGED <<RingContents(window), out.events>>
  BY <1>1, <1>4 DEF ObserveState
<1>5. CASE BeginEpisode \/ ResetCounters
  <2>1. window' = RingNew /\ out' = out
    BY <1>5 DEF BeginEpisode, ResetCounters
  <2>2. RingContents(window)' = << >>
    BY <2>1, NewContents
  <2> QED BY <2>1, <2>2 DEF Rate!Forget, Rate!Next
<1>6. ASSUME NEW c \in Chunks, NEW obsAge \in ObsAges, Validate(c, obsAge)
      PROVE  Rate!Step
  <2>1. CASE LatchedStep
    BY <1>0, <2>1, FinishSteps DEF LatchedStep
  <2>2. CASE FallbackStep(c, obsAge)
    <3> DEFINE trips == Trips(Accepted(c), obsAge)
    <3>1. Finish(Scrub(FallbackAction, lastSafe), Fallback, trips)
      BY <2>2 DEF FallbackStep
    <3>2. "ViolationRate" \in trips <=> RateTripped
      BY DEF Trips
    <3> QED BY <1>0, <3>1, <3>2, FinishSteps
  <2>3. CASE PolicyStep(c, obsAge)
    <3> DEFINE stages == Stages(Candidate(Accepted(c)), lastSafe, prevSafe, vel)
               source == IF StageEvents(stages) = {} THEN "Policy" ELSE "Clamped"
    <3>1. Finish(Scrub(stages.d2, lastSafe), source, StageEvents(stages))
      BY <2>3 DEF PolicyStep
    <3>2. ~RateTripped
      BY <2>3 DEF PolicyStep, Trips
    <3>3. "ViolationRate" \notin StageEvents(stages)
      BY DEF StageEvents
    <3> QED BY <1>0, <3>1, <3>2, <3>3, FinishSteps
  <2> QED BY <1>6, <2>1, <2>2, <2>3 DEF Validate
<1> QED BY <1>2, <1>3, <1>4, <1>5, <1>6 DEF Next, Rate!Next

\* The ViolationRate watchdog judges the last WindowLen steps or nothing, and
\* its own trip is not a violation: for every window length and threshold, the
\* plane with its packed ring (ViolationWindow, finish) implements the watchdog.
THEOREM RateWatchdogImplemented == Spec => RateWatchdogSpec
<1> QED BY RateInit, RateNext, TypeCorrect, PTL DEF Spec, RateWatchdogSpec, Rate!Spec
=============================================================================
