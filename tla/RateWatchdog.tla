---------------------------- MODULE RateWatchdog ----------------------------
(***************************************************************************)
(* What the EnvelopeViolationRate watchdog promises, without a ring: it    *)
(* judges the last WindowLen steps or nothing, as of the previous step,    *)
(* and a step whose only event is the watchdog's own trip is not a         *)
(* violation.  SafetyPlane implements it with RingContents(window).        *)
(***************************************************************************)
EXTENDS Integers, Sequences, FiniteSets

CONSTANTS WindowLen, MaxOnes, None

VARIABLES recent,   \* the genuine-violation bits of the last steps, oldest first
          events    \* the events of the last step

Init == recent = << >> /\ events = {}

Violations(seq) == Cardinality({k \in 1 .. Len(seq) : seq[k]})

Tripping ==
    /\ MaxOnes # None
    /\ Len(recent) = WindowLen
    /\ Violations(recent) > MaxOnes

Slide(bit) ==
    IF Len(recent) < WindowLen THEN Append(recent, bit)
                               ELSE Append(Tail(recent), bit)

\* One validated step.  Nothing is judged while the emergency stop is latched.
Step ==
    /\ \/ events' = {"EstopLatched"}
       \/ ("ViolationRate" \in events') <=> Tripping
    /\ recent' = Slide(events' \ {"ViolationRate"} # {})

\* An episode boundary, or a reset of the statistics.
Forget == recent' = << >> /\ UNCHANGED events

Next == Step \/ Forget

Spec == Init /\ [][Next]_<<recent, events>>
=============================================================================
