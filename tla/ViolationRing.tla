--------------------------- MODULE ViolationRing ---------------------------
(***************************************************************************)
(* The fixed-capacity ring of "was this step a violation" bits behind the  *)
(* ViolationRate watchdog: es-safety/src/counters.rs, ViolationWindow.     *)
(*                                                                         *)
(* A ring is a record [bits, head, filled, ones].  The code packs the bits *)
(* into u64 words and keeps the running count `ones` so that the rate is   *)
(* an integer ratio; here the bits are a function on the slots in use.     *)
(***************************************************************************)
EXTENDS Integers, FiniteSets

CONSTANT WindowLen  \* ViolationWindow.len, after its clamp to 1..WINDOW_CAP

ASSUME WindowLenAssumption == WindowLen \in Nat \ {0}

Slots == 0 .. WindowLen - 1

Rings == [bits : [Slots -> BOOLEAN], head : Slots,
          filled : 0 .. WindowLen, ones : Int]

RingNew == [bits |-> [i \in Slots |-> FALSE], head |-> 0, filled |-> 0, ones |-> 0]

\* Variants named Wrong* are the plausible slips each property is run against.
WrongEvictedNever(ring) == FALSE

\* The bit about to be overwritten leaves the count only once the ring is full.
Evicted(ring) == ring.filled = WindowLen /\ ring.bits[ring.head]

RingPush(ring, violated) ==
    [bits   |-> [ring.bits EXCEPT ![ring.head] = violated],
     head   |-> (ring.head + 1) % WindowLen,
     filled |-> IF ring.filled < WindowLen THEN ring.filled + 1 ELSE WindowLen,
     ones   |-> (ring.ones - (IF Evicted(ring) THEN 1 ELSE 0))
                  + (IF violated THEN 1 ELSE 0)]

\* fraction() > max_frac, with max_frac given as the largest tolerated count:
\* the fraction reads 0.0 until the ring has seen WindowLen steps.
RingOver(ring, maxOnes) == ring.filled = WindowLen /\ ring.ones > maxOnes

-----------------------------------------------------------------------------
SetBits(ring) == {i \in Slots : ring.bits[i]}

\* The contents, oldest first.
RingContents(ring) ==
    [k \in 1 .. ring.filled |->
        ring.bits[(ring.head + WindowLen - ring.filled + k - 1) % WindowLen]]

\* The running count is the number of set bits, and the slots not yet written
\* are clear and lie from `head` on: the subtraction in push cannot underflow.
RingInv(ring) ==
    /\ ring \in Rings
    /\ ring.ones = Cardinality(SetBits(ring))
    /\ ring.filled < WindowLen =>
         /\ ring.head = ring.filled
         /\ \A i \in Slots : i >= ring.filled => ~ring.bits[i]
=============================================================================
