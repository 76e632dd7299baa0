------------------------ MODULE EmbeddedRuntimeProofs ------------------------
(***************************************************************************)
(* The control core, for rows of any kind R and measured poses of any kind *)
(* P, which its two drivers share; and the deployment runtime, for every   *)
(* horizon, replan interval and watchdog budget: when it infers, and what  *)
(* it then executes.  The other driver is proved about in HilLinkProofs.   *)
(***************************************************************************)
EXTENDS EmbeddedRuntime, WellFoundedInduction, TLAPS

HeldChunks(R) == [seq : Int, rows : Seq(R), mode : Modes, cursor : Nat, tick : Nat]
Planes(R, P) == [held : HeldChunks(R), q : R \cup P \cup {Home}, latched : BOOLEAN,
                 seeded : BOOLEAN, beat : Nat]
Chunks(R) == [seq : Nat, rows : Seq(R), mode : Modes]
Cores(R, P) == [plane : Planes(R, P), chunk : Chunks(R), seq : Nat, consumed : Nat,
                started : BOOLEAN, every : Nat]

\* What a driver may hand to a step: the rows of a new chunk, or None.
Offers(R) == Seq(R) \cup {None}

\* What the core submits is numbered like its last chunk, and what the plane holds
\* under that number is that chunk.
InStep(c) ==
    /\ c.chunk.seq = c.seq
    /\ c.plane.held.seq \in NoSeq .. c.seq
    /\ c.plane.held.seq = c.seq => c.plane.held.rows = c.chunk.rows

-----------------------------------------------------------------------------
\* The least of some numbers, and the induction that follows from it.
LEMMA LeastOf == ASSUME NEW S \in SUBSET Nat, S # {} PROVE \E m \in S : \A n \in S : m <= n
<1> DEFINE R == OpToRel(<, Nat)
<1>1. \E x \in S : \A y \in S : ~ (<<y, x>> \in R)
  <2>1. IsWellFoundedOn(R, Nat)
    BY NatLessThanWellFounded
  <2> HIDE DEF R
  <2> QED BY <2>1, WFMin
<1>2. PICK x \in S : \A y \in S : ~ (<<y, x>> \in R)
  BY <1>1
<1>3. ASSUME NEW y \in S PROVE x <= y
  <2>1. x \in Nat /\ y \in Nat /\ ~ (<<y, x>> \in R)
    BY <1>2
  <2> QED BY <2>1 DEF OpToRel
<1> QED BY <1>3

LEMMA SetInduction ==
    ASSUME NEW S \in SUBSET Nat, 0 \in S, \A n \in S : n + 1 \in S PROVE S = Nat
<1> SUFFICES ASSUME Nat \ S # {} PROVE FALSE
  OBVIOUS
<1>1. PICK m \in Nat \ S : \A n \in Nat \ S : m <= n
  BY LeastOf
<1>2. m - 1 \in Nat /\ m - 1 \notin Nat \ S
  BY <1>1
<1> QED BY <1>1, <1>2

-----------------------------------------------------------------------------
\* A core whose plane is replaced.
LEMMA PlaneReplaced ==
    ASSUME NEW R, NEW P, NEW c \in Cores(R, P), NEW plane,
           NEW with, with = [c EXCEPT !.plane = plane]
    PROVE  /\ with.plane = plane /\ with.chunk = c.chunk /\ with.seq = c.seq
           /\ with.consumed = c.consumed /\ with.started = c.started
           /\ with.every = c.every
           /\ plane \in Planes(R, P) => with \in Cores(R, P)
BY DEF Cores

\* Of two replacements only the second is left.
LEMMA PlaneReplacedTwice ==
    ASSUME NEW R, NEW P, NEW c \in Cores(R, P), NEW plane, NEW other
    PROVE  [[c EXCEPT !.plane = plane] EXCEPT !.plane = other] = [c EXCEPT !.plane = other]
BY DEF Cores

\* What a measurement, a heartbeat and a reset leave of a plane.
LEMMA PlaneObserved ==
    ASSUME NEW R, NEW P, NEW plane \in Planes(R, P), NEW pose \in P,
           NEW next, next = PlaneObserve(plane, pose)
    PROVE  /\ next \in Planes(R, P) /\ next.held = plane.held /\ next.beat = plane.beat
           /\ next.q \in {plane.q, pose}
BY DEF Planes, PlaneObserve

LEMMA PlaneHeard ==
    ASSUME NEW R, NEW P, NEW plane \in Planes(R, P), NEW tick \in Nat,
           NEW next, next = PlaneHeartbeat(plane, tick)
    PROVE  /\ next \in Planes(R, P) /\ next.held = plane.held /\ next.beat = tick
           /\ next.q = plane.q
BY DEF Planes, PlaneHeartbeat

LEMMA PlaneReset ==
    ASSUME NEW R, NEW P, NEW plane \in Planes(R, P), NEW next, next = PlaneResetLatch(plane)
    PROVE  next \in Planes(R, P) /\ next.held = plane.held /\ next.q = plane.q
BY DEF Planes, PlaneResetLatch

\* Such a call does not put the core out of step.
LEMMA CallKeepsStep ==
    ASSUME NEW R, NEW P, NEW c \in Cores(R, P), InStep(c),
           NEW plane \in Planes(R, P), plane.held = c.plane.held
    PROVE  InStep([c EXCEPT !.plane = plane])
<1> DEFINE with == [c EXCEPT !.plane = plane]
<1>1. with.plane = plane /\ with.chunk = c.chunk /\ with.seq = c.seq
  BY PlaneReplaced
<1> HIDE DEF with
<1>2. InStep(with)
  BY <1>1 DEF InStep
<1> QED BY <1>2 DEF with

LEMMA NewCoreInStep ==
    ASSUME NEW R, NEW P, NEW every \in Nat
    PROVE  NewCore(every) \in Cores(R, P) /\ InStep(NewCore(every))
<1>1. << >> \in Seq(R)
  OBVIOUS
<1>2. NothingHeld \in HeldChunks(R)
  BY <1>1 DEF NothingHeld, HeldChunks, NoSeq, Modes
<1>3. NewPlane \in Planes(R, P)
  BY <1>2 DEF NewPlane, Planes
<1>4. [seq |-> 0, rows |-> << >>, mode |-> Mode] \in Chunks(R)
  BY <1>1, PlaneStepsAssumption DEF Chunks
<1> QED BY <1>3, <1>4 DEF NewCore, Cores, InStep, NewPlane, NothingHeld, NoSeq

\* The core that submits is of its type.
LEMMA BufferedType ==
    ASSUME NEW R, NEW P, NEW c \in Cores(R, P), NEW rows \in Offers(R)
    PROVE  Buffer(c, rows) \in Cores(R, P)
<1> DEFINE chunk == [seq |-> c.seq + 1, rows |-> rows, mode |-> Mode]
<1>1. CASE rows = None
  BY <1>1 DEF Buffer
<1>2. CASE rows # None
  <2>1. chunk \in Chunks(R)
    BY <1>2, PlaneStepsAssumption DEF Chunks, Cores, Offers
  <2>2. Buffer(c, rows) = [plane |-> c.plane, chunk |-> chunk, seq |-> c.seq + 1,
                              consumed |-> 0, started |-> TRUE, every |-> c.every]
    BY <1>2 DEF Buffer, Cores
  <2> HIDE DEF chunk
  <2> QED BY <2>1, <2>2 DEF Cores
<1> QED BY <1>1, <1>2

\* What the plane walks once the chunk was submitted: that chunk.
LEMMA Accepted ==
    ASSUME NEW R, NEW held \in HeldChunks(R), NEW chunk \in Chunks(R), NEW tick \in Nat,
           held.seq <= chunk.seq, held.seq = chunk.seq => held.rows = chunk.rows
    PROVE  /\ Accept(held, chunk, tick) \in HeldChunks(R)
           /\ Accept(held, chunk, tick).seq = chunk.seq
           /\ Accept(held, chunk, tick).rows = chunk.rows
           /\ Accept(held, chunk, tick).cursor \in {0, held.cursor}
           /\ held.seq = chunk.seq => Accept(held, chunk, tick) = held
           /\ held.seq < chunk.seq => Accept(held, chunk, tick).cursor = 0
BY DEF HeldChunks, Chunks, Accept, Fresh

\* A row that may be executed is one of the chunk.
LEMMA CandidateIsRow ==
    ASSUME NEW R, NEW held \in HeldChunks(R), ~Underrun(held)
    PROVE  /\ held.cursor + 1 \in 1 .. Len(held.rows)
           /\ Candidate(held) = held.rows[held.cursor + 1] /\ Candidate(held) \in R
           /\ Advance(held) \in HeldChunks(R)
           /\ Advance(held).seq = held.seq /\ Advance(held).rows = held.rows
           /\ Advance(held).cursor = held.cursor + 1
BY PlaneStepsAssumption DEF HeldChunks, Underrun, ExecutableLen, Candidate, Advance

(***************************************************************************)
(* One validate of the plane: nothing while it is latched, the fallback    *)
(* when a watchdog trips, else the next row of the chunk.                  *)
(***************************************************************************)
Tripped(p, held, age, tick) == ~p.latched /\ PlaneTrips(p, held, age, tick) # {}
Passed(p, held, age, tick) == ~p.latched /\ PlaneTrips(p, held, age, tick) = {}

LEMMA Validated ==
    ASSUME NEW R, NEW P, NEW p \in Planes(R, P), NEW chunk \in Chunks(R),
           NEW age \in Nat, NEW tick \in Nat,
           p.held.seq <= chunk.seq, p.held.seq = chunk.seq => p.held.rows = chunk.rows,
           NEW held, held = Accept(p.held, chunk, tick),
           NEW next, next = PlaneValidate(p, chunk, age, tick)
    PROVE  /\ next.plane \in Planes(R, P) /\ next.plane.beat = p.beat
           /\ p.latched => next.plane = p /\ next.action.source # "Policy"
           /\ Tripped(p, held, age, tick) =>
                next.plane.held = held /\ next.plane.q = p.q /\ next.action.source # "Policy"
           /\ Passed(p, held, age, tick) =>
                /\ ~Underrun(held)
                /\ next.plane.held = Advance(held)
                /\ next.plane.q = Candidate(held) /\ next.action.q = Candidate(held)
                /\ next.action.source = "Policy"
                /\ ~Over(age, MaxObsAge) /\ ~Over(Since(tick, p.beat), HeartbeatTimeout)
<1>1. held \in HeldChunks(R)
  BY Accepted DEF Planes
<1>2. CASE p.latched
  BY <1>2 DEF PlaneValidate, Tripped, Passed
<1>3. CASE Tripped(p, held, age, tick)
  <2>1. next = [plane |-> [p EXCEPT !.held = held, !.latched = (Fallback = "EmergencyStop")],
                action |-> [q |-> p.q, source |-> Fallback,
                            events |-> PlaneTrips(p, held, age, tick)]]
    BY <1>3 DEF PlaneValidate, Tripped
  <2>2. [p EXCEPT !.held = held, !.latched = (Fallback = "EmergencyStop")] \in Planes(R, P)
    BY <1>1 DEF Planes
  <2>3. Fallback # "Policy"
    BY PlaneStepsAssumption
  <2>4. /\ next.plane = [p EXCEPT !.held = held, !.latched = (Fallback = "EmergencyStop")]
        /\ next.action.source = Fallback
    BY <2>1
  <2>5. next.plane.held = held /\ next.plane.q = p.q /\ next.plane.beat = p.beat
    BY <2>4 DEF Planes
  <2>6. ~p.latched /\ ~Passed(p, held, age, tick)
    BY <1>3 DEF Tripped, Passed
  <2> QED BY <2>2, <2>3, <2>4, <2>5, <2>6
<1>4. CASE Passed(p, held, age, tick)
  <2>1. next = [plane |-> [p EXCEPT !.held = Advance(held), !.q = Candidate(held)],
                action |-> [q |-> Candidate(held), source |-> "Policy", events |-> {}]]
    BY <1>4 DEF PlaneValidate, Passed
  <2>2. /\ ~Underrun(held) /\ ~Over(age, MaxObsAge)
        /\ ~Over(Since(tick, p.beat), HeartbeatTimeout)
    BY <1>4 DEF Passed, PlaneTrips
  <2>3. Candidate(held) \in R /\ Advance(held) \in HeldChunks(R)
    BY <1>1, <2>2, CandidateIsRow
  <2>4. [p EXCEPT !.held = Advance(held), !.q = Candidate(held)] \in Planes(R, P)
    BY <2>3 DEF Planes
  <2>5. /\ next.plane = [p EXCEPT !.held = Advance(held), !.q = Candidate(held)]
        /\ next.action.source = "Policy" /\ next.action.q = Candidate(held)
    BY <2>1
  <2>6. /\ next.plane.held = Advance(held) /\ next.plane.q = Candidate(held)
        /\ next.plane.beat = p.beat
    BY <2>5 DEF Planes
  <2>7. ~p.latched /\ ~Tripped(p, held, age, tick)
    BY <1>4 DEF Tripped, Passed
  <2> QED BY <2>2, <2>4, <2>5, <2>6, <2>7
<1> QED BY <1>2, <1>3, <1>4 DEF Tripped, Passed

(***************************************************************************)
(* One step of the core, from `core` to `next`: it submits `buffered`, of  *)
(* which the plane holds `held`.  It stays in step with its plane, and     *)
(* what it runs is a row of the chunk it submitted, with every watchdog    *)
(* satisfied.                                                              *)
(***************************************************************************)
StepFacts(R, P, c, rows, tick, age, buffered, held, next) ==
    /\ rows = None => buffered = c
    /\ rows # None => /\ buffered.seq = c.seq + 1 /\ buffered.chunk.rows = rows
                      /\ buffered.consumed = 0 /\ buffered.started = TRUE
    /\ next.core \in Cores(R, P) /\ InStep(next.core)
    /\ next.core.seq = buffered.seq /\ next.core.chunk = buffered.chunk
    /\ next.core.consumed = buffered.consumed + 1
    /\ next.core.started = buffered.started /\ next.core.every = c.every
    /\ next.core.plane.beat = c.plane.beat
    /\ held \in HeldChunks(R) /\ held.seq = buffered.seq
    /\ held.rows = buffered.chunk.rows
    /\ c.plane.held.seq = buffered.seq => held = c.plane.held
    /\ c.plane.held.seq < buffered.seq => held.cursor = 0
    /\ \/ /\ next.action.source # "Policy" /\ next.core.plane.q = c.plane.q
          /\ next.core.plane.held \in {c.plane.held, held}
       \/ /\ next.action.source = "Policy"
          /\ held.cursor + 1 \in 1 .. Len(held.rows)
          /\ next.action.q = held.rows[held.cursor + 1]
          /\ next.core.plane.q = next.action.q
          /\ next.core.plane.held = Advance(held)
          /\ ~Over(age, MaxObsAge)
          /\ ~Over(Since(tick, c.plane.beat), HeartbeatTimeout)

LEMMA Stepped ==
    ASSUME NEW R, NEW P, NEW c \in Cores(R, P), InStep(c),
           NEW rows \in Offers(R), NEW tick \in Nat, NEW age \in Nat,
           NEW buffered, buffered = Buffer(c, rows),
           NEW held, held = Accept(c.plane.held, buffered.chunk, tick),
           NEW next, next = CoreStep(c, rows, tick, age)
    PROVE  StepFacts(R, P, c, rows, tick, age, buffered, held, next)
<1> DEFINE valid == PlaneValidate(buffered.plane, buffered.chunk, age, tick)
<1>1. /\ buffered \in Cores(R, P) /\ buffered.plane = c.plane
      /\ buffered.every = c.every /\ buffered.chunk.seq = buffered.seq
      /\ rows = None => buffered = c
      /\ rows # None => /\ buffered.seq = c.seq + 1 /\ buffered.chunk.rows = rows
                        /\ buffered.consumed = 0 /\ buffered.started = TRUE
  <2>1. buffered \in Cores(R, P)
    BY BufferedType
  <2>2. CASE rows = None
    BY <2>1, <2>2 DEF Buffer, InStep
  <2>3. CASE rows # None
    BY <2>1, <2>3 DEF Buffer, Cores
  <2> QED BY <2>2, <2>3
<1>2. /\ c.plane \in Planes(R, P) /\ c.plane.held \in HeldChunks(R)
      /\ c.plane.held.seq \in Int /\ c.seq \in Nat /\ buffered.chunk \in Chunks(R)
      /\ c.plane.held.seq <= c.seq
  BY <1>1 DEF Cores, Planes, HeldChunks, InStep, NoSeq
<1>3. /\ c.plane.held.seq <= buffered.chunk.seq
      /\ c.plane.held.seq = buffered.chunk.seq => c.plane.held.rows = buffered.chunk.rows
  BY <1>1, <1>2 DEF InStep
<1>4. /\ held \in HeldChunks(R) /\ held.seq = buffered.seq /\ held.rows = buffered.chunk.rows
      /\ c.plane.held.seq = buffered.seq => held = c.plane.held
      /\ c.plane.held.seq < buffered.seq => held.cursor = 0
  BY <1>1, <1>2, <1>3, Accepted
<1>5. /\ valid.plane \in Planes(R, P) /\ valid.plane.beat = c.plane.beat
      /\ c.plane.latched => valid.plane = c.plane /\ valid.action.source # "Policy"
      /\ Tripped(c.plane, held, age, tick) =>
           /\ valid.plane.held = held /\ valid.plane.q = c.plane.q
           /\ valid.action.source # "Policy"
      /\ Passed(c.plane, held, age, tick) =>
           /\ ~Underrun(held)
           /\ valid.plane.held = Advance(held)
           /\ valid.plane.q = Candidate(held) /\ valid.action.q = Candidate(held)
           /\ valid.action.source = "Policy"
           /\ ~Over(age, MaxObsAge) /\ ~Over(Since(tick, c.plane.beat), HeartbeatTimeout)
  BY <1>1, <1>2, <1>3, Validated
<1>6. next.core = [buffered EXCEPT !.plane = valid.plane, !.consumed = @ + 1]
      /\ next.action = valid.action
  BY DEF CoreStep
<1> HIDE DEF valid
<1>7. /\ next.core \in Cores(R, P) /\ next.core.plane = valid.plane
      /\ next.core.seq = buffered.seq /\ next.core.chunk = buffered.chunk
      /\ next.core.consumed = buffered.consumed + 1
      /\ next.core.started = buffered.started /\ next.core.every = c.every
  <2>1. next.core = [plane |-> valid.plane, chunk |-> buffered.chunk, seq |-> buffered.seq,
                     consumed |-> buffered.consumed + 1, started |-> buffered.started,
                     every |-> buffered.every]
    BY <1>1, <1>6 DEF Cores
  <2>2. next.core \in Cores(R, P)
    BY <1>1, <1>5, <2>1 DEF Cores
  <2> QED BY <1>1, <2>1, <2>2
<1>8. CASE c.plane.latched
  <2>1. next.core.plane = c.plane
    BY <1>5, <1>7, <1>8
  <2>2. buffered.seq \in Nat /\ (c.seq = buffered.seq \/ c.seq < buffered.seq)
    BY <1>1, <1>2
  <2>3. InStep(next.core)
    BY <1>1, <1>2, <1>3, <1>7, <2>1, <2>2 DEF InStep, NoSeq
  <2> QED BY <1>1, <1>4, <1>5, <1>6, <1>7, <1>8, <2>1, <2>3 DEF StepFacts
<1>9. CASE Tripped(c.plane, held, age, tick)
  <2>2. /\ next.core.plane.held.seq = buffered.seq
        /\ next.core.plane.held.rows = buffered.chunk.rows
    BY <1>4, <1>5, <1>7, <1>9
  <2>3. buffered.seq \in Nat
    BY <1>1 DEF Cores
  <2>1. InStep(next.core)
    BY <1>1, <1>7, <2>2, <2>3 DEF InStep, NoSeq
  <2> QED BY <1>1, <1>4, <1>5, <1>6, <1>7, <1>9, <2>1 DEF StepFacts
<1>10. CASE Passed(c.plane, held, age, tick)
  <2>1. /\ held.cursor + 1 \in 1 .. Len(held.rows)
        /\ Candidate(held) = held.rows[held.cursor + 1]
        /\ Advance(held).seq = held.seq /\ Advance(held).rows = held.rows
    BY <1>4, <1>5, <1>10, CandidateIsRow
  <2>2. /\ next.core.plane.held = Advance(held) /\ next.core.plane.q = next.action.q
        /\ next.core.plane.beat = c.plane.beat
        /\ next.action.source = "Policy" /\ next.action.q = held.rows[held.cursor + 1]
        /\ ~Over(age, MaxObsAge) /\ ~Over(Since(tick, c.plane.beat), HeartbeatTimeout)
    BY <1>5, <1>6, <1>7, <1>10, <2>1
  <2>3. /\ next.core.plane.held.seq = buffered.seq
        /\ next.core.plane.held.rows = buffered.chunk.rows
    BY <1>4, <2>1, <2>2
  <2>4. buffered.seq \in Nat
    BY <1>1 DEF Cores
  <2>5. InStep(next.core)
    BY <1>1, <1>7, <2>3, <2>4 DEF InStep, NoSeq
  <2> QED BY <1>1, <1>4, <1>7, <2>1, <2>2, <2>5 DEF StepFacts
<1> QED BY <1>8, <1>9, <1>10 DEF Tripped, Passed

-----------------------------------------------------------------------------
(***************************************************************************)
(* The deployment runtime.                                                 *)
(***************************************************************************)
\* The ticks the policy is asked for.
OnTime(tick) == \E k \in Nat : tick = k * ReplanInterval

\* The core, and the replan counter as the age of the last inference.
TimeInv ==
    /\ core \in Cores(Commands, Poses) /\ InStep(core)
    /\ core.every = ReplanInterval
    /\ now \in 0 .. MaxTick
    /\ core.started <=> now > 0
    /\ now = 0 => inferredAt = None /\ core.consumed = 0
    /\ now > 0 => /\ inferredAt \in Nat /\ OnTime(inferredAt)
                  /\ inferredAt < now /\ core.consumed = now - inferredAt
                  /\ core.consumed <= ReplanInterval

\* The rows the core submits are those of the last inference, the cursor over them
\* is at most their age, and a row already executed is behind it.
RowInv ==
    /\ \A i \in DOMAIN core.chunk.rows :
         core.chunk.rows[i] = [at |-> inferredAt, row |-> i]
    /\ core.plane.held.seq = core.seq => core.plane.held.cursor <= core.consumed
    /\ core.plane.q \in Commands => core.plane.q.at < now
    /\ core.plane.q \in Commands /\ core.plane.q.at = inferredAt =>
         /\ core.plane.held.seq = core.seq
         /\ core.plane.q.row <= core.plane.held.cursor

RuntimeInv == TimeInv /\ RowInv /\ NewestChunkOnly

-----------------------------------------------------------------------------
\* Products of the replan interval, and the interval a tick lies in.
LEMMA Products == \A a, b, r \in Nat : a < b => a * r + r <= b * r
<1> SUFFICES ASSUME NEW a \in Nat, NEW b \in Nat, NEW r \in Nat, a < b
             PROVE  a * r + r <= b * r
  OBVIOUS
<1> DEFINE d == b - a
<1>1. d \in Nat /\ d >= 1 /\ b = a + d
  OBVIOUS
<1> HIDE DEF d
<1>2. b * r = a * r + d * r
  BY <1>1
<1>3. d * r >= r
  BY <1>1
<1> QED BY <1>1, <1>2, <1>3

LEMMA Quotient ==
    ASSUME NEW k \in Nat, NEW r \in Nat \ {0}, NEW d \in 0 .. r - 1
    PROVE  (k * r + d) \div r = k
<1> DEFINE n == k * r + d
           q == n \div r
<1>1. n \in Nat
  OBVIOUS
<1>2. q \in Int /\ q * r <= n /\ n < q * r + r
  BY <1>1
<1> QED BY <1>1, <1>2, Products

LEMMA IntervalPositive == ReplanInterval \in Nat \ {0}
BY RuntimeAssumption, PlaneStepsAssumption DEF ReplanInterval

-----------------------------------------------------------------------------
\* A call between two ticks.
LEMMA CallKeeps ==
    ASSUME RuntimeInv, NEW plane \in Planes(Commands, Poses),
           plane.held = core.plane.held, plane.q \in {core.plane.q} \cup Poses,
           core' = [core EXCEPT !.plane = plane],
           UNCHANGED <<now, out, inferredAt>>
    PROVE  RuntimeInv'
<1>1. /\ core'.plane = plane /\ core'.chunk = core.chunk /\ core'.seq = core.seq
      /\ core'.consumed = core.consumed /\ core'.started = core.started
      /\ core'.every = core.every /\ core' \in Cores(Commands, Poses)
  BY PlaneReplaced DEF RuntimeInv, TimeInv
<1>2. InStep(core')
  BY CallKeepsStep DEF RuntimeInv, TimeInv
<1>3. TimeInv'
  BY <1>1, <1>2 DEF RuntimeInv, TimeInv, OnTime
<1>4. plane.q \in Commands => plane.q = core.plane.q
  BY RuntimeAssumption
<1>5. RowInv'
  BY <1>1, <1>4 DEF RuntimeInv, RowInv
<1>6. NewestChunkOnly'
  BY DEF RuntimeInv, NewestChunkOnly
<1> QED BY <1>3, <1>5, <1>6 DEF RuntimeInv

\* What a tick submits: the chunk of the last inference, as old as the counter says.
LEMMA TickSubmits ==
    ASSUME RuntimeInv, NEW rows \in Offers(Commands), NEW buffered,
           buffered = Buffer(core, rows),
           rows = None => buffered = core,
           rows # None => /\ buffered.seq = core.seq + 1 /\ buffered.chunk.rows = rows
                          /\ buffered.consumed = 0 /\ buffered.started = TRUE,
           \/ /\ rows = None /\ ~ShouldReplan(core) /\ inferredAt' = inferredAt
           \/ /\ rows # None /\ ShouldReplan(core) /\ inferredAt' = now
              /\ \A i \in DOMAIN rows : rows[i] = [at |-> now, row |-> i]
    PROVE  /\ buffered.started = TRUE
           /\ inferredAt' \in Nat /\ OnTime(inferredAt') /\ inferredAt' <= now
           /\ buffered.consumed = now - inferredAt' /\ buffered.consumed < ReplanInterval
           /\ \A i \in DOMAIN buffered.chunk.rows :
                buffered.chunk.rows[i] = [at |-> inferredAt', row |-> i]
           /\ core.plane.held.seq = buffered.seq =>
                core.plane.held.cursor <= buffered.consumed
           /\ core.plane.q \in Commands /\ core.plane.q.at = inferredAt' =>
                /\ core.plane.held.seq = buffered.seq
                /\ core.plane.q.row <= core.plane.held.cursor
<1>0. /\ core.seq \in Nat /\ core.consumed \in Nat /\ core.plane.held.seq <= core.seq
      /\ core.plane.held.seq \in Int /\ now \in Nat /\ core.started \in BOOLEAN
  BY DEF RuntimeInv, TimeInv, Cores, InStep, NoSeq
<1>1. CASE rows = None
  <2>1. core.started = TRUE /\ core.consumed < ReplanInterval
    BY <1>0, <1>1, IntervalPositive DEF RuntimeInv, TimeInv, ShouldReplan
  <2> QED BY <1>0, <1>1, <2>1 DEF RuntimeInv, TimeInv, RowInv
<1>2. CASE rows # None
  <2>1. OnTime(now)
    <3>1. CASE now = 0
      <4>1. now = 0 * ReplanInterval
        BY <3>1, IntervalPositive
      <4> QED BY <4>1 DEF OnTime
    <3>2. CASE now > 0
      <4>1. core.consumed = ReplanInterval /\ now = inferredAt + ReplanInterval
        BY <1>0, <1>2, <3>2, IntervalPositive DEF RuntimeInv, TimeInv, ShouldReplan
      <4>2. PICK k \in Nat : inferredAt = k * ReplanInterval
        BY <3>2 DEF RuntimeInv, TimeInv, OnTime
      <4>3. now = (k + 1) * ReplanInterval
        BY <4>1, <4>2, IntervalPositive
      <4> QED BY <4>2, <4>3 DEF OnTime
    <3> QED BY <1>0, <3>1, <3>2
  <2>2. core.plane.q \in Commands => core.plane.q.at # now
    BY <1>0 DEF RuntimeInv, RowInv, Commands
  <2> QED BY <1>0, <1>2, <2>1, <2>2, IntervalPositive
<1> QED BY <1>1, <1>2

\* What a tick leaves: the invariant, and a row executed only after those before it.
LEMMA TickKeeps ==
    ASSUME RuntimeInv, NEW rows \in Offers(Commands), NEW age \in Nat,
           StepWith(rows, age),
           \/ /\ rows = None /\ ~ShouldReplan(core) /\ inferredAt' = inferredAt
           \/ /\ rows # None /\ ShouldReplan(core) /\ inferredAt' = now
              /\ \A i \in DOMAIN rows : rows[i] = [at |-> now, row |-> i]
    PROVE  /\ RuntimeInv'
           /\ out'.source = "Policy" /\ core.plane.q \in Commands
                /\ core.plane.q.at = out'.q.at => out'.q.row > core.plane.q.row
<1> DEFINE buffered == Buffer(core, rows)
           held == Accept(core.plane.held, buffered.chunk, now)
           next == CoreStep(core, rows, now, age)
<1>1. /\ core \in Cores(Commands, Poses) /\ InStep(core) /\ now \in Nat
      /\ core.every = ReplanInterval
  BY DEF RuntimeInv, TimeInv
<1>2. StepFacts(Commands, Poses, core, rows, now, age, buffered, held, next)
  BY <1>1, Stepped
<1>3. /\ now < MaxTick /\ core' = next.core /\ out' = next.action /\ now' = now + 1
  BY DEF StepWith
<1>4. /\ buffered.started = TRUE
      /\ inferredAt' \in Nat /\ OnTime(inferredAt') /\ inferredAt' <= now
      /\ buffered.consumed = now - inferredAt' /\ buffered.consumed < ReplanInterval
      /\ \A i \in DOMAIN buffered.chunk.rows :
           buffered.chunk.rows[i] = [at |-> inferredAt', row |-> i]
      /\ core.plane.held.seq = buffered.seq =>
           core.plane.held.cursor <= buffered.consumed
      /\ core.plane.q \in Commands /\ core.plane.q.at = inferredAt' =>
           /\ core.plane.held.seq = buffered.seq
           /\ core.plane.q.row <= core.plane.held.cursor
  BY <1>2, TickSubmits DEF StepFacts
<1> HIDE DEF buffered, held, next
<1>5. /\ core'.seq = buffered.seq /\ core'.chunk = buffered.chunk
      /\ core'.consumed = buffered.consumed + 1 /\ core'.started = TRUE
  BY <1>2, <1>3, <1>4 DEF StepFacts
<1>6. TimeInv'
  <2>1. core' \in Cores(Commands, Poses) /\ InStep(core') /\ core'.every = ReplanInterval
    BY <1>1, <1>2, <1>3 DEF StepFacts
  <2>2. now' \in 0 .. MaxTick /\ now' > 0 /\ inferredAt' < now'
    BY <1>1, <1>3, <1>4, DriverAssumption
  <2>3. core'.consumed = now' - inferredAt' /\ core'.consumed <= ReplanInterval
    BY <1>1, <1>3, <1>4, <1>5, IntervalPositive
  <2>4. OnTime(inferredAt')
    BY <1>4
  <2> QED BY <1>4, <1>5, <2>1, <2>2, <2>3, <2>4 DEF TimeInv, OnTime
<1>7. /\ core.plane.held.seq \in Int /\ core.plane.held.cursor \in Nat
      /\ buffered.seq \in Nat /\ core.seq \in Nat
      /\ core.plane.held.seq <= core.seq /\ core.seq <= buffered.seq
  <2>1. /\ core.plane.held.seq \in Int /\ core.plane.held.cursor \in Nat /\ core.seq \in Nat
        /\ core.plane.held.seq <= core.seq
    BY <1>1 DEF Cores, Planes, HeldChunks, InStep, NoSeq
  <2> QED BY <2>1, <1>2 DEF StepFacts
\* A tick without a command leaves the plane's target where it was.
<1>8. ASSUME out'.source # "Policy" PROVE RuntimeInv'
  <2>1. core'.plane.q = core.plane.q /\ core'.plane.held \in {core.plane.held, held}
    BY <1>2, <1>3, <1>8 DEF StepFacts
  <2>2. /\ core.plane.held.seq = buffered.seq => core'.plane.held = core.plane.held
        /\ core.plane.held.seq # buffered.seq /\ core'.plane.held.seq = buffered.seq =>
             core'.plane.held.cursor = 0
    BY <1>2, <1>7, <2>1 DEF StepFacts
  <2>5. core'.plane.held.seq = core'.seq =>
             core'.plane.held.cursor <= core'.consumed
    BY <1>1, <1>4, <1>5, <1>7, <2>2
  <2>3. core.plane.q \in Commands => core.plane.q.at < now + 1
    BY <1>1 DEF RuntimeInv, RowInv, Commands
  <2>4. RowInv'
    <3>1. \A i \in DOMAIN core'.chunk.rows :
            core'.chunk.rows[i] = [at |-> inferredAt', row |-> i]
      BY <1>4, <1>5
    <3>2. core'.plane.q \in Commands => core'.plane.q.at < now'
      BY <1>3, <2>1, <2>3
    <3>3. core'.plane.q \in Commands /\ core'.plane.q.at = inferredAt' =>
            /\ core'.plane.held.seq = core'.seq
            /\ core'.plane.q.row <= core'.plane.held.cursor
      BY <1>4, <1>5, <2>1, <2>2
    <3> QED BY <2>5, <3>1, <3>2, <3>3 DEF RowInv
  <2> QED BY <1>6, <1>8, <2>4 DEF RuntimeInv, NewestChunkOnly
\* A tick with one moves it to the next row of the last inference.
<1>9. ASSUME out'.source = "Policy"
      PROVE  /\ RuntimeInv'
             /\ core.plane.q \in Commands /\ core.plane.q.at = out'.q.at =>
                  out'.q.row > core.plane.q.row
  <2>1. /\ held.cursor + 1 \in 1 .. Len(held.rows) /\ held \in HeldChunks(Commands)
        /\ out'.q = held.rows[held.cursor + 1] /\ core'.plane.q = out'.q
        /\ core'.plane.held = Advance(held)
        /\ held.seq = buffered.seq /\ held.rows = buffered.chunk.rows
        /\ core.plane.held.seq = buffered.seq => held = core.plane.held
        /\ core.plane.held.seq < buffered.seq => held.cursor = 0
    BY <1>2, <1>3, <1>9 DEF StepFacts
  <2>2. held.cursor \in Nat /\ held.cursor <= buffered.consumed
    BY <1>4, <1>7, <2>1, <1>1
  <2>3. /\ out'.q = [at |-> inferredAt', row |-> held.cursor + 1]
    <3>1. held.cursor + 1 \in DOMAIN buffered.chunk.rows
      BY <2>1 DEF HeldChunks
    <3> QED BY <1>4, <2>1, <3>1
  <2>4. core'.plane.held.seq = buffered.seq /\ core'.plane.held.cursor = held.cursor + 1
    BY <2>1 DEF Advance, HeldChunks
  <2>5. RowInv'
    <3>1. \A i \in DOMAIN core'.chunk.rows :
            core'.chunk.rows[i] = [at |-> inferredAt', row |-> i]
      BY <1>4, <1>5
    <3>2. core'.plane.held.cursor <= core'.consumed
      <4>1. /\ core'.plane.held.cursor = held.cursor + 1
            /\ core'.consumed = buffered.consumed + 1
        BY <1>5, <2>4
      <4>2. buffered.consumed \in Int
        BY <1>1, <1>4
      <4> QED BY <2>2, <4>1, <4>2
    <3>3. core'.plane.q.at = inferredAt' /\ core'.plane.q.row = held.cursor + 1
      BY <2>1, <2>3
    <3>4. core'.plane.q.at < now'
      BY <1>1, <1>3, <1>4, <3>3
    <3>5. /\ core'.plane.held.seq = core'.seq
          /\ core'.plane.q.row <= core'.plane.held.cursor
      BY <1>5, <2>2, <2>4, <3>3
    <3> QED BY <3>1, <3>2, <3>4, <3>5 DEF RowInv
  <2>6. NewestChunkOnly'
    BY <1>1, <1>3, <1>4, <2>2, <2>3 DEF NewestChunkOnly
  <2>7. ASSUME core.plane.q \in Commands, core.plane.q.at = out'.q.at
        PROVE  out'.q.row > core.plane.q.row
    <3>1. core.plane.q.at = inferredAt' /\ core.plane.q.row \in Int
      BY <2>3, <2>7 DEF Commands
    <3>2. core.plane.held.seq = buffered.seq /\ core.plane.q.row <= core.plane.held.cursor
      BY <1>4, <2>7, <3>1
    <3> QED BY <2>1, <2>2, <2>3, <3>1, <3>2
  <2> QED BY <1>6, <2>5, <2>6, <2>7 DEF RuntimeInv
<1> QED BY <1>8, <1>9

\* The rows of an inference are an offer to the core.
LEMMA InferredRows ==
    ASSUME RuntimeInv, now < MaxTick, NEW n \in 0 .. H
    PROVE  /\ Inferred(n) \in Offers(Commands) /\ Inferred(n) # None
           /\ \A i \in DOMAIN Inferred(n) : Inferred(n)[i] = [at |-> now, row |-> i]
<1>1. now \in 0 .. MaxTick /\ n \in Nat /\ 1 .. n \subseteq 1 .. H
  BY RuntimeAssumption DEF RuntimeInv, TimeInv
<1>2. \A i \in 1 .. n : [at |-> now, row |-> i] \in Commands
  BY <1>1 DEF Commands
<1>3. Inferred(n) \in [1 .. n -> Commands]
  BY <1>2 DEF Inferred
<1>4. Inferred(n) # None
  BY <1>3, RuntimeAssumption
<1>5. Inferred(n) \in Seq(Commands)
  BY <1>1, <1>3
<1> QED BY <1>4, <1>5 DEF Offers, Inferred

LEMMA RuntimeInitHolds == RuntimeInit => RuntimeInv
<1> SUFFICES ASSUME RuntimeInit PROVE RuntimeInv
  OBVIOUS
<1>1. ReplanInterval \in Nat \ {0} /\ MaxTick \in Nat
  BY IntervalPositive, DriverAssumption
<1>2. core \in Cores(Commands, Poses) /\ InStep(core)
  BY <1>1, NewCoreInStep DEF RuntimeInit
<1>3. /\ core.every = ReplanInterval /\ core.started = FALSE /\ core.consumed = 0
      /\ core.chunk.rows = << >> /\ core.seq = 0 /\ core.plane.held.seq = -1
      /\ core.plane.q = Home
  BY <1>1 DEF RuntimeInit, NewCore, NewPlane, NothingHeld, NoSeq
<1>4. TimeInv
  BY <1>1, <1>2, <1>3 DEF RuntimeInit, TimeInv
<1>5. Home \notin Commands
  BY RuntimeAssumption
<1>6. RowInv
  BY <1>3, <1>5 DEF RowInv
<1>7. NewestChunkOnly
  BY DEF RuntimeInit, NewestChunkOnly
<1> QED BY <1>4, <1>6, <1>7 DEF RuntimeInv

\* Every step keeps the invariant, and no step reorders the rows it executes.
LEMMA RuntimeStepKeeps ==
    ASSUME RuntimeInv, [RuntimeNext]_runtimeVars
    PROVE  /\ RuntimeInv'
           /\ now' # now /\ out'.source = "Policy" /\ core.plane.q \in Commands
                /\ core.plane.q.at = out'.q.at => out'.q.row > core.plane.q.row
<1>0. core.plane \in Planes(Commands, Poses) /\ now \in Nat
  BY DEF RuntimeInv, TimeInv, Cores
<1>1. ASSUME NEW pose \in Poses, ObserveState(pose) PROVE RuntimeInv' /\ now' = now
  <2>1. /\ PlaneObserve(core.plane, pose) \in Planes(Commands, Poses)
        /\ PlaneObserve(core.plane, pose).held = core.plane.held
        /\ PlaneObserve(core.plane, pose).q \in {core.plane.q, pose}
    BY <1>0, PlaneObserved
  <2>2. /\ core' = [core EXCEPT !.plane = PlaneObserve(core.plane, pose)]
        /\ UNCHANGED <<now, out, inferredAt>>
    BY <1>1 DEF ObserveState
  <2>3. RuntimeInv'
    BY <2>1, <2>2, CallKeeps
  <2> QED BY <2>2, <2>3
<1>2. ASSUME Heartbeat PROVE RuntimeInv' /\ now' = now
  <2>1. /\ PlaneHeartbeat(core.plane, now) \in Planes(Commands, Poses)
        /\ PlaneHeartbeat(core.plane, now).held = core.plane.held
        /\ PlaneHeartbeat(core.plane, now).q = core.plane.q
    BY <1>0, PlaneHeard
  <2>2. /\ core' = [core EXCEPT !.plane = PlaneHeartbeat(core.plane, now)]
        /\ UNCHANGED <<now, out, inferredAt>>
    BY <1>2 DEF Heartbeat
  <2>3. RuntimeInv'
    BY <2>1, <2>2, CallKeeps
  <2> QED BY <2>2, <2>3
<1>3. ASSUME ResetLatch PROVE RuntimeInv' /\ now' = now
  <2>1. /\ PlaneResetLatch(core.plane) \in Planes(Commands, Poses)
        /\ PlaneResetLatch(core.plane).held = core.plane.held
        /\ PlaneResetLatch(core.plane).q = core.plane.q
    BY <1>0, PlaneReset
  <2>2. /\ core' = [core EXCEPT !.plane = PlaneResetLatch(core.plane)]
        /\ UNCHANGED <<now, out, inferredAt>>
    BY <1>3 DEF ResetLatch
  <2>3. RuntimeInv'
    BY <2>1, <2>2, CallKeeps
  <2> QED BY <2>2, <2>3
<1>4. \A age \in Ages : age \in Nat
  BY PlaneStepsAssumption DEF Ages
<1>5. ASSUME NEW n \in 0 .. H, NEW age \in Ages, ReplanTick(n, age)
      PROVE  /\ RuntimeInv'
             /\ out'.source = "Policy" /\ core.plane.q \in Commands
                  /\ core.plane.q.at = out'.q.at => out'.q.row > core.plane.q.row
  <2>1. StepWith(Inferred(n), age) /\ ShouldReplan(core) /\ inferredAt' = now
    BY <1>5 DEF ReplanTick
  <2>2. now < MaxTick
    BY <2>1 DEF StepWith
  <2> QED BY <1>4, <2>1, <2>2, InferredRows, TickKeeps
<1>6. ASSUME NEW age \in Ages, ReuseTick(age)
      PROVE  /\ RuntimeInv'
             /\ out'.source = "Policy" /\ core.plane.q \in Commands
                  /\ core.plane.q.at = out'.q.at => out'.q.row > core.plane.q.row
  <2>1. StepWith(None, age) /\ ~ShouldReplan(core) /\ inferredAt' = inferredAt
    BY <1>6 DEF ReuseTick
  <2>2. None \in Offers(Commands)
    BY DEF Offers
  <2> QED BY <1>4, <2>1, <2>2, TickKeeps
<1>7. ASSUME UNCHANGED runtimeVars PROVE RuntimeInv' /\ now' = now
  BY <1>7 DEF runtimeVars, RuntimeInv, TimeInv, RowInv, NewestChunkOnly
<1> QED BY <1>1, <1>2, <1>3, <1>5, <1>6, <1>7 DEF RuntimeNext

LEMMA AlwaysRuntimeInv == RuntimeSpec => []RuntimeInv
<1>1. RuntimeInv /\ [RuntimeNext]_runtimeVars => RuntimeInv'
  BY RuntimeStepKeeps
<1> QED BY RuntimeInitHolds, <1>1, PTL DEF RuntimeSpec

-----------------------------------------------------------------------------
\* Every tick of a run finds the core as a core: numbered chunks, a replan counter
\* inside its interval, a plane that holds nothing the core did not submit.
THEOREM RuntimeTypeCorrect == RuntimeSpec => []RuntimeTypeOK
<1>1. RuntimeInv => RuntimeTypeOK
  <2> SUFFICES ASSUME RuntimeInv PROVE RuntimeTypeOK
    OBVIOUS
  <2>1. /\ core.seq \in Nat /\ core.consumed \in Nat /\ core.started \in BOOLEAN
        /\ core.chunk.seq = core.seq /\ core.plane.held.seq \in NoSeq .. core.seq
        /\ core.plane.q \in Commands \cup Poses \cup {Home}
    BY DEF RuntimeInv, TimeInv, Cores, Planes, InStep
  <2>2. /\ now \in 0 .. MaxTick /\ inferredAt \in 0 .. MaxTick \cup {None}
        /\ core.consumed <= ReplanInterval
    BY IntervalPositive, DriverAssumption DEF RuntimeInv, TimeInv
  <2> QED BY <2>1, <2>2, IntervalPositive DEF RuntimeTypeOK
<1> QED BY AlwaysRuntimeInv, <1>1, PTL

\* Inference runs on the multiples of the replan interval and on no other tick, for
\* every interval: no failure, fallback or latch moves it.
THEOREM AlwaysReplansOnTime == RuntimeSpec => []ReplansOnTime
<1>1. RuntimeInv => ReplansOnTime
  <2> SUFFICES ASSUME RuntimeInv, now > 0
               PROVE  inferredAt = ((now - 1) \div ReplanInterval) * ReplanInterval
    BY DEF ReplansOnTime
  <2>1. now \in Nat /\ inferredAt \in Nat /\ inferredAt < now
        /\ now - inferredAt <= ReplanInterval
    BY DEF RuntimeInv, TimeInv
  <2>2. PICK k \in Nat : inferredAt = k * ReplanInterval
    BY DEF RuntimeInv, TimeInv, OnTime
  <2> DEFINE d == now - 1 - inferredAt
  <2>3. d \in 0 .. ReplanInterval - 1
    BY <2>1, IntervalPositive
  <2>4. now - 1 = k * ReplanInterval + d
    BY <2>1, <2>2, IntervalPositive
  <2>5. (k * ReplanInterval + d) \div ReplanInterval = k
    BY <2>3, IntervalPositive, Quotient
  <2> QED BY <2>2, <2>4, <2>5
<1> QED BY AlwaysRuntimeInv, <1>1, PTL

\* Whatever executes is a row of the newest inference, and no row runs before its
\* time.
THEOREM AlwaysNewestChunkOnly == RuntimeSpec => []NewestChunkOnly
<1>1. RuntimeInv => NewestChunkOnly
  BY DEF RuntimeInv
<1> QED BY AlwaysRuntimeInv, <1>1, PTL

\* No row is executed twice and none before an earlier one of its inference.
THEOREM AlwaysRowsInOrder == RuntimeSpec => RowsInOrder
<1>1. RuntimeInv /\ [RuntimeNext]_runtimeVars =>
        [/\ now' # now /\ out'.source = "Policy"
         /\ core.plane.q \in Commands /\ core.plane.q.at = out'.q.at
         => out'.q.row > core.plane.q.row]_runtimeVars
  BY RuntimeStepKeeps
<1> QED BY AlwaysRuntimeInv, <1>1, PTL DEF RuntimeSpec, RowsInOrder
=============================================================================
