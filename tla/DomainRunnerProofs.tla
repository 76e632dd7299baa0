-------------------------- MODULE DomainRunnerProofs --------------------------
(***************************************************************************)
(* The domain runner for any number of envs, any schedule, latency, chunk  *)
(* horizon and deployment, and any number of ticks and episodes.           *)
(***************************************************************************)
EXTENDS DomainRunner, FiniteSetTheorems, WellFoundedInduction, TLAPS

Submissions == [env : Envs, tick : Nat, episode : Nat]
Pipes == [queue : Seq(Submissions), dropped : Nat]

\* Every submission was made in lo..hi, for the episode its env is in, and they
\* are queued in the order they were made.
InLine(queue, lo, hi, episodes) ==
    /\ queue \in Seq(Submissions) /\ Len(queue) <= MaxPending
    /\ \A i \in 1 .. Len(queue) :
         /\ lo <= queue[i].tick /\ queue[i].tick <= hi
         /\ queue[i].episode = episodes[queue[i].env]
    /\ \A i, j \in 1 .. Len(queue) : i <= j => queue[i].tick <= queue[j].tick

-----------------------------------------------------------------------------
(***************************************************************************)
(* Induction, and the loops of the runner as the recursions they are       *)
(* written as.                                                             *)
(***************************************************************************)
LEMMA LeastOf == ASSUME NEW S \in SUBSET Nat, S # {} PROVE \E m \in S : \A n \in S : m <= n
<1> DEFINE R == OpToRel(<, Nat)
<1>1. \E x \in S : \A y \in S : ~ (<<y, x>> \in R)
  <2>1. IsWellFoundedOn(R, Nat)
    BY NatLessThanWellFounded
  <2> HIDE DEF R
  <2> QED BY <2>1, WFMin
<1>2. PICK x \in S : \A y \in S : ~ (<<y, x>> \in R)
  BY <1>1
<1>3. ASSUME NEW y \in S PROVE x <= y
  <2>1. x \in Nat /\ y \in Nat /\ ~ (<<y, x>> \in R)
    BY <1>2
  <2> QED BY <2>1 DEF OpToRel
<1> QED BY <1>3

\* What holds at 0 and of each number up to N with the one before it, holds to N.
LEMMA Climbs ==
    ASSUME NEW N \in Nat, NEW T, 0 \in T, \A n \in 1 .. N : n - 1 \in T => n \in T
    PROVE  0 .. N \subseteq T
<1> SUFFICES ASSUME (0 .. N) \ T # {} PROVE FALSE
  OBVIOUS
<1>1. PICK m \in (0 .. N) \ T : \A n \in (0 .. N) \ T : m <= n
  <2> DEFINE D == (0 .. N) \ T
  <2>1. D \in SUBSET Nat /\ D # {}
    OBVIOUS
  <2> HIDE DEF D
  <2>2. \E m \in D : \A n \in D : m <= n
    BY <2>1, LeastOf
  <2> QED BY <2>2 DEF D
<1>2. m # 0 /\ m \in 1 .. N
  BY <1>1
<1>3. m - 1 \in 0 .. N /\ m - 1 < m
  BY <1>2
<1>4. m - 1 \in T
  BY <1>1, <1>2, <1>3
<1> QED BY <1>1, <1>2, <1>4

IsLoop(f, N, S, a, step) ==
    f \in [0 .. N -> S] /\ f[0] = a /\ \A n \in 1 .. N : f[n] = step[n][f[n - 1]]

\* A loop of N passes from a, whose pass n takes a state x of S to step[n][x].
LEMMA LoopExists ==
    ASSUME NEW N \in Nat, NEW S, NEW a \in S, NEW step \in [1 .. N -> [S -> S]]
    PROVE  \E f : IsLoop(f, N, S, a, step)
<1> DEFINE Loop(f, m) == f[0] = a /\ \A n \in 1 .. m : f[n] = step[n][f[n - 1]]
           T == {m \in 0 .. N : \E f \in [0 .. m -> S] : Loop(f, m)}
<1>1. 0 \in T
  <2> DEFINE z == [n \in 0 .. 0 |-> a]
  <2>1. z \in [0 .. 0 -> S] /\ Loop(z, 0)
    OBVIOUS
  <2> HIDE DEF z, Loop
  <2> QED BY <2>1
<1>2. ASSUME NEW m \in 1 .. N, m - 1 \in T PROVE m \in T
  <2>1. PICK f \in [0 .. m - 1 -> S] : Loop(f, m - 1)
    BY <1>2
  <2> DEFINE g == [n \in 0 .. m |-> IF n = m THEN step[m][f[m - 1]] ELSE f[n]]
  <2>2. m - 1 \in 0 .. m - 1 /\ f[m - 1] \in S /\ step[m][f[m - 1]] \in S
    OBVIOUS
  <2>3. g \in [0 .. m -> S]
    BY <2>2
  <2>4. \A n \in 0 .. m - 1 : g[n] = f[n]
    OBVIOUS
  <2>5. g[m] = step[m][f[m - 1]]
    OBVIOUS
  <2> HIDE DEF g
  <2>6. \A n \in 1 .. m : g[n] = step[n][g[n - 1]]
    <3> SUFFICES ASSUME NEW n \in 1 .. m PROVE g[n] = step[n][g[n - 1]]
      OBVIOUS
    <3>1. CASE n = m
      BY <2>2, <2>4, <2>5, <3>1
    <3>2. CASE n # m
      BY <2>1, <2>4, <3>2
    <3> QED BY <3>1, <3>2
  <2>7. Loop(g, m)
    BY <2>1, <2>4, <2>6
  <2> QED BY <2>3, <2>7
<1> HIDE DEF T
<1>3. 0 .. N \subseteq T
  BY <1>1, <1>2, Climbs
<1> QED BY <1>3 DEF T, IsLoop

-----------------------------------------------------------------------------
(***************************************************************************)
(* The pipeline: every operation keeps the queue in line.                  *)
(***************************************************************************)
LEMMA Constants ==
    /\ NumEnvs \in Nat \ {0} /\ ObsPeriod \in Nat \ {0} /\ InferPeriod \in Nat \ {0}
    /\ ObsBatch \in 1 .. NumEnvs /\ Latency \in Nat /\ InferBatch \in Nat \ {0}
    /\ MaxPending \in Nat /\ H \in Nat \ {0} /\ ExecuteChunk \in 1 .. H
    /\ ChunkSlots \in Nat \ {0} /\ MaxObsAge \in Nat
    /\ Envs = 0 .. NumEnvs - 1 /\ Deployments \subseteq DeploymentType
<1>1. InferBatch * Latency \in Nat
  BY InferenceAssumption
<1> QED BY <1>1, ScheduleAssumption, InferenceAssumption, BufferAssumption, RunnerAssumption
        DEF MaxPending, Envs

LEMMA SubmitInLine ==
    ASSUME NEW p \in Pipes, NEW lo \in Int, NEW hi \in Nat, NEW episodes,
           InLine(p.queue, lo, hi, episodes), lo <= hi,
           NEW s \in Submissions, s.tick = hi, s.episode = episodes[s.env]
    PROVE  Submit(p, s) \in Pipes /\ InLine(Submit(p, s).queue, lo, hi, episodes)
<1>1. p.queue \in Seq(Submissions) /\ p.dropped \in Nat /\ Len(p.queue) \in Nat
  BY DEF Pipes
<1>2. CASE Len(p.queue) >= MaxPending
  <2>1. Submit(p, s) = [p EXCEPT !.dropped = @ + 1]
    BY <1>2 DEF Submit
  <2>2. Submit(p, s) \in Pipes /\ Submit(p, s).queue = p.queue
    BY <1>1, <2>1 DEF Pipes
  <2> QED BY <2>2
<1>3. CASE ~(Len(p.queue) >= MaxPending)
  <2> DEFINE q == Append(p.queue, s)
  <2>1. Submit(p, s) = [p EXCEPT !.queue = q]
    BY <1>3 DEF Submit
  <2>2. /\ q \in Seq(Submissions) /\ Len(q) = Len(p.queue) + 1
        /\ \A i \in 1 .. Len(p.queue) : q[i] = p.queue[i]
        /\ q[Len(p.queue) + 1] = s
    BY <1>1
  <2> HIDE DEF q
  <2>3. Submit(p, s) \in Pipes /\ Submit(p, s).queue = q
    BY <1>1, <2>1, <2>2 DEF Pipes
  <2>4. Len(q) <= MaxPending
    BY <1>1, <1>3, <2>2, Constants
  <2>5. /\ \A i \in 1 .. Len(p.queue) :
             /\ lo <= p.queue[i].tick /\ p.queue[i].tick <= hi /\ p.queue[i].tick \in Nat
             /\ p.queue[i].episode = episodes[p.queue[i].env]
        /\ \A i, j \in 1 .. Len(p.queue) : i <= j => p.queue[i].tick <= p.queue[j].tick
    <3>1. \A i \in 1 .. Len(p.queue) : p.queue[i] \in Submissions
      BY <1>1
    <3> QED BY <3>1 DEF InLine, Submissions
  <2>6. \A i \in 1 .. Len(q) :
             /\ lo <= q[i].tick /\ q[i].tick <= hi
             /\ q[i].episode = episodes[q[i].env]
    <3> SUFFICES ASSUME NEW i \in 1 .. Len(q)
                 PROVE  /\ lo <= q[i].tick /\ q[i].tick <= hi
                        /\ q[i].episode = episodes[q[i].env]
      OBVIOUS
    <3>1. CASE i \in 1 .. Len(p.queue)
      BY <2>2, <2>5, <3>1
    <3>2. CASE i = Len(p.queue) + 1
      BY <2>2, <3>2
    <3> QED BY <1>1, <2>2, <3>1, <3>2
  <2>7. \A i, j \in 1 .. Len(q) : i <= j => q[i].tick <= q[j].tick
    <3> SUFFICES ASSUME NEW i \in 1 .. Len(q), NEW j \in 1 .. Len(q), i <= j
                 PROVE  q[i].tick <= q[j].tick
      OBVIOUS
    <3>1. CASE j \in 1 .. Len(p.queue)
      <4>1. i \in 1 .. Len(p.queue)
        BY <1>1, <2>2, <3>1
      <4> QED BY <2>2, <2>5, <3>1, <4>1
    <3>2. CASE j = Len(p.queue) + 1
      BY <2>2, <2>6, <3>2
    <3> QED BY <1>1, <2>2, <3>1, <3>2
  <2> QED BY <2>2, <2>3, <2>4, <2>6, <2>7 DEF InLine
<1> QED BY <1>2, <1>3

\* Who is submitted, and for what: the observations that are waiting to be.
Observations == [tick : Int, episode : Int, submitted : BOOLEAN]
Waiting(observed, hi, episodes) ==
    /\ observed \in [Envs -> Observations]
    /\ episodes \in [Envs -> Nat]
    /\ \A e \in Envs : observed[e].submitted \/ observed[e].episode = episodes[e]

AllInLine(p, lo, hi, episodes) == p \in Pipes /\ InLine(p.queue, lo, hi, episodes)

LEMMA SubmitAllInLine ==
    ASSUME pipe \in Pipes, controlTick \in Nat, NEW lo \in Int, lo <= controlTick,
           InLine(pipe.queue, lo, controlTick, episode),
           Waiting(latest, controlTick, episode)
    PROVE  AllInLine(SubmitAll, lo, controlTick, episode)
<1> DEFINE Pass(x, n) ==
             IF latest[n - 1].submitted THEN x
             ELSE Submit(x, [env |-> n - 1, tick |-> controlTick,
                             episode |-> latest[n - 1].episode])
           F(f) == [n \in 0 .. NumEnvs |-> IF n = 0 THEN pipe ELSE Pass(f[n - 1], n)]
           S == {x \in Pipes : InLine(x.queue, lo, controlTick, episode)}
           step == [n \in 1 .. NumEnvs |-> [x \in S |-> Pass(x, n)]]
<1>1. SubmitAll = (CHOOSE f : f = F(f))[NumEnvs]
  BY DEF SubmitAll
<1>2. ASSUME NEW n \in 1 .. NumEnvs, NEW x \in S PROVE Pass(x, n) \in S
  <2>1. n - 1 \in Envs
    BY Constants
  <2>2. CASE latest[n - 1].submitted
    BY <1>2, <2>2
  <2>3. CASE ~latest[n - 1].submitted
    <3> DEFINE s == [env |-> n - 1, tick |-> controlTick, episode |-> latest[n - 1].episode]
    <3>1. latest[n - 1].episode = episode[n - 1] /\ episode[n - 1] \in Nat
      BY <2>1, <2>3 DEF Waiting
    <3>2. /\ s \in Submissions /\ s.tick = controlTick /\ s.env = n - 1
          /\ s.episode = episode[n - 1]
      BY <2>1, <3>1 DEF Submissions
    <3> HIDE DEF s
    <3>3. Submit(x, s) \in S
      BY <3>2, SubmitInLine
    <3> QED BY <2>3, <3>3 DEF s
  <2> QED BY <2>2, <2>3
<1>3. pipe \in S /\ NumEnvs \in Nat
  BY Constants
<1> HIDE DEF Pass, S
<1>4. step \in [1 .. NumEnvs -> [S -> S]]
  BY <1>2
<1>5. \A n \in 1 .. NumEnvs, x \in S : step[n][x] = Pass(x, n)
  OBVIOUS
<1> HIDE DEF step
<1>6. PICK f : IsLoop(f, NumEnvs, S, pipe, step)
  BY <1>3, <1>4, LoopExists
<1>7. f = F(f)
  <2>1. \A n \in 1 .. NumEnvs : n - 1 \in 0 .. NumEnvs
    BY <1>3
  <2>2. \A n \in 1 .. NumEnvs : f[n] = Pass(f[n - 1], n)
    BY <1>5, <1>6, <2>1 DEF IsLoop
  <2>3. \A n \in 0 .. NumEnvs : f[n] = IF n = 0 THEN pipe ELSE Pass(f[n - 1], n)
    BY <1>3, <1>6, <2>2 DEF IsLoop
  <2> QED BY <1>6, <2>3 DEF IsLoop
<1> DEFINE g == CHOOSE h : h = F(h)
<1>8. g = F(g)
  BY <1>7
<1> HIDE DEF g
<1>9. /\ g[0] = pipe /\ \A n \in 1 .. NumEnvs : g[n] = Pass(g[n - 1], n)
  <2>1. \A n \in 0 .. NumEnvs : g[n] = IF n = 0 THEN pipe ELSE Pass(g[n - 1], n)
    BY <1>8
  <2>2. 0 \in 0 .. NumEnvs /\ \A n \in 1 .. NumEnvs : n \in 0 .. NumEnvs /\ n # 0
    BY <1>3
  <2> QED BY <2>1, <2>2
<1> DEFINE T == {n \in 0 .. NumEnvs : g[n] \in S}
<1>10. 0 .. NumEnvs \subseteq T
  <2>1. 0 \in T
    BY <1>3, <1>9
  <2>2. \A n \in 1 .. NumEnvs : n - 1 \in T => n \in T
    BY <1>2, <1>9
  <2> HIDE DEF T
  <2> QED BY <1>3, <2>1, <2>2, Climbs
<1>11. g[NumEnvs] \in S
  BY <1>3, <1>10
<1> QED BY <1>1, <1>11 DEF g, S, AllInLine

-----------------------------------------------------------------------------
\* poll releases the first k submissions, each of which is ready, and keeps the rest.
Polls(p, t, k) ==
    /\ k \in 0 .. Len(p.queue)
    /\ Released(p, t) \in Seq(Submissions) /\ Len(Released(p, t)) = k
    /\ \A i \in 1 .. k : Released(p, t)[i] = p.queue[i] /\ p.queue[i].tick + Latency <= t
    /\ Poll(p, t) \in Pipes /\ Len(Poll(p, t).queue) = Len(p.queue) - k
    /\ \A i \in 1 .. Len(p.queue) - k : Poll(p, t).queue[i] = p.queue[k + i]

LEMMA ReleasableIs ==
    ASSUME NEW queue, Len(queue) \in Nat, NEW t
    PROVE  /\ Releasable(queue, t) \in 0 .. Len(queue)
           /\ \A i \in 1 .. Releasable(queue, t) : Ready(queue[i], t)
<1> DEFINE Stops(n) == n = InferBatch \/ n = Len(queue) \/ ~Ready(queue[n + 1], t)
           D == {n \in 0 .. Len(queue) : Stops(n)}
           Fits(n) == /\ n <= InferBatch
                      /\ \A i \in 1 .. n : Ready(queue[i], t)
                      /\ Stops(n)
<1>1. D \in SUBSET Nat /\ D # {}
  <2>1. Len(queue) \in D
    OBVIOUS
  <2> QED BY <2>1
<1>2. PICK k \in D : \A n \in D : k <= n
  <2> HIDE DEF D
  <2> QED BY <1>1, LeastOf
<1>a. k \in 0 .. Len(queue) /\ k \in Nat
  OBVIOUS
<1>3. ASSUME NEW i \in 1 .. k PROVE Ready(queue[i], t)
  <2>1. i - 1 \in 0 .. Len(queue) /\ ~(k <= i - 1) /\ (i - 1) + 1 = i
    BY <1>a
  <2>2. i - 1 \notin D
    <3> HIDE DEF D
    <3> QED BY <1>2, <2>1
  <2> QED BY <2>1, <2>2
<1>4. k <= InferBatch
  <2>1. InferBatch \in Nat
    BY Constants
  <2>2. InferBatch \in 0 .. Len(queue) => InferBatch \in D
    OBVIOUS
  <2>3. InferBatch \in D => k <= InferBatch
    <3> HIDE DEF D
    <3> QED BY <1>2
  <2> HIDE DEF D
  <2> QED BY <1>a, <2>1, <2>2, <2>3
<1>5. k \in 0 .. Len(queue) /\ Fits(k)
  BY <1>2, <1>3, <1>4
<1>6. Releasable(queue, t) = CHOOSE n \in 0 .. Len(queue) : Fits(n)
  BY DEF Releasable
<1> HIDE DEF Fits
<1>7. Releasable(queue, t) \in 0 .. Len(queue) /\ Fits(Releasable(queue, t))
  BY <1>5, <1>6
<1> QED BY <1>7 DEF Fits

LEMMA PollsSome ==
    ASSUME NEW p \in Pipes, NEW t \in Nat
    PROVE  \E k : Polls(p, t, k)
<1> DEFINE q == p.queue
           k == Releasable(q, t)
           first == SubSeq(q, 1, k)
           rest == SubSeq(q, k + 1, Len(q))
<1>1. q \in Seq(Submissions) /\ Len(q) \in Nat /\ p.dropped \in Nat
  BY DEF Pipes
<1>2. k \in 0 .. Len(q) /\ \A i \in 1 .. k : Ready(q[i], t)
  BY <1>1, ReleasableIs
<1>3. Released(p, t) = first /\ Poll(p, t) = [p EXCEPT !.queue = rest]
  BY DEF Released, Poll
<1> HIDE DEF q, k
<1>4. /\ first \in Seq(Submissions) /\ Len(first) = k
      /\ \A i \in 1 .. k : first[i] = q[i]
  BY <1>1, <1>2
<1>5. /\ rest \in Seq(Submissions) /\ Len(rest) = Len(q) - k
      /\ \A i \in 1 .. Len(q) - k : rest[i] = q[k + i]
  BY <1>1, <1>2
<1> HIDE DEF first, rest
<1>6. Poll(p, t) \in Pipes /\ Poll(p, t).queue = rest
  BY <1>1, <1>3, <1>5 DEF Pipes
<1>7. \A i \in 1 .. k : q[i].tick + Latency <= t
  BY <1>2 DEF Ready
<1>8. Polls(p, t, k)
  BY <1>2, <1>3, <1>4, <1>5, <1>6, <1>7 DEF Polls, q
<1> QED BY <1>8

LEMMA PollInLine ==
    ASSUME NEW p \in Pipes, NEW lo \in Int, NEW hi \in Nat, NEW episodes, NEW t, NEW k,
           InLine(p.queue, lo, hi, episodes), Polls(p, t, k)
    PROVE  InLine(Poll(p, t).queue, lo, hi, episodes)
<1> DEFINE q == p.queue
           r == Poll(p, t).queue
<1>1. /\ q \in Seq(Submissions) /\ Len(q) \in Nat /\ Len(q) <= MaxPending
      /\ \A i \in 1 .. Len(q) : /\ lo <= q[i].tick /\ q[i].tick <= hi
                                /\ q[i].episode = episodes[q[i].env]
      /\ \A i, j \in 1 .. Len(q) : i <= j => q[i].tick <= q[j].tick
  <2>1. q \in Seq(Submissions)
    BY DEF Pipes
  <2> QED BY <2>1 DEF InLine
<1>2. /\ r \in Seq(Submissions) /\ Len(r) = Len(q) - k /\ k \in 0 .. Len(q)
      /\ \A i \in 1 .. Len(q) - k : r[i] = q[k + i]
  BY DEF Polls, Pipes
<1> HIDE DEF q, r
<1>3. \A i \in 1 .. Len(r) : k + i \in 1 .. Len(q) /\ r[i] = q[k + i]
  BY <1>1, <1>2
<1>4. \A i, j \in 1 .. Len(r) : i <= j => k + i <= k + j
  BY <1>1, <1>2
<1>5. Len(r) <= MaxPending
  BY <1>1, <1>2, Constants
<1>6. \A i \in 1 .. Len(r) : /\ lo <= r[i].tick /\ r[i].tick <= hi
                             /\ r[i].episode = episodes[r[i].env]
  BY <1>1, <1>3
<1>7. \A i, j \in 1 .. Len(r) : i <= j => r[i].tick <= r[j].tick
  BY <1>1, <1>3, <1>4
<1>8. InLine(r, lo, hi, episodes)
  BY <1>2, <1>5, <1>6, <1>7 DEF InLine
<1> QED BY <1>8 DEF r

-----------------------------------------------------------------------------
\* What drop_env leaves of a queue: none of the env's submissions, the rest in order.
Thinned(rest, queue, env) ==
    /\ rest \in Seq(Submissions) /\ Len(rest) <= Len(queue)
    /\ \A i \in 1 .. Len(rest) :
         rest[i].env # env /\ \E m \in 1 .. Len(queue) : rest[i] = queue[m]
    /\ \A i, j \in 1 .. Len(rest) : i <= j => rest[i].tick <= rest[j].tick

Ordered(queue) == \A i, j \in 1 .. Len(queue) : i <= j => queue[i].tick <= queue[j].tick

\* The loop that keeps them, after n submissions.
KeptSoFar(kept, queue, env, n) ==
    /\ kept \in Seq(Submissions) /\ Len(kept) <= n
    /\ \A i \in 1 .. Len(kept) :
         kept[i].env # env /\ \E m \in 1 .. n : kept[i] = queue[m]
    /\ Ordered(kept)

LEMMA KeepsOn ==
    ASSUME NEW queue \in Seq(Submissions), Ordered(queue), NEW env, NEW n \in 1 .. Len(queue),
           NEW kept, KeptSoFar(kept, queue, env, n - 1)
    PROVE  /\ queue[n].env = env => KeptSoFar(kept, queue, env, n)
           /\ queue[n].env # env => KeptSoFar(Append(kept, queue[n]), queue, env, n)
<1>1. /\ kept \in Seq(Submissions) /\ Len(kept) \in Nat /\ Len(kept) <= n - 1
      /\ \A i \in 1 .. Len(kept) : kept[i] \in Submissions
      /\ \A i \in 1 .. Len(kept) :
           kept[i].env # env /\ \E m \in 1 .. n - 1 : kept[i] = queue[m]
      /\ \A i, j \in 1 .. Len(kept) : i <= j => kept[i].tick <= kept[j].tick
  BY DEF KeptSoFar, Ordered
<1>2. /\ Len(queue) \in Nat /\ n \in Nat /\ queue[n] \in Submissions
      /\ 1 .. n - 1 \subseteq 1 .. n
  OBVIOUS
<1>3. CASE queue[n].env = env
  <2>1. \A i \in 1 .. Len(kept) : kept[i].env # env /\ \E m \in 1 .. n : kept[i] = queue[m]
    BY <1>1, <1>2
  <2>2. Len(kept) <= n
    BY <1>1, <1>2
  <2> QED BY <1>1, <1>3, <2>1, <2>2 DEF KeptSoFar, Ordered
<1>4. CASE queue[n].env # env
  <2> DEFINE more == Append(kept, queue[n])
  <2>1. /\ more \in Seq(Submissions) /\ Len(more) = Len(kept) + 1
        /\ \A i \in 1 .. Len(kept) : more[i] = kept[i]
        /\ more[Len(kept) + 1] = queue[n]
    BY <1>1, <1>2
  <2> HIDE DEF more
  <2>2. \A i \in 1 .. Len(more) : i \in 1 .. Len(kept) \/ i = Len(kept) + 1
    BY <1>1, <2>1
  <2>3. \A i \in 1 .. Len(more) : more[i].env # env /\ \E m \in 1 .. n : more[i] = queue[m]
    <3>1. \A i \in 1 .. Len(kept) : more[i].env # env /\ \E m \in 1 .. n : more[i] = queue[m]
      BY <1>1, <1>2, <2>1
    <3>2. n \in 1 .. n
      BY <1>2
    <3> QED BY <1>4, <2>1, <2>2, <3>1, <3>2
  <2>4. \A i \in 1 .. Len(kept) : kept[i].tick <= queue[n].tick
    <3> SUFFICES ASSUME NEW i \in 1 .. Len(kept) PROVE kept[i].tick <= queue[n].tick
      OBVIOUS
    <3>1. PICK m \in 1 .. n - 1 : kept[i] = queue[m]
      BY <1>1
    <3>2. m \in 1 .. Len(queue) /\ m <= n
      BY <1>2
    <3> QED BY <3>1, <3>2 DEF Ordered
  <2>5. Ordered(more)
    <3> SUFFICES ASSUME NEW i \in 1 .. Len(more), NEW j \in 1 .. Len(more), i <= j
                 PROVE  more[i].tick <= more[j].tick
      BY DEF Ordered
    <3>1. CASE j \in 1 .. Len(kept)
      <4>1. i \in 1 .. Len(kept)
        BY <1>1, <2>1, <3>1
      <4> QED BY <1>1, <2>1, <3>1, <4>1
    <3>2. CASE j = Len(kept) + 1 /\ i \in 1 .. Len(kept)
      BY <2>1, <2>4, <3>2
    <3>3. CASE j = Len(kept) + 1 /\ i = Len(kept) + 1
      <4>1. more[i].tick \in Nat
        BY <1>2, <2>1, <3>3 DEF Submissions
      <4> QED BY <3>3, <4>1
    <3> QED BY <2>2, <3>1, <3>2, <3>3
  <2>6. Len(more) <= n
    BY <1>1, <1>2, <2>1
  <2>7. KeptSoFar(more, queue, env, n)
    BY <2>1, <2>3, <2>5, <2>6 DEF KeptSoFar
  <2> QED BY <1>4, <2>7 DEF more
<1> QED BY <1>3, <1>4

LEMMA DropThins ==
    ASSUME NEW p \in Pipes, Ordered(p.queue), NEW env
    PROVE  DropEnv(p, env) \in Pipes /\ Thinned(DropEnv(p, env).queue, p.queue, env)
<1> DEFINE q == p.queue
           N == Len(q)
           Pass(x, n) == IF q[n].env = env THEN x ELSE Append(x, q[n])
           F(f) == [n \in 0 .. N |-> IF n = 0 THEN << >> ELSE Pass(f[n - 1], n)]
           S == Seq(Submissions)
           step == [n \in 1 .. N |-> [x \in S |-> Pass(x, n)]]
           g == CHOOSE h : h = F(h)
<1>1. q \in S /\ N \in Nat /\ p.dropped \in Nat /\ << >> \in S
      /\ \A n \in 1 .. N : q[n] \in Submissions
  BY DEF Pipes
<1>2. DropEnv(p, env) = [p EXCEPT !.queue = g[N]]
  BY DEF DropEnv
<1>3. \A n \in 1 .. N, x \in S : Pass(x, n) \in S
  BY <1>1
<1> HIDE DEF q, N, S, Pass
<1>4. step \in [1 .. N -> [S -> S]]
  BY <1>3
<1>5. \A n \in 1 .. N, x \in S : step[n][x] = Pass(x, n)
  OBVIOUS
<1> HIDE DEF step
<1>6. PICK f : IsLoop(f, N, S, << >>, step)
  BY <1>1, <1>4, LoopExists
<1>7. f = F(f)
  <2>1. \A n \in 1 .. N : n - 1 \in 0 .. N
    BY <1>1
  <2>2. \A n \in 1 .. N : f[n] = Pass(f[n - 1], n)
    BY <1>5, <1>6, <2>1 DEF IsLoop
  <2>3. \A n \in 0 .. N : f[n] = IF n = 0 THEN << >> ELSE Pass(f[n - 1], n)
    BY <1>1, <1>6, <2>2 DEF IsLoop
  <2> QED BY <1>6, <2>3 DEF IsLoop
<1>8. g = F(g)
  BY <1>7
<1> HIDE DEF g
<1>9. g[0] = << >> /\ \A n \in 1 .. N : g[n] = Pass(g[n - 1], n)
  <2>1. \A n \in 0 .. N : g[n] = IF n = 0 THEN << >> ELSE Pass(g[n - 1], n)
    BY <1>8
  <2>2. 0 \in 0 .. N /\ \A n \in 1 .. N : n \in 0 .. N /\ n # 0
    BY <1>1
  <2> QED BY <2>1, <2>2
<1> DEFINE T == {n \in 0 .. N : KeptSoFar(g[n], q, env, n)}
<1>10. 0 .. N \subseteq T
  <2>1. KeptSoFar(<< >>, q, env, 0)
    BY <1>1 DEF KeptSoFar, Ordered, S
  <2>2. 0 \in T
    BY <1>1, <1>9, <2>1
  <2>3. \A n \in 1 .. N : n - 1 \in T => n \in T
    <3> SUFFICES ASSUME NEW n \in 1 .. N, KeptSoFar(g[n - 1], q, env, n - 1)
                 PROVE  KeptSoFar(g[n], q, env, n)
      OBVIOUS
    <3>1. q \in Seq(Submissions) /\ Ordered(q) /\ n \in 1 .. Len(q)
      BY <1>1 DEF q, N, S
    <3>2. /\ q[n].env = env => KeptSoFar(g[n - 1], q, env, n)
          /\ q[n].env # env => KeptSoFar(Append(g[n - 1], q[n]), q, env, n)
      BY <3>1, KeepsOn
    <3> QED BY <1>9, <3>2 DEF Pass
  <2> HIDE DEF T
  <2> QED BY <1>1, <2>2, <2>3, Climbs
<1>11. KeptSoFar(g[N], q, env, N)
  BY <1>1, <1>10
<1>12. g[N] \in Seq(Submissions) /\ Thinned(g[N], q, env)
  BY <1>11 DEF KeptSoFar, Thinned, Ordered, N
<1>13. DropEnv(p, env) \in Pipes /\ DropEnv(p, env).queue = g[N]
  BY <1>1, <1>2, <1>12 DEF Pipes
<1> QED BY <1>12, <1>13 DEF q

\* What thinning a queue keeps: its line, and the envs it has nothing of.
LEMMA ThinnedInLine ==
    ASSUME NEW rest, NEW queue, NEW env, Thinned(rest, queue, env),
           NEW lo \in Int, NEW hi \in Nat, NEW episodes, InLine(queue, lo, hi, episodes)
    PROVE  InLine(rest, lo, hi, episodes)
<1>1. /\ Len(rest) \in Nat /\ Len(queue) \in Nat
      /\ Len(rest) <= Len(queue) /\ Len(queue) <= MaxPending
  BY DEF Thinned, InLine
<1>2. Len(rest) <= MaxPending
  BY <1>1, Constants
<1>3. \A i \in 1 .. Len(rest) : /\ lo <= rest[i].tick /\ rest[i].tick <= hi
                                /\ rest[i].episode = episodes[rest[i].env]
  BY DEF Thinned, InLine
<1> QED BY <1>2, <1>3 DEF Thinned, InLine

\* The pipeline after reset_env of the envs of done.
ResetLine(p, done, lo, hi, episodes) ==
    /\ p \in Pipes /\ InLine(p.queue, lo, hi, episodes)
    /\ \A i \in 1 .. Len(p.queue) : p.queue[i].env \notin done

LEMMA ResetInLine ==
    ASSUME pipe \in Pipes, NEW lo \in Int, NEW hi \in Nat, InLine(pipe.queue, lo, hi, episode),
           NEW done, ResetEnvs(done)
    PROVE  ResetLine(pipe', done, lo, hi, episode)
<1> DEFINE Pass(x, n) == IF n - 1 \in done THEN DropEnv(x, n - 1) ELSE x
           F(f) == [n \in 0 .. NumEnvs |-> IF n = 0 THEN pipe ELSE Pass(f[n - 1], n)]
           S == {x \in Pipes : InLine(x.queue, lo, hi, episode)}
           step == [n \in 1 .. NumEnvs |-> [x \in S |-> Pass(x, n)]]
           g == CHOOSE h : h = F(h)
           Gone(x, n) == \A i \in 1 .. Len(x.queue) :
                           ~(x.queue[i].env \in done /\ x.queue[i].env < n)
<1>1. pipe' = g[NumEnvs]
  <2>1. F(g) = [n \in 0 .. NumEnvs |->
                  IF n = 0 THEN pipe
                  ELSE IF n - 1 \in done THEN DropEnv(g[n - 1], n - 1) ELSE g[n - 1]]
    OBVIOUS
  <2> QED BY DEF ResetEnvs
<1>2. pipe \in S /\ NumEnvs \in Nat
  BY Constants
<1>3. ASSUME NEW n \in 1 .. NumEnvs, NEW x \in S, Gone(x, n - 1)
      PROVE  Pass(x, n) \in S /\ Gone(Pass(x, n), n)
  <2>0. n - 1 \in Envs /\ n \in Nat
    BY Constants
  <2>1. x \in Pipes /\ InLine(x.queue, lo, hi, episode) /\ Ordered(x.queue)
    BY DEF InLine, Ordered
  <2>2. CASE n - 1 \in done
    <3> DEFINE y == DropEnv(x, n - 1)
    <3>1. y \in Pipes /\ Thinned(y.queue, x.queue, n - 1)
      BY <2>1, DropThins
    <3> HIDE DEF y
    <3>2. InLine(y.queue, lo, hi, episode)
      BY <2>1, <3>1, ThinnedInLine
    <3>3. \A i \in 1 .. Len(y.queue) :
            /\ y.queue[i].env # n - 1
            /\ y.queue[i].env \in Envs
            /\ ~(y.queue[i].env \in done /\ y.queue[i].env < n - 1)
      <4>1. \A i \in 1 .. Len(y.queue) : y.queue[i] \in Submissions
        BY <3>1 DEF Thinned
      <4> QED BY <1>3, <3>1, <4>1 DEF Thinned, Submissions
    <3>4. Gone(y, n)
      BY <2>0, <3>3, Constants
    <3> QED BY <2>2, <3>1, <3>2, <3>4 DEF y
  <2>3. CASE n - 1 \notin done
    <3>1. \A i \in 1 .. Len(x.queue) : x.queue[i].env \in Envs
      <4>1. \A i \in 1 .. Len(x.queue) : x.queue[i] \in Submissions
        BY <2>1 DEF InLine
      <4> QED BY <4>1 DEF Submissions
    <3>2. Gone(x, n)
      BY <1>3, <2>0, <2>3, <3>1, Constants
    <3> QED BY <1>3, <2>3, <3>2
  <2> QED BY <2>2, <2>3
<1>4. ASSUME NEW n \in 1 .. NumEnvs, NEW x \in S PROVE Pass(x, n) \in S
  <2>1. x \in Pipes /\ InLine(x.queue, lo, hi, episode) /\ Ordered(x.queue)
    BY DEF InLine, Ordered
  <2>2. CASE n - 1 \in done
    BY <2>1, <2>2, DropThins, ThinnedInLine
  <2>3. CASE n - 1 \notin done
    BY <2>3
  <2> QED BY <2>2, <2>3
<1>5. Gone(pipe, 0)
  <2>1. \A i \in 1 .. Len(pipe.queue) : pipe.queue[i].env \in Nat
    <3>1. \A i \in 1 .. Len(pipe.queue) : pipe.queue[i] \in Submissions
      BY DEF InLine
    <3> QED BY <3>1, Constants DEF Submissions
  <2> QED BY <2>1
<1> HIDE DEF Pass, S, Gone
<1>6. step \in [1 .. NumEnvs -> [S -> S]]
  BY <1>4
<1>7. \A n \in 1 .. NumEnvs, x \in S : step[n][x] = Pass(x, n)
  OBVIOUS
<1> HIDE DEF step
<1>8. PICK f : IsLoop(f, NumEnvs, S, pipe, step)
  BY <1>2, <1>6, LoopExists
<1>9. f = F(f)
  <2>1. \A n \in 1 .. NumEnvs : n - 1 \in 0 .. NumEnvs
    BY <1>2
  <2>2. \A n \in 1 .. NumEnvs : f[n] = Pass(f[n - 1], n)
    BY <1>7, <1>8, <2>1 DEF IsLoop
  <2>3. \A n \in 0 .. NumEnvs : f[n] = IF n = 0 THEN pipe ELSE Pass(f[n - 1], n)
    BY <1>2, <1>8, <2>2 DEF IsLoop
  <2> QED BY <1>8, <2>3 DEF IsLoop
<1>10. g = F(g)
  BY <1>9
<1> HIDE DEF g
<1>11. g[0] = pipe /\ \A n \in 1 .. NumEnvs : g[n] = Pass(g[n - 1], n)
  <2>1. \A n \in 0 .. NumEnvs : g[n] = IF n = 0 THEN pipe ELSE Pass(g[n - 1], n)
    BY <1>10
  <2>2. 0 \in 0 .. NumEnvs /\ \A n \in 1 .. NumEnvs : n \in 0 .. NumEnvs /\ n # 0
    BY <1>2
  <2> QED BY <2>1, <2>2
<1> DEFINE T == {n \in 0 .. NumEnvs : g[n] \in S /\ Gone(g[n], n)}
<1>12. 0 .. NumEnvs \subseteq T
  <2>1. 0 \in T
    BY <1>2, <1>5, <1>11
  <2>2. \A n \in 1 .. NumEnvs : n - 1 \in T => n \in T
    BY <1>3, <1>11
  <2> HIDE DEF T
  <2> QED BY <1>2, <2>1, <2>2, Climbs
<1>13. g[NumEnvs] \in S /\ Gone(g[NumEnvs], NumEnvs)
  BY <1>2, <1>12
<1>14. \A i \in 1 .. Len(g[NumEnvs].queue) : g[NumEnvs].queue[i].env \notin done
  <2>1. \A i \in 1 .. Len(g[NumEnvs].queue) : g[NumEnvs].queue[i] \in Submissions
    BY <1>13 DEF S, InLine
  <2>2. \A i \in 1 .. Len(g[NumEnvs].queue) : g[NumEnvs].queue[i].env < NumEnvs
    BY <1>2, <2>1, Constants DEF Submissions
  <2> QED BY <1>13, <2>2 DEF Gone
<1> QED BY <1>1, <1>13, <1>14 DEF S, ResetLine

-----------------------------------------------------------------------------
(***************************************************************************)
(* A chunk buffer: it stores chunks of one episode, from now or before, in *)
(* the order of their arrival, and replaces none by an earlier one.        *)
(***************************************************************************)
Slots == [start : Nat, valid : {H}, seq : Nat, episode : Nat]
Buffers == [chunks : SUBSET Slots, next : Nat \ {0}]

Stored(b, ep, now) ==
    /\ b \in Buffers /\ IsFiniteSet(b.chunks) /\ Cardinality(b.chunks) <= ChunkSlots
    /\ \A c \in b.chunks : c.seq < b.next /\ c.episode = ep /\ c.start <= now
    /\ \A c, d \in b.chunks : /\ c.seq < d.seq => c.start <= d.start
                              /\ c.seq = d.seq => c = d

\* Each chunk of b is still there, or one that starts no earlier.
Succeeds(after, b) == \A c \in b.chunks : \E d \in after.chunks : c.start <= d.start

LEMMA OldestIs ==
    ASSUME NEW chunks \in SUBSET Slots, chunks # {}
    PROVE  Oldest(chunks) \in chunks /\ \A d \in chunks : Oldest(chunks).seq <= d.seq
<1> DEFINE D == {c.seq : c \in chunks}
<1>1. D \in SUBSET Nat /\ D # {}
  BY DEF Slots
<1>2. PICK m \in D : \A n \in D : m <= n
  <2> HIDE DEF D
  <2> QED BY <1>1, LeastOf
<1>3. PICK c \in chunks : c.seq = m
  BY <1>2
<1>4. \A d \in chunks : c.seq <= d.seq
  BY <1>2, <1>3
<1> QED BY <1>3, <1>4 DEF Oldest

Pushed(after, b, ep, now, arrival) ==
    /\ Stored(after, ep, now) /\ after.next = b.next + 1 /\ Succeeds(after, b)
    /\ \A c \in after.chunks : c \in b.chunks \/ c.start = arrival

LEMMA PushStores ==
    ASSUME NEW b, NEW ep \in Nat, NEW now \in Nat, Stored(b, ep, now),
           NEW arrival \in Nat, arrival <= now, \A c \in b.chunks : c.start <= arrival
    PROVE  Pushed(Push(b, [valid |-> H, episode |-> ep], arrival), b, ep, now, arrival)
<1> DEFINE slot == [start |-> arrival, valid |-> H, seq |-> b.next, episode |-> ep]
           kept == IF Cardinality(b.chunks) < ChunkSlots THEN b.chunks
                   ELSE b.chunks \ {Oldest(b.chunks)}
           after == [chunks |-> kept \cup {slot}, next |-> b.next + 1]
<1>0. H # 0 /\ ChunkSlots \in Nat \ {0}
  BY Constants
<1>1. Push(b, [valid |-> H, episode |-> ep], arrival) = after
  BY <1>0 DEF Push
<1>2. /\ b.chunks \in SUBSET Slots /\ b.next \in Nat \ {0}
      /\ IsFiniteSet(b.chunks) /\ Cardinality(b.chunks) <= ChunkSlots
      /\ Cardinality(b.chunks) \in Nat
  BY FS_CardinalityType DEF Stored, Buffers
<1>3. /\ \A c \in b.chunks : c.seq < b.next /\ c.episode = ep /\ c.start <= now
      /\ \A c, d \in b.chunks : /\ c.seq < d.seq => c.start <= d.start
                                /\ c.seq = d.seq => c = d
  BY DEF Stored
<1>4. /\ kept \subseteq b.chunks /\ IsFiniteSet(kept) /\ Cardinality(kept) \in Nat
      /\ Cardinality(kept) < ChunkSlots
  <2>1. CASE Cardinality(b.chunks) < ChunkSlots
    BY <1>2, <2>1
  <2>2. CASE ~(Cardinality(b.chunks) < ChunkSlots)
    <3>1. b.chunks # {}
      BY <1>0, <1>2, <2>2, FS_EmptySet
    <3>2. Oldest(b.chunks) \in b.chunks
      BY <1>2, <3>1, OldestIs
    <3>3. kept = b.chunks \ {Oldest(b.chunks)}
      BY <2>2
    <3> HIDE DEF kept
    <3>4. IsFiniteSet(kept) /\ Cardinality(kept) = Cardinality(b.chunks) - 1
      <4> DEFINE x == Oldest(b.chunks)
      <4>1. x \in b.chunks /\ kept = b.chunks \ {x}
        BY <3>2, <3>3
      <4> HIDE DEF x
      <4> QED BY <1>2, <4>1, FS_RemoveElement
    <3>5. Cardinality(kept) \in Nat
      BY <3>4, FS_CardinalityType
    <3> QED BY <1>0, <1>2, <2>2, <3>3, <3>4, <3>5
  <2> QED BY <2>1, <2>2
<1> HIDE DEF kept
<1>5. /\ slot \in Slots /\ slot.seq = b.next /\ slot.start = arrival /\ slot.episode = ep
  BY <1>2 DEF Slots
<1> HIDE DEF slot
<1>6. IsFiniteSet(kept \cup {slot}) /\ Cardinality(kept \cup {slot}) <= ChunkSlots
  <2>1. /\ IsFiniteSet(kept \cup {slot})
        /\ Cardinality(kept \cup {slot})
             = IF slot \in kept THEN Cardinality(kept) ELSE Cardinality(kept) + 1
    BY <1>4, FS_AddElement
  <2> QED BY <1>0, <1>4, <2>1
<1>7. after \in Buffers /\ after.chunks = kept \cup {slot} /\ after.next = b.next + 1
  BY <1>2, <1>4, <1>5 DEF Buffers
<1> HIDE DEF after
<1>8. \A c \in after.chunks : c.seq < after.next /\ c.episode = ep /\ c.start <= now
  <2>1. \A c \in kept : c.seq < b.next + 1 /\ c.episode = ep /\ c.start <= now
    <3>1. \A c \in b.chunks : c.seq \in Nat
      BY <1>2 DEF Slots
    <3> QED BY <1>2, <1>3, <1>4, <3>1
  <2> QED BY <1>2, <1>5, <1>7, <2>1
<1>9. ASSUME NEW c \in after.chunks, NEW d \in after.chunks
      PROVE  (c.seq < d.seq => c.start <= d.start) /\ (c.seq = d.seq => c = d)
  <2>1. CASE c \in kept /\ d \in kept
    BY <1>3, <1>4, <2>1
  <2>2. CASE c \in kept /\ d = slot
    <3>1. c.seq < d.seq /\ c.seq \in Nat /\ d.seq \in Nat /\ c.start <= d.start
      BY <1>2, <1>3, <1>4, <1>5, <2>2 DEF Slots
    <3> QED BY <3>1
  <2>3. CASE c = slot /\ d \in kept
    <3>1. d.seq < c.seq /\ c.seq \in Nat /\ d.seq \in Nat
      BY <1>2, <1>3, <1>4, <1>5, <2>3 DEF Slots
    <3> QED BY <3>1
  <2>4. CASE c = slot /\ d = slot
    BY <1>5, <2>4
  <2> QED BY <1>7, <2>1, <2>2, <2>3, <2>4
<1>10. Succeeds(after, b)
  <2>1. \A c \in b.chunks : c.start <= slot.start
    BY <1>5
  <2> QED BY <1>7, <2>1 DEF Succeeds
<1>11. \A c \in after.chunks : c \in b.chunks \/ c.start = arrival
  BY <1>4, <1>5, <1>7
<1>12. Stored(after, ep, now)
  BY <1>6, <1>7, <1>8, <1>9 DEF Stored
<1> QED BY <1>1, <1>7, <1>10, <1>11, <1>12 DEF Pushed

\* The buffer of env e after the results, which are the first of a queue: what starts
\* last in it starts no later than what the rest of the queue will bring.
Holds(b, ep, now, queue, n) ==
    /\ Stored(b, ep, now)
    /\ \A c \in b.chunks, i \in n + 1 .. Len(queue) : c.start <= queue[i].tick + Latency

ResultsOf(results, queue, k, e, ep, now) ==
    /\ queue \in Seq(Submissions) /\ Ordered(queue) /\ k \in 0 .. Len(queue)
    /\ results \in Seq(Submissions) /\ Len(results) = k
    /\ \A i \in 1 .. k : /\ results[i] = queue[i] /\ queue[i].tick + Latency <= now
                         /\ queue[i].env = e => queue[i].episode = ep

DeliveredBy(after, b, ep, now, queue, n, e) ==
    /\ Holds(after, ep, now, queue, n) /\ Succeeds(after, b)
    /\ IF \E i \in 1 .. n : queue[i].env = e THEN after.next > b.next ELSE after = b

LEMMA PushBuffers ==
    ASSUME NEW b \in Buffers, NEW ep \in Nat, NEW arrival \in Nat
    PROVE  Push(b, [valid |-> H, episode |-> ep], arrival) \in Buffers
<1> DEFINE slot == [start |-> arrival, valid |-> H, seq |-> b.next, episode |-> ep]
           kept == IF Cardinality(b.chunks) < ChunkSlots THEN b.chunks
                   ELSE b.chunks \ {Oldest(b.chunks)}
<1>1. b.chunks \in SUBSET Slots /\ b.next \in Nat \ {0} /\ b.next + 1 \in Nat \ {0} /\ H # 0
  BY Constants DEF Buffers
<1>2. kept \subseteq b.chunks /\ slot \in Slots
  BY <1>1 DEF Slots
<1>3. Push(b, [valid |-> H, episode |-> ep], arrival)
        = [chunks |-> kept \cup {slot}, next |-> b.next + 1]
  BY <1>1 DEF Push
<1> HIDE DEF kept, slot
<1>4. kept \cup {slot} \in SUBSET Slots
  BY <1>1, <1>2
<1> QED BY <1>1, <1>3, <1>4 DEF Buffers

LEMMA DeliversOn ==
    ASSUME NEW b, NEW e, NEW ep \in Nat, NEW now \in Nat, NEW queue, NEW k, NEW results,
           ResultsOf(results, queue, k, e, ep, now), Stored(b, ep, now),
           NEW n \in 1 .. k, NEW x, DeliveredBy(x, b, ep, now, queue, n - 1, e)
    PROVE  DeliveredBy(IF results[n].env # e THEN x
                       ELSE Push(x, [valid |-> H, episode |-> results[n].episode],
                                 results[n].tick + Latency),
                       b, ep, now, queue, n, e)
<1>1. /\ queue \in Seq(Submissions) /\ Len(queue) \in Nat /\ k \in 0 .. Len(queue)
      /\ n \in 1 .. Len(queue) /\ n \in Nat /\ queue[n] \in Submissions
      /\ results[n] = queue[n] /\ queue[n].tick + Latency <= now
      /\ queue[n].env = e => queue[n].episode = ep
  BY DEF ResultsOf
<1>2. /\ Stored(x, ep, now) /\ Succeeds(x, b)
      /\ \A c \in x.chunks, i \in n .. Len(queue) : c.start <= queue[i].tick + Latency
      /\ IF \E i \in 1 .. n - 1 : queue[i].env = e THEN x.next > b.next ELSE x = b
  <2>1. (n - 1) + 1 = n
    BY <1>1
  <2> QED BY <2>1 DEF DeliveredBy, Holds
<1>3. \A i \in n + 1 .. Len(queue) : i \in n .. Len(queue)
  BY <1>1
<1>4. (\E i \in 1 .. n : queue[i].env = e)
        <=> (\E i \in 1 .. n - 1 : queue[i].env = e) \/ queue[n].env = e
  BY <1>1
<1>5. CASE queue[n].env # e
  <2>1. Holds(x, ep, now, queue, n)
    BY <1>2, <1>3 DEF Holds
  <2>2. DeliveredBy(x, b, ep, now, queue, n, e)
    BY <1>2, <1>4, <1>5, <2>1 DEF DeliveredBy
  <2> QED BY <1>1, <1>5, <2>2
<1>6. CASE queue[n].env = e
  <2> DEFINE arrival == queue[n].tick + Latency
             y == Push(x, [valid |-> H, episode |-> ep], arrival)
  <2>0. queue[n].tick \in Nat /\ Latency \in Nat
    BY <1>1, Constants DEF Submissions
  <2>1. arrival \in Nat /\ arrival <= now
    BY <1>1, <2>0
  <2>2. \A c \in x.chunks : c.start <= arrival
    <3>1. n \in n .. Len(queue)
      BY <1>1
    <3> QED BY <1>2, <3>1
  <2> HIDE DEF arrival
  <2>3. Pushed(y, x, ep, now, arrival)
    BY <1>2, <2>1, <2>2, PushStores
  <2> HIDE DEF y
  <2>4. \A i \in n + 1 .. Len(queue) : arrival <= queue[i].tick + Latency
    <3>1. \A i \in n + 1 .. Len(queue) :
            i \in 1 .. Len(queue) /\ n <= i /\ queue[i] \in Submissions
      BY <1>1
    <3>2. \A i \in n + 1 .. Len(queue) : queue[n].tick <= queue[i].tick
      BY <1>1, <3>1 DEF ResultsOf, Ordered
    <3>3. \A i \in n + 1 .. Len(queue) : queue[i].tick \in Nat
      BY <3>1 DEF Submissions
    <3> SUFFICES ASSUME NEW i \in n + 1 .. Len(queue)
                 PROVE  queue[n].tick + Latency <= queue[i].tick + Latency
      BY DEF arrival
    <3>4. queue[n].tick <= queue[i].tick /\ queue[i].tick \in Nat
      BY <3>2, <3>3
    <3> QED BY <2>0, <3>4
  <2>5. Holds(y, ep, now, queue, n)
    BY <1>2, <1>3, <2>3, <2>4 DEF Holds, Pushed
  <2>6. Succeeds(y, b)
    <3> SUFFICES ASSUME NEW c \in b.chunks PROVE \E d \in y.chunks : c.start <= d.start
      BY DEF Succeeds
    <3>1. PICK d \in x.chunks : c.start <= d.start
      BY <1>2 DEF Succeeds
    <3>2. PICK f \in y.chunks : d.start <= f.start
      BY <2>3 DEF Pushed, Succeeds
    <3>3. c.start \in Nat /\ d.start \in Nat /\ f.start \in Nat
      <4>1. b \in Buffers /\ x \in Buffers /\ y \in Buffers
        BY <1>2, <2>3 DEF Stored, Pushed
      <4> QED BY <4>1 DEF Buffers, Slots
    <3>4. c.start <= f.start
      BY <3>1, <3>2, <3>3
    <3> QED BY <3>4
  <2>7. y.next > b.next
    <3>1. y.next = x.next + 1
      BY <2>3 DEF Pushed
    <3>2. b.next \in Nat /\ x.next \in Nat
      BY <1>2 DEF Stored, Buffers
    <3>3. x.next >= b.next
      BY <1>2, <3>2
    <3> QED BY <3>1, <3>2, <3>3
  <2>8. DeliveredBy(y, b, ep, now, queue, n, e)
    BY <1>4, <1>6, <2>5, <2>6, <2>7 DEF DeliveredBy
  <2> QED BY <1>1, <1>6, <2>8 DEF y, arrival
<1> QED BY <1>5, <1>6

LEMMA Delivers ==
    ASSUME NEW e, NEW ep \in Nat, NEW now \in Nat, NEW queue, NEW k, NEW results,
           ResultsOf(results, queue, k, e, ep, now), Holds(buffer[e], ep, now, queue, 0)
    PROVE  DeliveredBy(Deliver(results, e), buffer[e], ep, now, queue, k, e)
<1> DEFINE b == buffer[e]
           Pass(x, n) ==
             IF results[n].env # e THEN x
             ELSE Push(x, [valid |-> H, episode |-> results[n].episode],
                       results[n].tick + Latency)
           F(f) == [n \in 0 .. k |-> IF n = 0 THEN b ELSE Pass(f[n - 1], n)]
           step == [n \in 1 .. k |-> [x \in Buffers |-> Pass(x, n)]]
           g == CHOOSE h : h = F(h)
<1>0. k \in Nat /\ Len(results) = k /\ results \in Seq(Submissions)
  BY DEF ResultsOf
<1>1. Deliver(results, e) = g[k]
  BY <1>0 DEF Deliver
<1>2. b \in Buffers /\ Stored(b, ep, now)
  BY DEF Holds, Stored
<1>3. \A n \in 1 .. k, x \in Buffers : Pass(x, n) \in Buffers
  <2> SUFFICES ASSUME NEW n \in 1 .. k, NEW x \in Buffers PROVE Pass(x, n) \in Buffers
    OBVIOUS
  <2>1. results[n] \in Submissions
    BY <1>0
  <2> DEFINE own == results[n].episode
             arrival == results[n].tick + Latency
  <2>2. own \in Nat /\ arrival \in Nat
    <3>1. results[n].episode \in Nat /\ results[n].tick \in Nat
      BY <2>1 DEF Submissions
    <3> QED BY <3>1, Constants
  <2> HIDE DEF own, arrival
  <2>3. Push(x, [valid |-> H, episode |-> own], arrival) \in Buffers
    BY <2>2, PushBuffers
  <2> QED BY <2>3 DEF own, arrival
<1>4. \A n \in 1 .. k : \A x :
        DeliveredBy(x, b, ep, now, queue, n - 1, e)
          => DeliveredBy(Pass(x, n), b, ep, now, queue, n, e)
  <2> SUFFICES ASSUME NEW n \in 1 .. k, NEW x, DeliveredBy(x, b, ep, now, queue, n - 1, e)
               PROVE  DeliveredBy(Pass(x, n), b, ep, now, queue, n, e)
    OBVIOUS
  <2> HIDE DEF b
  <2> QED BY <1>2, DeliversOn
<1> HIDE DEF b, Pass
<1>5. step \in [1 .. k -> [Buffers -> Buffers]]
  BY <1>3
<1>6. \A n \in 1 .. k, x \in Buffers : step[n][x] = Pass(x, n)
  OBVIOUS
<1> HIDE DEF step
<1>7. PICK f : IsLoop(f, k, Buffers, b, step)
  BY <1>0, <1>2, <1>5, LoopExists
<1>8. f = F(f)
  <2>1. \A n \in 1 .. k : n - 1 \in 0 .. k
    BY <1>0
  <2>2. \A n \in 1 .. k : f[n] = Pass(f[n - 1], n)
    BY <1>6, <1>7, <2>1 DEF IsLoop
  <2>3. \A n \in 0 .. k : f[n] = IF n = 0 THEN b ELSE Pass(f[n - 1], n)
    BY <1>0, <1>7, <2>2 DEF IsLoop
  <2> QED BY <1>7, <2>3 DEF IsLoop
<1>9. g = F(g)
  BY <1>8
<1> HIDE DEF g
<1>10. g[0] = b /\ \A n \in 1 .. k : g[n] = Pass(g[n - 1], n)
  <2>1. \A n \in 0 .. k : g[n] = IF n = 0 THEN b ELSE Pass(g[n - 1], n)
    BY <1>9
  <2>2. 0 \in 0 .. k /\ \A n \in 1 .. k : n \in 0 .. k /\ n # 0
    BY <1>0
  <2> QED BY <2>1, <2>2
<1> DEFINE T == {n \in 0 .. k : DeliveredBy(g[n], b, ep, now, queue, n, e)}
<1>11. 0 .. k \subseteq T
  <2>1. DeliveredBy(b, b, ep, now, queue, 0, e)
    <3>1. Succeeds(b, b)
      <4>1. \A c \in b.chunks : c.start <= c.start
        BY <1>2 DEF Buffers, Slots
      <4> QED BY <4>1 DEF Succeeds
    <3>2. ~ \E i \in 1 .. 0 : queue[i].env = e
      OBVIOUS
    <3> QED BY <3>1, <3>2 DEF DeliveredBy, b
  <2>2. 0 \in T
    BY <1>0, <1>10, <2>1
  <2>3. \A n \in 1 .. k : n - 1 \in T => n \in T
    BY <1>4, <1>10
  <2> HIDE DEF T
  <2> QED BY <1>0, <2>2, <2>3, Climbs
<1>12. DeliveredBy(g[k], b, ep, now, queue, k, e)
  BY <1>0, <1>11
<1> QED BY <1>1, <1>12 DEF b

-----------------------------------------------------------------------------
(***************************************************************************)
(* What a buffer serves for a tick, as an operator of the deployment.      *)
(***************************************************************************)
Reach(dep) == IF dep.blend = "TemporalEnsemble" THEN H ELSE ExecuteChunk
Covering(dep, b, t) == {c \in b.chunks : c.start <= t /\ t < c.start + Reach(dep)}

Act(dep, b, t) ==
    LET order == ByArrival(Covering(dep, b, t))
        parts == [i \in DOMAIN order |-> Part(order[i], t)]
        n == Len(parts)
    IN  IF n < 2 \/ dep.blend = "TemporalEnsemble" THEN parts
        ELSE IF dep.blend = "LinearBlend" /\ ~(t - order[n].start + 1 >= dep.ramp)
          THEN SubSeq(parts, n - 1, n)
        ELSE SubSeq(parts, n, n)

LEMMA ReachIs == ASSUME NEW dep PROVE Reach(dep) \in 1 .. H /\ Reach(dep) \in Nat
BY Constants DEF Reach

LEMMA OverlappingIs ==
    ASSUME NEW b \in Buffers, NEW t \in Nat
    PROVE  Overlapping(b, t) = Covering(deployment, b, t)
<1>1. \A c \in b.chunks : c.start \in Nat /\ c.valid = H
  BY DEF Buffers, Slots
<1>2. \A c \in b.chunks : Span(c) = Reach(deployment)
  BY <1>1, Constants DEF Span, Reach
<1>3. Reach(deployment) \in Nat
  BY ReachIs
<1>4. \A c \in b.chunks :
        t \in c.start .. (c.start + Reach(deployment) - 1)
          <=> c.start <= t /\ t < c.start + Reach(deployment)
  BY <1>1, <1>3
<1>5. \A c \in b.chunks :
        t \in c.start .. (c.start + Span(c) - 1)
          <=> c.start <= t /\ t < c.start + Reach(deployment)
  BY <1>2, <1>4
<1> QED BY <1>5 DEF Overlapping, Covering

LEMMA ActionIs ==
    ASSUME NEW b \in Buffers, NEW t \in Nat
    PROVE  ActionAt(b, t) = Act(deployment, b, t)
<1>1. Overlapping(b, t) = Covering(deployment, b, t)
  BY OverlappingIs
<1> QED BY <1>1 DEF ActionAt, Act, Ramped

-----------------------------------------------------------------------------
\* Finitely many chunks of distinct arrivals can be sorted by them.
Distinct(chunks) == \A c, d \in chunks : c.seq = d.seq => c = d
Sorts(order, chunks) ==
    /\ order \in [1 .. Cardinality(chunks) -> chunks]
    /\ \A i, j \in DOMAIN order : i < j => order[i].seq < order[j].seq

LEMMA Sortable ==
    ASSUME NEW chunks \in SUBSET Slots, IsFiniteSet(chunks), Distinct(chunks)
    PROVE  \E order : Sorts(order, chunks)
<1> DEFINE Good(n) == \A C \in SUBSET chunks :
                        IsFiniteSet(C) /\ Cardinality(C) = n => \E order : Sorts(order, C)
           N == Cardinality(chunks)
           T == {n \in 0 .. N : Good(n)}
<1>1. N \in Nat
  BY FS_CardinalityType
<1>2. Good(0)
  <2> SUFFICES ASSUME NEW C \in SUBSET chunks, IsFiniteSet(C), Cardinality(C) = 0
               PROVE  \E order : Sorts(order, C)
    OBVIOUS
  <2> DEFINE none == [i \in 1 .. 0 |-> 0]
  <2>1. none \in [1 .. Cardinality(C) -> C] /\ DOMAIN none = 1 .. 0
    OBVIOUS
  <2> HIDE DEF none
  <2>2. Sorts(none, C)
    BY <2>1 DEF Sorts
  <2> QED BY <2>2
<1>3. ASSUME NEW n \in 1 .. N, Good(n - 1) PROVE Good(n)
  <2> SUFFICES ASSUME NEW C \in SUBSET chunks, IsFiniteSet(C), Cardinality(C) = n
               PROVE  \E order : Sorts(order, C)
    OBVIOUS
  <2> DEFINE first == Oldest(C)
             rest == C \ {first}
  <2>1. first \in C /\ \A d \in C : first.seq <= d.seq
    <3>1. C # {}
      BY FS_EmptySet
    <3> QED BY <3>1, OldestIs
  <2> HIDE DEF first
  <2>2. rest \in SUBSET chunks /\ IsFiniteSet(rest) /\ Cardinality(rest) = n - 1
    <3>1. IsFiniteSet(rest) /\ Cardinality(rest) = Cardinality(C) - 1
      BY <2>1, FS_RemoveElement
    <3> QED BY <3>1
  <2>3. \A d \in rest : d \in C /\ first.seq < d.seq
    <3>1. \A c \in chunks : c.seq \in Nat
      BY DEF Slots
    <3>2. \A d \in rest : d \in C /\ d # first /\ d \in chunks /\ first \in chunks
      BY <2>1
    <3> QED BY <2>1, <3>1, <3>2 DEF Distinct
  <2> HIDE DEF rest
  <2>4. PICK after : Sorts(after, rest)
    BY <1>3, <2>2
  <2> DEFINE order == [i \in 1 .. n |-> IF i = 1 THEN first ELSE after[i - 1]]
  <2>5. /\ after \in [1 .. n - 1 -> rest]
        /\ \A i, j \in 1 .. n - 1 : i < j => after[i].seq < after[j].seq
    BY <2>2, <2>4 DEF Sorts
  <2>6. \A i \in 1 .. n : i # 1 => i - 1 \in 1 .. n - 1
    OBVIOUS
  <2>7. order \in [1 .. n -> C] /\ DOMAIN order = 1 .. n
    BY <2>1, <2>3, <2>5, <2>6
  <2>8. order[1] = first /\ \A i \in 1 .. n : i # 1 => order[i] = after[i - 1]
    OBVIOUS
  <2> HIDE DEF order
  <2>9. ASSUME NEW i \in 1 .. n, NEW j \in 1 .. n, i < j PROVE order[i].seq < order[j].seq
    <3>1. j # 1 /\ order[j] = after[j - 1] /\ after[j - 1] \in rest
      BY <2>5, <2>6, <2>8, <2>9
    <3>2. CASE i = 1
      BY <2>3, <2>8, <3>1, <3>2
    <3>3. CASE i # 1
      BY <2>5, <2>6, <2>8, <2>9, <3>1, <3>3
    <3> QED BY <3>2, <3>3
  <2>10. Sorts(order, C)
    BY <2>7, <2>9 DEF Sorts
  <2> QED BY <2>10
<1> HIDE DEF Good, N
<1>4. 0 .. N \subseteq T
  <2>1. 0 \in T /\ \A n \in 1 .. N : n - 1 \in T => n \in T
    BY <1>1, <1>2, <1>3
  <2> HIDE DEF T
  <2> QED BY <1>1, <2>1, Climbs
<1>5. Good(N)
  BY <1>1, <1>4
<1> QED BY <1>5 DEF Good, N

LEMMA ByArrivalSorts ==
    ASSUME NEW chunks \in SUBSET Slots, IsFiniteSet(chunks), Distinct(chunks)
    PROVE  Sorts(ByArrival(chunks), chunks)
<1>1. PICK order : Sorts(order, chunks)
  BY Sortable
<1> DEFINE Sorted(f) == \A i, j \in DOMAIN f : i < j => f[i].seq < f[j].seq
<1>2. order \in [1 .. Cardinality(chunks) -> chunks] /\ Sorted(order)
  BY <1>1 DEF Sorts
<1>3. ByArrival(chunks) = CHOOSE f \in [1 .. Cardinality(chunks) -> chunks] : Sorted(f)
  BY DEF ByArrival
<1> HIDE DEF Sorted
<1>4. /\ ByArrival(chunks) \in [1 .. Cardinality(chunks) -> chunks]
      /\ Sorted(ByArrival(chunks))
  BY <1>2, <1>3
<1> QED BY <1>4 DEF Sorts, Sorted

-----------------------------------------------------------------------------
Parts == [chunk : Nat, row : Int, for : Nat, episode : Nat]
Actions == Seq(Parts)

\* An action for t blends rows that chunks which cover t have for it, and there is
\* one whenever a chunk covers it.
Serves(action, covering, t) ==
    /\ action \in Actions
    /\ action = << >> <=> covering = {}
    /\ \A i \in 1 .. Len(action) : \E c \in covering : action[i] = Part(c, t)

LEMMA ActServes ==
    ASSUME NEW dep, NEW b, NEW ep, NEW now, Stored(b, ep, now), NEW t \in Nat
    PROVE  Serves(Act(dep, b, t), Covering(dep, b, t), t)
<1> DEFINE C == Covering(dep, b, t)
           order == ByArrival(C)
           n == Cardinality(C)
           parts == [i \in DOMAIN order |-> Part(order[i], t)]
           one == SubSeq(parts, n, n)
           two == SubSeq(parts, n - 1, n)
<1>1. C \in SUBSET Slots /\ IsFiniteSet(C) /\ Distinct(C) /\ n \in Nat
  <2>1. b.chunks \in SUBSET Slots /\ C \in SUBSET b.chunks /\ IsFiniteSet(b.chunks)
    BY DEF Stored, Buffers, Covering
  <2>2. IsFiniteSet(C)
    <3> HIDE DEF C
    <3> QED BY <2>1, FS_Subset
  <2>3. Distinct(C)
    BY <2>1 DEF Stored, Distinct
  <2> HIDE DEF C
  <2> QED BY <2>1, <2>2, <2>3, FS_CardinalityType
<1>2. n = 0 <=> C = {}
  <2> HIDE DEF C
  <2> QED BY <1>1, FS_EmptySet
<1>3. order \in [1 .. n -> C]
  <2> HIDE DEF C
  <2> QED BY <1>1, ByArrivalSorts DEF Sorts
<1>4. Act(dep, b, t) \in {parts, one, two}
      /\ (n < 2 => Act(dep, b, t) = parts)
  <2>1. Len(parts) = n
    <3> HIDE DEF order, C, n
    <3>1. DOMAIN parts = 1 .. n
      BY <1>3
    <3>2. parts = [i \in 1 .. n |-> Part(order[i], t)]
      BY <1>3
    <3> HIDE DEF parts
    <3> QED BY <1>1, <3>1, <3>2
  <2>2. Act(dep, b, t)
          = IF Len(parts) < 2 \/ dep.blend = "TemporalEnsemble" THEN parts
            ELSE IF dep.blend = "LinearBlend"
                      /\ ~(t - order[Len(parts)].start + 1 >= dep.ramp)
              THEN SubSeq(parts, Len(parts) - 1, Len(parts))
            ELSE SubSeq(parts, Len(parts), Len(parts))
    BY DEF Act
  <2> HIDE DEF parts, n, order, C
  <2> QED BY <2>1, <2>2
<1> HIDE DEF C, n, order
<1>5. \A i \in 1 .. n : order[i] \in C /\ order[i] \in Slots
  BY <1>1, <1>3
<1>6. /\ parts \in Actions /\ Len(parts) = n
      /\ \A i \in 1 .. n : parts[i] = Part(order[i], t)
  <2>1. \A i \in 1 .. n : Part(order[i], t) \in Parts
    BY <1>5 DEF Part, Parts, Slots
  <2>2. parts \in [1 .. n -> Parts]
    BY <1>3, <2>1
  <2> QED BY <1>1, <1>3, <2>2 DEF Actions
<1> HIDE DEF parts
<1>7. CASE Act(dep, b, t) = parts
  <2>1. parts = << >> <=> C = {}
    BY <1>1, <1>2, <1>6 DEF Actions
  <2>2. \A i \in 1 .. Len(parts) : \E c \in C : parts[i] = Part(c, t)
    BY <1>5, <1>6
  <2> QED BY <1>6, <1>7, <2>1, <2>2 DEF Serves, C
<1>8. CASE n >= 2 /\ Act(dep, b, t) = one
  <2>1. one \in Actions /\ Len(one) = 1 /\ one[1] = parts[n]
    BY <1>1, <1>6, <1>8 DEF Actions
  <2> HIDE DEF one
  <2>2. n \in 1 .. n /\ C # {} /\ one # << >>
    <3>1. n \in 1 .. n /\ n # 0
      BY <1>1, <1>8
    <3>2. one # << >>
      <4>1. Len(one) = 1
        BY <2>1
      <4>2. Len(<< >>) = 0
        OBVIOUS
      <4> QED BY <4>1, <4>2
    <3> QED BY <1>1, <1>2, <3>1, <3>2
  <2>3. \A i \in 1 .. Len(one) : one[i] = Part(order[n], t) /\ order[n] \in C
    BY <1>5, <1>6, <2>1, <2>2
  <2> QED BY <1>8, <2>1, <2>2, <2>3 DEF Serves, C
<1>9. CASE n >= 2 /\ Act(dep, b, t) = two
  <2>1. /\ two \in Actions /\ Len(two) = 2
        /\ two[1] = parts[n - 1] /\ two[2] = parts[n]
    BY <1>1, <1>6, <1>9 DEF Actions
  <2> HIDE DEF two
  <2>2. n \in 1 .. n /\ n - 1 \in 1 .. n /\ C # {} /\ two # << >>
    <3>1. n \in 1 .. n /\ n - 1 \in 1 .. n /\ n # 0
      BY <1>1, <1>9
    <3>2. two # << >>
      BY <2>1
    <3> QED BY <1>2, <3>1, <3>2
  <2>3. \A i \in 1 .. Len(two) : \E c \in C : two[i] = Part(c, t)
    <3>1. /\ two[1] = Part(order[n - 1], t) /\ order[n - 1] \in C
          /\ two[2] = Part(order[n], t) /\ order[n] \in C
      BY <1>5, <1>6, <2>1, <2>2
    <3>2. \A i \in 1 .. Len(two) : i = 1 \/ i = 2
      BY <2>1
    <3> QED BY <3>1, <3>2
  <2> QED BY <1>9, <2>1, <2>2, <2>3 DEF Serves, C
<1> QED BY <1>1, <1>4, <1>7, <1>8, <1>9

-----------------------------------------------------------------------------
(***************************************************************************)
(* What plane_chunk hands over: nothing, or under a fresh number the rows  *)
(* that the buffer serves from this tick on.                               *)
(***************************************************************************)
Feeds == [seq : Nat, arrivals : Nat]

RowsFrom(dep, b, t, rows) ==
    /\ rows \in Seq(Actions) /\ Len(rows) <= H
    /\ \A j \in 1 .. Len(rows) : rows[j] = Act(dep, b, t + j - 1) /\ rows[j] # << >>

Hands(dep, b, f, t, after, rows) ==
    /\ RowsFrom(dep, b, t, rows)
    /\ \/ /\ after = f /\ rows = << >>
          /\ Act(dep, b, t) = << >> \/ f.arrivals = Arrivals(b)
       \/ /\ after = [seq |-> f.seq + 1, arrivals |-> Arrivals(b)]
          /\ Act(dep, b, t) # << >>
          /\ dep.space = "JointDelta" \/ f.arrivals # Arrivals(b)

LEMMA LookaheadIs ==
    ASSUME NEW b, NEW ep, NEW now, Stored(b, ep, now), NEW t \in Nat
    PROVE  RowsFrom(deployment, b, t, Lookahead(b, t))
<1> DEFINE covered(n) == \A i \in 0 .. n - 1 : ActionAt(b, t + i) # << >>
           Stops(n) == n = H \/ ~covered(n + 1)
           Fits(n) == covered(n) /\ Stops(n)
           D == {n \in 0 .. H : Stops(n)}
           valid == CHOOSE n \in 0 .. H : Fits(n)
<1>1. H \in Nat /\ b \in Buffers
  BY Constants DEF Stored
<1>2. D \in SUBSET Nat /\ D # {}
  <2>1. H \in D
    BY <1>1
  <2> HIDE DEF Stops
  <2> QED BY <2>1
<1>3. PICK k \in D : \A n \in D : k <= n
  <2> HIDE DEF D
  <2> QED BY <1>2, LeastOf
<1>4. k \in 0 .. H /\ k \in Nat /\ Stops(k)
  BY <1>1
<1>5. ASSUME NEW i \in 0 .. k - 1 PROVE ActionAt(b, t + i) # << >>
  <2>1. i \in 0 .. H /\ ~(k <= i) /\ i # H /\ i \in 0 .. (i + 1) - 1
    BY <1>1, <1>4
  <2>2. i \notin D
    <3> HIDE DEF D
    <3> QED BY <1>3, <2>1
  <2>3. covered(i + 1)
    <3> HIDE DEF covered
    <3> QED BY <2>1, <2>2
  <2> QED BY <2>1, <2>3
<1>6. k \in 0 .. H /\ Fits(k)
  BY <1>4, <1>5
<1> HIDE DEF Fits
<1>7. valid \in 0 .. H /\ Fits(valid)
  BY <1>6
<1> DEFINE row(i) == ActionAt(b, t + i - 1)
           rows == [i \in 1 .. valid |-> row(i)]
<1>8. Lookahead(b, t) = rows
  BY DEF Lookahead, Fits
<1> HIDE DEF valid
<1>9. valid \in Nat /\ valid <= H /\ \A i \in 0 .. valid - 1 : ActionAt(b, t + i) # << >>
  BY <1>1, <1>7 DEF Fits
<1>10. \A i \in 1 .. valid : /\ ActionAt(b, t + i - 1) = Act(deployment, b, t + i - 1)
                             /\ ActionAt(b, t + i - 1) \in Actions
                             /\ ActionAt(b, t + i - 1) # << >>
  <2> SUFFICES ASSUME NEW i \in 1 .. valid
               PROVE  /\ ActionAt(b, t + i - 1) = Act(deployment, b, t + i - 1)
                      /\ ActionAt(b, t + i - 1) \in Actions
                      /\ ActionAt(b, t + i - 1) # << >>
    OBVIOUS
  <2>1. t + i - 1 \in Nat /\ i - 1 \in 0 .. valid - 1 /\ t + (i - 1) = t + i - 1
    BY <1>9
  <2>2. ActionAt(b, t + i - 1) = Act(deployment, b, t + i - 1)
    BY <1>1, <2>1, ActionIs
  <2>3. Act(deployment, b, t + i - 1) \in Actions
    BY <2>1, ActServes DEF Serves
  <2> QED BY <1>9, <2>1, <2>2, <2>3
<1>11. /\ rows \in Seq(Actions) /\ Len(rows) = valid
       /\ \A i \in 1 .. valid : rows[i] = ActionAt(b, t + i - 1)
  <2>1. \A i \in 1 .. valid : row(i) \in Actions
    BY <1>10
  <2>2. /\ rows \in Seq(Actions) /\ Len(rows) = valid
        /\ \A i \in 1 .. valid : rows[i] = row(i)
    <3> HIDE DEF row
    <3>1. rows \in [1 .. valid -> Actions]
      BY <2>1
    <3> QED BY <1>9, <3>1
  <2> QED BY <2>2
<1> HIDE DEF rows
<1> QED BY <1>8, <1>9, <1>10, <1>11 DEF RowsFrom

LEMMA PlaneChunkHands ==
    ASSUME NEW b, NEW ep, NEW now, Stored(b, ep, now), NEW t \in Nat, NEW f \in Feeds
    PROVE  Hands(deployment, b, f, t, FeedAfter(b, f, t), PlaneRows(b, f, t))
<1>1. b \in Buffers /\ H \in Nat \ {0}
  BY Constants DEF Stored
<1>2. ActionAt(b, t) = Act(deployment, b, t)
  BY <1>1, ActionIs
<1>3. Act(deployment, b, t) \in Actions
  BY ActServes DEF Serves
<1>4. CASE \/ ActionAt(b, t) = << >>
           \/ deployment.space # "JointDelta" /\ Arrivals(b) = f.arrivals
  <2>1. FeedAfter(b, f, t) = f /\ PlaneRows(b, f, t) = << >>
    BY <1>4 DEF FeedAfter, PlaneRows
  <2>2. RowsFrom(deployment, b, t, << >>)
    BY <1>1 DEF RowsFrom
  <2> QED BY <1>2, <1>4, <2>1, <2>2 DEF Hands
<1>5. CASE ~ \/ ActionAt(b, t) = << >>
             \/ deployment.space # "JointDelta" /\ Arrivals(b) = f.arrivals
  <2> DEFINE after == [seq |-> f.seq + 1, arrivals |-> Arrivals(b)]
  <2>1. FeedAfter(b, f, t) = after
    BY <1>5 DEF FeedAfter
  <2>2. after # f
    BY DEF Feeds
  <2>3. PlaneRows(b, f, t) = IF deployment.space = "JointDelta" THEN <<ActionAt(b, t)>>
                             ELSE Lookahead(b, t)
    BY <2>1, <2>2 DEF PlaneRows
  <2>4. RowsFrom(deployment, b, t, PlaneRows(b, f, t))
    <3>1. CASE deployment.space = "JointDelta"
      <4> DEFINE rows == <<ActionAt(b, t)>>
      <4>1. rows \in Seq(Actions) /\ Len(rows) = 1 /\ rows[1] = ActionAt(b, t)
        BY <1>2, <1>3
      <4> HIDE DEF rows
      <4>2. t + 1 - 1 = t /\ \A j \in 1 .. Len(rows) : j = 1
        BY <4>1
      <4>3. RowsFrom(deployment, b, t, rows)
        BY <1>1, <1>2, <1>5, <4>1, <4>2 DEF RowsFrom
      <4> QED BY <2>3, <3>1, <4>3 DEF rows
    <3>2. CASE deployment.space # "JointDelta"
      BY <2>3, <3>2, LookaheadIs
    <3> QED BY <3>1, <3>2
  <2> QED BY <1>2, <1>5, <2>1, <2>4 DEF Hands
<1> QED BY <1>4, <1>5

-----------------------------------------------------------------------------
(***************************************************************************)
(* The invariant.  What is said of one env is said of the values it has:   *)
(* of its buffer b, feed f, held chunk h, episode ep and last delivery d,  *)
(* under deployment dep, in phase ph of control tick now.                  *)
(***************************************************************************)
HeldChunks == [seq : Int, rows : Seq(Actions), mode : Modes, cursor : Nat, tick : Nat]

\* The rows were predicted for the ticks from its acceptance on, and the cursor has
\* moved at most once in each of them.
HeldInTime(h, ph, now) ==
    /\ h \in HeldChunks /\ Len(h.rows) <= H /\ h.cursor <= Len(h.rows) /\ h.tick <= now
    /\ h.cursor <= IF ph = "step" THEN now - h.tick + 1 ELSE now - h.tick
    /\ \A j \in 1 .. Len(h.rows) : \A i \in 1 .. Len(h.rows[j]) :
         h.rows[j][i].for = h.tick + j - 1

\* A result the feed has not seen is of this very tick, or covers none to come.
Spent(dep, b, now) == \A c \in b.chunks : c.start + Reach(dep) <= now
FeedInTime(dep, ph, now, b, f, d) ==
    /\ f \in Feeds /\ f.arrivals <= Arrivals(b)
    /\ d \in Int /\ -1 <= d /\ d <= now
    /\ \A c \in b.chunks : c.start <= d
    /\ \/ f.arrivals = Arrivals(b)
       \/ ph = "emit" /\ d = now
       \/ Spent(dep, b, now)

Slack(dep) == IF dep.space = "JointDelta" THEN H - 1 ELSE 0

\* What a plane holds under the feed's number is of this episode, is covered by the
\* buffer, and is what the buffer serves until another result arrives.
Current(dep, ep, b, f, h, d) ==
    /\ h.seq <= f.seq
    /\ h.seq = f.seq =>
         /\ \A j \in 1 .. Len(h.rows) :
              /\ \A i \in 1 .. Len(h.rows[j]) : h.rows[j][i].episode = ep
              /\ \E c \in b.chunks : h.tick + j - 1 < c.start + Reach(dep)
              /\ f.arrivals = Arrivals(b) => h.rows[j] = Act(dep, b, h.tick + j - 1)
         /\ h.rows # << >> => d # -1 /\ h.tick <= d + Slack(dep)

EnvInTime(dep, ph, now, ep, b, f, h, d) ==
    /\ Stored(b, ep, now)
    /\ FeedInTime(dep, ph, now, b, f, d)
    /\ HeldInTime(h, ph, now)
    /\ Current(dep, ep, b, f, h, d)

RunnerTypes ==
    /\ phase \in {"observe", "infer", "emit", "step"}
    /\ controlTick \in Nat /\ simTick \in Nat /\ deployment \in DeploymentType
    /\ pipe \in Pipes /\ episode \in [Envs -> Nat]
    /\ Waiting(latest, controlTick, episode)
    /\ buffer \in [Envs -> Buffers] /\ feed \in [Envs -> Feeds]
    /\ held \in [Envs -> HeldChunks] /\ latched \in [Envs -> BOOLEAN]
    /\ delivered \in [Envs -> Int]

QueueInv ==
    /\ InLine(pipe.queue, 0, controlTick, episode)
    /\ \A e \in Envs : Holds(buffer[e], episode[e], controlTick, pipe.queue, 0)

EnvsInv ==
    \A e \in Envs : EnvInTime(deployment, phase, controlTick, episode[e], buffer[e],
                              feed[e], held[e], delivered[e])

RanInv == EpisodeIsolation /\ RowsOnTime /\ DeadPolicyStops /\ LookaheadExact

RunnerInv == RunnerTypes /\ QueueInv /\ EnvsInv /\ RanInv

-----------------------------------------------------------------------------
(***************************************************************************)
(* The action phase, for one env: the feed hands a chunk to the plane.     *)
(***************************************************************************)
\* What the plane holds then, and which of its rows is due now.
HandedOK(dep, now, ep, b, f, g, d) ==
    /\ FeedInTime(dep, "step", now, b, f, d)
    /\ HeldInTime(g, "emit", now)
    /\ Current(dep, ep, b, f, g, d)
    /\ g.seq = f.seq
    /\ \A j \in 1 .. Len(g.rows) : now = g.tick + j - 1 => g.rows[j] = Act(dep, b, now)

LEMMA NothingCovers ==
    ASSUME NEW dep, NEW b, NEW ep, NEW now \in Nat, Stored(b, ep, now)
    PROVE  Act(dep, b, now) = << >> <=> Spent(dep, b, now)
<1>1. Act(dep, b, now) = << >> <=> Covering(dep, b, now) = {}
  BY ActServes DEF Serves
<1>2. \A c \in b.chunks : c.start \in Nat /\ c.start <= now
  BY DEF Stored, Buffers, Slots
<1>3. Reach(dep) \in Nat
  BY ReachIs, Constants
<1>4. \A c \in b.chunks : c.start + Reach(dep) <= now <=> ~(now < c.start + Reach(dep))
  BY <1>2, <1>3
<1>5. Covering(dep, b, now) = {} <=> Spent(dep, b, now)
  BY <1>2, <1>4 DEF Covering, Spent
<1> QED BY <1>1, <1>5

LEMMA FreshHeld ==
    ASSUME NEW q \in Int, NEW rows \in Seq(Actions), NEW mode \in Modes, NEW now \in Nat
    PROVE  [seq |-> q, rows |-> rows, mode |-> mode, cursor |-> 0, tick |-> now] \in HeldChunks
BY DEF HeldChunks

\* The feed's number stays: the plane keeps the chunk of that number, or lets go.
LEMMA HandsNothing ==
    ASSUME NEW dep, NEW now \in Nat, NEW ep, NEW b, NEW f, NEW h, NEW d,
           EnvInTime(dep, "emit", now, ep, b, f, h, d), dep \in DeploymentType,
           Act(dep, b, now) = << >> \/ f.arrivals = Arrivals(b),
           NEW g, g = Accept(h, [seq |-> f.seq, rows |-> << >>, mode |-> dep.mode], now)
    PROVE  HandedOK(dep, now, ep, b, f, g, d)
<1>1. /\ Stored(b, ep, now) /\ FeedInTime(dep, "emit", now, b, f, d)
      /\ HeldInTime(h, "emit", now) /\ Current(dep, ep, b, f, h, d)
      /\ h.seq \in Int /\ f.seq \in Nat /\ h.seq <= f.seq
  BY DEF EnvInTime, FeedInTime, HeldInTime, Current, HeldChunks, Feeds
<1>2. Act(dep, b, now) = << >> <=> Spent(dep, b, now)
  BY <1>1, NothingCovers
<1>3. FeedInTime(dep, "step", now, b, f, d)
  BY <1>1, <1>2 DEF FeedInTime
<1>4. CASE h.seq = f.seq
  <2>1. g = h
    BY <1>1, <1>4 DEF Accept
  <2>2. ASSUME NEW j \in 1 .. Len(h.rows), now = h.tick + j - 1
        PROVE  h.rows[j] = Act(dep, b, now)
    <3>1. CASE f.arrivals = Arrivals(b)
      BY <1>1, <1>4, <2>2, <3>1 DEF Current
    <3>2. CASE f.arrivals # Arrivals(b)
      <4>1. PICK c \in b.chunks : h.tick + j - 1 < c.start + Reach(dep)
        BY <1>1, <1>4 DEF Current
      <4>2. c.start + Reach(dep) <= now
        BY <1>2, <3>2 DEF Spent
      <4>3. c.start \in Nat /\ Reach(dep) \in Nat
        BY <1>1, ReachIs, Constants DEF Stored, Buffers, Slots
      <4> QED BY <2>2, <4>1, <4>2, <4>3
    <3> QED BY <3>1, <3>2
  <2> QED BY <1>1, <1>3, <1>4, <2>1, <2>2 DEF HandedOK
<1>5. CASE h.seq # f.seq
  <2>1. g = [seq |-> f.seq, rows |-> << >>, mode |-> dep.mode, cursor |-> 0, tick |-> now]
    BY <1>1, <1>5 DEF Accept, Fresh
  <2>2. g \in HeldChunks /\ g.rows = << >> /\ g.cursor = 0 /\ g.tick = now /\ g.seq = f.seq
    <3>1. << >> \in Seq(Actions) /\ dep.mode \in Modes
      BY DEF DeploymentType
    <3>2. f.seq \in Int /\ 0 \in Nat
      BY <1>1
    <3>3. g \in HeldChunks
      BY <2>1, <3>1, <3>2, FreshHeld
    <3>4. g.rows = << >> /\ g.cursor = 0 /\ g.tick = now /\ g.seq = f.seq
      BY <2>1
    <3> QED BY <3>3, <3>4
  <2> HIDE <2>1
  <2>3. Len(g.rows) = 0 /\ 1 .. Len(g.rows) = {}
    BY <2>2
  <2>4. HeldInTime(g, "emit", now)
    BY <2>2, <2>3, Constants DEF HeldInTime
  <2>5. Current(dep, ep, b, f, g, d)
    BY <1>1, <2>2, <2>3 DEF Current
  <2> QED BY <1>3, <2>2, <2>3, <2>4, <2>5 DEF HandedOK
<1> QED BY <1>4, <1>5

\* The feed has a new number, and the plane a new chunk.
LEMMA HandsRows ==
    ASSUME NEW dep, NEW now \in Nat, NEW ep \in Nat, NEW b, NEW f, NEW h, NEW d,
           EnvInTime(dep, "emit", now, ep, b, f, h, d), dep \in DeploymentType,
           Act(dep, b, now) # << >>, dep.space = "JointDelta" \/ f.arrivals # Arrivals(b),
           NEW rows, RowsFrom(dep, b, now, rows),
           NEW after, after = [seq |-> f.seq + 1, arrivals |-> Arrivals(b)],
           NEW g, g = Accept(h, [seq |-> after.seq, rows |-> rows, mode |-> dep.mode], now)
    PROVE  HandedOK(dep, now, ep, b, after, g, d)
<1>1. /\ Stored(b, ep, now) /\ FeedInTime(dep, "emit", now, b, f, d)
      /\ HeldInTime(h, "emit", now) /\ Current(dep, ep, b, f, h, d)
      /\ h.seq \in Int /\ f.seq \in Nat /\ h.seq <= f.seq /\ h.seq < f.seq + 1
  BY DEF EnvInTime, FeedInTime, HeldInTime, Current, HeldChunks, Feeds
<1>2. after \in Feeds /\ after.seq = f.seq + 1 /\ after.arrivals = Arrivals(b)
  <2>1. Arrivals(b) \in Nat
    BY <1>1 DEF Stored, Buffers, Arrivals
  <2> QED BY <1>1, <2>1 DEF Feeds
<1>3. FeedInTime(dep, "step", now, b, after, d)
  <2>1. Arrivals(b) \in Nat
    BY <1>2 DEF Feeds
  <2> QED BY <1>1, <1>2, <2>1 DEF FeedInTime
<1>4. /\ rows \in Seq(Actions) /\ Len(rows) <= H /\ Len(rows) \in Nat
      /\ \A j \in 1 .. Len(rows) : rows[j] = Act(dep, b, now + j - 1) /\ rows[j] # << >>
  BY DEF RowsFrom
<1>5. g = [seq |-> after.seq, rows |-> rows, mode |-> dep.mode, cursor |-> 0, tick |-> now]
  BY <1>1, <1>2 DEF Accept, Fresh
<1>6. g \in HeldChunks /\ g.rows = rows /\ g.cursor = 0 /\ g.tick = now /\ g.seq = after.seq
  <2>1. dep.mode \in Modes
    BY DEF DeploymentType
  <2> QED BY <1>2, <1>4, <1>5, <2>1 DEF HeldChunks, Feeds
<1> HIDE <1>5
<1>7. ASSUME NEW j \in 1 .. Len(rows)
      PROVE  /\ \A i \in 1 .. Len(rows[j]) :
                  rows[j][i].for = now + j - 1 /\ rows[j][i].episode = ep
             /\ \E c \in b.chunks : now + j - 1 < c.start + Reach(dep)
  <2> DEFINE t == now + j - 1
  <2>1. t \in Nat /\ rows[j] = Act(dep, b, t) /\ rows[j] # << >>
    BY <1>4
  <2> HIDE DEF t
  <2>2. Serves(rows[j], Covering(dep, b, t), t)
    BY <1>1, <2>1, ActServes
  <2>3. \A i \in 1 .. Len(rows[j]) : rows[j][i].for = t /\ rows[j][i].episode = ep
    <3>1. \A c \in Covering(dep, b, t) : c.episode = ep
      BY <1>1 DEF Covering, Stored
    <3>2. ASSUME NEW i \in 1 .. Len(rows[j])
          PROVE  rows[j][i].for = t /\ rows[j][i].episode = ep
      <4>1. PICK c \in Covering(dep, b, t) : rows[j][i] = Part(c, t)
        BY <2>2, <3>2 DEF Serves
      <4>2. Part(c, t).for = t /\ Part(c, t).episode = c.episode
        BY Zenon DEF Part
      <4> QED BY <3>1, <4>1, <4>2
    <3> QED BY <3>2
  <2>4. \E c \in b.chunks : t < c.start + Reach(dep)
    BY <2>1, <2>2 DEF Serves, Covering
  <2> QED BY <2>3, <2>4 DEF t
<1>8. HeldInTime(g, "emit", now)
  <2>1. now <= now /\ 0 <= now - now /\ 0 <= Len(rows)
    BY <1>4
  <2>2. \A j \in 1 .. Len(g.rows) : \A i \in 1 .. Len(g.rows[j]) :
          g.rows[j][i].for = g.tick + j - 1
    BY <1>6, <1>7
  <2>3. Len(g.rows) <= H /\ g.cursor <= Len(g.rows) /\ g.tick <= now
        /\ g.cursor <= now - g.tick
    BY <1>4, <1>6, <2>1
  <2> QED BY <1>6, <2>2, <2>3 DEF HeldInTime
<1>9. d # -1 /\ now <= d + Slack(dep)
  <2>1. PICK c \in b.chunks : c.start <= now /\ now < c.start + Reach(dep)
    <3>1. Covering(dep, b, now) # {}
      BY <1>1, ActServes DEF Serves
    <3> QED BY <3>1 DEF Covering
  <2>2. /\ c.start \in Nat /\ c.start <= d /\ d \in Int /\ Reach(dep) \in Nat
        /\ Reach(dep) <= H /\ H \in Nat
    BY <1>1, ReachIs, Constants DEF Stored, Buffers, Slots, FeedInTime
  <2>3. d # -1 /\ now <= d + (H - 1)
    BY <2>1, <2>2
  <2>4. CASE dep.space = "JointDelta"
    BY <2>3, <2>4 DEF Slack
  <2>5. CASE dep.space # "JointDelta"
    <3>1. ~Spent(dep, b, now)
      BY <1>1, NothingCovers
    <3>2. d = now
      BY <1>1, <2>5, <3>1 DEF FeedInTime
    <3> QED BY <2>3, <2>5, <3>2 DEF Slack
  <2> QED BY <2>4, <2>5
<1>10. Current(dep, ep, b, after, g, d)
  <2>1. g.seq <= after.seq
    BY <1>1, <1>2, <1>6
  <2>2. ASSUME NEW j \in 1 .. Len(g.rows)
        PROVE  /\ \A i \in 1 .. Len(g.rows[j]) : g.rows[j][i].episode = ep
               /\ \E c \in b.chunks : g.tick + j - 1 < c.start + Reach(dep)
               /\ g.rows[j] = Act(dep, b, g.tick + j - 1)
    BY <1>4, <1>6, <1>7, <2>2
  <2>3. d # -1 /\ g.tick <= d + Slack(dep)
    BY <1>6, <1>9
  <2> QED BY <2>1, <2>2, <2>3 DEF Current
<1>11. \A j \in 1 .. Len(g.rows) : now = g.tick + j - 1 => g.rows[j] = Act(dep, b, now)
  BY <1>4, <1>6
<1> QED BY <1>3, <1>6, <1>8, <1>10, <1>11 DEF HandedOK

LEMMA HandsOver ==
    ASSUME NEW dep, NEW now \in Nat, NEW ep \in Nat, NEW b, NEW f, NEW h, NEW d,
           EnvInTime(dep, "emit", now, ep, b, f, h, d), dep \in DeploymentType,
           NEW after, NEW rows, Hands(dep, b, f, now, after, rows),
           NEW g, g = Accept(h, [seq |-> after.seq, rows |-> rows, mode |-> dep.mode], now)
    PROVE  HandedOK(dep, now, ep, b, after, g, d)
<1>1. CASE /\ after = f /\ rows = << >>
           /\ Act(dep, b, now) = << >> \/ f.arrivals = Arrivals(b)
  BY <1>1, HandsNothing
<1>2. CASE /\ after = [seq |-> f.seq + 1, arrivals |-> Arrivals(b)]
           /\ Act(dep, b, now) # << >>
           /\ dep.space = "JointDelta" \/ f.arrivals # Arrivals(b)
  BY <1>2, HandsRows DEF Hands
<1> QED BY <1>1, <1>2 DEF Hands

\* What a plane holds after the action phase: what a latched plane held before, or
\* the chunk it was handed, its cursor past the row it executed.
AfterEmit(h, g, h2) == h2 = h \/ h2 = g \/ (h2 = Advance(g) /\ ~Underrun(g))

LEMMA AdvancesInTime ==
    ASSUME NEW now \in Nat, NEW g, HeldInTime(g, "emit", now), ~Underrun(g)
    PROVE  /\ HeldInTime(Advance(g), "step", now)
           /\ Advance(g).seq = g.seq /\ Advance(g).rows = g.rows /\ Advance(g).tick = g.tick
           /\ Advance(g).cursor = g.cursor + 1 /\ g.cursor < Len(g.rows)
<1>1. /\ g \in HeldChunks /\ Len(g.rows) <= H /\ g.cursor <= Len(g.rows) /\ g.tick <= now
      /\ g.cursor <= now - g.tick /\ g.cursor \in Nat /\ g.tick \in Nat /\ Len(g.rows) \in Nat
      /\ \A j \in 1 .. Len(g.rows) : \A i \in 1 .. Len(g.rows[j]) :
           g.rows[j][i].for = g.tick + j - 1
  BY DEF HeldInTime, HeldChunks
<1>2. g.cursor < Len(g.rows)
  BY <1>1, Constants DEF Underrun, ExecutableLen
<1> DEFINE after == Advance(g)
<1>3. /\ after \in HeldChunks /\ after.seq = g.seq /\ after.rows = g.rows
      /\ after.tick = g.tick /\ after.cursor = g.cursor + 1
  BY <1>1 DEF Advance, HeldChunks
<1> HIDE DEF after
<1>4. after.cursor <= Len(after.rows) /\ after.cursor <= now - after.tick + 1
  BY <1>1, <1>2, <1>3
<1>5. HeldInTime(after, "step", now)
  BY <1>1, <1>3, <1>4 DEF HeldInTime
<1> QED BY <1>2, <1>3, <1>5 DEF after

LEMMA WaitsInTime ==
    ASSUME NEW now \in Nat, NEW g, HeldInTime(g, "emit", now)
    PROVE  HeldInTime(g, "step", now)
<1>1. g.cursor \in Nat /\ g.tick \in Nat /\ g.cursor <= now - g.tick
  BY DEF HeldInTime, HeldChunks
<1>2. g.cursor <= now - g.tick + 1
  BY <1>1
<1> QED BY <1>1, <1>2 DEF HeldInTime

\* What Current says of a chunk it says of every chunk with its number, rows and tick.
LEMMA CurrentOfRows ==
    ASSUME NEW dep, NEW ep, NEW b, NEW f, NEW g, NEW d, Current(dep, ep, b, f, g, d),
           NEW h, h.seq = g.seq, h.rows = g.rows, h.tick = g.tick
    PROVE  Current(dep, ep, b, f, h, d)
BY DEF Current

LEMMA EmitsInTime ==
    ASSUME NEW dep, NEW now \in Nat, NEW ep \in Nat, NEW b, NEW f, NEW h, NEW d,
           EnvInTime(dep, "emit", now, ep, b, f, h, d), dep \in DeploymentType,
           NEW after, NEW rows, Hands(dep, b, f, now, after, rows),
           NEW g, g = Accept(h, [seq |-> after.seq, rows |-> rows, mode |-> dep.mode], now),
           NEW h2, AfterEmit(h, g, h2)
    PROVE  EnvInTime(dep, "step", now, ep, b, after, h2, d)
<1>1. HandedOK(dep, now, ep, b, after, g, d)
  BY HandsOver
<1>2. /\ Stored(b, ep, now) /\ HeldInTime(h, "emit", now) /\ Current(dep, ep, b, f, h, d)
      /\ FeedInTime(dep, "step", now, b, after, d)
      /\ HeldInTime(g, "emit", now) /\ Current(dep, ep, b, after, g, d)
  BY <1>1 DEF HandedOK, EnvInTime
<1>3. Current(dep, ep, b, after, h, d)
  <2>1. CASE after = f
    BY <1>2, <2>1
  <2>2. CASE after.seq = f.seq + 1
    <3>1. h.seq \in Int /\ f.seq \in Nat /\ h.seq <= f.seq
      BY <1>2 DEF EnvInTime, FeedInTime, HeldInTime, HeldChunks, Feeds, Current
    <3>2. h.seq < after.seq
      BY <2>2, <3>1
    <3> QED BY <2>2, <3>1, <3>2 DEF Current
  <2> QED BY <2>1, <2>2 DEF Hands
<1>4. CASE h2 = h
  BY <1>2, <1>3, <1>4, WaitsInTime DEF EnvInTime
<1>5. CASE h2 = g
  BY <1>2, <1>5, WaitsInTime DEF EnvInTime
<1>6. CASE h2 = Advance(g) /\ ~Underrun(g)
  <2>1. /\ HeldInTime(h2, "step", now)
        /\ h2.seq = g.seq /\ h2.rows = g.rows /\ h2.tick = g.tick
    BY <1>2, <1>6, AdvancesInTime
  <2>2. Current(dep, ep, b, after, h2, d)
    BY <1>2, <2>1, CurrentOfRows
  <2> QED BY <1>2, <2>1, <2>2 DEF EnvInTime
<1> QED BY <1>4, <1>5, <1>6 DEF AfterEmit

-----------------------------------------------------------------------------
\* What the plane may say of the row it executes.
DeadAfter(dep) == IF dep.space = "JointDelta" THEN H - 1 + dep.budget ELSE dep.budget

RanOK(dep, now, ep, b, d, g, row) ==
    /\ \A i \in DOMAIN row : row[i].episode = ep /\ now - row[i].for \in 0 .. dep.budget
    /\ d # -1 /\ now - d <= DeadAfter(dep)
    /\ now = g.tick + g.cursor => row = Act(dep, b, now)

LEMMA RunsInDate ==
    ASSUME NEW dep, NEW now \in Nat, NEW ep, NEW b, NEW f, NEW g, NEW d,
           HandedOK(dep, now, ep, b, f, g, d), dep \in DeploymentType,
           ~Underrun(g), ~(now - g.tick > dep.budget)
    PROVE  RanOK(dep, now, ep, b, d, g, Candidate(g))
<1>1. /\ FeedInTime(dep, "step", now, b, f, d) /\ HeldInTime(g, "emit", now)
      /\ Current(dep, ep, b, f, g, d) /\ g.seq = f.seq
      /\ \A j \in 1 .. Len(g.rows) : now = g.tick + j - 1 => g.rows[j] = Act(dep, b, now)
  BY DEF HandedOK
<1>2. /\ g.cursor \in Nat /\ g.tick \in Nat /\ g.cursor < Len(g.rows) /\ Len(g.rows) \in Nat
      /\ g.cursor <= now - g.tick /\ dep.budget \in Nat /\ now - g.tick <= dep.budget
      /\ g.rows \in Seq(Actions) /\ d \in Int
      /\ \A j \in 1 .. Len(g.rows) : \A i \in 1 .. Len(g.rows[j]) :
           g.rows[j][i].for = g.tick + j - 1
  <2>1. g.cursor < Len(g.rows)
    BY <1>1, AdvancesInTime
  <2>2. dep.budget \in Nat /\ d \in Int
    BY <1>1 DEF DeploymentType, FeedInTime
  <2>3. /\ g.cursor \in Nat /\ g.tick \in Nat /\ g.rows \in Seq(Actions)
        /\ g.cursor <= now - g.tick
        /\ \A j \in 1 .. Len(g.rows) : \A i \in 1 .. Len(g.rows[j]) :
             g.rows[j][i].for = g.tick + j - 1
    BY <1>1 DEF HeldInTime, HeldChunks
  <2>4. Len(g.rows) \in Nat
    BY <2>3
  <2>5. now - g.tick <= dep.budget
    BY <2>2, <2>3
  <2> QED BY <2>1, <2>2, <2>3, <2>4, <2>5, Zenon
<1> DEFINE j == g.cursor + 1
           row == g.rows[j]
<1>3. j \in 1 .. Len(g.rows) /\ g.tick + j - 1 = g.tick + g.cursor
  BY <1>2
<1>4. row \in Actions /\ DOMAIN row = 1 .. Len(row) /\ Candidate(g) = row
  <2>1. row \in Actions
    BY <1>2, <1>3
  <2> QED BY <2>1 DEF Actions, Candidate
<1> HIDE DEF j
<1>5. /\ \A i \in 1 .. Len(row) : row[i].episode = ep /\ row[i].for = g.tick + g.cursor
      /\ d # -1 /\ g.tick <= d + Slack(dep)
      /\ now = g.tick + g.cursor => row = Act(dep, b, now)
  <2>1. \A i \in 1 .. Len(row) : row[i].for = g.tick + g.cursor
    BY <1>2, <1>3
  <2>2. /\ \A i \in 1 .. Len(row) : row[i].episode = ep
        /\ g.rows # << >> => d # -1 /\ g.tick <= d + Slack(dep)
    BY <1>1, <1>3 DEF Current
  <2>3. g.rows # << >>
    BY <1>2
  <2>4. now = g.tick + g.cursor => row = Act(dep, b, now)
    BY <1>1, <1>3
  <2> QED BY <2>1, <2>2, <2>3, <2>4
<1>6. now - (g.tick + g.cursor) \in 0 .. dep.budget
  BY <1>2
<1>7. now - d <= DeadAfter(dep)
  <2>1. H \in Nat
    BY Constants
  <2> QED BY <1>2, <1>5, <2>1 DEF Slack, DeadAfter
<1> HIDE DEF row
<1>8. \A i \in DOMAIN row : row[i].episode = ep /\ now - row[i].for \in 0 .. dep.budget
  BY <1>4, <1>5, <1>6
<1> QED BY <1>4, <1>5, <1>7, <1>8 DEF RanOK

-----------------------------------------------------------------------------
(***************************************************************************)
(* Emit.                                                                   *)
(***************************************************************************)
\* What the action phase does to env e, when the planes of tripped have tripped.
EmitsRow(e, tripped) ==
    /\ held'[e] = IF latched[e] THEN held[e]
                  ELSE IF Runs(e, tripped) THEN Advance(Handed(e)) ELSE Handed(e)
    /\ ran'[e] = IF Runs(e, tripped) THEN Candidate(Handed(e)) ELSE << >>
    /\ feed'[e] = FeedAfter(buffer[e], feed[e], controlTick)
    /\ commanded'[e] = ActionAt(buffer[e], controlTick)

\* A row that ran is of the chunk the plane still holds, one row further on.
RanRow(dep, now, ep, b, d, h, row, command) ==
    row # << >> =>
      /\ \A i \in DOMAIN row : row[i].episode = ep /\ now - row[i].for \in 0 .. dep.budget
      /\ d # -1 /\ now - d <= DeadAfter(dep)
      /\ now = h.tick + h.cursor - 1 => row = command

LEMMA EmitsEnv ==
    ASSUME RunnerInv, phase = "emit", NEW e \in Envs, NEW tripped, EmitsRow(e, tripped)
    PROVE  /\ EnvInTime(deployment, "step", controlTick, episode[e], buffer[e], feed'[e],
                        held'[e], delivered[e])
           /\ RanRow(deployment, controlTick, episode[e], buffer[e], delivered[e], held'[e],
                     ran'[e], commanded'[e])
<1> DEFINE dep == deployment
           now == controlTick
           ep == episode[e]
           b == buffer[e]
           f == feed[e]
           h == held[e]
           d == delivered[e]
           after == FeedAfter(b, f, now)
           rows == PlaneRows(b, f, now)
           g == Handed(e)
<1>1. /\ dep \in DeploymentType /\ now \in Nat /\ ep \in Nat
      /\ EnvInTime(dep, "emit", now, ep, b, f, h, d)
  BY DEF RunnerInv, RunnerTypes, EnvsInv
<1>2. Stored(b, ep, now) /\ f \in Feeds /\ b \in Buffers
  BY <1>1 DEF EnvInTime, FeedInTime, Stored
<1>3. Hands(dep, b, f, now, after, rows)
  BY <1>1, <1>2, PlaneChunkHands
<1>4. g = Accept(h, [seq |-> after.seq, rows |-> rows, mode |-> dep.mode], now)
  BY DEF Handed
<1>5. held'[e] = IF latched[e] THEN h ELSE IF Runs(e, tripped) THEN Advance(g) ELSE g
  BY DEF EmitsRow
<1>6. ran'[e] = IF Runs(e, tripped) THEN Candidate(g) ELSE << >>
  BY DEF EmitsRow
<1>7. feed'[e] = after /\ commanded'[e] = Act(dep, b, now)
  <2>1. commanded'[e] = ActionAt(b, now)
    BY DEF EmitsRow
  <2> QED BY <1>1, <1>2, <2>1, ActionIs DEF EmitsRow
<1>8. Runs(e, tripped) => ~latched[e] /\ ~Underrun(g) /\ ~(now - g.tick > dep.budget)
  BY DEF Runs, FallsBack
<1> HIDE DEF dep, now, ep, b, f, h, d, after, rows, g
<1>9. AfterEmit(h, g, held'[e])
  BY <1>5, <1>8 DEF AfterEmit
<1>10. EnvInTime(dep, "step", now, ep, b, after, held'[e], d)
  BY <1>1, <1>3, <1>4, <1>9, EmitsInTime
<1>11. RanRow(dep, now, ep, b, d, held'[e], ran'[e], commanded'[e])
  <2>1. CASE ~Runs(e, tripped)
    BY <1>6, <2>1 DEF RanRow
  <2>2. CASE Runs(e, tripped)
    <3>1. HandedOK(dep, now, ep, b, after, g, d)
      BY <1>1, <1>3, <1>4, HandsOver
    <3>2. RanOK(dep, now, ep, b, d, g, Candidate(g))
      BY <1>1, <1>8, <2>2, <3>1, RunsInDate
    <3>3. held'[e].tick = g.tick /\ held'[e].cursor = g.cursor + 1
      <4>1. HeldInTime(g, "emit", now)
        BY <3>1 DEF HandedOK
      <4> QED BY <1>1, <1>5, <1>8, <2>2, <4>1, AdvancesInTime
    <3>4. g.cursor \in Nat /\ g.tick \in Nat
      BY <3>1 DEF HandedOK, HeldInTime, HeldChunks
    <3>5. held'[e].tick + held'[e].cursor - 1 = g.tick + g.cursor
      BY <3>3, <3>4
    <3> QED BY <1>6, <1>7, <2>2, <3>2, <3>5 DEF RanOK, RanRow
  <2> QED BY <2>1, <2>2
<1> QED BY <1>7, <1>10, <1>11 DEF dep, now, ep, b, f, h, d, after, rows, g

LEMMA EmitKeeps ==
    ASSUME RunnerInv, Emit, UNCHANGED deployment
    PROVE  RunnerInv'
<1>1. PICK tripped :
        /\ held' = [e \in Envs |->
             IF latched[e] THEN held[e]
             ELSE IF Runs(e, tripped) THEN Advance(Handed(e)) ELSE Handed(e)]
        /\ latched' = [e \in Envs |->
             latched[e] \/ (deployment.latching /\ ~Runs(e, tripped))]
        /\ ran' = [e \in Envs |->
             IF Runs(e, tripped) THEN Candidate(Handed(e)) ELSE << >>]
  BY DEF Emit
<1>2. /\ feed' = [e \in Envs |-> FeedAfter(buffer[e], feed[e], controlTick)]
      /\ commanded' = [e \in Envs |-> ActionAt(buffer[e], controlTick)]
      /\ phase = "emit" /\ phase' = "step"
      /\ UNCHANGED <<controlTick, simTick, pipe, latest, buffer, episode, delivered,
                     deployment>>
  BY DEF Emit
<1>3. \A e \in Envs : EmitsRow(e, tripped)
  BY <1>1, <1>2 DEF EmitsRow
<1>4. \A e \in Envs :
        /\ EnvInTime(deployment, "step", controlTick, episode[e], buffer[e], feed'[e],
                     held'[e], delivered[e])
        /\ RanRow(deployment, controlTick, episode[e], buffer[e], delivered[e], held'[e],
                  ran'[e], commanded'[e])
  BY <1>2, <1>3, EmitsEnv
<1>5. RunnerTypes'
  <2>1. \A e \in Envs : feed'[e] \in Feeds /\ held'[e] \in HeldChunks
    BY <1>4 DEF EnvInTime, FeedInTime, HeldInTime
  <2>2. feed' \in [Envs -> Feeds]
    BY <1>2, <2>1
  <2>3. held' \in [Envs -> HeldChunks]
    BY <1>1, <2>1
  <2>4. latched' \in [Envs -> BOOLEAN]
    BY <1>1
  <2>5. RunnerTypes
    BY DEF RunnerInv
  <2> QED BY <1>2, <2>2, <2>3, <2>4, <2>5 DEF RunnerTypes
<1>6. QueueInv'
  BY <1>2 DEF RunnerInv, QueueInv
<1>7. EnvsInv'
  BY <1>2, <1>4 DEF EnvsInv
<1>8. RanInv'
  <2>1. EpisodeIsolation' /\ RowsOnTime'
    <3>1. ASSUME NEW e \in Envs, NEW i \in DOMAIN ran'[e]
          PROVE  /\ ran'[e][i].episode = episode[e]
                 /\ controlTick - ran'[e][i].for \in 0 .. deployment.budget
      <4>1. ran'[e] # << >>
        BY <3>1
      <4> QED BY <1>4, <3>1, <4>1 DEF RanRow
    <3> QED BY <1>2, <3>1 DEF EpisodeIsolation, RowsOnTime, RanParts
  <2>2. DeadPolicyStops'
    BY <1>2, <1>4 DEF DeadPolicyStops, RanRow, DeadAfter
  <2>3. LookaheadExact'
    BY <1>2, <1>4 DEF LookaheadExact, RanRow
  <2> QED BY <2>1, <2>2, <2>3 DEF RanInv
<1> QED BY <1>5, <1>6, <1>7, <1>8 DEF RunnerInv

-----------------------------------------------------------------------------
(***************************************************************************)
(* Observe, SkipInfer and Infer.                                           *)
(***************************************************************************)
\* What ran is only asked about once the action phase is over.
LEMMA NothingRanYet == ASSUME phase' # "step" PROVE RanInv'
BY DEF RanInv, EpisodeIsolation, RowsOnTime, DeadPolicyStops, LookaheadExact

LEMMA PhaseMoves ==
    ASSUME NEW dep, NEW ph \in {"observe", "infer"}, NEW then \in {"infer", "emit"},
           NEW now, NEW ep, NEW b, NEW f, NEW h, NEW d, EnvInTime(dep, ph, now, ep, b, f, h, d)
    PROVE  EnvInTime(dep, then, now, ep, b, f, h, d)
BY DEF EnvInTime, FeedInTime, HeldInTime

LEMMA ObserveKeeps ==
    ASSUME RunnerInv, Observe, UNCHANGED deployment
    PROVE  RunnerInv'
<1>1. RunnerTypes /\ QueueInv /\ EnvsInv
  BY DEF RunnerInv
<1>2. /\ phase = "observe" /\ phase' = "infer"
      /\ UNCHANGED <<controlTick, simTick, pipe, buffer, feed, held, latched, episode,
                     delivered, deployment>>
      /\ latest' = [e \in Envs |->
           IF e \in ObservedIn(simTick)
             THEN [tick |-> controlTick, episode |-> episode[e], submitted |-> FALSE]
             ELSE latest[e]]
  BY DEF Observe
<1>3. Waiting(latest', controlTick, episode)
  <2>1. Waiting(latest, controlTick, episode) /\ controlTick \in Int
    BY <1>1 DEF RunnerTypes
  <2>2. ASSUME NEW e \in Envs
        PROVE  /\ latest'[e] \in Observations
               /\ latest'[e].submitted \/ latest'[e].episode = episode[e]
    <3>1. CASE e \in ObservedIn(simTick)
      <4>1. latest'[e] = [tick |-> controlTick, episode |-> episode[e], submitted |-> FALSE]
        BY <1>2, <3>1
      <4>2. episode[e] \in Int
        BY <2>1 DEF Waiting
      <4> QED BY <2>1, <4>1, <4>2 DEF Observations
    <3>2. CASE e \notin ObservedIn(simTick)
      BY <1>2, <2>1, <3>2 DEF Waiting
    <3> QED BY <3>1, <3>2
  <2>3. latest' \in [Envs -> Observations]
    BY <1>2, <2>2
  <2> QED BY <2>1, <2>2, <2>3 DEF Waiting
<1>4. RunnerTypes'
  BY <1>1, <1>2, <1>3 DEF RunnerTypes
<1>5. QueueInv'
  BY <1>1, <1>2 DEF QueueInv
<1>6. EnvsInv'
  BY <1>1, <1>2, PhaseMoves DEF EnvsInv
<1>7. RanInv'
  BY <1>2, NothingRanYet
<1> QED BY <1>4, <1>5, <1>6, <1>7 DEF RunnerInv

LEMMA SkipInferKeeps ==
    ASSUME RunnerInv, SkipInfer, UNCHANGED deployment
    PROVE  RunnerInv'
<1>1. RunnerTypes /\ QueueInv /\ EnvsInv
  BY DEF RunnerInv
<1>2. /\ phase = "infer" /\ phase' = "emit"
      /\ UNCHANGED <<controlTick, simTick, pipe, latest, buffer, feed, held, latched, episode,
                     delivered, deployment>>
  BY DEF SkipInfer, env_
<1>3. RunnerTypes'
  BY <1>1, <1>2 DEF RunnerTypes
<1>4. QueueInv'
  BY <1>1, <1>2 DEF QueueInv
<1>5. EnvsInv'
  BY <1>1, <1>2, PhaseMoves DEF EnvsInv
<1>6. RanInv'
  BY <1>2, NothingRanYet
<1> QED BY <1>3, <1>4, <1>5, <1>6 DEF RunnerInv

\* What is submitted now is later than anything a buffer holds.
LEMMA SubmittedHolds ==
    ASSUME RunnerTypes, QueueInv,
           NEW p, p = (IF InferenceDue THEN SubmitAll ELSE pipe)
    PROVE  /\ AllInLine(p, 0, controlTick, episode)
           /\ \A e \in Envs : Holds(buffer[e], episode[e], controlTick, p.queue, 0)
<1>1. /\ pipe \in Pipes /\ controlTick \in Nat /\ 0 <= controlTick
      /\ InLine(pipe.queue, 0, controlTick, episode)
      /\ Waiting(latest, controlTick, episode)
      /\ \A e \in Envs : Holds(buffer[e], episode[e], controlTick, pipe.queue, 0)
  BY DEF RunnerTypes, QueueInv
<1>2. CASE ~InferenceDue
  BY <1>1, <1>2 DEF AllInLine
<1>3. CASE InferenceDue
  <2>1. AllInLine(p, 0, controlTick, episode)
    BY <1>1, <1>3, SubmitAllInLine
  <2>2. ASSUME NEW e \in Envs, NEW c \in buffer[e].chunks, NEW i \in 1 .. Len(p.queue)
        PROVE  c.start <= p.queue[i].tick + Latency
    <3> DEFINE lo == c.start - Latency
    <3>1. Stored(buffer[e], episode[e], controlTick) /\ Latency \in Nat
      BY <1>1, Constants DEF Holds
    <3>2. c.start \in Nat /\ c.start <= controlTick
      BY <3>1 DEF Stored, Buffers, Slots
    <3>3. lo \in Int /\ lo <= controlTick
      BY <1>1, <3>1, <3>2
    <3>4. \A n \in 1 .. Len(pipe.queue) : lo <= pipe.queue[n].tick
      <4>1. \A n \in 1 .. Len(pipe.queue) : c.start <= pipe.queue[n].tick + Latency
        BY <1>1 DEF Holds
      <4>2. \A n \in 1 .. Len(pipe.queue) : pipe.queue[n].tick \in Nat
        <5>1. \A n \in 1 .. Len(pipe.queue) : pipe.queue[n] \in Submissions
          BY <1>1 DEF InLine
        <5> QED BY <5>1 DEF Submissions
      <4> QED BY <3>1, <3>2, <4>1, <4>2
    <3> HIDE DEF lo
    <3>5. InLine(pipe.queue, lo, controlTick, episode)
      BY <1>1, <3>4 DEF InLine
    <3>6. AllInLine(p, lo, controlTick, episode)
      BY <1>1, <1>3, <3>3, <3>5, SubmitAllInLine
    <3>7. lo <= p.queue[i].tick
      BY <2>2, <3>6 DEF AllInLine, InLine
    <3>8. p.queue[i].tick \in Nat
      <4>1. p.queue[i] \in Submissions
        BY <2>1, <2>2 DEF AllInLine, InLine
      <4> QED BY <4>1 DEF Submissions
    <3> QED BY <3>1, <3>2, <3>7, <3>8 DEF lo
  <2>3. \A e \in Envs : Holds(buffer[e], episode[e], controlTick, p.queue, 0)
    BY <1>1, <2>2 DEF Holds
  <2> QED BY <2>1, <2>3
<1> QED BY <1>2, <1>3

\* A delivery, seen from the feed and the plane of its env.
LEMMA DeliveryInTime ==
    ASSUME NEW dep, NEW now \in Nat, NEW ep, NEW b, NEW f, NEW h, NEW d,
           EnvInTime(dep, "infer", now, ep, b, f, h, d),
           NEW b2, Stored(b2, ep, now), Succeeds(b2, b), NEW d2,
           \/ b2 = b /\ d2 = d
           \/ b2.next > b.next /\ d2 = now
    PROVE  EnvInTime(dep, "emit", now, ep, b2, f, h, d2)
<1>1. /\ Stored(b, ep, now) /\ FeedInTime(dep, "infer", now, b, f, d)
      /\ HeldInTime(h, "infer", now) /\ Current(dep, ep, b, f, h, d)
  BY DEF EnvInTime
<1>2. CASE b2 = b /\ d2 = d
  BY <1>2, PhaseMoves
<1>3. CASE b2.next > b.next /\ d2 = now
  <2>1. b.next \in Nat /\ b2.next \in Nat /\ f.arrivals \in Nat /\ f.arrivals <= b.next - 1
    BY <1>1 DEF Stored, Buffers, FeedInTime, Feeds, Arrivals
  <2>2. f.arrivals <= Arrivals(b2) /\ f.arrivals # Arrivals(b2)
    BY <1>3, <2>1 DEF Arrivals
  <2>3. \A c \in b2.chunks : c.start <= d2
    BY <1>3 DEF Stored
  <2>4. d2 \in Int /\ -1 <= d2 /\ d2 <= now /\ d2 # -1
    BY <1>3
  <2>5. FeedInTime(dep, "emit", now, b2, f, d2)
    BY <1>1, <1>3, <2>2, <2>3, <2>4 DEF FeedInTime
  <2>6. HeldInTime(h, "emit", now)
    BY <1>1 DEF HeldInTime
  <2>7. h.tick <= d2 + Slack(dep)
    <3>1. h.tick \in Nat /\ h.tick <= now /\ H \in Nat \ {0}
      BY <1>1, Constants DEF HeldInTime, HeldChunks
    <3> QED BY <1>3, <3>1 DEF Slack
  <2>8. ASSUME h.seq = f.seq, NEW j \in 1 .. Len(h.rows)
        PROVE  /\ \A i \in 1 .. Len(h.rows[j]) : h.rows[j][i].episode = ep
               /\ \E c \in b2.chunks : h.tick + j - 1 < c.start + Reach(dep)
    <3>1. PICK c \in b.chunks : h.tick + j - 1 < c.start + Reach(dep)
      BY <1>1, <2>8 DEF Current
    <3>2. PICK c2 \in b2.chunks : c.start <= c2.start
      BY DEF Succeeds
    <3>3. /\ c.start \in Nat /\ c2.start \in Nat /\ Reach(dep) \in Nat /\ h.tick \in Nat
          /\ j \in Nat
      <4>1. c.start \in Nat /\ c2.start \in Nat
        BY <1>1 DEF Stored, Buffers, Slots
      <4>2. Reach(dep) \in Nat
        BY ReachIs
      <4>3. h.tick \in Nat /\ j \in Nat
        BY <1>1, <2>8 DEF HeldInTime, HeldChunks
      <4> QED BY <4>1, <4>2, <4>3
    <3>4. h.tick + j - 1 < c2.start + Reach(dep)
      BY <3>1, <3>2, <3>3
    <3> QED BY <1>1, <2>8, <3>4 DEF Current
  <2>9. Current(dep, ep, b2, f, h, d2)
    BY <1>1, <2>2, <2>4, <2>7, <2>8 DEF Current
  <2> QED BY <2>5, <2>6, <2>9 DEF EnvInTime
<1> QED BY <1>2, <1>3

LEMMA InfersEnv ==
    ASSUME RunnerInv, phase = "infer", NEW p,
           p = (IF InferenceDue THEN SubmitAll ELSE pipe),
           NEW k, Polls(p, controlTick, k), NEW e \in Envs,
           NEW b2, b2 = Deliver(Released(p, controlTick), e), NEW d2,
           d2 = IF \E i \in 1 .. k : p.queue[i].env = e THEN controlTick ELSE delivered[e]
    PROVE  /\ Holds(b2, episode[e], controlTick, Poll(p, controlTick).queue, 0)
           /\ EnvInTime(deployment, "emit", controlTick, episode[e], b2, feed[e], held[e], d2)
<1> DEFINE now == controlTick
           ep == episode[e]
           results == Released(p, now)
<1>1. /\ AllInLine(p, 0, now, episode) /\ Holds(buffer[e], ep, now, p.queue, 0)
      /\ now \in Nat /\ ep \in Nat
      /\ EnvInTime(deployment, "infer", now, ep, buffer[e], feed[e], held[e], delivered[e])
  BY SubmittedHolds DEF RunnerInv, RunnerTypes, EnvsInv
<1>2. Polls(p, now, k)
  OBVIOUS
<1>3. p.queue \in Seq(Submissions) /\ Ordered(p.queue)
      /\ \A i \in 1 .. Len(p.queue) : p.queue[i].env = e => p.queue[i].episode = ep
  BY <1>1 DEF AllInLine, InLine, Ordered
<1> HIDE DEF now, ep
<1>4. ResultsOf(results, p.queue, k, e, ep, now)
  BY <1>2, <1>3 DEF ResultsOf, Polls
<1>5. b2 = Deliver(results, e)
  BY DEF now
<1>6. d2 = IF \E i \in 1 .. k : p.queue[i].env = e THEN now ELSE delivered[e]
  BY DEF now
<1> HIDE DEF results
<1>7. DeliveredBy(b2, buffer[e], ep, now, p.queue, k, e)
  BY <1>1, <1>4, <1>5, Delivers
<1>8. Holds(b2, ep, now, p.queue, k) /\ Succeeds(b2, buffer[e])
  BY <1>7 DEF DeliveredBy
<1>9. Holds(b2, ep, now, Poll(p, now).queue, 0)
  <2>1. /\ Len(Poll(p, now).queue) = Len(p.queue) - k /\ k \in 0 .. Len(p.queue)
        /\ \A i \in 1 .. Len(p.queue) - k : Poll(p, now).queue[i] = p.queue[k + i]
    BY <1>2 DEF Polls
  <2>2. Len(p.queue) \in Nat
    BY <1>3
  <2>3. ASSUME NEW c \in b2.chunks, NEW i \in 1 .. Len(Poll(p, now).queue)
        PROVE  c.start <= Poll(p, now).queue[i].tick + Latency
    <3>1. k + i \in k + 1 .. Len(p.queue) /\ i \in 1 .. Len(p.queue) - k
      BY <2>1, <2>2
    <3>2. c.start <= p.queue[k + i].tick + Latency
      BY <1>8, <3>1 DEF Holds
    <3> QED BY <2>1, <3>1, <3>2
  <2> QED BY <1>8, <2>3 DEF Holds
<1>10. EnvInTime(deployment, "emit", now, ep, b2, feed[e], held[e], d2)
  <2>1. Stored(b2, ep, now)
    BY <1>8 DEF Holds
  <2>2. \/ b2 = buffer[e] /\ d2 = delivered[e]
        \/ b2.next > buffer[e].next /\ d2 = now
    BY <1>6, <1>7 DEF DeliveredBy
  <2> QED BY <1>1, <1>8, <2>1, <2>2, DeliveryInTime
<1> QED BY <1>9, <1>10 DEF now, ep

LEMMA InferKeeps ==
    ASSUME RunnerInv, Infer, UNCHANGED deployment
    PROVE  RunnerInv'
<1> DEFINE p == IF InferenceDue THEN SubmitAll ELSE pipe
           results == Released(p, controlTick)
<1>1. RunnerTypes /\ QueueInv /\ controlTick \in Nat /\ Waiting(latest, controlTick, episode)
  BY DEF RunnerInv, RunnerTypes
<1>2. /\ phase = "infer" /\ phase' = "emit"
      /\ UNCHANGED <<controlTick, simTick, feed, held, latched, episode, deployment>>
      /\ pipe' = Poll(p, controlTick)
      /\ buffer' = [e \in Envs |-> Deliver(results, e)]
      /\ delivered' = [e \in Envs |->
           IF e \in {results[i].env : i \in DOMAIN results} THEN controlTick ELSE delivered[e]]
      /\ latest' = IF InferenceDue
                     THEN [e \in Envs |-> [latest[e] EXCEPT !.submitted = TRUE]]
                     ELSE latest
  BY Zenon DEF Infer
<1>3. p = (IF InferenceDue THEN SubmitAll ELSE pipe)
  OBVIOUS
<1> HIDE DEF p
<1>4. AllInLine(p, 0, controlTick, episode)
  BY <1>1, <1>3, SubmittedHolds
<1>5. p \in Pipes /\ InLine(p.queue, 0, controlTick, episode)
  BY <1>4 DEF AllInLine
<1>6. PICK k : Polls(p, controlTick, k)
  BY <1>1, <1>5, PollsSome
<1>7. InLine(Poll(p, controlTick).queue, 0, controlTick, episode) /\ Poll(p, controlTick) \in Pipes
  <2>1. Poll(p, controlTick) \in Pipes
    BY <1>6 DEF Polls
  <2> QED BY <1>1, <1>5, <1>6, <2>1, PollInLine
<1>8. \A e \in Envs : delivered'[e] =
         IF \E i \in 1 .. k : p.queue[i].env = e THEN controlTick ELSE delivered[e]
  <2>1. /\ results \in Seq(Submissions) /\ Len(results) = k
        /\ \A i \in 1 .. k : results[i] = p.queue[i]
    BY <1>6 DEF Polls
  <2> HIDE DEF results
  <2>2. DOMAIN results = 1 .. k
    BY <2>1
  <2>3. \A e \in Envs : e \in {results[i].env : i \in DOMAIN results}
                          <=> \E i \in 1 .. k : p.queue[i].env = e
    BY <2>1, <2>2
  <2> QED BY <1>2, <2>3
<1>9. ASSUME NEW e \in Envs
      PROVE  /\ Holds(buffer'[e], episode[e], controlTick, pipe'.queue, 0)
             /\ EnvInTime(deployment, "emit", controlTick, episode[e], buffer'[e], feed[e], held[e],
                          delivered'[e])
  <2> DEFINE b2 == Deliver(Released(p, controlTick), e)
             d2 == IF \E i \in 1 .. k : p.queue[i].env = e THEN controlTick ELSE delivered[e]
  <2>1. b2 = Deliver(Released(p, controlTick), e)
    OBVIOUS
  <2>2. d2 = IF \E i \in 1 .. k : p.queue[i].env = e THEN controlTick ELSE delivered[e]
    OBVIOUS
  <2>3. buffer'[e] = b2
    BY <1>2
  <2>4. delivered'[e] = d2
    BY <1>8
  <2> HIDE DEF results, b2, d2
  <2>5. /\ Holds(b2, episode[e], controlTick, Poll(p, controlTick).queue, 0)
        /\ EnvInTime(deployment, "emit", controlTick, episode[e], b2, feed[e], held[e], d2)
    BY <1>2, <1>3, <1>6, <2>1, <2>2, InfersEnv
  <2> QED BY <1>2, <2>3, <2>4, <2>5
<1>10. Waiting(latest', controlTick, episode)
  <2>1. CASE ~InferenceDue
    BY <1>1, <1>2, <2>1
  <2>2. CASE InferenceDue
    <3>1. latest' = [e \in Envs |-> [latest[e] EXCEPT !.submitted = TRUE]]
      BY <1>2, <2>2
    <3>2. \A e \in Envs : latest[e] \in Observations
      BY <1>1 DEF Waiting
    <3>3. \A e \in Envs : latest'[e] \in Observations /\ latest'[e].submitted
      BY <3>1, <3>2 DEF Observations
    <3> QED BY <1>1, <3>1, <3>3 DEF Waiting
  <2> QED BY <2>1, <2>2
<1> HIDE DEF results
<1>11. RunnerTypes'
  <2>1. \A e \in Envs : buffer'[e] \in Buffers /\ delivered'[e] \in Int
    BY <1>9 DEF EnvInTime, Stored, FeedInTime
  <2>2. buffer' \in [Envs -> Buffers] /\ delivered' \in [Envs -> Int]
    BY <1>2, <2>1
  <2> QED BY <1>1, <1>2, <1>7, <1>10, <2>2 DEF RunnerTypes
<1>12. QueueInv'
  BY <1>2, <1>7, <1>9 DEF QueueInv
<1>13. EnvsInv'
  BY <1>2, <1>9 DEF EnvsInv
<1>14. RanInv'
  BY <1>2, NothingRanYet
<1> QED BY <1>11, <1>12, <1>13, <1>14 DEF RunnerInv

-----------------------------------------------------------------------------
(***************************************************************************)
(* Step and CloseEpisode.                                                  *)
(***************************************************************************)
LEMMA TickCloses ==
    ASSUME NEW dep, NEW now \in Nat, NEW ep, NEW b, NEW f, NEW h, NEW d,
           EnvInTime(dep, "step", now, ep, b, f, h, d)
    PROVE  EnvInTime(dep, "observe", now + 1, ep, b, f, h, d)
<1>1. /\ Stored(b, ep, now) /\ FeedInTime(dep, "step", now, b, f, d)
      /\ HeldInTime(h, "step", now) /\ Current(dep, ep, b, f, h, d)
  BY DEF EnvInTime
<1>2. \A c \in b.chunks : c.start \in Nat /\ c.start <= now
  BY <1>1 DEF Stored, Buffers, Slots
<1>3. Stored(b, ep, now + 1)
  <2>1. \A c \in b.chunks : c.start <= now + 1
    BY <1>2
  <2> QED BY <1>1, <2>1 DEF Stored
<1>4. FeedInTime(dep, "observe", now + 1, b, f, d)
  <2>1. d \in Int /\ d <= now /\ d <= now + 1
    BY <1>1 DEF FeedInTime
  <2>2. Reach(dep) \in Nat
    BY ReachIs, Constants
  <2>3. Spent(dep, b, now) => Spent(dep, b, now + 1)
    BY <1>2, <2>2 DEF Spent
  <2> QED BY <1>1, <2>1, <2>3 DEF FeedInTime
<1>5. HeldInTime(h, "observe", now + 1)
  <2>1. /\ h.tick \in Nat /\ h.cursor \in Nat /\ h.tick <= now
        /\ h.cursor <= now - h.tick + 1
    BY <1>1 DEF HeldInTime, HeldChunks
  <2>2. h.tick <= now + 1 /\ h.cursor <= now + 1 - h.tick
    BY <2>1
  <2>3. /\ h \in HeldChunks /\ Len(h.rows) <= H /\ h.cursor <= Len(h.rows)
        /\ \A j \in 1 .. Len(h.rows) : \A i \in 1 .. Len(h.rows[j]) :
             h.rows[j][i].for = h.tick + j - 1
    BY <1>1 DEF HeldInTime
  <2> DEFINE next == now + 1
  <2> HIDE <1>1
  <2>4. h.tick <= next /\ h.cursor <= next - h.tick
    BY <2>1, <2>2
  <2> HIDE DEF next
  <2>5. HeldInTime(h, "observe", next)
    BY <2>3, <2>4, Zenon DEF HeldInTime
  <2> QED BY <2>5 DEF next
<1> QED BY <1>1, <1>3, <1>4, <1>5 DEF EnvInTime

\* reset_env of an env: its buffer is empty, and its feed has a number the plane
\* has never seen.
LEMMA EpisodeCloses ==
    ASSUME NEW dep, NEW now \in Nat, NEW ep \in Nat, NEW b, NEW f, NEW h, NEW d,
           EnvInTime(dep, "observe", now, ep, b, f, h, d)
    PROVE  EnvInTime(dep, "observe", now, ep + 1, Clear(b), FeedEndEpisode(f, b), h, -1)
<1> DEFINE b2 == Clear(b)
           f2 == FeedEndEpisode(f, b)
<1>1. /\ Stored(b, ep, now) /\ FeedInTime(dep, "observe", now, b, f, d)
      /\ HeldInTime(h, "observe", now) /\ Current(dep, ep, b, f, h, d)
  BY DEF EnvInTime
<1>2. b2 \in Buffers /\ b2.chunks = {} /\ b2.next = b.next
  BY <1>1 DEF Clear, Stored, Buffers
<1>3. f2.seq = f.seq + 1 /\ f2.arrivals = Arrivals(b) /\ f2 \in Feeds
  <2>1. f.seq \in Nat /\ Arrivals(b) \in Nat
    BY <1>1 DEF FeedInTime, Feeds, Stored, Buffers, Arrivals
  <2> QED BY <2>1 DEF FeedEndEpisode, Feeds
<1> HIDE DEF b2, f2
<1>4. Stored(b2, ep + 1, now)
  <2>1. IsFiniteSet(b2.chunks) /\ Cardinality(b2.chunks) = 0
    BY <1>2, FS_EmptySet
  <2>2. 0 <= ChunkSlots
    BY Constants
  <2> QED BY <1>2, <2>1, <2>2 DEF Stored
<1>5. FeedInTime(dep, "observe", now, b2, f2, -1)
  <2>1. Arrivals(b2) = Arrivals(b) /\ Arrivals(b) \in Nat
    BY <1>1, <1>2 DEF Arrivals, Stored, Buffers
  <2>2. -1 \in Int /\ -1 <= -1 /\ -1 <= now /\ f2.arrivals <= Arrivals(b2)
    BY <1>3, <2>1
  <2> QED BY <1>2, <1>3, <2>1, <2>2 DEF FeedInTime
<1>6. Current(dep, ep + 1, b2, f2, h, -1)
  <2>1. h.seq \in Int /\ f.seq \in Nat /\ h.seq <= f.seq
    BY <1>1 DEF HeldInTime, HeldChunks, FeedInTime, Feeds, Current
  <2>2. h.seq < f2.seq
    BY <1>3, <2>1
  <2>3. h.seq <= f2.seq /\ h.seq # f2.seq
    BY <1>3, <2>1, <2>2
  <2> QED BY <2>3 DEF Current
<1>7. EnvInTime(dep, "observe", now, ep + 1, b2, f2, h, -1)
  BY <1>1, <1>4, <1>5, <1>6 DEF EnvInTime
<1> QED BY <1>7 DEF b2, f2

\* What a reset leaves, at the control tick after it.
ResetOK(p, observed, episodes, buffers, feeds, deliveries, now) ==
    /\ p \in Pipes /\ InLine(p.queue, 0, now, episodes)
    /\ Waiting(observed, now, episodes)
    /\ \A e \in Envs :
         /\ Holds(buffers[e], episodes[e], now, p.queue, 0)
         /\ EnvInTime(deployment, "observe", now, episodes[e], buffers[e], feeds[e],
                      held[e], deliveries[e])

LEMMA ResetsQueue ==
    ASSUME RunnerTypes, QueueInv, NEW done, ResetEnvs(done), NEW now \in Nat, controlTick <= now
    PROVE  /\ pipe' \in Pipes /\ InLine(pipe'.queue, 0, now, episode')
           /\ \A e \in Envs \ done : \A c \in buffer[e].chunks, i \in 1 .. Len(pipe'.queue) :
                c.start <= pipe'.queue[i].tick + Latency
<1>1. /\ pipe \in Pipes /\ controlTick \in Nat /\ InLine(pipe.queue, 0, controlTick, episode)
      /\ \A e \in Envs : Holds(buffer[e], episode[e], controlTick, pipe.queue, 0)
  BY DEF RunnerTypes, QueueInv
<1>2. ResetLine(pipe', done, 0, controlTick, episode)
  BY <1>1, ResetInLine
<1>3. /\ pipe' \in Pipes /\ InLine(pipe'.queue, 0, controlTick, episode)
      /\ \A i \in 1 .. Len(pipe'.queue) : pipe'.queue[i].env \notin done
  BY <1>2 DEF ResetLine
<1>4. \A i \in 1 .. Len(pipe'.queue) :
        pipe'.queue[i].env \in Envs /\ pipe'.queue[i].tick \in Nat
  <2>1. \A i \in 1 .. Len(pipe'.queue) : pipe'.queue[i] \in Submissions
    BY <1>3 DEF InLine
  <2> QED BY <2>1 DEF Submissions
<1>5. InLine(pipe'.queue, 0, now, episode')
  <2>1. episode' = [e \in Envs |-> IF e \in done THEN episode[e] + 1 ELSE episode[e]]
    BY Zenon DEF ResetEnvs
  <2>2. ASSUME NEW i \in 1 .. Len(pipe'.queue)
        PROVE  /\ pipe'.queue[i].tick <= now
               /\ episode'[pipe'.queue[i].env] = episode[pipe'.queue[i].env]
    <3>1. pipe'.queue[i].tick <= controlTick
      BY <1>3 DEF InLine
    <3>2. pipe'.queue[i].tick <= now
      BY <1>1, <1>4, <3>1
    <3> QED BY <1>3, <1>4, <2>1, <3>2
  <2> QED BY <1>3, <2>2 DEF InLine
<1>6. ASSUME NEW e \in Envs, NEW c \in buffer[e].chunks, NEW i \in 1 .. Len(pipe'.queue)
      PROVE  c.start <= pipe'.queue[i].tick + Latency
  <2> DEFINE lo == c.start - Latency
  <2>1. Stored(buffer[e], episode[e], controlTick) /\ Latency \in Nat
    BY <1>1, Constants DEF Holds
  <2>2. c.start \in Nat
    BY <2>1 DEF Stored, Buffers, Slots
  <2>3. lo \in Int
    BY <2>1, <2>2
  <2>4. \A n \in 1 .. Len(pipe.queue) : lo <= pipe.queue[n].tick
    <3>1. \A n \in 1 .. Len(pipe.queue) : c.start <= pipe.queue[n].tick + Latency
      BY <1>1 DEF Holds
    <3>2. \A n \in 1 .. Len(pipe.queue) : pipe.queue[n].tick \in Nat
      <4>1. \A n \in 1 .. Len(pipe.queue) : pipe.queue[n] \in Submissions
        BY <1>1 DEF InLine
      <4> QED BY <4>1 DEF Submissions
    <3> QED BY <2>1, <2>2, <3>1, <3>2
  <2> HIDE DEF lo
  <2>5. InLine(pipe.queue, lo, controlTick, episode)
    BY <1>1, <2>4 DEF InLine
  <2>6. ResetLine(pipe', done, lo, controlTick, episode)
    BY <1>1, <2>3, <2>5, ResetInLine
  <2>7. lo <= pipe'.queue[i].tick
    BY <2>6 DEF ResetLine, InLine
  <2> QED BY <1>4, <2>1, <2>2, <2>7 DEF lo
<1> QED BY <1>3, <1>5, <1>6

LEMMA ResetKeeps ==
    ASSUME RunnerTypes, QueueInv, NEW done, ResetEnvs(done), NEW now \in Nat, controlTick <= now,
           \A e \in Envs : EnvInTime(deployment, "observe", now, episode[e], buffer[e], feed[e],
                                     held[e], delivered[e])
    PROVE  ResetOK(pipe', latest', episode', buffer', feed', delivered', now)
<1>1. /\ feed' = [e \in Envs |->
           IF e \in done THEN FeedEndEpisode(feed[e], buffer[e]) ELSE feed[e]]
      /\ buffer' = [e \in Envs |-> IF e \in done THEN Clear(buffer[e]) ELSE buffer[e]]
      /\ latest' = [e \in Envs |-> IF e \in done THEN NoObservation ELSE latest[e]]
      /\ episode' = [e \in Envs |-> IF e \in done THEN episode[e] + 1 ELSE episode[e]]
      /\ delivered' = [e \in Envs |-> IF e \in done THEN -1 ELSE delivered[e]]
  BY Zenon DEF ResetEnvs
<1>2. /\ pipe' \in Pipes /\ InLine(pipe'.queue, 0, now, episode')
      /\ \A e \in Envs \ done : \A c \in buffer[e].chunks, i \in 1 .. Len(pipe'.queue) :
           c.start <= pipe'.queue[i].tick + Latency
  BY ResetsQueue
<1>3. episode \in [Envs -> Nat] /\ Waiting(latest, controlTick, episode)
  BY DEF RunnerTypes
<1>4. Waiting(latest', now, episode')
  <2>1. NoObservation \in Observations /\ NoObservation.submitted
    BY DEF NoObservation, Observations
  <2>2. latest' \in [Envs -> Observations] /\ episode' \in [Envs -> Nat]
    BY <1>1, <1>3, <2>1 DEF Waiting
  <2>3. \A e \in Envs : latest'[e].submitted \/ latest'[e].episode = episode'[e]
    BY <1>1, <1>3, <2>1 DEF Waiting
  <2> QED BY <2>2, <2>3 DEF Waiting
<1>5. ASSUME NEW e \in Envs
      PROVE  /\ Holds(buffer'[e], episode'[e], now, pipe'.queue, 0)
             /\ EnvInTime(deployment, "observe", now, episode'[e], buffer'[e], feed'[e],
                          held[e], delivered'[e])
  <2>1. EnvInTime(deployment, "observe", now, episode[e], buffer[e], feed[e], held[e],
                  delivered[e])
    OBVIOUS
  <2>2. CASE e \notin done
    <3>1. Stored(buffer[e], episode[e], now)
      BY <2>1 DEF EnvInTime
    <3>2. /\ buffer'[e] = buffer[e] /\ episode'[e] = episode[e] /\ feed'[e] = feed[e]
          /\ delivered'[e] = delivered[e]
      BY <1>1, <2>2
    <3>3. Holds(buffer[e], episode[e], now, pipe'.queue, 0)
      BY <1>2, <2>2, <3>1 DEF Holds
    <3> QED BY <2>1, <3>2, <3>3
  <2>3. CASE e \in done
    <3>1. EnvInTime(deployment, "observe", now, episode[e] + 1, Clear(buffer[e]),
                    FeedEndEpisode(feed[e], buffer[e]), held[e], -1)
      BY <1>3, <2>1, EpisodeCloses
    <3>2. /\ buffer'[e] = Clear(buffer[e]) /\ episode'[e] = episode[e] + 1
          /\ feed'[e] = FeedEndEpisode(feed[e], buffer[e]) /\ delivered'[e] = -1
      BY <1>1, <2>3
    <3>3. Stored(Clear(buffer[e]), episode[e] + 1, now)
      BY <3>1 DEF EnvInTime
    <3>4. buffer[e] \in Buffers
      BY <2>1 DEF EnvInTime, Stored
    <3>5. Clear(buffer[e]).chunks = {}
      BY <3>4 DEF Clear, Buffers
    <3>6. Holds(Clear(buffer[e]), episode[e] + 1, now, pipe'.queue, 0)
      BY <3>3, <3>5 DEF Holds
    <3> QED BY <3>1, <3>2, <3>6
  <2> QED BY <2>2, <2>3
<1> QED BY <1>2, <1>4, <1>5 DEF ResetOK

LEMMA ResetTypes ==
    ASSUME NEW done, ResetEnvs(done), NEW now,
           ResetOK(pipe', latest', episode', buffer', feed', delivered', now)
    PROVE  /\ pipe' \in Pipes /\ Waiting(latest', now, episode') /\ episode' \in [Envs -> Nat]
           /\ buffer' \in [Envs -> Buffers] /\ feed' \in [Envs -> Feeds]
           /\ delivered' \in [Envs -> Int]
<1>1. \A e \in Envs : buffer'[e] \in Buffers /\ feed'[e] \in Feeds /\ delivered'[e] \in Int
  BY DEF ResetOK, EnvInTime, FeedInTime, Stored
<1>2. pipe' \in Pipes /\ Waiting(latest', now, episode') /\ episode' \in [Envs -> Nat]
  BY DEF ResetOK, Waiting
<1>3. /\ feed' = [e \in Envs |->
           IF e \in done THEN FeedEndEpisode(feed[e], buffer[e]) ELSE feed[e]]
      /\ buffer' = [e \in Envs |-> IF e \in done THEN Clear(buffer[e]) ELSE buffer[e]]
      /\ delivered' = [e \in Envs |-> IF e \in done THEN -1 ELSE delivered[e]]
  BY Zenon DEF ResetEnvs
<1> QED BY <1>1, <1>2, <1>3

LEMMA StepKeeps ==
    ASSUME RunnerInv, Step, UNCHANGED deployment
    PROVE  RunnerInv'
<1>1. /\ RunnerTypes /\ QueueInv /\ EnvsInv /\ controlTick \in Nat /\ simTick \in Nat
      /\ InferPeriod \in Nat
  BY Constants DEF RunnerInv, RunnerTypes
<1>2. PICK done \in SUBSET {e \in Envs : episode[e] < MaxEpisode} : ResetEnvs(done)
  BY DEF Step
<1>3. /\ phase = "step" /\ phase' = "observe" /\ controlTick' = controlTick + 1
      /\ simTick' = simTick + InferPeriod /\ UNCHANGED <<held, latched, deployment>>
  BY DEF Step
<1>4. \A e \in Envs : EnvInTime(deployment, "observe", controlTick + 1, episode[e], buffer[e],
                                feed[e], held[e], delivered[e])
  BY <1>1, <1>3, TickCloses DEF EnvsInv
<1>5. controlTick + 1 \in Nat /\ controlTick <= controlTick + 1
  BY <1>1
<1>6. ResetOK(pipe', latest', episode', buffer', feed', delivered', controlTick + 1)
  BY <1>1, <1>2, <1>4, <1>5, ResetKeeps
<1>7. RunnerTypes'
  <2>1. /\ pipe' \in Pipes /\ Waiting(latest', controlTick + 1, episode')
        /\ episode' \in [Envs -> Nat] /\ buffer' \in [Envs -> Buffers]
        /\ feed' \in [Envs -> Feeds] /\ delivered' \in [Envs -> Int]
    BY <1>2, <1>6, ResetTypes
  <2>2. simTick + InferPeriod \in Nat
    BY <1>1
  <2> QED BY <1>1, <1>3, <1>5, <2>1, <2>2 DEF RunnerTypes
<1>8. QueueInv'
  BY <1>3, <1>6 DEF QueueInv, ResetOK
<1>9. EnvsInv'
  BY <1>3, <1>6 DEF EnvsInv, ResetOK
<1>10. RanInv'
  BY <1>3, NothingRanYet
<1> QED BY <1>7, <1>8, <1>9, <1>10 DEF RunnerInv

LEMMA CloseEpisodeKeeps ==
    ASSUME RunnerInv, CloseEpisode, UNCHANGED deployment
    PROVE  RunnerInv'
<1>1. RunnerTypes /\ QueueInv /\ EnvsInv /\ controlTick \in Nat
  BY DEF RunnerInv, RunnerTypes
<1>2. /\ phase = "observe" /\ phase' = "observe" /\ simTick' = 0
      /\ latched' = [e \in Envs |-> FALSE] /\ UNCHANGED <<controlTick, held, deployment>>
      /\ ResetEnvs(Envs)
  BY DEF CloseEpisode
<1>3. \A e \in Envs : EnvInTime(deployment, "observe", controlTick, episode[e], buffer[e],
                                feed[e], held[e], delivered[e])
  BY <1>1, <1>2 DEF EnvsInv
<1>4. ResetOK(pipe', latest', episode', buffer', feed', delivered', controlTick)
  BY <1>1, <1>2, <1>3, ResetKeeps
<1>5. RunnerTypes'
  <2>1. /\ pipe' \in Pipes /\ Waiting(latest', controlTick, episode')
        /\ episode' \in [Envs -> Nat] /\ buffer' \in [Envs -> Buffers]
        /\ feed' \in [Envs -> Feeds] /\ delivered' \in [Envs -> Int]
    BY <1>2, <1>4, ResetTypes
  <2>2. latched' \in [Envs -> BOOLEAN] /\ simTick' \in Nat
    BY <1>2
  <2> QED BY <1>1, <1>2, <2>1, <2>2 DEF RunnerTypes
<1>6. QueueInv'
  BY <1>2, <1>4 DEF QueueInv, ResetOK
<1>7. EnvsInv'
  BY <1>2, <1>4 DEF EnvsInv, ResetOK
<1>8. RanInv'
  BY <1>2, NothingRanYet
<1> QED BY <1>5, <1>6, <1>7, <1>8 DEF RunnerInv

-----------------------------------------------------------------------------
(***************************************************************************)
(* Init, and the theorems.                                                 *)
(***************************************************************************)
LEMMA InitInv == Init => RunnerInv
<1> SUFFICES ASSUME Init PROVE RunnerInv
  OBVIOUS
<1>1. /\ deployment \in DeploymentType /\ phase = "observe" /\ controlTick = 0 /\ simTick = 0
      /\ pipe = [queue |-> << >>, dropped |-> 0]
      /\ latest = [e \in Envs |-> NoObservation]
      /\ buffer = [e \in Envs |-> NewBuffer]
      /\ feed = [e \in Envs |-> NewFeed]
      /\ held = [e \in Envs |-> NothingHeld]
      /\ latched = [e \in Envs |-> FALSE]
      /\ episode = [e \in Envs |-> 0]
      /\ delivered = [e \in Envs |-> -1]
  BY Constants DEF Init, NewPipeline
<1>2. pipe \in Pipes /\ pipe.queue = << >> /\ Len(pipe.queue) = 0
  BY <1>1 DEF Pipes
<1>3. NewBuffer \in Buffers /\ NewBuffer.chunks = {} /\ Arrivals(NewBuffer) = 0
  BY DEF NewBuffer, Buffers, Arrivals
<1>4. NewFeed \in Feeds /\ NewFeed.seq = 0 /\ NewFeed.arrivals = 0
  BY DEF NewFeed, Feeds
<1>5. /\ NothingHeld \in HeldChunks /\ NothingHeld.seq = -1 /\ NothingHeld.rows = << >>
      /\ NothingHeld.cursor = 0 /\ NothingHeld.tick = 0
  <2>1. << >> \in Seq(Actions) /\ "RecedingHorizon" \in Modes /\ -1 \in Int
    BY DEF Modes
  <2>2. NothingHeld = [seq |-> -1, rows |-> << >>, mode |-> "RecedingHorizon", cursor |-> 0,
                       tick |-> 0]
    BY DEF NothingHeld, NoSeq
  <2>3. NothingHeld \in HeldChunks
    BY <2>1, <2>2, FreshHeld
  <2> QED BY <2>2, <2>3
<1>6. Stored(NewBuffer, 0, 0)
  <2>1. IsFiniteSet(NewBuffer.chunks) /\ Cardinality(NewBuffer.chunks) = 0
    BY <1>3, FS_EmptySet
  <2>2. 0 <= ChunkSlots
    BY Constants
  <2> QED BY <1>3, <2>1, <2>2 DEF Stored
<1>7. Waiting(latest, 0, episode)
  <2>1. NoObservation \in Observations /\ NoObservation.submitted
    BY DEF NoObservation, Observations
  <2> QED BY <1>1, <2>1 DEF Waiting
<1>8. RunnerTypes
  <2>1. episode \in [Envs -> Nat] /\ buffer \in [Envs -> Buffers] /\ feed \in [Envs -> Feeds]
    BY <1>1, <1>3, <1>4
  <2>2. /\ held \in [Envs -> HeldChunks] /\ latched \in [Envs -> BOOLEAN]
        /\ delivered \in [Envs -> Int]
    BY <1>1, <1>5
  <2> QED BY <1>1, <1>2, <1>7, <2>1, <2>2 DEF RunnerTypes
<1>9. QueueInv
  <2>1. InLine(pipe.queue, 0, controlTick, episode)
    <3>1. pipe.queue \in Seq(Submissions) /\ Len(pipe.queue) <= MaxPending
      BY <1>2, Constants
    <3>2. 1 .. Len(pipe.queue) = {}
      BY <1>2
    <3> QED BY <3>1, <3>2 DEF InLine
  <2>2. \A e \in Envs : Holds(buffer[e], episode[e], controlTick, pipe.queue, 0)
    BY <1>1, <1>3, <1>6 DEF Holds
  <2> QED BY <2>1, <2>2 DEF QueueInv
<1>10. EnvsInv
  <2>1. FeedInTime(deployment, "observe", 0, NewBuffer, NewFeed, -1)
    BY <1>3, <1>4 DEF FeedInTime
  <2>2. HeldInTime(NothingHeld, "observe", 0)
    <3>1. Len(NothingHeld.rows) = 0 /\ 1 .. Len(NothingHeld.rows) = {}
      BY <1>5
    <3>2. 0 <= H
      BY Constants
    <3> QED BY <1>5, <3>1, <3>2 DEF HeldInTime
  <2>3. Current(deployment, 0, NewBuffer, NewFeed, NothingHeld, -1)
    BY <1>4, <1>5 DEF Current
  <2>4. EnvInTime(deployment, "observe", 0, 0, NewBuffer, NewFeed, NothingHeld, -1)
    BY <1>6, <2>1, <2>2, <2>3 DEF EnvInTime
  <2> QED BY <1>1, <2>4 DEF EnvsInv
<1>11. RanInv
  BY <1>1 DEF RanInv, EpisodeIsolation, RowsOnTime, DeadPolicyStops, LookaheadExact
<1> QED BY <1>8, <1>9, <1>10, <1>11 DEF RunnerInv

LEMMA StutterKeeps ==
    ASSUME RunnerInv, UNCHANGED vars
    PROVE  RunnerInv'
<1>1. UNCHANGED <<phase, controlTick, simTick, pipe, latest, buffer, feed, held, latched,
                  commanded, ran, episode, delivered, deployment>>
  BY DEF vars, env_
<1>2. RunnerTypes' /\ QueueInv' /\ EnvsInv'
  BY <1>1 DEF RunnerInv, RunnerTypes, QueueInv, EnvsInv
<1>3. RanInv'
  BY <1>1 DEF RunnerInv, RanInv, EpisodeIsolation, RowsOnTime, DeadPolicyStops, LookaheadExact,
              RanParts
<1> QED BY <1>2, <1>3 DEF RunnerInv

\* The conjuncts of RunnerInv hold together in every reachable state.
THEOREM RunnerInvariant == Spec => []RunnerInv
<1>1. Init => RunnerInv
  BY InitInv
<1>2. RunnerInv /\ [Next]_vars => RunnerInv'
  <2> SUFFICES ASSUME RunnerInv, [Next]_vars PROVE RunnerInv'
    OBVIOUS
  <2>1. CASE Observe /\ UNCHANGED deployment
    BY <2>1, ObserveKeeps
  <2>2. CASE Infer /\ UNCHANGED deployment
    BY <2>2, InferKeeps
  <2>3. CASE SkipInfer /\ UNCHANGED deployment
    BY <2>3, SkipInferKeeps
  <2>4. CASE Emit /\ UNCHANGED deployment
    BY <2>4, EmitKeeps
  <2>5. CASE Step /\ UNCHANGED deployment
    BY <2>5, StepKeeps
  <2>6. CASE CloseEpisode /\ UNCHANGED deployment
    BY <2>6, CloseEpisodeKeeps
  <2>7. CASE UNCHANGED vars
    BY <2>7, StutterKeeps
  <2> QED BY <2>1, <2>2, <2>3, <2>4, <2>5, <2>6, <2>7 DEF Next
<1> QED BY <1>1, <1>2, PTL DEF Spec

\* Of every schedule, latency, contract and deployment: the queue of the inference
\* pipeline and every chunk buffer keep within their bounds, the cursor of a plane stays
\* within the rows it holds, and no feed has seen more results than its buffer was given.
THEOREM RunnerTypeCorrect == Spec => []TypeOK
<1>1. RunnerInv => TypeOK
  <2> SUFFICES ASSUME RunnerInv PROVE TypeOK
    OBVIOUS
  <2>1. /\ phase \in {"observe", "infer", "emit", "step"}
        /\ controlTick \in Nat /\ simTick \in Nat
        /\ pipe.queue \in Seq(Submissions) /\ Len(pipe.queue) <= MaxPending
        /\ latched \in [Envs -> BOOLEAN]
    BY DEF RunnerInv, RunnerTypes, QueueInv, InLine
  <2>2. \A i \in DOMAIN pipe.queue :
          pipe.queue[i] \in [env : Envs, tick : Nat, episode : Nat]
    <3>1. DOMAIN pipe.queue = 1 .. Len(pipe.queue)
      BY <2>1
    <3>2. \A i \in 1 .. Len(pipe.queue) : pipe.queue[i] \in Submissions
      BY <2>1
    <3> QED BY <3>1, <3>2, Zenon DEF Submissions
  <2>3. ASSUME NEW e \in Envs
        PROVE  /\ Cardinality(buffer[e].chunks) <= ChunkSlots
               /\ feed[e].seq \in Nat /\ feed[e].arrivals \in 0 .. Arrivals(buffer[e])
               /\ held[e].cursor \in 0 .. Len(held[e].rows)
               /\ Len(held[e].rows) <= H
               /\ latched[e] \in BOOLEAN
    <3>1. EnvInTime(deployment, phase, controlTick, episode[e], buffer[e], feed[e], held[e],
                    delivered[e])
      BY DEF RunnerInv, EnvsInv
    <3>2. /\ Cardinality(buffer[e].chunks) <= ChunkSlots /\ buffer[e].next \in Nat
          /\ feed[e].seq \in Nat /\ feed[e].arrivals \in Nat
          /\ feed[e].arrivals <= Arrivals(buffer[e])
      BY <3>1 DEF EnvInTime, Stored, Buffers, FeedInTime, Feeds
    <3>3. Arrivals(buffer[e]) \in Int
      BY <3>2 DEF Arrivals
    <3>4. /\ Len(held[e].rows) <= H /\ held[e].cursor \in Nat /\ held[e].rows \in Seq(Actions)
          /\ held[e].cursor <= Len(held[e].rows)
      BY <3>1 DEF EnvInTime, HeldInTime, HeldChunks
    <3> QED BY <2>1, <3>2, <3>3, <3>4
  <2> QED BY <2>1, <2>2, <2>3 DEF TypeOK
<1> QED BY <1>1, RunnerInvariant, PTL

\* No plane ever executes a row predicted from an earlier episode of its env.
THEOREM AlwaysEpisodeIsolation == Spec => []EpisodeIsolation
<1>1. RunnerInv => EpisodeIsolation
  BY DEF RunnerInv, RanInv
<1> QED BY <1>1, RunnerInvariant, PTL

\* No plane ever executes a row ahead of the tick it was predicted for, or behind it by
\* more than the inference budget, whatever the latency and the tripping of watchdogs.
THEOREM AlwaysRowsOnTime == Spec => []RowsOnTime
<1>1. RunnerInv => RowsOnTime
  BY DEF RunnerInv, RanInv
<1> QED BY <1>1, RunnerInvariant, PTL

\* Once the policy has delivered nothing for the inference budget (and, for increments,
\* for the rest of a chunk before it), no row runs, wherever it stopped.
THEOREM AlwaysDeadPolicyStops == Spec => []DeadPolicyStops
<1>1. RunnerInv => DeadPolicyStops
  BY DEF RunnerInv, RanInv
<1> QED BY <1>1, RunnerInvariant, PTL

\* The lookahead the feed cut when a result arrived is, row for row, what blending serves
\* in the ticks it is executed in, for every blend, execution mode and space of action.
THEOREM AlwaysLookaheadExact == Spec => []LookaheadExact
<1>1. RunnerInv => LookaheadExact
  BY DEF RunnerInv, RanInv
<1> QED BY <1>1, RunnerInvariant, PTL

-----------------------------------------------------------------------------
(***************************************************************************)
(* The round robin.                                                        *)
(***************************************************************************)
LEMMA DivMod ==
    ASSUME NEW n \in Nat, NEW r \in Nat \ {0}
    PROVE  /\ n \div r \in Nat /\ n % r \in 0 .. r - 1 /\ n = (n \div r) * r + (n % r)
           /\ (n \div r) * r <= n /\ n < (n \div r) * r + r
OBVIOUS

LEMMA Products ==
    ASSUME NEW a \in Nat, NEW b \in Nat, a < b, NEW r \in Nat
    PROVE  a * r + r <= b * r
<1> DEFINE d == b - a
<1>1. d \in Nat /\ d >= 1 /\ b = a + d
  OBVIOUS
<1> HIDE DEF d
<1>2. b * r = a * r + d * r
  BY <1>1
<1>3. d * r >= r
  BY <1>1
<1> QED BY <1>1, <1>2, <1>3

LEMMA Quotient ==
    ASSUME NEW k \in Nat, NEW r \in Nat \ {0}, NEW d \in 0 .. r - 1
    PROVE  (k * r + d) \div r = k /\ (k * r + d) % r = d
<1> DEFINE n == k * r + d
           q == n \div r
<1>1. n \in Nat
  OBVIOUS
<1>2. q \in Nat /\ q * r <= n /\ n < q * r + r /\ n = q * r + (n % r)
  BY <1>1, DivMod
<1>3. n >= k * r /\ n < k * r + r
  OBVIOUS
<1> HIDE DEF n, q
<1>4. q = k
  <2>1. CASE q < k
    BY <1>1, <1>2, <1>3, <2>1, Products
  <2>2. CASE k < q
    BY <1>1, <1>2, <1>3, <2>2, Products
  <2> QED BY <1>2, <2>1, <2>2
<1>5. n = k * r + d
  BY DEF n
<1>6. n % r = d
  <2>1. n % r \in Int
    BY <1>1, DivMod
  <2>2. k * r \in Int
    OBVIOUS
  <2> QED BY <1>2, <1>4, <1>5, <2>1, <2>2
<1> QED BY <1>4, <1>6 DEF n, q

LEMMA Cycles ==
    /\ Cycle \in Nat \ {0} /\ Envs = 0 .. NumEnvs - 1
    /\ \A e \in Envs : \E k \in 0 .. Cycle - 1 : e \in k * ObsBatch .. k * ObsBatch + ObsBatch - 1
<1>1. NumEnvs \in Nat \ {0} /\ ObsBatch \in Nat \ {0} /\ Envs = 0 .. NumEnvs - 1
  BY Constants
<1> DEFINE top == NumEnvs + ObsBatch - 1
<1>2. top \in Nat /\ Cycle = top \div ObsBatch
  BY <1>1 DEF Cycle, CeilDiv
<1>3. top = NumEnvs + ObsBatch - 1
  OBVIOUS
<1> HIDE DEF top
<1>4. Cycle \in Nat /\ top < Cycle * ObsBatch + ObsBatch
  BY <1>1, <1>2, DivMod
<1>5. Cycle * ObsBatch \in Nat /\ NumEnvs <= Cycle * ObsBatch
  BY <1>1, <1>3, <1>4
<1>6. ASSUME NEW e \in Envs
      PROVE  \E k \in 0 .. Cycle - 1 : e \in k * ObsBatch .. k * ObsBatch + ObsBatch - 1
  <2> DEFINE k == e \div ObsBatch
  <2>1. e \in Nat /\ e < NumEnvs
    BY <1>1
  <2>2. k \in Nat /\ k * ObsBatch <= e /\ e < k * ObsBatch + ObsBatch
    BY <1>1, <2>1, DivMod
  <2> HIDE DEF k
  <2>3. k * ObsBatch \in Nat
    BY <1>1, <2>2
  <2>4. k < Cycle
    <3>1. CASE k = Cycle
      BY <1>1, <1>5, <2>1, <2>2, <2>3, <3>1
    <3>2. CASE Cycle < k
      <4>1. Cycle * ObsBatch + ObsBatch <= k * ObsBatch
        BY <1>1, <1>4, <2>2, <3>2, Products
      <4> QED BY <1>1, <1>5, <2>1, <2>2, <2>3, <4>1
    <3> QED BY <1>4, <2>2, <3>1, <3>2
  <2>5. k \in 0 .. Cycle - 1 /\ e \in k * ObsBatch .. k * ObsBatch + ObsBatch - 1
    BY <1>1, <1>4, <2>1, <2>2, <2>3, <2>4
  <2> QED BY <2>5
<1>7. Cycle # 0
  BY <1>1, <1>5
<1> QED BY <1>1, <1>4, <1>6, <1>7

\* Of any Cycle successive slots one is the slot of a block.
LEMMA SlotComes ==
    ASSUME NEW first \in Nat, NEW k \in 0 .. Cycle - 1
    PROVE  \E n \in first .. first + Cycle - 1 : n % Cycle = k
<1>1. Cycle \in Nat \ {0}
  BY Cycles
<1> DEFINE a == first \div Cycle
           m == first % Cycle
<1>2. a \in Nat /\ m \in 0 .. Cycle - 1 /\ first = a * Cycle + m
  BY <1>1, DivMod
<1> HIDE DEF a, m
<1>3. CASE m <= k
  <2>1. (a * Cycle + k) % Cycle = k
    BY <1>1, <1>2, Quotient
  <2>2. a * Cycle \in Nat
    BY <1>1, <1>2
  <2>3. a * Cycle + k \in first .. first + Cycle - 1
    BY <1>1, <1>2, <1>3, <2>2
  <2> QED BY <2>1, <2>3
<1>4. CASE k < m
  <2>1. ((a + 1) * Cycle + k) % Cycle = k
    BY <1>1, <1>2, Quotient
  <2>2. a * Cycle \in Nat /\ (a + 1) * Cycle = a * Cycle + Cycle
    BY <1>1, <1>2
  <2>3. (a + 1) * Cycle + k \in first .. first + Cycle - 1
    BY <1>1, <1>2, <1>4, <2>2
  <2> QED BY <2>1, <2>3
<1> QED BY <1>1, <1>2, <1>3, <1>4

\* Among any Cycle * ObsPeriod successive simulation ticks one observes a given env.
LEMMA EveryCycle ==
    ASSUME NEW e \in Envs, NEW s \in Nat
    PROVE  \E t \in s .. s + Cycle * ObsPeriod - 1 : e \in ObservationEnvs(t)
<1>1. Cycle \in Nat \ {0} /\ ObsPeriod \in Nat \ {0} /\ ObsBatch \in Nat \ {0}
  BY Cycles, Constants
<1>2. PICK k \in 0 .. Cycle - 1 : e \in k * ObsBatch .. k * ObsBatch + ObsBatch - 1
  BY Cycles
<1> DEFINE first == (s + ObsPeriod - 1) \div ObsPeriod
<1>3. /\ first \in Nat /\ first * ObsPeriod <= s + ObsPeriod - 1
      /\ s + ObsPeriod - 1 < first * ObsPeriod + ObsPeriod
  <2>1. s + ObsPeriod - 1 \in Nat
    BY <1>1
  <2> QED BY <1>1, <2>1, DivMod
<1> HIDE DEF first
<1>4. PICK n \in first .. first + Cycle - 1 : n % Cycle = k
  BY <1>3, SlotComes
<1>5. n \in Nat /\ first <= n /\ n < first + Cycle
  BY <1>1, <1>3
<1> DEFINE t == n * ObsPeriod
<1>6. t \in Nat /\ t \div ObsPeriod = n /\ t % ObsPeriod = 0
  <2>1. 0 \in 0 .. ObsPeriod - 1 /\ t = n * ObsPeriod + 0 /\ t \in Nat
    BY <1>1, <1>5
  <2> QED BY <1>1, <1>5, <2>1, Quotient
<1>7. first * ObsPeriod <= t /\ t + ObsPeriod <= (first + Cycle) * ObsPeriod
  <2>1. first * ObsPeriod <= t
    <3>1. CASE first = n
      BY <1>1, <1>5, <3>1
    <3>2. CASE first < n
      <4>1. first * ObsPeriod + ObsPeriod <= n * ObsPeriod
        BY <1>1, <1>3, <1>5, <3>2, Products
      <4> QED BY <1>1, <1>3, <1>5, <4>1
    <3> QED BY <1>3, <1>5, <3>1, <3>2
  <2>2. first + Cycle \in Nat
    BY <1>1, <1>3
  <2>3. t + ObsPeriod <= (first + Cycle) * ObsPeriod
    BY <1>1, <1>5, <2>2, Products
  <2> QED BY <2>1, <2>3
<1>8. e \in ObservationEnvs(t)
  <2>1. Fires(ObsPeriod, t)
    BY <1>6 DEF Fires
  <2>2. (t \div ObsPeriod) % Cycle = k
    BY <1>4, <1>6
  <2> HIDE DEF t
  <2> QED BY <1>2, <2>1, <2>2 DEF ObservationEnvs
<1> HIDE DEF t
<1>9. t \in s .. s + Cycle * ObsPeriod - 1
  <2>1. (first + Cycle) * ObsPeriod = first * ObsPeriod + Cycle * ObsPeriod
    BY <1>1, <1>3
  <2>2. first * ObsPeriod \in Nat /\ Cycle * ObsPeriod \in Nat
    BY <1>1, <1>3
  <2> QED BY <1>1, <1>3, <1>6, <1>7, <2>1, <2>2
<1> QED BY <1>8, <1>9

\* How many control ticks have begun to observe since tick l, and how far the
\* simulation clock is then.
Gap(ph, now, l) == IF ph = "observe" THEN now - l - 1 ELSE now - l
Observed(ph, sim) == IF ph = "observe" THEN sim ELSE sim + InferPeriod

\* An env whose observation is of tick l was not observed in the ticks after it.
Overlooked(e, ph, now, sim, l) ==
    /\ Gap(ph, now, l) \in Nat
    /\ Observed(ph, sim) - Gap(ph, now, l) * InferPeriod \in Nat
    /\ \A t \in Observed(ph, sim) - Gap(ph, now, l) * InferPeriod .. Observed(ph, sim) - 1 :
         e \notin ObservationEnvs(t)

RoundsFor(e, ph, now, sim, observed, episodes) ==
    observed[e] # NoObservation \/ episodes[e] = 0 =>
      Overlooked(e, ph, now, sim, observed[e].tick)
RoundsInv == \A e \in Envs : RoundsFor(e, phase, controlTick, simTick, latest, episode)

\* The rest of a control tick is no observation.
LEMMA OverlookedOn ==
    ASSUME NEW e, NEW ph, NEW then, ph # "observe", then # "observe", NEW now, NEW sim, NEW l,
           Overlooked(e, ph, now, sim, l)
    PROVE  Overlooked(e, then, now, sim, l)
BY Zenon DEF Overlooked, Gap, Observed

LEMMA OverlookedNext ==
    ASSUME NEW e, NEW now \in Nat, NEW sim \in Nat, NEW l \in Int,
           Overlooked(e, "step", now, sim, l)
    PROVE  Overlooked(e, "observe", now + 1, sim + InferPeriod, l)
<1>1. Gap("observe", now + 1, l) = Gap("step", now, l)
  BY DEF Gap
<1>2. Observed("observe", sim + InferPeriod) = Observed("step", sim)
  BY DEF Observed
<1> QED BY <1>1, <1>2, Zenon DEF Overlooked

LEMMA ObservedNow ==
    ASSUME NEW e, NEW now \in Nat, NEW sim \in Nat
    PROVE  Overlooked(e, "infer", now, sim, now)
<1>1. Gap("infer", now, now) = 0
  BY DEF Gap
<1>2. Observed("infer", sim) \in Nat
  BY Constants DEF Observed
<1>3. 0 * InferPeriod = 0
  BY Constants
<1> QED BY <1>1, <1>2, <1>3 DEF Overlooked

LEMMA OverlookedAgain ==
    ASSUME NEW e, NEW now \in Nat, NEW sim \in Nat, NEW l \in Int,
           Overlooked(e, "observe", now, sim, l), e \notin ObservedIn(sim)
    PROVE  Overlooked(e, "infer", now, sim, l)
<1> DEFINE g == Gap("observe", now, l)
           from == sim - g * InferPeriod
<1>1. g \in Nat /\ InferPeriod \in Nat /\ Gap("infer", now, l) = g + 1
  BY Constants DEF Overlooked, Gap
<1>2. from \in Nat /\ \A t \in from .. sim - 1 : e \notin ObservationEnvs(t)
  BY DEF Overlooked, Observed
<1>3. Observed("infer", sim) = sim + InferPeriod
  BY DEF Observed
<1>4. (sim + InferPeriod) - (g + 1) * InferPeriod = from
  <2>1. (g + 1) * InferPeriod = g * InferPeriod + InferPeriod /\ g * InferPeriod \in Nat
    BY <1>1
  <2> HIDE DEF g
  <2> QED BY <1>1, <2>1
<1>5. \A t \in sim .. sim + InferPeriod - 1 : e \notin ObservationEnvs(t)
  BY DEF ObservedIn, Window
<1> HIDE DEF g, from
<1>6. \A t \in from .. sim + InferPeriod - 1 : e \notin ObservationEnvs(t)
  <2>1. \A t \in from .. sim + InferPeriod - 1 :
          t \in from .. sim - 1 \/ t \in sim .. sim + InferPeriod - 1
    BY <1>1, <1>2
  <2> QED BY <1>2, <1>5, <2>1
<1>7. g + 1 \in Nat
  BY <1>1
<1> QED BY <1>1, <1>2, <1>3, <1>4, <1>6, <1>7 DEF Overlooked

\* A gap is shorter than a cycle of observation slots.
LEMMA GapBounded ==
    ASSUME NEW e \in Envs, NEW ph, NEW now, NEW sim \in Nat, NEW l, Overlooked(e, ph, now, sim, l)
    PROVE  Gap(ph, now, l) <= CeilDiv(Cycle * ObsPeriod, InferPeriod)
<1> DEFINE g == Gap(ph, now, l)
           end == Observed(ph, sim)
           from == end - g * InferPeriod
           length == Cycle * ObsPeriod
<1>1. Cycle \in Nat \ {0} /\ ObsPeriod \in Nat \ {0} /\ InferPeriod \in Nat \ {0}
  BY Cycles, Constants
<1>2. /\ g \in Nat /\ from \in Nat /\ end \in Nat
      /\ \A t \in from .. end - 1 : e \notin ObservationEnvs(t)
  BY <1>1 DEF Overlooked, Observed
<1>3. from = end - g * InferPeriod /\ g * InferPeriod \in Nat /\ length \in Nat
  <2> HIDE DEF g, end
  <2> QED BY <1>1, <1>2
<1>4. PICK t \in from .. from + length - 1 : e \in ObservationEnvs(t)
  BY <1>2, EveryCycle
<1> HIDE DEF g, end, from
<1>5. g * InferPeriod < length
  BY <1>2, <1>3, <1>4
<1> HIDE DEF length
<1> DEFINE w == (length + InferPeriod - 1) \div InferPeriod
<1>6. w \in Nat /\ length + InferPeriod - 1 < w * InferPeriod + InferPeriod
  <2>1. length + InferPeriod - 1 \in Nat
    BY <1>1, <1>3
  <2> QED BY <1>1, <2>1, DivMod
<1> HIDE DEF w
<1>7. w * InferPeriod \in Nat /\ g * InferPeriod < w * InferPeriod
  BY <1>1, <1>3, <1>5, <1>6
<1>8. g <= w
  <2>1. CASE w < g
    <3>1. w * InferPeriod + InferPeriod <= g * InferPeriod
      BY <1>1, <1>2, <1>6, <2>1, Products
    <3> QED BY <1>1, <1>3, <1>7, <3>1
  <2> QED BY <1>2, <1>6, <2>1
<1> QED BY <1>8 DEF g, w, length, CeilDiv

LEMMA RoundsKept ==
    ASSUME RunnerTypes, RoundsInv, Next
    PROVE  RoundsInv'
<1>1. /\ controlTick \in Nat /\ simTick \in Nat /\ InferPeriod \in Nat
      /\ latest \in [Envs -> Observations] /\ episode \in [Envs -> Nat]
  BY Constants DEF RunnerTypes, Waiting
<1>2. \A e \in Envs : latest[e].tick \in Int
  BY <1>1 DEF Observations
<1>3. \A e \in Envs : RoundsFor(e, phase, controlTick, simTick, latest, episode)
  BY DEF RoundsInv
<1>4. ASSUME NEW e \in Envs
      PROVE  RoundsFor(e, phase', controlTick', simTick', latest', episode')
  <2>1. CASE Observe
    <3>1. /\ phase = "observe" /\ phase' = "infer"
          /\ UNCHANGED <<controlTick, simTick, episode>>
          /\ latest'[e] = IF e \in ObservedIn(simTick)
               THEN [tick |-> controlTick, episode |-> episode[e], submitted |-> FALSE]
               ELSE latest[e]
      BY <2>1 DEF Observe
    <3>2. CASE e \in ObservedIn(simTick)
      <4>1. latest'[e].tick = controlTick
        BY <3>1, <3>2
      <4> QED BY <1>1, <3>1, <4>1, ObservedNow DEF RoundsFor
    <3>3. CASE e \notin ObservedIn(simTick)
      BY <1>1, <1>2, <1>3, <3>1, <3>3, OverlookedAgain DEF RoundsFor
    <3> QED BY <3>2, <3>3
  <2>2. CASE Infer
    <3>1. /\ phase = "infer" /\ phase' = "emit"
          /\ UNCHANGED <<controlTick, simTick, episode>>
          /\ latest' = IF InferenceDue
                         THEN [x \in Envs |-> [latest[x] EXCEPT !.submitted = TRUE]]
                         ELSE latest
      BY <2>2, Zenon DEF Infer
    <3>2. latest'[e].tick = latest[e].tick
      BY <1>1, <3>1 DEF Observations
    <3>3. latest[e] = NoObservation => latest'[e] = NoObservation
      <4>1. [NoObservation EXCEPT !.submitted = TRUE] = NoObservation
        <5>1. NoObservation \in Observations /\ NoObservation.submitted = TRUE
          BY DEF NoObservation, Observations
        <5>2. \A r \in Observations :
                r.submitted = TRUE => [r EXCEPT !.submitted = TRUE] = r
          BY Zenon DEF Observations
        <5> QED BY <5>1, <5>2
      <4>2. latest'[e] = IF InferenceDue THEN [latest[e] EXCEPT !.submitted = TRUE]
                         ELSE latest[e]
        BY <1>1, <3>1
      <4> QED BY <4>1, <4>2
    <3> QED BY <1>3, <3>1, <3>2, <3>3, OverlookedOn DEF RoundsFor
  <2>3. CASE SkipInfer
    BY <1>3, <2>3, OverlookedOn DEF RoundsFor, SkipInfer, env_
  <2>4. CASE Emit
    BY <1>3, <2>4, OverlookedOn DEF RoundsFor, Emit
  <2>5. CASE Step
    <3>1. PICK done \in SUBSET {x \in Envs : episode[x] < MaxEpisode} : ResetEnvs(done)
      BY <2>5 DEF Step
    <3>2. /\ phase = "step" /\ phase' = "observe" /\ controlTick' = controlTick + 1
          /\ simTick' = simTick + InferPeriod
      BY <2>5 DEF Step
    <3>3. /\ latest'[e] = IF e \in done THEN NoObservation ELSE latest[e]
          /\ episode'[e] = IF e \in done THEN episode[e] + 1 ELSE episode[e]
      BY <3>1, Zenon DEF ResetEnvs
    <3>4. CASE e \in done
      <4>1. episode'[e] # 0
        BY <1>1, <3>3, <3>4
      <4> QED BY <3>3, <3>4, <4>1 DEF RoundsFor
    <3>5. CASE e \notin done
      BY <1>1, <1>2, <1>3, <3>2, <3>3, <3>5, OverlookedNext DEF RoundsFor
    <3> QED BY <3>4, <3>5
  <2>6. CASE CloseEpisode
    <3>1. latest'[e] = NoObservation /\ episode'[e] = episode[e] + 1
      BY <2>6, Zenon DEF CloseEpisode, ResetEnvs
    <3>2. episode'[e] # 0
      BY <1>1, <3>1
    <3> QED BY <3>1, <3>2 DEF RoundsFor
  <2> QED BY <2>1, <2>2, <2>3, <2>4, <2>5, <2>6 DEF Next
<1> QED BY <1>4 DEF RoundsInv

\* Of every schedule: the latest observation of an env is never older than one cycle of
\* observation slots, and in its first episode no env waits longer for its first one.
THEOREM AlwaysRoundRobinBounded == Spec => []RoundRobinBounded
<1>1. Init => RoundsInv
  <2> SUFFICES ASSUME Init, NEW e \in Envs
               PROVE  RoundsFor(e, phase, controlTick, simTick, latest, episode)
    BY DEF RoundsInv
  <2>1. phase = "observe" /\ controlTick = 0 /\ simTick = 0 /\ latest[e].tick = -1
    BY DEF Init, NoObservation
  <2>2. Gap("observe", 0, -1) = 0 /\ Observed("observe", 0) = 0 /\ 0 * InferPeriod = 0
    BY Constants DEF Gap, Observed
  <2>3. Overlooked(e, "observe", 0, 0, -1)
    BY <2>2 DEF Overlooked
  <2> QED BY <2>1, <2>3 DEF RoundsFor
<1>2. RunnerInv /\ RoundsInv /\ [Next]_vars => RoundsInv'
  <2> SUFFICES ASSUME RunnerInv, RoundsInv, [Next]_vars PROVE RoundsInv'
    OBVIOUS
  <2>1. CASE Next
    BY <2>1, RoundsKept DEF RunnerInv
  <2>2. CASE UNCHANGED vars
    BY <2>2 DEF vars, env_, RoundsInv
  <2> QED BY <2>1, <2>2
<1>3. RunnerInv /\ RoundsInv => RoundRobinBounded
  <2> SUFFICES ASSUME RunnerInv, RoundsInv, phase = "emit", NEW e \in Envs,
                      latest[e] # NoObservation \/ episode[e] = 0
               PROVE  ObsAge(e) <= CeilDiv(Cycle * ObsPeriod, InferPeriod)
    BY DEF RoundRobinBounded
  <2>1. /\ controlTick \in Nat /\ simTick \in Nat /\ latest \in [Envs -> Observations]
        /\ Overlooked(e, "emit", controlTick, simTick, latest[e].tick)
    BY DEF RunnerInv, RunnerTypes, Waiting, RoundsInv, RoundsFor
  <2>2. Gap("emit", controlTick, latest[e].tick) <= CeilDiv(Cycle * ObsPeriod, InferPeriod)
    BY <2>1, GapBounded
  <2>3. ObsAge(e) = Gap("emit", controlTick, latest[e].tick)
    <3>1. NoObservation.tick = -1
      BY DEF NoObservation
    <3>2. latest[e].tick \in Int
      BY <2>1 DEF Observations
    <3> QED BY <2>1, <3>1, <3>2 DEF ObsAge, Gap
  <2> QED BY <2>2, <2>3
<1> QED BY <1>1, <1>2, <1>3, RunnerInvariant, PTL DEF Spec
=============================================================================
