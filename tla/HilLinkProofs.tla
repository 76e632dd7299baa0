---------------------------- MODULE HilLinkProofs ----------------------------
(***************************************************************************)
(* The HIL link and its log, for any number of controllers, any network    *)
(* and a sink that may fail anywhere: the replay of the log, the age of    *)
(* what runs, the loss counter and the command stream.                     *)
(***************************************************************************)
EXTENDS HilLink, EmbeddedRuntimeProofs, FiniteSetTheorems

Ids == [session : Nat, seq : Nat]
CommandRows == [id : Ids, obs : Nat, row : Nat]
IsSeq(f) == Len(f) \in Nat /\ f = [i \in 1 .. Len(f) |-> f[i]]


(***************************************************************************)
(* The inductive invariant, a part for each thing proved.                  *)
(***************************************************************************)
CoreTypes ==
    /\ core \in Cores(CommandRows, Poses) /\ InStep(core)
    /\ stats \in [commands : Nat, superseded : Nat, deadlineMiss : Nat]
    /\ core.seq = stats.commands
    /\ now \in 0 .. MaxTick /\ logError \in BOOLEAN /\ ended \in BOOLEAN
    /\ pendingBeat \in BOOLEAN
    /\ lastObsTick \in 0 .. now \cup {None} /\ lastBeat \in 0 .. now
    /\ IsSeq(log) /\ IsSeq(hash) /\ IsSeq(given) /\ Len(hash) = now

\* The command of the window: its rows say which observation they answer.
PendingTypes ==
    pendingCmd # None =>
        /\ pendingCmd.id \in Ids /\ pendingCmd.obs \in 0 .. now
        /\ pendingCmd.rows \in Seq(CommandRows) /\ pendingCmd.rows # None
        /\ \A i \in 1 .. Len(pendingCmd.rows) : pendingCmd.rows[i].obs = pendingCmd.obs

LinkTypes ==
    /\ link \in [session : 1 .. MaxSession, peer : Controllers \cup {None},
                 lastSeq : 0 .. MaxSeq, rxLost : Nat]
    /\ ctlSeq \in [Controllers -> 0 .. MaxSeq]
    /\ \A ack \in acks : ack.session \in 2 .. link.session
    /\ \A d \in net : /\ d.from \in Controllers /\ d.session \in 0 .. link.session
                      /\ d.seq \in 1 .. ctlSeq[d.from] /\ d.obs \in 0 .. now
    /\ link.peer # None => link.session >= 2

\* The clocks the watchdogs read: the plane has heard every heartbeat but the one
\* pending, and the chunk answers the last observation.
DateInv ==
    /\ pendingBeat => lastBeat = now
    /\ ~pendingBeat => core.plane.beat = lastBeat
    /\ \A i \in 1 .. Len(core.chunk.rows) : core.chunk.rows[i].obs = lastObsTick
    /\ now > 0 => hash[now].tick = now - 1
    /\ RunsInDate

\* A replay whose claims and decisions agree.
Agreed(c, step, decided) ==
    [core |-> c, pending |-> step, live |-> decided, replayed |-> decided]

\* Whatever the sink took, its replay decides what it claims.
LogAgrees == \A n \in 0 .. Len(log) :
               ReplayStates(log)[n].live = ReplayStates(log)[n].replayed

\* A log the sink took whole replays to the core and all its decisions.
LogReplays == ~logError => ReplayStates(log)[Len(log)] = Agreed(core, None, hash)

\* A log it did not take whole gets no trailer, and the one of a whole log is the end.
TrailerEnds == \A i \in 1 .. Len(log) : log[i].tag = "Trailer" => ended /\ ~logError

LogCounts == ~logError => IsFiniteSet(ObservedRecords) /\ Cardinality(ObservedRecords) = now

ReplayInv == LogAgrees /\ LogReplays /\ TrailerEnds /\ LogCounts

\* Neither a session nor a number of it is ahead of the link.
Reached(l, id) == \/ id.session < l.session
                  \/ id.session = l.session /\ id.seq <= l.lastSeq

StreamInv ==
    /\ \A i \in 1 .. Len(given) : given[i] \in Ids /\ Reached(link, given[i])
    /\ pendingCmd # None =>
         /\ pendingCmd.id \in Sent /\ Reached(link, pendingCmd.id)
         /\ \A i \in 1 .. Len(given) : Stream!Before(given[i], pendingCmd.id)

\* One base for each session opened, and lastSeq is the highest number reached.
LossInv ==
    /\ IsSeq(bases) /\ IsSeq(accepted)
    /\ \A b \in 1 .. Len(bases) :
         bases[b].session \in 2 .. link.session /\ bases[b].seq \in 1 .. MaxSeq
    /\ \A b, c \in 1 .. Len(bases) :
         bases[b].session = bases[c].session => bases[b].seq = bases[c].seq
    /\ \A a \in 1 .. Len(accepted) : /\ accepted[a] \in Ids /\ Reached(link, accepted[a])
                                     /\ accepted[a].session >= 2
    /\ \A b \in 1 .. Len(bases) : Reached(link, bases[b])
    /\ link.session >= 2 =>
         /\ \E b \in 1 .. Len(bases) : bases[b].session = link.session
         /\ \/ \E b \in 1 .. Len(bases) : /\ bases[b].session = link.session
                                          /\ bases[b].seq = link.lastSeq
            \/ \E a \in 1 .. Len(accepted) :
                 accepted[a] = [session |-> link.session, seq |-> link.lastSeq]
    /\ LostAreSkipped

HilInv == /\ CoreTypes /\ PendingTypes /\ LinkTypes
          /\ DateInv /\ ReplayInv /\ StreamInv /\ LossInv

-----------------------------------------------------------------------------
(***************************************************************************)
(* Sequences of any elements.                                              *)
(***************************************************************************)
LEMMA SeqOf == ASSUME NEW S, NEW f \in Seq(S) PROVE IsSeq(f)
BY DEF IsSeq

LEMMA SeqIn == ASSUME NEW f, IsSeq(f), NEW S, \A i \in 1 .. Len(f) : f[i] \in S
               PROVE  f \in Seq(S)
BY DEF IsSeq

LEMMA EmptyIsSeq == IsSeq(<< >>) /\ Len(<< >>) = 0
<1>1. << >> \in Seq({}) /\ Len(<< >>) = 0
  OBVIOUS
<1>2. IsSeq(<< >>)
  BY <1>1, SeqOf, Zenon
<1> QED BY <1>1, <1>2

\* g is f with e at its end; g is f followed by h.
IsAppend(g, f, e) == g = Append(f, e)
Appends(g, f, e) ==
    /\ IsSeq(g) /\ Len(f) \in Nat /\ Len(g) = Len(f) + 1
    /\ \A i \in 1 .. Len(f) : g[i] = f[i]
    /\ g[Len(f) + 1] = e

IsJoin(g, f, h) == g = f \o h
Joins(g, f, h) ==
    /\ IsSeq(g) /\ Len(f) \in Nat /\ Len(h) \in Nat /\ Len(g) = Len(f) + Len(h)
    /\ \A i \in 1 .. Len(f) : g[i] = f[i]
    /\ \A i \in 1 .. Len(h) : g[Len(f) + i] = h[i]

LEMMA Appended ==
    ASSUME NEW f, IsSeq(f), NEW e, NEW g, IsAppend(g, f, e)
    PROVE  Appends(g, f, e)
<1> DEFINE S == {f[i] : i \in 1 .. Len(f)} \cup {e}
<1>1. f \in Seq(S) /\ e \in S /\ g = Append(f, e)
  BY SeqIn DEF IsAppend
<1> HIDE DEF S
<1>2. /\ g \in Seq(S) /\ Len(f) \in Nat /\ Len(g) = Len(f) + 1
      /\ \A i \in 1 .. Len(f) : g[i] = f[i]
  BY <1>1
<1>3. g[Len(f) + 1] = e
  BY <1>1
<1> QED BY <1>2, <1>3, SeqOf DEF Appends

LEMMA Joined ==
    ASSUME NEW f, IsSeq(f), NEW h, IsSeq(h), NEW g, IsJoin(g, f, h)
    PROVE  Joins(g, f, h)
<1> DEFINE S == {f[i] : i \in 1 .. Len(f)} \cup {h[i] : i \in 1 .. Len(h)}
<1>1. f \in Seq(S) /\ h \in Seq(S) /\ Len(f) \in Nat /\ Len(h) \in Nat
  BY SeqIn DEF IsSeq
<1> HIDE DEF S
<1>2. g = f \o h /\ g \in Seq(S) /\ Len(g) = Len(f) + Len(h)
  BY <1>1 DEF IsJoin
<1>3. \A i \in 1 .. Len(f) : g[i] = f[i]
  BY <1>1, <1>2
<1>4. \A i \in 1 .. Len(h) : g[Len(f) + i] = h[i]
  BY <1>1, <1>2
<1> QED BY <1>1, <1>2, <1>3, <1>4, SeqOf DEF Joins

LEMMA FirstOf ==
    ASSUME NEW h, IsSeq(h), NEW n \in 0 .. Len(h)
    PROVE  /\ IsSeq(SubSeq(h, 1, n)) /\ Len(SubSeq(h, 1, n)) = n
           /\ \A i \in 1 .. n : SubSeq(h, 1, n)[i] = h[i]
<1> DEFINE S == {h[i] : i \in 1 .. Len(h)}
<1>1. h \in Seq(S) /\ Len(h) \in Nat
  BY SeqIn DEF IsSeq
<1> HIDE DEF S
<1>2. /\ SubSeq(h, 1, n) \in Seq(S) /\ Len(SubSeq(h, 1, n)) = n
      /\ \A i \in 1 .. n : SubSeq(h, 1, n)[i] = h[i]
  BY <1>1
<1> QED BY <1>2, SeqOf

LEMMA ShortSeqs ==
    ASSUME NEW a, NEW b
    PROVE  /\ IsSeq(<<a>>) /\ Len(<<a>>) = 1 /\ <<a>>[1] = a
           /\ IsSeq(<<a, b>>) /\ Len(<<a, b>>) = 2
           /\ <<a, b>>[1] = a /\ <<a, b>>[2] = b
<1>1. <<a>> \in Seq({a, b}) /\ <<a, b>> \in Seq({a, b})
  OBVIOUS
<1>2. IsSeq(<<a>>) /\ IsSeq(<<a, b>>)
  BY <1>1, SeqOf
<1> QED BY <1>2

-----------------------------------------------------------------------------
(***************************************************************************)
(* The replay of a log is the recursion its definition writes, and depends *)
(* on no record after the one it has read.                                 *)
(***************************************************************************)
LEMMA ReplayExists ==
    ASSUME NEW l, NEW k \in Nat
    PROVE  \E f : f = [n \in 0 .. k |-> IF n = 0 THEN ReplayStart
                                         ELSE ReplayRecord(f[n - 1], l[n])]
<1> DEFINE Good(m) == \E f : f = [n \in 0 .. m |-> IF n = 0 THEN ReplayStart
                                                   ELSE ReplayRecord(f[n - 1], l[n])]
           Goods == {m \in Nat : Good(m)}
<1>1. Good(0)
  <2> WITNESS [n \in 0 .. 0 |-> ReplayStart]
  <2> QED OBVIOUS
<1>2. ASSUME NEW m \in Nat, Good(m) PROVE Good(m + 1)
  <2>1. PICK f : f = [n \in 0 .. m |-> IF n = 0 THEN ReplayStart
                                       ELSE ReplayRecord(f[n - 1], l[n])]
    BY <1>2
  <2> DEFINE g == [n \in 0 .. m + 1 |-> IF n = m + 1 THEN ReplayRecord(f[m], l[m + 1])
                                        ELSE f[n]]
  <2>2. ASSUME NEW n \in 0 .. m + 1
        PROVE  g[n] = IF n = 0 THEN ReplayStart ELSE ReplayRecord(g[n - 1], l[n])
    <3>1. CASE n = m + 1
      BY <3>1
    <3>2. CASE n # m + 1
      BY <3>2, <2>1
    <3> QED BY <3>1, <3>2
  <2>3. g = [n \in 0 .. m + 1 |-> IF n = 0 THEN ReplayStart
                                  ELSE ReplayRecord(g[n - 1], l[n])]
    BY <2>2
  <2> QED BY <2>3
<1> HIDE DEF Good
<1>3. 0 \in Goods /\ \A m \in Goods : m + 1 \in Goods
  BY <1>1, <1>2
<1>4. Goods = Nat
  BY <1>3, SetInduction
<1> QED BY <1>4 DEF Good

LEMMA ReplayUnfolds ==
    ASSUME NEW l, IsSeq(l)
    PROVE  /\ ReplayStates(l)[0] = ReplayStart
           /\ \A n \in 1 .. Len(l) :
                ReplayStates(l)[n] = ReplayRecord(ReplayStates(l)[n - 1], l[n])
<1> DEFINE F(f) == [n \in 0 .. Len(l) |-> IF n = 0 THEN ReplayStart
                                          ELSE ReplayRecord(f[n - 1], l[n])]
<1>1. Len(l) \in Nat
  BY DEF IsSeq
<1>2. \E f : f = F(f)
  BY <1>1, ReplayExists
<1>3. ReplayStates(l) = CHOOSE f : f = F(f)
  BY DEF ReplayStates
<1> HIDE DEF F
<1>4. ReplayStates(l) = F(ReplayStates(l))
  BY <1>2, <1>3
<1> QED BY <1>1, <1>4 DEF F

SameRecords(l, m, k) ==
    k \in Nat /\ k <= Len(l) /\ k <= Len(m) /\ \A i \in 1 .. k : l[i] = m[i]
SameReplay(l, m, k) == \A n \in 0 .. k : ReplayStates(l)[n] = ReplayStates(m)[n]

LEMMA ReplayOfPrefix ==
    ASSUME NEW l, IsSeq(l), NEW m, IsSeq(m), NEW k, SameRecords(l, m, k)
    PROVE  SameReplay(l, m, k)
<1> DEFINE Good(n) == n <= k => ReplayStates(l)[n] = ReplayStates(m)[n]
           Goods == {n \in Nat : Good(n)}
<1>0. /\ Len(l) \in Nat /\ Len(m) \in Nat /\ k \in Nat /\ k <= Len(l) /\ k <= Len(m)
      /\ \A i \in 1 .. k : l[i] = m[i]
  BY DEF IsSeq, SameRecords
<1>1. Good(0)
  BY ReplayUnfolds
<1>2. ASSUME NEW n \in Nat, Good(n) PROVE Good(n + 1)
  <2> SUFFICES ASSUME n + 1 <= k
               PROVE  ReplayStates(l)[n + 1] = ReplayStates(m)[n + 1]
    OBVIOUS
  <2>0. n <= k
    BY <1>0
  <2>1. n + 1 \in 1 .. Len(l) /\ n + 1 \in 1 .. Len(m) /\ n + 1 \in 1 .. k /\ (n + 1) - 1 = n
    BY <1>0
  <2>2. ReplayStates(l)[n] = ReplayStates(m)[n]
    BY <1>2, <2>0
  <2>3. ReplayStates(l)[n + 1] = ReplayRecord(ReplayStates(l)[n], l[n + 1])
    BY <2>1, ReplayUnfolds
  <2>4. ReplayStates(m)[n + 1] = ReplayRecord(ReplayStates(m)[n], m[n + 1])
    BY <2>1, ReplayUnfolds
  <2> QED BY <1>0, <2>1, <2>2, <2>3, <2>4
<1> HIDE DEF Good
<1>3. 0 \in Goods /\ \A n \in Goods : n + 1 \in Goods
  BY <1>1, <1>2
<1>4. Goods = Nat
  BY <1>3, SetInduction
<1> QED BY <1>0, <1>4 DEF Good, SameReplay

-----------------------------------------------------------------------------
(***************************************************************************)
(* What one record does to a replay whose claims and decisions agree.      *)
(***************************************************************************)
LEMMA ReplayObserved ==
    ASSUME NEW c, NEW step, NEW decided, NEW tick, NEW pose
    PROVE  ReplayRecord(Agreed(c, step, decided), Observed(tick, pose))
             = Agreed([c EXCEPT !.plane = PlaneObserve(c.plane, pose)], step, decided)
BY DEF ReplayRecord, Observed, Agreed

LEMMA ReplayBeat ==
    ASSUME NEW c, NEW step, NEW decided, NEW tick
    PROVE  ReplayRecord(Agreed(c, step, decided), Beat(tick))
             = Agreed([c EXCEPT !.plane = PlaneHeartbeat(c.plane, tick)], step, decided)
BY DEF ReplayRecord, Beat, Agreed

LEMMA ReplayStep ==
    ASSUME NEW c, NEW step, NEW decided, NEW tick, NEW age, NEW rows
    PROVE  ReplayRecord(Agreed(c, step, decided), Step(tick, age, rows))
             = Agreed(c, Step(tick, age, rows), decided)
BY DEF ReplayRecord, Step, Agreed

LEMMA ReplayDecision ==
    ASSUME NEW c, NEW decided, NEW tick, NEW age, NEW rows,
           NEW next, next = CoreStep(c, rows, tick, age)
    PROVE  ReplayRecord(Agreed(c, Step(tick, age, rows), decided), Decision(tick, next.action))
             = Agreed(next.core, None, Append(decided, Decision(tick, next.action)))
BY DEF ReplayRecord, Step, Decision, Agreed

LEMMA ReplayTrailer ==
    ASSUME NEW replay, NEW digest
    PROVE  ReplayRecord(replay, Trailer(digest)) = replay
BY DEF ReplayRecord, Trailer

-----------------------------------------------------------------------------
(***************************************************************************)
(* What the sink took of the records of a call.                            *)
(***************************************************************************)
Wrote(records, n) ==
    /\ n \in 0 .. Len(records)
    /\ IsSeq(log') /\ Len(log') = Len(log) + n
    /\ \A i \in 1 .. Len(log) : log'[i] = log[i]
    /\ \A i \in 1 .. n : log'[Len(log) + i] = records[i]
    /\ logError' \in BOOLEAN /\ (logError' <=> logError \/ n < Len(records))
    /\ logError => n = 0

LEMMA RawWrites ==
    ASSUME IsSeq(log), logError \in BOOLEAN, NEW records, IsSeq(records), Raw(records)
    PROVE  \E n \in 0 .. Len(records) : Wrote(records, n)
<1>1. Len(records) \in Nat
  BY DEF IsSeq
<1>2. PICK n \in IF logError THEN {0}
                  ELSE IF LogMayFail THEN 0 .. Len(records)
                  ELSE {Len(records)} :
        log' = log \o SubSeq(records, 1, n) /\ logError' = (logError \/ n < Len(records))
  BY DEF Raw
<1>3. n \in 0 .. Len(records) /\ (logError => n = 0)
  BY <1>1, <1>2
<1> DEFINE part == SubSeq(records, 1, n)
<1>4. IsSeq(part) /\ Len(part) = n /\ \A i \in 1 .. n : part[i] = records[i]
  BY <1>3, FirstOf
<1> HIDE DEF part
<1>5. IsJoin(log', log, part)
  BY <1>2 DEF part, IsJoin
<1>6. /\ IsSeq(log') /\ Len(log') = Len(log) + n
      /\ \A i \in 1 .. Len(log) : log'[i] = log[i]
      /\ \A i \in 1 .. n : log'[Len(log) + i] = part[i]
  <2>1. Joins(log', log, part)
    BY <1>4, <1>5, Joined
  <2> QED BY <1>4, <2>1 DEF Joins
<1>7. logError' \in BOOLEAN /\ (logError' <=> logError \/ n < Len(records))
  BY <1>2
<1>8. Wrote(records, n)
  BY <1>3, <1>4, <1>5, <1>6, <1>7 DEF Wrote
<1> QED BY <1>3, <1>8

\* The records of a tick: an observation, perhaps a heartbeat, a step, its decision.
IsFrame(records, a, middle, c, d) == records = <<a>> \o middle \o <<c, d>>
Frames(records, a, middle, c, d) ==
    /\ IsSeq(records) /\ Len(middle) \in Nat /\ Len(records) = Len(middle) + 3
    /\ records[1] = a /\ \A i \in 1 .. Len(middle) : records[1 + i] = middle[i]
    /\ records[Len(middle) + 2] = c /\ records[Len(middle) + 3] = d

LEMMA Framed ==
    ASSUME NEW a, NEW middle, IsSeq(middle), NEW c, NEW d, NEW records,
           IsFrame(records, a, middle, c, d)
    PROVE  Frames(records, a, middle, c, d)
<1> DEFINE first == <<a>>
           last == <<c, d>>
           head == first \o middle
<1>1. /\ IsSeq(first) /\ Len(first) = 1 /\ first[1] = a
      /\ IsSeq(last) /\ Len(last) = 2 /\ last[1] = c /\ last[2] = d
  BY ShortSeqs
<1>2. IsJoin(head, first, middle) /\ IsJoin(records, head, last)
  BY DEF IsJoin, IsFrame
<1> HIDE DEF first, last, head
<1>3. Joins(head, first, middle)
  BY <1>1, <1>2, Joined
<1>4. IsSeq(head)
  BY <1>3 DEF Joins
<1>5. Joins(records, head, last)
  BY <1>1, <1>2, <1>4, Joined
<1>6. /\ IsSeq(head) /\ Len(middle) \in Nat /\ Len(head) = 1 + Len(middle) /\ head[1] = a
      /\ \A i \in 1 .. Len(middle) : head[1 + i] = middle[i]
  BY <1>1, <1>3 DEF Joins
<1>7. /\ IsSeq(records) /\ Len(records) = Len(head) + 2
      /\ \A i \in 1 .. Len(head) : records[i] = head[i]
      /\ records[Len(head) + 1] = c /\ records[Len(head) + 2] = d
  BY <1>1, <1>5 DEF Joins
<1> QED BY <1>6, <1>7 DEF Frames

\* The n-th and later records of a tick, n = 2 without a heartbeat and 3 with one.
TickFacts(records, pose, action) ==
    /\ IsSeq(records) /\ records[1] = Observed(now, pose)
    /\ ~pendingBeat => /\ Len(records) = 3
                       /\ records[2] = Step(now, ObsAge, Rows)
                       /\ records[3] = Decision(now, action)
    /\ pendingBeat => /\ Len(records) = 4 /\ records[2] = Beat(now)
                      /\ records[3] = Step(now, ObsAge, Rows)
                      /\ records[4] = Decision(now, action)

LEMMA RecordsOfTick ==
    ASSUME NEW pose, NEW action, NEW records, records = TickRecords(pose, action)
    PROVE  TickFacts(records, pose, action)
<1> DEFINE middle == IF pendingBeat THEN <<Beat(now)>> ELSE << >>
           seen == Observed(now, pose)
           step == Step(now, ObsAge, Rows)
           decided == Decision(now, action)
<1>1. /\ IsSeq(middle)
      /\ pendingBeat => Len(middle) = 1 /\ middle[1] = Beat(now)
      /\ ~pendingBeat => Len(middle) = 0
  BY ShortSeqs, EmptyIsSeq
<1>2. IsFrame(records, seen, middle, step, decided)
  BY DEF TickRecords, IsFrame
<1> HIDE DEF middle, seen, step, decided
<1>3. Frames(records, seen, middle, step, decided)
  BY <1>1, <1>2, Framed
<1>4. CASE pendingBeat
  <2>1. Len(middle) = 1 /\ middle[1] = Beat(now)
    BY <1>1, <1>4
  <2>2. /\ IsSeq(records) /\ records[1] = seen /\ Len(records) = 4
        /\ records[3] = step /\ records[4] = decided
    BY <1>3, <2>1 DEF Frames
  <2>3. records[1 + 1] = middle[1]
    BY <1>3, <2>1 DEF Frames
  <2> QED BY <1>4, <2>1, <2>2, <2>3 DEF TickFacts, seen, step, decided
<1>5. CASE ~pendingBeat
  <2>1. /\ IsSeq(records) /\ records[1] = seen /\ Len(records) = 3
        /\ records[2] = step /\ records[3] = decided
    BY <1>1, <1>3, <1>5 DEF Frames
  <2> QED BY <1>5, <2>1 DEF TickFacts, seen, step, decided
<1> QED BY <1>4, <1>5

-----------------------------------------------------------------------------
(***************************************************************************)
(* The replay of the log a call leaves: the states of the old log, then    *)
(* one for each record the sink took.                                      *)
(***************************************************************************)
Extends(records, n) ==
    /\ \A k \in 0 .. Len(log) : ReplayStates(log')[k] = ReplayStates(log)[k]
    /\ \A i \in 1 .. n : ReplayStates(log')[Len(log) + i]
                          = ReplayRecord(ReplayStates(log')[Len(log) + i - 1], records[i])

LEMMA ReplayExtends ==
    ASSUME IsSeq(log), NEW records, NEW n, Wrote(records, n), n \in Nat
    PROVE  Extends(records, n)
<1>1. /\ Len(log) \in Nat /\ Len(log') = Len(log) + n /\ IsSeq(log')
      /\ \A i \in 1 .. Len(log) : log'[i] = log[i]
      /\ \A i \in 1 .. n : log'[Len(log) + i] = records[i]
  BY DEF Wrote, IsSeq
<1>2. \A k \in 0 .. Len(log) : ReplayStates(log')[k] = ReplayStates(log)[k]
  <2>1. SameRecords(log', log, Len(log))
    BY <1>1 DEF SameRecords
  <2>2. SameReplay(log', log, Len(log))
    BY <1>1, <2>1, ReplayOfPrefix
  <2> QED BY <2>2 DEF SameReplay
<1>3. ASSUME NEW i \in 1 .. n
      PROVE  ReplayStates(log')[Len(log) + i]
               = ReplayRecord(ReplayStates(log')[Len(log) + i - 1], records[i])
  <2>1. Len(log) + i \in 1 .. Len(log') /\ log'[Len(log) + i] = records[i]
    BY <1>1
  <2>2. ReplayStates(log')[Len(log) + i]
          = ReplayRecord(ReplayStates(log')[(Len(log) + i) - 1], log'[Len(log) + i])
    BY <1>1, <2>1, ReplayUnfolds
  <2> QED BY <2>1, <2>2
<1> QED BY <1>2, <1>3 DEF Extends

\* The plane, the core and the step of a tick.
TickPlane(pose) ==
    IF pendingBeat THEN PlaneHeartbeat(PlaneObserve(core.plane, pose), now)
    ELSE PlaneObserve(core.plane, pose)
TickCore(pose) == [core EXCEPT !.plane = TickPlane(pose)]
TickNext(pose) == CoreStep(TickCore(pose), Rows, now, ObsAge)

LEMMA TickIs ==
    ASSUME NEW pose, Tick(pose)
    PROVE  /\ ~ended /\ now < MaxTick
           /\ core' = TickNext(pose).core
           /\ Raw(TickRecords(pose, TickNext(pose).action))
           /\ hash' = Append(hash, Decision(now, TickNext(pose).action))
           /\ lastObsTick' = Observation
           /\ stats' = IF pendingCmd = None THEN stats
                       ELSE [stats EXCEPT !.commands = @ + 1,
                               !.deadlineMiss = IF now > pendingCmd.obs + DeadlineTicks
                                                  THEN @ + 1 ELSE @]
           /\ given' = IF pendingCmd = None THEN given ELSE Append(given, pendingCmd.id)
           /\ pendingCmd' = None /\ pendingBeat' = FALSE
           /\ now' = now + 1
           /\ UNCHANGED <<ended, lastBeat>>
BY DEF Tick, TickPlane, TickCore, TickNext

\* The replay of the records of a tick that the sink took.
TickReplay(pose, records, n) ==
    /\ \A i \in 0 .. n : \E c, step, decided :
         ReplayStates(log')[Len(log) + i] = Agreed(c, step, decided)
    /\ n = Len(records) =>
         ReplayStates(log')[Len(log) + n] = Agreed(core', None, hash')

LEMMA TickReplays ==
    ASSUME IsSeq(log), core \in Cores(CommandRows, Poses), now \in Nat, LogReplays, ~logError,
           NEW pose \in Poses,
           core' = TickNext(pose).core,
           hash' = Append(hash, Decision(now, TickNext(pose).action)),
           NEW records, TickFacts(records, pose, TickNext(pose).action),
           NEW n \in 0 .. Len(records), Extends(records, n)
    PROVE  TickReplay(pose, records, n)
<1> DEFINE st(i) == ReplayStates(log')[Len(log) + i]
           seen == PlaneObserve(core.plane, pose)
           c1 == [core EXCEPT !.plane = seen]
           step == Step(now, ObsAge, Rows)
           decision == Decision(now, TickNext(pose).action)
<1>1. /\ Len(log) \in Nat /\ Len(log) + 0 = Len(log)
      /\ Len(log) + 1 - 1 = Len(log) + 0 /\ Len(log) + 2 - 1 = Len(log) + 1
      /\ Len(log) + 3 - 1 = Len(log) + 2 /\ Len(log) + 4 - 1 = Len(log) + 3
  BY DEF IsSeq
<1>2. st(0) = Agreed(core, None, hash)
  BY <1>1 DEF Extends, LogReplays
<1>3. \A i \in 1 .. n : st(i) = ReplayRecord(ReplayStates(log')[Len(log) + i - 1], records[i])
  BY DEF Extends
<1>4. /\ n >= 1 => st(1) = ReplayRecord(st(0), records[1])
      /\ n >= 2 => st(2) = ReplayRecord(st(1), records[2])
      /\ n >= 3 => st(3) = ReplayRecord(st(2), records[3])
      /\ n >= 4 => st(4) = ReplayRecord(st(3), records[4])
  <2>1. Len(records) \in Nat
    BY DEF TickFacts, IsSeq
  <2>2. n \in Nat
    BY <2>1
  <2> QED BY <1>1, <1>3, <2>2
<1> HIDE DEF st
<1>5. n >= 1 => st(1) = Agreed(c1, None, hash)
  BY <1>2, <1>4, ReplayObserved DEF TickFacts
<1>6. c1.plane = seen /\ [c1 EXCEPT !.plane = PlaneHeartbeat(seen, now)]
                          = [core EXCEPT !.plane = PlaneHeartbeat(seen, now)]
  BY DEF Cores
<1> HIDE DEF seen, c1, step, decision
<1>7. CASE ~pendingBeat
  <2>1. TickCore(pose) = c1
    BY <1>7 DEF TickCore, TickPlane, seen, c1
  <2>2. Len(records) = 3 /\ records[2] = step /\ records[3] = decision /\ n \in 0 .. 3
    BY <1>7 DEF TickFacts, step, decision
  <2>3. n >= 2 => st(2) = Agreed(c1, step, hash)
    BY <1>4, <1>5, <2>2, ReplayStep DEF step
  <2>4. n >= 3 => st(3) = Agreed(core', None, hash')
    BY <1>4, <2>1, <2>2, <2>3, ReplayDecision DEF step, decision, TickNext
  <2>5. ASSUME NEW i \in 0 .. n PROVE \E c, p, decided : st(i) = Agreed(c, p, decided)
    <3>1. n \in Nat /\ n <= 3 /\ i \in {0, 1, 2, 3} /\ i <= n
      BY <2>2
    <3> QED BY <1>2, <1>5, <2>3, <2>4, <3>1
  <2>6. n = Len(records) => st(n) = Agreed(core', None, hash')
    BY <2>2, <2>4
  <2> QED BY <2>5, <2>6 DEF TickReplay, st
<1>8. CASE pendingBeat
  <2> DEFINE c2 == TickCore(pose)
  <2>1. c2 = [c1 EXCEPT !.plane = PlaneHeartbeat(c1.plane, now)]
    BY <1>6, <1>8 DEF TickCore, TickPlane, seen
  <2>2. /\ Len(records) = 4 /\ records[2] = Beat(now)
        /\ records[3] = step /\ records[4] = decision /\ n \in 0 .. 4
    BY <1>8 DEF TickFacts, step, decision
  <2> HIDE DEF c2
  <2>3. n >= 2 => st(2) = Agreed(c2, None, hash)
    BY <1>4, <1>5, <2>1, <2>2, ReplayBeat
  <2>4. n >= 3 => st(3) = Agreed(c2, step, hash)
    BY <1>4, <2>2, <2>3, ReplayStep DEF step
  <2>5. n >= 4 => st(4) = Agreed(core', None, hash')
    BY <1>4, <2>2, <2>4, ReplayDecision DEF step, decision, TickNext, c2
  <2>6. ASSUME NEW i \in 0 .. n PROVE \E c, p, decided : st(i) = Agreed(c, p, decided)
    <3>1. n \in Nat /\ n <= 4 /\ i \in {0, 1, 2, 3, 4} /\ i <= n
      BY <2>2
    <3> QED BY <1>2, <1>5, <2>3, <2>4, <2>5, <3>1
  <2>7. n = Len(records) => st(n) = Agreed(core', None, hash')
    BY <2>2, <2>5
  <2> QED BY <2>6, <2>7 DEF TickReplay, st
<1> QED BY <1>7, <1>8

-----------------------------------------------------------------------------
(***************************************************************************)
(* The log: each call keeps what its replay says.                          *)
(***************************************************************************)
LEMMA LogUntouched ==
    ASSUME ReplayInv, UNCHANGED <<core, log, logError, hash, now, ended>>
    PROVE  ReplayInv'
BY DEF ReplayInv, LogAgrees, LogReplays, TrailerEnds, LogCounts, ObservedRecords

LEMMA LogDomain == ASSUME IsSeq(log) PROVE DOMAIN log = 1 .. Len(log) /\ Len(log) \in Nat
BY DEF IsSeq

LEMMA FinishKeepsLog ==
    ASSUME CoreTypes, ReplayInv, Finish
    PROVE  ReplayInv'
<1> DEFINE records == <<Trailer(hash)>>
<1>1. /\ IsSeq(log) /\ logError \in BOOLEAN /\ ~ended /\ ended' = TRUE /\ Raw(records)
      /\ UNCHANGED <<core, hash, now>>
  BY DEF CoreTypes, Finish
<1>2. IsSeq(records) /\ Len(records) = 1 /\ records[1] = Trailer(hash)
  BY ShortSeqs
<1> HIDE DEF records
<1>3. PICK n \in 0 .. Len(records) : Wrote(records, n)
  BY <1>1, <1>2, RawWrites
<1>4. n \in {0, 1}
  BY <1>2
<1>5. Extends(records, n)
  BY <1>1, <1>3, <1>4, ReplayExtends
<1>6. /\ Len(log) \in Nat /\ IsSeq(log') /\ Len(log') = Len(log) + n
      /\ \A i \in 1 .. Len(log) : log'[i] = log[i]
      /\ n = 1 => log'[Len(log) + 1] = Trailer(hash)
      /\ logError' <=> logError \/ n < 1
      /\ logError => n = 0
  BY <1>1, <1>2, <1>3, <1>4 DEF Wrote, IsSeq
<1>7. /\ \A k \in 0 .. Len(log) : ReplayStates(log')[k] = ReplayStates(log)[k]
      /\ n = 1 => ReplayStates(log')[Len(log) + 1] = ReplayStates(log')[Len(log)]
  <2>1. n = 1 => ReplayStates(log')[Len(log) + 1]
                   = ReplayRecord(ReplayStates(log')[Len(log) + 1 - 1], records[1])
    BY <1>5 DEF Extends
  <2>2. Len(log) + 1 - 1 = Len(log)
    BY <1>6
  <2> QED BY <1>2, <1>5, <2>1, <2>2, ReplayTrailer DEF Extends
<1>8. LogAgrees'
  <2> SUFFICES ASSUME NEW k \in 0 .. Len(log')
               PROVE  ReplayStates(log')[k].live = ReplayStates(log')[k].replayed
    BY DEF LogAgrees
  <2>1. k \in 0 .. Len(log) \/ (n = 1 /\ k = Len(log) + 1)
    BY <1>4, <1>6
  <2>2. Len(log) \in 0 .. Len(log)
    BY <1>6
  <2> QED BY <1>7, <2>1, <2>2 DEF ReplayInv, LogAgrees
<1>9. LogReplays'
  <2> SUFFICES ASSUME ~logError' PROVE ReplayStates(log')[Len(log')] = Agreed(core, None, hash)
    BY <1>1 DEF LogReplays
  <2>1. n = 1 /\ ~logError /\ Len(log') = Len(log) + 1 /\ Len(log) \in 0 .. Len(log)
    BY <1>4, <1>6
  <2> QED BY <1>7, <2>1 DEF ReplayInv, LogReplays
<1>10. TrailerEnds'
  <2> SUFFICES ASSUME NEW i \in 1 .. Len(log'), log'[i].tag = "Trailer" PROVE ~logError'
    BY <1>1 DEF TrailerEnds
  <2>1. i \in 1 .. Len(log) \/ (n = 1 /\ i = Len(log) + 1)
    BY <1>4, <1>6
  <2>2. i \notin 1 .. Len(log)
    BY <1>1, <1>6 DEF ReplayInv, TrailerEnds
  <2> QED BY <1>6, <2>1, <2>2
<1>11. LogCounts'
  <2>1. ObservedRecords' = ObservedRecords
    <3>1. DOMAIN log = 1 .. Len(log) /\ DOMAIN log' = 1 .. Len(log')
      BY <1>1, <1>6 DEF IsSeq
    <3>2. \A i \in DOMAIN log' : i \in DOMAIN log \/ (n = 1 /\ i = Len(log) + 1)
      BY <1>4, <1>6, <3>1
    <3>3. Trailer(hash).tag # "Observe"
      BY DEF Trailer
    <3>4. DOMAIN log \subseteq DOMAIN log'
      BY <1>4, <1>6, <3>1
    <3> QED BY <1>6, <3>1, <3>2, <3>3, <3>4 DEF ObservedRecords
  <2> QED BY <1>1, <1>6, <2>1 DEF ReplayInv, LogCounts
<1> QED BY <1>8, <1>9, <1>10, <1>11 DEF ReplayInv

LEMMA TickKeepsLog ==
    ASSUME CoreTypes, ReplayInv, NEW pose \in Poses, Tick(pose)
    PROVE  ReplayInv'
<1> DEFINE action == TickNext(pose).action
           records == TickRecords(pose, action)
<1>1. /\ IsSeq(log) /\ Len(log) \in Nat /\ logError \in BOOLEAN /\ ~ended /\ now \in Nat
      /\ core \in Cores(CommandRows, Poses)
  BY TickIs DEF CoreTypes, IsSeq
<1>2. /\ Raw(records) /\ core' = TickNext(pose).core /\ now' = now + 1 /\ ended' = ended
      /\ hash' = Append(hash, Decision(now, action))
  BY TickIs
<1>3. TickFacts(records, pose, action)
  BY RecordsOfTick
<1> HIDE DEF records, action
<1>4. IsSeq(records) /\ Len(records) \in {3, 4}
  BY <1>3 DEF TickFacts
<1>5. PICK n \in 0 .. Len(records) : Wrote(records, n)
  BY <1>1, <1>2, <1>4, RawWrites
<1>6. n \in Nat /\ n <= Len(records)
  BY <1>4
<1>7. Extends(records, n)
  BY <1>1, <1>5, <1>6, ReplayExtends
<1>8. /\ IsSeq(log') /\ Len(log') = Len(log) + n
      /\ \A i \in 1 .. Len(log) : log'[i] = log[i]
      /\ \A i \in 1 .. n : log'[Len(log) + i] = records[i]
      /\ logError' <=> logError \/ n < Len(records)
      /\ logError => n = 0
  BY <1>5 DEF Wrote
<1>9. ~logError => TickReplay(pose, records, n)
  BY <1>1, <1>2, <1>3, <1>7, TickReplays DEF ReplayInv, action
<1>10. \A i \in 1 .. Len(log') : i \in 1 .. Len(log) \/ i - Len(log) \in 1 .. n
  BY <1>1, <1>6, <1>8
<1>11. LogAgrees'
  <2> SUFFICES ASSUME NEW k \in 0 .. Len(log')
               PROVE  ReplayStates(log')[k].live = ReplayStates(log')[k].replayed
    BY DEF LogAgrees
  <2>1. CASE k \in 0 .. Len(log)
    BY <1>7, <2>1 DEF Extends, ReplayInv, LogAgrees
  <2>2. CASE k \notin 0 .. Len(log)
    <3>1. k - Len(log) \in 0 .. n /\ Len(log) + (k - Len(log)) = k /\ n # 0
      BY <1>1, <1>6, <1>8, <2>2
    <3>2. PICK c, step, decided : ReplayStates(log')[k] = Agreed(c, step, decided)
      BY <1>8, <1>9, <3>1 DEF TickReplay
    <3> QED BY <3>2 DEF Agreed
  <2> QED BY <2>1, <2>2
<1>12. LogReplays'
  <2>1. ~logError' => ~logError /\ n = Len(records)
    BY <1>4, <1>6, <1>8
  <2> QED BY <1>8, <1>9, <2>1 DEF LogReplays, TickReplay
\* The records of a tick are no trailers, and one of them is an observation.
<1>13. \A i \in 1 .. n : /\ records[i].tag # "Trailer"
                         /\ records[i].tag = "Observe" <=> i = 1
  <2>1. /\ \A i \in 1 .. n : i \in {1, 2, 3, 4}
        /\ Len(records) = 3 => \A i \in 1 .. n : i \in {1, 2, 3}
    <3>1. CASE Len(records) = 3
      BY <1>6, <3>1
    <3>2. CASE Len(records) = 4
      BY <1>6, <3>2
    <3> QED BY <1>4, <3>1, <3>2
  <2> QED BY <1>3, <2>1 DEF TickFacts, Observed, Beat, Step, Decision
<1>14. TrailerEnds'
  <2> SUFFICES ASSUME NEW i \in 1 .. Len(log'), log'[i].tag = "Trailer" PROVE FALSE
    BY DEF TrailerEnds
  <2>1. i \notin 1 .. Len(log)
    BY <1>1, <1>8 DEF ReplayInv, TrailerEnds
  <2>2. i - Len(log) \in 1 .. n /\ Len(log) + (i - Len(log)) = i
    BY <1>1, <1>10, <2>1
  <2>3. log'[i] = records[i - Len(log)]
    BY <1>8, <2>2
  <2> QED BY <1>13, <2>2, <2>3
<1>15. LogCounts'
  <2> SUFFICES ASSUME ~logError'
               PROVE  IsFiniteSet(ObservedRecords)' /\ Cardinality(ObservedRecords)' = now'
    BY DEF LogCounts
  <2>1. ~logError /\ n = Len(records) /\ 1 \in 1 .. n
    BY <1>4, <1>6, <1>8
  <2>2. DOMAIN log = 1 .. Len(log) /\ DOMAIN log' = 1 .. Len(log')
    BY <1>1, <1>8 DEF IsSeq
  <2>3. ObservedRecords' = ObservedRecords \cup {Len(log) + 1}
    <3>1. ASSUME NEW i
          PROVE  i \in ObservedRecords' <=> i \in ObservedRecords \cup {Len(log) + 1}
      <4>1. CASE i \in 1 .. Len(log)
        <5>1. i \in 1 .. Len(log') /\ i # Len(log) + 1
          BY <1>1, <1>6, <1>8, <4>1
        <5> QED BY <1>8, <2>2, <4>1, <5>1 DEF ObservedRecords
      <4>2. CASE i \in 1 .. Len(log') /\ i \notin 1 .. Len(log)
        <5>1. i - Len(log) \in 1 .. n /\ Len(log) + (i - Len(log)) = i
          BY <1>1, <1>10, <4>2
        <5>2. log'[i] = records[i - Len(log)]
          BY <1>8, <5>1
        <5>3. i = Len(log) + 1 <=> i - Len(log) = 1
          BY <1>1, <5>1
        <5> QED BY <1>13, <2>2, <4>2, <5>1, <5>2, <5>3 DEF ObservedRecords
      <4>3. CASE i \notin 1 .. Len(log') /\ i \notin 1 .. Len(log)
        <5>1. Len(log) + 1 \in 1 .. Len(log')
          BY <1>1, <1>6, <1>8, <2>1
        <5> QED BY <2>2, <4>3, <5>1 DEF ObservedRecords
      <4> QED BY <4>1, <4>2, <4>3
    <3> QED BY <3>1
  <2>4. Len(log) + 1 \notin ObservedRecords
    BY <1>1, <2>2 DEF ObservedRecords
  <2>5. IsFiniteSet(ObservedRecords) /\ Cardinality(ObservedRecords) = now
    BY <2>1 DEF ReplayInv, LogCounts
  <2>6. /\ IsFiniteSet(ObservedRecords \cup {Len(log) + 1})
        /\ Cardinality(ObservedRecords \cup {Len(log) + 1}) = now + 1
    BY <2>4, <2>5, FS_AddElement
  <2> QED BY <1>2, <2>3, <2>6
<1> QED BY <1>11, <1>12, <1>14, <1>15 DEF ReplayInv

-----------------------------------------------------------------------------
(***************************************************************************)
(* The core of a tick, and what it may execute.                            *)
(***************************************************************************)
TickInputs(pose) ==
    /\ TickCore(pose) \in Cores(CommandRows, Poses) /\ InStep(TickCore(pose))
    /\ TickCore(pose).chunk = core.chunk /\ TickCore(pose).seq = core.seq
    /\ pendingBeat => TickCore(pose).plane.beat = now
    /\ ~pendingBeat => TickCore(pose).plane.beat = core.plane.beat
    /\ Rows \in Offers(CommandRows) /\ (Rows = None <=> pendingCmd = None)
    /\ Observation \in 0 .. now \cup {None} /\ ObsAge \in Nat
    /\ Observation # None => ObsAge = now - Observation

LEMMA TickInputsAre ==
    ASSUME CoreTypes, PendingTypes, NEW pose \in Poses
    PROVE  TickInputs(pose)
<1> DEFINE seen == PlaneObserve(core.plane, pose)
           beaten == PlaneHeartbeat(seen, now)
<1>1. core \in Cores(CommandRows, Poses) /\ core.plane \in Planes(CommandRows, Poses)
      /\ InStep(core) /\ now \in Nat
  BY DEF CoreTypes, Cores
<1>2. /\ seen \in Planes(CommandRows, Poses) /\ seen.held = core.plane.held
      /\ seen.beat = core.plane.beat
  BY <1>1, PlaneObserved
<1> HIDE DEF seen
<1>3. /\ beaten \in Planes(CommandRows, Poses) /\ beaten.held = seen.held
      /\ beaten.beat = now
  BY <1>1, <1>2, PlaneHeard
<1> HIDE DEF beaten
<1>4. /\ TickPlane(pose) \in Planes(CommandRows, Poses)
      /\ TickPlane(pose).held = core.plane.held
      /\ pendingBeat => TickPlane(pose).beat = now
      /\ ~pendingBeat => TickPlane(pose).beat = core.plane.beat
  BY <1>2, <1>3 DEF TickPlane, seen, beaten
<1>5. /\ TickCore(pose) \in Cores(CommandRows, Poses) /\ InStep(TickCore(pose))
      /\ TickCore(pose).chunk = core.chunk /\ TickCore(pose).seq = core.seq
      /\ TickCore(pose).plane = TickPlane(pose)
  BY <1>1, <1>4, PlaneReplaced, CallKeepsStep DEF TickCore
<1>6. Rows \in Offers(CommandRows) /\ (Rows = None <=> pendingCmd = None)
  BY DEF Rows, PendingTypes, Offers
<1>7. Observation \in 0 .. now \cup {None}
  BY DEF CoreTypes, PendingTypes, Observation
<1>8. ObsAge \in Nat /\ (Observation # None => ObsAge = now - Observation)
  BY <1>1, <1>7 DEF ObsAge, Since
<1> QED BY <1>4, <1>5, <1>6, <1>7, <1>8 DEF TickInputs

\* The chunk a tick submits, and what the plane then holds of it.
TickBuffered(pose) == Buffer(TickCore(pose), Rows)
TickHeld(pose) == Accept(TickCore(pose).plane.held, TickBuffered(pose).chunk, now)

TickSteps(pose) == StepFacts(CommandRows, Poses, TickCore(pose), Rows, now, ObsAge,
                             TickBuffered(pose), TickHeld(pose), TickNext(pose))

LEMMA TickStepsRight ==
    ASSUME now \in Nat, NEW pose, TickInputs(pose)
    PROVE  TickSteps(pose)
<1>1. /\ TickCore(pose) \in Cores(CommandRows, Poses) /\ InStep(TickCore(pose))
      /\ Rows \in Offers(CommandRows) /\ ObsAge \in Nat
  BY DEF TickInputs
<1> QED BY <1>1, Stepped DEF TickSteps, TickBuffered, TickHeld, TickNext

LEMMA TickKeepsTypes ==
    ASSUME CoreTypes, PendingTypes, NEW pose \in Poses, Tick(pose)
    PROVE  CoreTypes' /\ PendingTypes'
<1>1. TickInputs(pose)
  BY TickInputsAre
<1>2. TickSteps(pose)
  BY <1>1, TickStepsRight DEF CoreTypes
<1>3. /\ core' \in Cores(CommandRows, Poses) /\ InStep(core')
      /\ core'.seq = TickBuffered(pose).seq
  BY <1>2, TickIs DEF TickSteps, StepFacts
<1>4. /\ stats' \in [commands : Nat, superseded : Nat, deadlineMiss : Nat]
      /\ pendingCmd = None => stats'.commands = stats.commands
      /\ pendingCmd # None => stats'.commands = stats.commands + 1
  <2>1. stats' = IF pendingCmd = None THEN stats
                 ELSE [stats EXCEPT !.commands = @ + 1,
                         !.deadlineMiss = IF now > pendingCmd.obs + DeadlineTicks
                                            THEN @ + 1 ELSE @]
    BY TickIs
  <2>2. stats \in [commands : Nat, superseded : Nat, deadlineMiss : Nat]
    BY DEF CoreTypes
  <2> DEFINE miss == IF now > pendingCmd.obs + DeadlineTicks THEN stats.deadlineMiss + 1
                     ELSE stats.deadlineMiss
  <2>3. miss \in Nat
    BY <2>2
  <2>4. pendingCmd # None => stats' = [commands |-> stats.commands + 1,
                                       superseded |-> stats.superseded,
                                       deadlineMiss |-> miss]
    BY <2>1, <2>2
  <2> HIDE DEF miss
  <2> QED BY <2>1, <2>2, <2>3, <2>4
<1>5. core'.seq = stats'.commands
  <2>1. CASE pendingCmd = None
    BY <1>1, <1>2, <1>3, <1>4, <2>1 DEF CoreTypes, TickInputs, TickSteps, StepFacts
  <2>2. CASE pendingCmd # None
    BY <1>1, <1>2, <1>3, <1>4, <2>2 DEF CoreTypes, TickInputs, TickSteps, StepFacts
  <2> QED BY <2>1, <2>2
<1>6. now' \in 0 .. MaxTick /\ now' = now + 1 /\ now \in Nat
  <2>1. now < MaxTick /\ now' = now + 1
    BY TickIs
  <2> QED BY <2>1, DriverAssumption DEF CoreTypes
<1>7. ended' \in BOOLEAN /\ pendingBeat' \in BOOLEAN /\ lastBeat' \in 0 .. now'
  <2>1. UNCHANGED <<ended, lastBeat>> /\ pendingBeat' = FALSE
    BY TickIs
  <2>2. lastBeat' \in 0 .. now'
    BY <1>6, <2>1 DEF CoreTypes
  <2>3. ended' \in BOOLEAN /\ pendingBeat' \in BOOLEAN
    BY <2>1, Zenon DEF CoreTypes
  <2> QED BY <2>2, <2>3
<1>8. lastObsTick' \in 0 .. now' \cup {None}
  <2>1. lastObsTick' = Observation
    BY TickIs
  <2> QED BY <1>1, <1>6, <2>1 DEF TickInputs
<1>9. IsSeq(hash') /\ Len(hash') = now'
  <2>1. IsAppend(hash', hash, Decision(now, TickNext(pose).action))
    BY TickIs DEF IsAppend
  <2>2. Appends(hash', hash, Decision(now, TickNext(pose).action))
    BY <2>1, Appended DEF CoreTypes
  <2> QED BY <1>6, <2>2 DEF Appends, CoreTypes
<1>10. IsSeq(given')
  <2>1. CASE pendingCmd = None
    BY <2>1, TickIs DEF CoreTypes
  <2>2. CASE pendingCmd # None
    <3>1. IsAppend(given', given, pendingCmd.id)
      BY <2>2, TickIs DEF IsAppend
    <3>2. Appends(given', given, pendingCmd.id)
      BY <3>1, Appended DEF CoreTypes
    <3> QED BY <3>2 DEF Appends
  <2> QED BY <2>1, <2>2
<1>11. IsSeq(log') /\ logError' \in BOOLEAN
  <2> DEFINE records == TickRecords(pose, TickNext(pose).action)
  <2>1. IsSeq(records)
    BY RecordsOfTick DEF TickFacts
  <2>2. Raw(records)
    BY TickIs
  <2> HIDE DEF records
  <2>3. PICK n \in 0 .. Len(records) : Wrote(records, n)
    BY <2>1, <2>2, RawWrites DEF CoreTypes
  <2> QED BY <2>3 DEF Wrote
<1>12. CoreTypes'
  BY <1>3, <1>4, <1>5, <1>6, <1>7, <1>8, <1>9, <1>10, <1>11 DEF CoreTypes
<1>13. PendingTypes'
  BY TickIs DEF PendingTypes
<1> QED BY <1>12, <1>13

LEMMA TickInDate ==
    ASSUME CoreTypes, PendingTypes, DateInv, NEW pose \in Poses, Tick(pose)
    PROVE  DateInv'
<1> DEFINE action == TickNext(pose).action
<1>1. TickInputs(pose) /\ now \in Nat /\ lastBeat \in Nat /\ lastBeat <= now
  BY TickInputsAre DEF CoreTypes
<1>2. TickSteps(pose)
  BY <1>1, TickStepsRight
<1>3. /\ now' = now + 1 /\ pendingBeat' = FALSE /\ lastBeat' = lastBeat
      /\ lastObsTick' = Observation /\ core' = TickNext(pose).core
  BY TickIs
<1>4. TickCore(pose).plane.beat = lastBeat
  BY <1>1 DEF CoreTypes, DateInv, TickInputs
<1>5. core'.plane.beat = lastBeat'
  BY <1>2, <1>3, <1>4 DEF TickSteps, StepFacts
<1>6. \A i \in 1 .. Len(core'.chunk.rows) : core'.chunk.rows[i].obs = lastObsTick'
  <2>1. core'.chunk = TickBuffered(pose).chunk
    BY <1>2, <1>3 DEF TickSteps, StepFacts
  <2>2. CASE pendingCmd = None
    <3>1. core'.chunk = core.chunk /\ lastObsTick' = lastObsTick
      BY <1>1, <1>2, <1>3, <2>1, <2>2 DEF TickInputs, TickSteps, StepFacts, Observation
    <3> QED BY <3>1 DEF DateInv
  <2>3. CASE pendingCmd # None
    <3>1. core'.chunk.rows = pendingCmd.rows /\ lastObsTick' = pendingCmd.obs
      BY <1>1, <1>2, <1>3, <2>1, <2>3 DEF TickInputs, TickSteps, StepFacts, Observation, Rows
    <3> QED BY <2>3, <3>1 DEF PendingTypes
  <2> QED BY <2>2, <2>3
<1>7. Appends(hash', hash, Decision(now, action)) /\ Len(hash) = now
  <2>1. IsAppend(hash', hash, Decision(now, action))
    BY TickIs DEF IsAppend
  <2> QED BY <2>1, Appended DEF CoreTypes
<1>8. /\ DOMAIN hash' = 1 .. now + 1 /\ DOMAIN hash = 1 .. now /\ Len(hash') = now + 1
      /\ hash'[now + 1] = Decision(now, action)
      /\ \A i \in 1 .. now : hash'[i] = hash[i]
  BY <1>7 DEF Appends, IsSeq, CoreTypes
\* What the tick executes answers the observation it submitted, and that is in date.
<1>9. ASSUME action.source = "Policy"
      PROVE  ~Over(now - action.q.obs, MaxObsAge) /\ ~Over(now - lastBeat, HeartbeatTimeout)
  <2>1. /\ TickHeld(pose).cursor + 1 \in 1 .. Len(TickHeld(pose).rows)
        /\ action.q = TickHeld(pose).rows[TickHeld(pose).cursor + 1]
        /\ TickHeld(pose).rows = core'.chunk.rows
        /\ TickHeld(pose) \in HeldChunks(CommandRows)
        /\ ~Over(ObsAge, MaxObsAge)
        /\ ~Over(Since(now, TickCore(pose).plane.beat), HeartbeatTimeout)
    BY <1>2, <1>3, <1>9 DEF TickSteps, StepFacts
  <2>2. action.q.obs = Observation /\ action.q \in CommandRows
    BY <1>3, <1>6, <2>1 DEF HeldChunks
  <2>3. Observation \in Nat
    BY <2>2 DEF CommandRows
  <2>4. Observation # None
    BY <2>3, PlaneStepsAssumption
  <2>5. Since(now, lastBeat) = now - lastBeat
    BY <1>1 DEF Since
  <2> QED BY <1>1, <1>4, <2>1, <2>2, <2>4, <2>5 DEF TickInputs
<1>10. RunsInDate'
  <2> SUFFICES ASSUME NEW i \in DOMAIN hash', Ran(hash'[i])
               PROVE  /\ ~Over(hash'[i].tick - hash'[i].action.q.obs, MaxObsAge)
                      /\ i = Len(hash') => ~Over(hash'[i].tick - lastBeat', HeartbeatTimeout)
    BY DEF RunsInDate, Ran
  <2>1. CASE i = now + 1
    <3>1. hash'[i].tick = now /\ hash'[i].action = action
      BY <1>8, <2>1 DEF Decision
    <3> QED BY <1>3, <1>9, <3>1 DEF Ran
  <2>2. CASE i # now + 1
    <3>1. i \in 1 .. now /\ hash'[i] = hash[i] /\ i # Len(hash')
      BY <1>1, <1>8, <2>2
    <3> QED BY <1>8, <3>1 DEF DateInv, RunsInDate, Ran
  <2> QED BY <2>1, <2>2
<1>11. hash'[now'].tick = now' - 1
  BY <1>1, <1>3, <1>8 DEF Decision
<1> QED BY <1>3, <1>5, <1>6, <1>10, <1>11 DEF DateInv

-----------------------------------------------------------------------------
(***************************************************************************)
(* What arrives between two ticks, and the end of the run.                 *)
(***************************************************************************)
CoreInv == CoreTypes /\ PendingTypes /\ DateInv /\ ReplayInv

LEMMA CoreUntouched ==
    ASSUME CoreInv, UNCHANGED coreVars
    PROVE  CoreInv'
<1>1. ReplayInv'
  BY LogUntouched DEF CoreInv, coreVars
<1>2. CoreTypes' /\ PendingTypes'
  BY DEF CoreInv, coreVars, CoreTypes, PendingTypes
<1>3. DateInv'
  BY DEF CoreInv, coreVars, DateInv, RunsInDate
<1> QED BY <1>1, <1>2, <1>3 DEF CoreInv

\* A command that OnCommand may be handed.
GoodCommand(cmd) ==
    /\ cmd.id \in Ids /\ cmd.obs \in 0 .. now /\ cmd # None
    /\ cmd.rows \in Seq(CommandRows) /\ cmd.rows # None
    /\ \A i \in 1 .. Len(cmd.rows) : cmd.rows[i].obs = cmd.obs

LEMMA CommandKeepsCore ==
    ASSUME CoreInv, NEW cmd, GoodCommand(cmd), OnCommand(cmd)
    PROVE  CoreInv'
<1>1. /\ pendingCmd' = cmd /\ stats' \in {stats, [stats EXCEPT !.superseded = @ + 1]}
      /\ UNCHANGED <<core, log, logError, hash, pendingBeat, lastObsTick, now, ended,
                     lastBeat, given>>
  BY DEF OnCommand
<1>2. /\ stats' \in [commands : Nat, superseded : Nat, deadlineMiss : Nat]
      /\ stats'.commands = stats.commands
  <2>1. stats \in [commands : Nat, superseded : Nat, deadlineMiss : Nat]
    BY DEF CoreInv, CoreTypes
  <2>2. stats' = stats \/ stats' = [commands |-> stats.commands,
                                    superseded |-> stats.superseded + 1,
                                    deadlineMiss |-> stats.deadlineMiss]
    BY <1>1, <2>1
  <2> QED BY <2>1, <2>2
<1>3. CoreTypes'
  BY <1>1, <1>2 DEF CoreInv, CoreTypes
<1>4. PendingTypes'
  BY <1>1 DEF GoodCommand, PendingTypes
<1>5. DateInv'
  BY <1>1 DEF CoreInv, DateInv, RunsInDate
<1>6. ReplayInv'
  BY <1>1, LogUntouched DEF CoreInv
<1> QED BY <1>3, <1>4, <1>5, <1>6 DEF CoreInv

LEMMA HeartbeatKeepsCore ==
    ASSUME CoreInv, OnHeartbeat
    PROVE  CoreInv'
<1>1. /\ pendingBeat' = TRUE /\ lastBeat' = now
      /\ UNCHANGED <<core, log, logError, hash, pendingCmd, lastObsTick, stats, now, ended,
                     given>>
  BY DEF OnHeartbeat
<1>2. now \in Nat /\ DOMAIN hash = 1 .. now /\ Len(hash) = now
  BY DEF CoreInv, CoreTypes, IsSeq
<1>3. CoreTypes'
  <2>1. lastBeat' \in 0 .. now'
    BY <1>1, <1>2
  <2>2. pendingBeat' \in BOOLEAN
    BY <1>1
  <2> QED BY <1>1, <2>1, <2>2 DEF CoreInv, CoreTypes
<1>4. PendingTypes'
  BY <1>1 DEF CoreInv, PendingTypes
\* The last decision is of an earlier tick than a heartbeat heard since.
<1>5. DateInv'
  <2>1. ASSUME NEW i \in DOMAIN hash, i = Len(hash)
        PROVE  ~Over(hash[i].tick - now, HeartbeatTimeout)
    <3>1. i = now /\ hash[i].tick = now - 1
      BY <1>2, <2>1 DEF CoreInv, DateInv
    <3>2. hash[i].tick - now = -1
      BY <1>2, <3>1
    <3> QED BY <3>2, PlaneStepsAssumption DEF Over
  <2>2. RunsInDate'
    BY <1>1, <2>1 DEF CoreInv, DateInv, RunsInDate, Ran
  <2> QED BY <1>1, <2>2 DEF CoreInv, DateInv
<1>6. ReplayInv'
  BY <1>1, LogUntouched DEF CoreInv
<1> QED BY <1>3, <1>4, <1>5, <1>6 DEF CoreInv

LEMMA FinishKeepsCore ==
    ASSUME CoreInv, Finish
    PROVE  CoreInv'
<1> DEFINE records == <<Trailer(hash)>>
<1>1. /\ ended' = TRUE /\ Raw(records)
      /\ UNCHANGED <<core, hash, pendingCmd, pendingBeat, lastObsTick, stats, now, lastBeat,
                     given>>
  BY DEF Finish
<1>2. IsSeq(records)
  BY ShortSeqs
<1> HIDE DEF records
<1>3. PICK n \in 0 .. Len(records) : Wrote(records, n)
  BY <1>1, <1>2, RawWrites DEF CoreInv, CoreTypes
<1>4. IsSeq(log') /\ logError' \in BOOLEAN
  BY <1>3 DEF Wrote
<1>5. CoreTypes'
  BY <1>1, <1>4 DEF CoreInv, CoreTypes
<1>6. PendingTypes' /\ DateInv'
  BY <1>1 DEF CoreInv, PendingTypes, DateInv, RunsInDate
<1>7. ReplayInv'
  BY FinishKeepsLog DEF CoreInv
<1> QED BY <1>5, <1>6, <1>7 DEF CoreInv

LEMMA TickKeepsCore ==
    ASSUME CoreInv, NEW pose \in Poses, Tick(pose)
    PROVE  CoreInv'
BY TickKeepsTypes, TickInDate, TickKeepsLog DEF CoreInv

LEMMA CommandIsGood ==
    ASSUME CoreTypes, LinkTypes, NEW d \in net
    PROVE  GoodCommand(CommandIn(d))
<1> DEFINE e == [session |-> d.session, seq |-> d.seq, obs |-> d.obs]
           row(i) == [id |-> Id(d), obs |-> d.obs, row |-> i]
<1>1. /\ d.session \in 0 .. link.session /\ link.session \in 1 .. MaxSession
      /\ ctlSeq[d.from] \in 0 .. MaxSeq /\ d.seq \in 1 .. ctlSeq[d.from]
      /\ d.obs \in 0 .. now /\ now \in 0 .. MaxTick
  BY DEF CoreTypes, LinkTypes
<1>2. d.session \in 0 .. MaxSession /\ d.seq \in 0 .. MaxSeq /\ d.obs \in 0 .. MaxTick
  BY <1>1, LinkAssumption, DriverAssumption
<1>3. e \in [session : 0 .. MaxSession, seq : 0 .. MaxSeq, obs : 0 .. MaxTick]
  BY <1>2
<1>4. CommandIn(e) = CommandIn(d)
  BY DEF CommandIn, Id
<1>5. CommandIn(d) # None /\ CommandIn(d).rows # None
  BY <1>3, <1>4, LinkAssumption
<1>6. Id(d) \in Ids /\ d.obs \in Nat
  BY <1>1, <1>2, LinkAssumption DEF Id, Ids
<1>7. \A i \in 1 .. RowCount : row(i) \in CommandRows
  BY <1>6 DEF CommandRows
<1>8. [i \in 1 .. RowCount |-> row(i)] \in Seq(CommandRows)
      /\ Len([i \in 1 .. RowCount |-> row(i)]) = RowCount
  <2> HIDE DEF row
  <2> QED BY <1>7, LinkAssumption
<1>9. /\ CommandIn(d).id = Id(d) /\ CommandIn(d).obs = d.obs
      /\ CommandIn(d).rows = [i \in 1 .. RowCount |-> row(i)]
  BY DEF CommandIn
<1>10. \A i \in 1 .. RowCount : CommandIn(d).rows[i].obs = d.obs
  BY <1>9
<1> HIDE DEF row
<1> QED BY <1>1, <1>5, <1>6, <1>8, <1>9, <1>10 DEF GoodCommand

-----------------------------------------------------------------------------
(***************************************************************************)
(* The steps of the link.                                                  *)
(***************************************************************************)
Links == [session : 1 .. MaxSession, peer : Controllers \cup {None},
          lastSeq : 0 .. MaxSeq, rxLost : Nat]

LEMMA DatagramTypes ==
    ASSUME CoreTypes, LinkTypes, NEW d \in net
    PROVE  /\ d.from \in Controllers /\ d.session \in 0 .. link.session
           /\ d.seq \in 1 .. MaxSeq /\ d.obs \in 0 .. now
           /\ link \in Links /\ link.session \in Nat /\ link.lastSeq \in Nat
           /\ MaxSession \in Nat /\ MaxSeq \in Nat
<1>1. /\ d.from \in Controllers /\ d.session \in 0 .. link.session
      /\ d.seq \in 1 .. ctlSeq[d.from] /\ d.obs \in 0 .. now
      /\ ctlSeq[d.from] \in 0 .. MaxSeq /\ link \in Links
  BY DEF LinkTypes, Links
<1> QED BY <1>1, LinkAssumption DEF Links

SendFacts(c, kind, session, obs) ==
    /\ ctlSeq[c] < MaxSeq
    /\ ctlSeq' = [ctlSeq EXCEPT ![c] = ctlSeq[c] + 1]
    /\ net' = net \cup {[from |-> c, kind |-> kind, session |-> session,
                         seq |-> ctlSeq[c] + 1, obs |-> obs]}
    /\ UNCHANGED <<coreVars, link, acks, accepted, bases>>

LEMMA SendKeepsLink ==
    ASSUME CoreTypes, LinkTypes, NEW c \in Controllers, NEW kind,
           NEW session \in 0 .. link.session, NEW obs \in 0 .. now,
           SendFacts(c, kind, session, obs)
    PROVE  LinkTypes'
<1>1. /\ ctlSeq \in [Controllers -> 0 .. MaxSeq] /\ ctlSeq[c] \in 0 .. MaxSeq
      /\ ctlSeq[c] < MaxSeq /\ MaxSeq \in Nat
  BY LinkAssumption DEF LinkTypes, SendFacts
<1>2. /\ ctlSeq' \in [Controllers -> 0 .. MaxSeq] /\ ctlSeq'[c] = ctlSeq[c] + 1
      /\ \A e \in Controllers : e # c => ctlSeq'[e] = ctlSeq[e]
  BY <1>1 DEF SendFacts
<1>3. UNCHANGED <<link, acks, now>>
  BY DEF SendFacts, coreVars
<1>4. ASSUME NEW d \in net'
      PROVE  /\ d.from \in Controllers /\ d.session \in 0 .. link'.session
             /\ d.seq \in 1 .. ctlSeq'[d.from] /\ d.obs \in 0 .. now'
  <2>1. CASE d \in net
    <3>1. /\ d.from \in Controllers /\ d.session \in 0 .. link.session
          /\ d.seq \in 1 .. ctlSeq[d.from] /\ d.obs \in 0 .. now
          /\ ctlSeq[d.from] \in 0 .. MaxSeq
      BY <1>1, <2>1 DEF LinkTypes
    <3>2. d.seq \in 1 .. ctlSeq'[d.from]
      <4>1. CASE d.from = c
        BY <1>1, <1>2, <3>1, <4>1
      <4>2. CASE d.from # c
        BY <1>2, <3>1, <4>2
      <4> QED BY <4>1, <4>2
    <3> QED BY <1>3, <3>1, <3>2
  <2>2. CASE d \notin net
    <3>1. d = [from |-> c, kind |-> kind, session |-> session,
               seq |-> ctlSeq[c] + 1, obs |-> obs]
      BY <2>2 DEF SendFacts
    <3>2. d.from = c /\ d.session = session /\ d.seq = ctlSeq[c] + 1 /\ d.obs = obs
      BY <3>1
    <3> QED BY <1>1, <1>2, <1>3, <3>2
  <2> QED BY <2>1, <2>2
<1> QED BY <1>2, <1>3, <1>4 DEF LinkTypes

HelloFacts(d) ==
    /\ link.session < MaxSession
    /\ link'.session = link.session + 1 /\ link'.peer = d.from /\ link'.lastSeq = d.seq
    /\ link'.rxLost = link.rxLost /\ link' \in Links
    /\ acks' = acks \cup {[to |-> d.from, session |-> link.session + 1]}
    /\ bases' = Append(bases, [session |-> link.session + 1, seq |-> d.seq])
    /\ UNCHANGED <<coreVars, net, ctlSeq, accepted>>

LEMMA HelloIs ==
    ASSUME CoreTypes, LinkTypes, NEW d \in net, Hello(d)
    PROVE  HelloFacts(d)
<1>1. /\ d.from \in Controllers /\ d.seq \in 1 .. MaxSeq /\ link \in Links
      /\ link.session < MaxSession /\ link.session \in Nat /\ MaxSession \in Nat
      /\ MaxSeq \in Nat
  BY DatagramTypes DEF Hello
<1>2. link' = [session |-> link.session + 1, peer |-> d.from, lastSeq |-> d.seq,
               rxLost |-> link.rxLost]
  BY <1>1 DEF Hello, OpenSession, Links
<1>3. link.session + 1 \in 1 .. MaxSession /\ link.rxLost \in Nat /\ d.seq \in 0 .. MaxSeq
  BY <1>1 DEF Links
<1>4. link' \in Links
  BY <1>1, <1>2, <1>3 DEF Links
<1> QED BY <1>1, <1>2, <1>4 DEF Hello, HelloFacts

LEMMA HelloKeepsLink ==
    ASSUME CoreTypes, LinkTypes, NEW d \in net, HelloFacts(d)
    PROVE  LinkTypes'
<1>1. /\ link.session \in Nat /\ link'.session = link.session + 1 /\ link' \in Links
      /\ UNCHANGED <<now, net, ctlSeq>>
      /\ acks' = acks \cup {[to |-> d.from, session |-> link.session + 1]}
  BY DatagramTypes DEF HelloFacts, coreVars
<1>2. 1 <= link.session
  BY DEF LinkTypes
<1>3. \A ack \in acks' : ack.session \in 2 .. link'.session
  <2>1. \A ack \in acks : ack.session \in 2 .. link.session
    BY DEF LinkTypes
  <2> QED BY <1>1, <1>2, <2>1
<1>4. \A e \in net' : /\ e.from \in Controllers /\ e.session \in 0 .. link'.session
                      /\ e.seq \in 1 .. ctlSeq'[e.from] /\ e.obs \in 0 .. now'
  <2>1. \A e \in net : /\ e.from \in Controllers /\ e.session \in 0 .. link.session
                       /\ e.seq \in 1 .. ctlSeq[e.from] /\ e.obs \in 0 .. now
    BY DEF LinkTypes
  <2>2. \A e \in net : e.session \in 0 .. link'.session
    BY <1>1, <2>1
  <2> QED BY <1>1, <2>1, <2>2
<1>5. ctlSeq' \in [Controllers -> 0 .. MaxSeq]
  BY <1>1 DEF LinkTypes
<1>6. link'.session >= 2
  BY <1>1, <1>2
<1> QED BY <1>1, <1>3, <1>4, <1>5, <1>6 DEF LinkTypes, Links

AcceptFacts(d) ==
    /\ d.session = link.session /\ link.peer \in Controllers /\ d.seq > link.lastSeq
    /\ link'.session = link.session /\ link'.lastSeq = d.seq
    /\ link'.rxLost = link.rxLost + (d.seq - link.lastSeq - 1)
    /\ link'.peer \in {link.peer, None} /\ link' \in Links
    /\ accepted' = Append(accepted, Id(d))
    /\ UNCHANGED <<net, acks, ctlSeq, bases>>
    /\ \/ d.kind = "Command" /\ OnCommand(CommandIn(d))
       \/ OnHeartbeat
       \/ UNCHANGED coreVars

LEMMA AcceptIs ==
    ASSUME CoreTypes, LinkTypes, NEW d \in net, AcceptDatagram(d)
    PROVE  AcceptFacts(d)
<1>1. /\ d.from \in Controllers /\ d.seq \in 1 .. MaxSeq /\ link \in Links
      /\ link.session \in Nat /\ link.lastSeq \in Nat /\ MaxSeq \in Nat
  BY DatagramTypes
<1>2. d.session = link.session /\ d.from = link.peer /\ d.seq > link.lastSeq
  BY DEF AcceptDatagram, FreshInSession
<1> DEFINE peer == IF d.kind = "Bye" THEN None ELSE link.peer
           lost == link.rxLost + (d.seq - link.lastSeq - 1)
<1>3. link' = [session |-> link.session, peer |-> peer, lastSeq |-> d.seq, rxLost |-> lost]
  BY <1>1 DEF AcceptDatagram, Advanced, Links
<1>4. peer \in {link.peer, None} /\ peer \in Controllers \cup {None}
  BY <1>1, <1>2
<1>5. lost \in Nat /\ d.seq \in 0 .. MaxSeq /\ link.session \in 1 .. MaxSession
  BY <1>1, <1>2 DEF Links
<1> HIDE DEF peer
<1>6. link' \in Links
  <2> HIDE DEF lost
  <2> QED BY <1>3, <1>4, <1>5 DEF Links
<1>7. \/ d.kind = "Command" /\ OnCommand(CommandIn(d))
      \/ OnHeartbeat
      \/ UNCHANGED coreVars
  BY DEF AcceptDatagram
<1>8. accepted' = Append(accepted, Id(d)) /\ UNCHANGED <<net, acks, ctlSeq, bases>>
  BY DEF AcceptDatagram
<1> QED BY <1>1, <1>2, <1>3, <1>4, <1>6, <1>7, <1>8 DEF AcceptFacts

LEMMA AcceptKeepsLink ==
    ASSUME CoreTypes, LinkTypes, NEW d \in net, AcceptFacts(d)
    PROVE  LinkTypes' /\ now' = now /\ given' = given
<1>1. now' = now /\ given' = given
  BY DEF AcceptFacts, OnCommand, OnHeartbeat, coreVars
<1>2. link.peer # None
  BY LinkAssumption DEF AcceptFacts
<1> QED BY <1>1, <1>2 DEF AcceptFacts, LinkTypes, Links

LEMMA SendIs ==
    ASSUME CoreTypes, LinkTypes, NEW c \in Controllers, SendHello(c) \/ SendInSession(c)
    PROVE  \E kind : \E session \in 0 .. link.session : \E obs \in 0 .. now :
             SendFacts(c, kind, session, obs)
<1>1. link.session \in Nat /\ now \in Nat /\ 0 \in 0 .. link.session /\ 0 \in 0 .. now
  BY DEF CoreTypes, LinkTypes
<1>2. CASE SendHello(c)
  BY <1>1, <1>2 DEF SendHello, Send, SendFacts
<1>3. CASE SendInSession(c)
  <2>1. PICK ack \in acks, kind \in {"Command", "Heartbeat", "Bye"}, obs \in 0 .. now :
          Send(c, kind, ack.session, obs)
    BY <1>3 DEF SendInSession
  <2>2. ack.session \in 0 .. link.session
    BY <1>1 DEF LinkTypes
  <2>3. SendFacts(c, kind, ack.session, obs)
    BY <2>1 DEF Send, SendFacts
  <2> QED BY <2>2, <2>3
<1> QED BY <1>2, <1>3

LEMMA ClockKeepsLink ==
    ASSUME CoreTypes, LinkTypes, UNCHANGED linkVars, now' = now \/ now' = now + 1
    PROVE  LinkTypes'
<1>1. UNCHANGED <<link, net, acks, ctlSeq>>
  BY DEF linkVars
<1>2. 0 .. now \subseteq 0 .. now'
  BY DEF CoreTypes
<1> QED BY <1>1, <1>2 DEF LinkTypes

-----------------------------------------------------------------------------
(***************************************************************************)
(* What the link reached it never falls behind, so the command it accepts  *)
(* comes after every one before it.                                        *)
(***************************************************************************)
Onward ==
    /\ link.session \in Nat /\ link'.session \in Nat
    /\ link.lastSeq \in Nat /\ link'.lastSeq \in Nat
    /\ \/ link.session < link'.session
       \/ link.session = link'.session /\ link.lastSeq <= link'.lastSeq

LEMMA ReachedStays ==
    ASSUME Onward, NEW id, id.session \in Nat, id.seq \in Nat, Reached(link, id)
    PROVE  Reached(link', id)
BY DEF Onward, Reached

LEMMA LinkOnward ==
    ASSUME LinkTypes, LinkTypes'
    PROVE  /\ link.session = link'.session /\ link.lastSeq <= link'.lastSeq => Onward
           /\ link.session < link'.session => Onward
BY LinkAssumption DEF Onward, LinkTypes

LEMMA StreamKept ==
    ASSUME StreamInv, PendingTypes, Onward, UNCHANGED <<given, pendingCmd>>, net \subseteq net'
    PROVE  StreamInv'
<1>1. \A i \in 1 .. Len(given') : given'[i] \in Ids /\ Reached(link', given'[i])
  <2> SUFFICES ASSUME NEW i \in 1 .. Len(given) PROVE given[i] \in Ids /\ Reached(link', given[i])
    OBVIOUS
  <2>1. given[i] \in Ids /\ Reached(link, given[i])
    BY DEF StreamInv
  <2>2. given[i].session \in Nat /\ given[i].seq \in Nat
    BY <2>1 DEF Ids
  <2> QED BY <2>1, <2>2, ReachedStays
<1>2. Sent \subseteq Sent'
  BY DEF Sent
<1>3. pendingCmd # None => pendingCmd.id \in Sent' /\ Reached(link', pendingCmd.id)
  <2> SUFFICES ASSUME pendingCmd # None
               PROVE  pendingCmd.id \in Sent' /\ Reached(link', pendingCmd.id)
    OBVIOUS
  <2>1. pendingCmd.id \in Sent /\ Reached(link, pendingCmd.id)
    BY DEF StreamInv
  <2>2. pendingCmd.id.session \in Nat /\ pendingCmd.id.seq \in Nat
    BY DEF PendingTypes, Ids
  <2> QED BY <1>2, <2>1, <2>2, ReachedStays
<1> QED BY <1>1, <1>3 DEF StreamInv

LEMMA SendKeepsStream ==
    ASSUME StreamInv, PendingTypes, LinkTypes, NEW c, NEW kind, NEW session, NEW obs,
           SendFacts(c, kind, session, obs)
    PROVE  StreamInv'
<1>1. UNCHANGED <<given, pendingCmd, link>> /\ net \subseteq net'
  BY DEF SendFacts, coreVars
<1>2. Onward
  BY <1>1, LinkAssumption DEF LinkTypes, Onward
<1> QED BY <1>1, <1>2, StreamKept

LEMMA HelloKeepsStream ==
    ASSUME StreamInv, PendingTypes, LinkTypes, LinkTypes', NEW d, HelloFacts(d)
    PROVE  StreamInv'
<1>1. UNCHANGED <<given, pendingCmd, net>> /\ link'.session = link.session + 1
  BY DEF HelloFacts, coreVars
<1>2. link.session < link'.session
  BY <1>1 DEF LinkTypes
<1> QED BY <1>1, <1>2, StreamKept, LinkOnward

LEMMA AcceptKeepsStream ==
    ASSUME StreamInv, CoreTypes, PendingTypes, LinkTypes, LinkTypes', NEW d \in net, AcceptFacts(d)
    PROVE  StreamInv'
<1>1. /\ link'.session = link.session /\ link'.lastSeq = d.seq /\ d.seq > link.lastSeq
      /\ d.session = link.session /\ net' = net /\ given' = given
      /\ link.session \in Nat /\ link.lastSeq \in Nat /\ d.seq \in Nat
  BY AcceptKeepsLink, DatagramTypes, LinkAssumption DEF AcceptFacts
<1>2. Onward
  BY <1>1, LinkOnward
<1>3. CASE UNCHANGED pendingCmd
  BY <1>1, <1>2, <1>3, StreamKept
<1>4. CASE d.kind = "Command" /\ OnCommand(CommandIn(d))
  <2>1. pendingCmd'.id = Id(d) /\ Id(d) \in Sent
    BY <1>4 DEF OnCommand, CommandIn, Sent
  <2>2. Id(d).session = link.session /\ Id(d).seq = d.seq
    BY <1>1 DEF Id
  <2>3. Reached(link', Id(d))
    BY <1>1, <2>2 DEF Reached
  <2>4. ASSUME NEW i \in 1 .. Len(given)
        PROVE  /\ given[i] \in Ids /\ Reached(link', given[i])
               /\ Stream!Before(given[i], Id(d))
    <3>1. given[i] \in Ids /\ Reached(link, given[i])
      BY DEF StreamInv
    <3>2. given[i].session \in Nat /\ given[i].seq \in Nat
      BY <3>1 DEF Ids
    <3>3. Stream!Before(given[i], Id(d))
      BY <1>1, <2>2, <3>1, <3>2 DEF Reached, Stream!Before
    <3> QED BY <1>2, <3>1, <3>2, <3>3, ReachedStays
  <2>5. Sent' = Sent
    BY <1>1 DEF Sent
  <2> QED BY <1>1, <2>1, <2>3, <2>4, <2>5 DEF StreamInv
<1>5. OnHeartbeat \/ UNCHANGED coreVars => UNCHANGED pendingCmd
  BY DEF OnHeartbeat, coreVars
<1> QED BY <1>3, <1>4, <1>5 DEF AcceptFacts

LEMMA TickKeepsStream ==
    ASSUME StreamInv, CoreTypes, PendingTypes, UNCHANGED linkVars, NEW pose, Tick(pose)
    PROVE  StreamInv'
<1>1. UNCHANGED <<link, net>> /\ pendingCmd' = None
  BY TickIs DEF linkVars
<1>2. CASE pendingCmd = None
  <2>1. given' = given
    BY <1>2, TickIs
  <2> QED BY <1>1, <2>1 DEF StreamInv, Reached
<1>3. CASE pendingCmd # None
  <2>1. IsAppend(given', given, pendingCmd.id)
    BY <1>3, TickIs DEF IsAppend
  <2>2. Appends(given', given, pendingCmd.id)
    BY <2>1, Appended DEF CoreTypes
  <2>3. pendingCmd.id \in Ids /\ Reached(link, pendingCmd.id)
    BY <1>3 DEF PendingTypes, StreamInv
  <2>4. ASSUME NEW i \in 1 .. Len(given') PROVE given'[i] \in Ids /\ Reached(link, given'[i])
    <3>1. i \in 1 .. Len(given) \/ i = Len(given) + 1
      BY <2>2 DEF Appends
    <3> QED BY <2>2, <2>3, <3>1 DEF StreamInv, Appends
  <2>5. \A i \in 1 .. Len(given') : given'[i] \in Ids /\ Reached(link', given'[i])
    BY <1>1, <2>4 DEF Reached
  <2> QED BY <1>1, <2>5 DEF StreamInv
<1> QED BY <1>2, <1>3

-----------------------------------------------------------------------------
(***************************************************************************)
(* The loss counter: an accepted datagram skips the numbers between it and *)
(* the highest of its session, and no number twice.                        *)
(***************************************************************************)
Pairs == (2 .. MaxSession) \X (1 .. MaxSeq)

\* The numbers bs and as say were skipped.
Missed(bs, as, n) ==
    /\ \E b \in 1 .. Len(bs) : bs[b].session = n[1] /\ bs[b].seq < n[2]
    /\ \E a \in 1 .. Len(as) : as[a].session = n[1] /\ as[a].seq > n[2]
    /\ \A a \in 1 .. Len(as) : as[a] # [session |-> n[1], seq |-> n[2]]

LEMMA SkippedIs ==
    /\ IsSeq(bases) /\ IsSeq(accepted) => Skipped = {n \in Pairs : Missed(bases, accepted, n)}
    /\ IsSeq(bases') /\ IsSeq(accepted')
         => Skipped' = {n \in Pairs : Missed(bases', accepted', n)}
<1>1. ASSUME NEW f, IsSeq(f) PROVE DOMAIN f = 1 .. Len(f)
  BY <1>1 DEF IsSeq
<1>2. ASSUME IsSeq(bases), IsSeq(accepted)
      PROVE  Skipped = {n \in Pairs : Missed(bases, accepted, n)}
  <2>1. DOMAIN bases = 1 .. Len(bases) /\ DOMAIN accepted = 1 .. Len(accepted)
    BY <1>1, <1>2
  <2> QED BY <2>1 DEF Skipped, Pairs, Missed
<1>3. ASSUME IsSeq(bases'), IsSeq(accepted')
      PROVE  Skipped' = {n \in Pairs : Missed(bases', accepted', n)}
  <2>1. DOMAIN bases' = 1 .. Len(bases') /\ DOMAIN accepted' = 1 .. Len(accepted')
    BY <1>1, <1>3
  <2> QED BY <2>1 DEF Skipped, Pairs, Missed
<1> QED BY <1>2, <1>3

LEMMA PairsFinite == IsFiniteSet(Pairs)
<1>0. 1 \in Int /\ 2 \in Int /\ MaxSession \in Int /\ MaxSeq \in Int
  BY LinkAssumption
<1>1. IsFiniteSet(2 .. MaxSession) /\ IsFiniteSet(1 .. MaxSeq)
  BY <1>0, FS_Interval
<1> QED BY <1>1, FS_Product DEF Pairs

LEMMA LossKept ==
    ASSUME LossInv, UNCHANGED <<link, bases, accepted>>
    PROVE  LossInv'
BY DEF LossInv, Reached, LostAreSkipped, Skipped

LEMMA HelloKeepsLoss ==
    ASSUME LossInv, CoreTypes, LinkTypes, NEW d \in net, HelloFacts(d)
    PROVE  LossInv'
<1> DEFINE base == [session |-> link.session + 1, seq |-> d.seq]
<1>1. /\ link.session \in Nat /\ 1 <= link.session /\ link'.session = link.session + 1
      /\ link'.lastSeq = d.seq /\ d.seq \in 1 .. MaxSeq /\ link'.rxLost = link.rxLost
      /\ accepted' = accepted /\ IsAppend(bases', bases, base)
  <2>1. link.session \in 1 .. MaxSession
    BY DEF LinkTypes
  <2> QED BY <2>1, DatagramTypes DEF HelloFacts, IsAppend
<1>2. Appends(bases', bases, base) /\ IsSeq(bases) /\ IsSeq(accepted)
  BY <1>1, Appended DEF LossInv
<1>3. /\ IsSeq(bases') /\ Len(bases) \in Nat /\ Len(bases') = Len(bases) + 1
      /\ bases'[Len(bases) + 1].session = link.session + 1
      /\ bases'[Len(bases) + 1].seq = d.seq
      /\ \A b \in 1 .. Len(bases) : bases'[b] = bases[b]
  BY <1>2 DEF Appends
<1> HIDE DEF base
<1>4. \A b \in 1 .. Len(bases) : /\ bases[b].session \in 2 .. link.session
                                 /\ bases[b].seq \in 1 .. MaxSeq
  BY DEF LossInv
<1>5. \A b \in 1 .. Len(bases') : b \in 1 .. Len(bases) \/ b = Len(bases) + 1
  BY <1>3
<1>6. \A b \in 1 .. Len(bases') : /\ bases'[b].session \in 2 .. link'.session
                                  /\ bases'[b].seq \in 1 .. MaxSeq
  BY <1>1, <1>3, <1>4, <1>5
<1>7. \A b, c \in 1 .. Len(bases') :
        bases'[b].session = bases'[c].session => bases'[b].seq = bases'[c].seq
  <2>1. \A b, c \in 1 .. Len(bases) :
          bases[b].session = bases[c].session => bases[b].seq = bases[c].seq
    BY DEF LossInv
  <2>2. \A b \in 1 .. Len(bases) : bases[b].session # link.session + 1
    BY <1>1, <1>4
  <2> QED BY <1>3, <1>5, <2>1, <2>2
<1>8. \A b \in 1 .. Len(bases') : Reached(link', bases'[b])
  <2>1. \A b \in 1 .. Len(bases) : bases[b].session < link'.session
    BY <1>1, <1>4
  <2> QED BY <1>1, <1>3, <1>5, <2>1 DEF Reached
\* Nothing of the new session was accepted yet.
<1>9. \A a \in 1 .. Len(accepted) :
        /\ accepted[a] \in Ids /\ accepted[a].session \in Nat
        /\ accepted[a].session >= 2 /\ accepted[a].session <= link.session
  <2>1. \A a \in 1 .. Len(accepted) : /\ accepted[a] \in Ids /\ Reached(link, accepted[a])
                                      /\ accepted[a].session >= 2
    BY DEF LossInv
  <2>2. \A a \in 1 .. Len(accepted) : accepted[a].session \in Nat
    BY <2>1 DEF Ids
  <2> QED BY <1>1, <2>1, <2>2 DEF Reached
<1>10. \A a \in 1 .. Len(accepted) : /\ accepted[a] \in Ids /\ Reached(link', accepted[a])
                                     /\ accepted[a].session >= 2
  BY <1>1, <1>9 DEF Reached
<1>11. ASSUME NEW n \in Pairs
       PROVE  Missed(bases', accepted, n) <=> Missed(bases, accepted, n)
  <2>1. ASSUME Missed(bases', accepted, n) PROVE Missed(bases, accepted, n)
    <3>1. PICK b \in 1 .. Len(bases') : bases'[b].session = n[1] /\ bases'[b].seq < n[2]
      BY <2>1 DEF Missed
    <3>2. PICK a \in 1 .. Len(accepted) : accepted[a].session = n[1]
      BY <2>1 DEF Missed
    <3>3. b # Len(bases) + 1
      BY <1>1, <1>3, <1>9, <3>1, <3>2
    <3>4. b \in 1 .. Len(bases) /\ bases'[b] = bases[b]
      BY <1>3, <1>5, <3>3
    <3> QED BY <2>1, <3>1, <3>4 DEF Missed
  <2>2. ASSUME Missed(bases, accepted, n) PROVE Missed(bases', accepted, n)
    <3>1. PICK b \in 1 .. Len(bases) : bases[b].session = n[1] /\ bases[b].seq < n[2]
      BY <2>2 DEF Missed
    <3>2. b \in 1 .. Len(bases') /\ bases'[b] = bases[b]
      BY <1>3
    <3> QED BY <2>2, <3>1, <3>2 DEF Missed
  <2> QED BY <2>1, <2>2
<1>12. LostAreSkipped'
  <2>1. Skipped' = Skipped
    BY <1>1, <1>2, <1>3, <1>11, SkippedIs
  <2> QED BY <1>1, <2>1 DEF LossInv, LostAreSkipped
<1>13. Len(bases) + 1 \in 1 .. Len(bases')
  BY <1>3
<1> QED BY <1>1, <1>2, <1>3, <1>6, <1>7, <1>8, <1>10, <1>12, <1>13 DEF LossInv

\* What a datagram skips, and that it was not skipped before.
Gap(d) == {link.session} \X (link.lastSeq + 1 .. d.seq - 1)
Ahead(d) == /\ link.session \in 2 .. MaxSession /\ link.lastSeq \in Nat
            /\ d.seq \in 1 .. MaxSeq /\ d.seq > link.lastSeq

LEMMA GapCounts ==
    ASSUME NEW d, Ahead(d)
    PROVE  IsFiniteSet(Gap(d)) /\ Cardinality(Gap(d)) = d.seq - link.lastSeq - 1
<1> DEFINE one == {link.session}
           gap == link.lastSeq + 1 .. d.seq - 1
<1>1. IsFiniteSet(one) /\ Cardinality(one) = 1
  BY FS_Singleton
<1>2. /\ link.lastSeq \in Nat /\ d.seq \in Nat /\ d.seq > link.lastSeq
      /\ link.lastSeq + 1 \in Int /\ d.seq - 1 \in Int
  BY LinkAssumption DEF Ahead
<1>3. /\ IsFiniteSet(gap)
      /\ Cardinality(gap) = IF link.lastSeq + 1 > d.seq - 1 THEN 0
                            ELSE (d.seq - 1) - (link.lastSeq + 1) + 1
  BY <1>2, FS_Interval
<1>4. Cardinality(gap) = d.seq - link.lastSeq - 1
  BY <1>2, <1>3
<1> HIDE DEF one, gap
<1>5. IsFiniteSet(one \X gap) /\ Cardinality(one \X gap) = Cardinality(one) * Cardinality(gap)
  BY <1>1, <1>3, FS_Product
<1>6. d.seq - link.lastSeq - 1 \in Nat
  BY <1>2
<1>7. 1 * (d.seq - link.lastSeq - 1) = d.seq - link.lastSeq - 1
  BY <1>6
<1> QED BY <1>1, <1>4, <1>5, <1>7 DEF Gap, one, gap

LEMMA MissedOnAccept ==
    ASSUME LossInv, LinkTypes, NEW d, Ahead(d), d.session = link.session, NEW as,
           Appends(as, accepted, Id(d)), NEW n \in Pairs
    PROVE  /\ Missed(bases, as, n) <=> Missed(bases, accepted, n) \/ n \in Gap(d)
           /\ ~(Missed(bases, accepted, n) /\ n \in Gap(d))
<1>1. /\ link.session \in Nat /\ link.lastSeq \in Nat /\ d.seq \in Nat /\ d.seq > link.lastSeq
      /\ n[1] \in Nat /\ n[2] \in Nat /\ n = <<n[1], n[2]>>
  BY LinkAssumption DEF Ahead, Pairs
<1>2. /\ IsSeq(as) /\ Len(accepted) \in Nat /\ Len(as) = Len(accepted) + 1
      /\ \A a \in 1 .. Len(accepted) : as[a] = accepted[a]
      /\ as[Len(accepted) + 1] = Id(d)
  BY DEF Appends
<1>3. Id(d) = [session |-> link.session, seq |-> d.seq] /\ Id(d).session = link.session
      /\ Id(d).seq = d.seq
  BY DEF Id
<1>4. /\ \A a \in 1 .. Len(as) : a \in 1 .. Len(accepted) \/ a = Len(accepted) + 1
      /\ \A a \in 1 .. Len(accepted) : a \in 1 .. Len(as)
  BY <1>2
<1>5. n \in Gap(d) <=> n[1] = link.session /\ n[2] > link.lastSeq /\ n[2] < d.seq
  BY <1>1 DEF Gap
\* The numbers of the session that were reached before.
<1>6. \A a \in 1 .. Len(accepted) :
        /\ accepted[a].session \in Nat /\ accepted[a].seq \in Nat
        /\ accepted[a].session = link.session => accepted[a].seq <= link.lastSeq
  <2>1. \A a \in 1 .. Len(accepted) : accepted[a] \in Ids /\ Reached(link, accepted[a])
    BY DEF LossInv
  <2>2. \A a \in 1 .. Len(accepted) : accepted[a].session \in Nat /\ accepted[a].seq \in Nat
    BY <2>1 DEF Ids
  <2> QED BY <1>1, <2>1, <2>2 DEF Reached
<1>7. \A b \in 1 .. Len(bases) :
        /\ bases[b].session \in Nat /\ bases[b].seq \in Nat
        /\ bases[b].session = link.session => bases[b].seq <= link.lastSeq
  <2>1. \A b \in 1 .. Len(bases) : /\ Reached(link, bases[b])
                                   /\ bases[b].session \in 2 .. link.session
                                   /\ bases[b].seq \in 1 .. MaxSeq
    BY DEF LossInv
  <2>2. \A b \in 1 .. Len(bases) : bases[b].session \in Nat /\ bases[b].seq \in Nat
    BY <2>1
  <2> QED BY <1>1, <2>1, <2>2 DEF Reached
<1>8. ASSUME Missed(bases, accepted, n)
      PROVE  Missed(bases, as, n) /\ n \notin Gap(d)
  <2>1. PICK a \in 1 .. Len(accepted) : accepted[a].session = n[1] /\ accepted[a].seq > n[2]
    BY <1>8 DEF Missed
  <2>2. a \in 1 .. Len(as) /\ as[a] = accepted[a]
    BY <1>2, <1>4
  <2>3. n \notin Gap(d)
    BY <1>1, <1>5, <1>6, <2>1
  <2>4. Id(d) # [session |-> n[1], seq |-> n[2]]
    <3>1. n[1] = link.session => n[2] < d.seq
      BY <1>1, <1>6, <2>1
    <3> QED BY <1>1, <1>3, <3>1
  <2>5. \A e \in 1 .. Len(as) : as[e] # [session |-> n[1], seq |-> n[2]]
    BY <1>2, <1>4, <1>8, <2>4 DEF Missed
  <2>6. \E b \in 1 .. Len(bases) : bases[b].session = n[1] /\ bases[b].seq < n[2]
    BY <1>8 DEF Missed
  <2>7. as[a].session = n[1] /\ as[a].seq > n[2]
    BY <2>1, <2>2
  <2> QED BY <2>2, <2>3, <2>5, <2>6, <2>7 DEF Missed
<1>9. ASSUME n \in Gap(d) PROVE Missed(bases, as, n)
  <2>1. n[1] = link.session /\ n[2] > link.lastSeq /\ n[2] < d.seq
    BY <1>5, <1>9
  <2>2. PICK b \in 1 .. Len(bases) : bases[b].session = link.session
    BY <1>1 DEF LossInv, Ahead
  <2>3. bases[b].session = n[1] /\ bases[b].seq < n[2]
    BY <1>1, <1>7, <2>1, <2>2
  <2>4. Len(accepted) + 1 \in 1 .. Len(as)
    BY <1>2
  <2>5. as[Len(accepted) + 1].session = n[1] /\ as[Len(accepted) + 1].seq > n[2]
    BY <1>1, <1>2, <1>3, <2>1
  <2>6. \A e \in 1 .. Len(accepted) : accepted[e] # [session |-> n[1], seq |-> n[2]]
    BY <1>1, <1>6, <2>1
  <2>7. Id(d) # [session |-> n[1], seq |-> n[2]]
    BY <1>1, <1>3, <2>1
  <2>8. \A e \in 1 .. Len(as) : as[e] # [session |-> n[1], seq |-> n[2]]
    BY <1>2, <1>4, <2>6, <2>7
  <2> QED BY <2>3, <2>4, <2>5, <2>8 DEF Missed
\* A number below lastSeq that lastSeq did not skip was not skipped at all.
<1>10. ASSUME Missed(bases, as, n), n \notin Gap(d) PROVE Missed(bases, accepted, n)
  <2>1. PICK b \in 1 .. Len(bases) : bases[b].session = n[1] /\ bases[b].seq < n[2]
    BY <1>10 DEF Missed
  <2>2. \A e \in 1 .. Len(accepted) : accepted[e] # [session |-> n[1], seq |-> n[2]]
    BY <1>2, <1>4, <1>10 DEF Missed
  <2>3. PICK a \in 1 .. Len(as) : as[a].session = n[1] /\ as[a].seq > n[2]
    BY <1>10 DEF Missed
  <2>4. CASE a \in 1 .. Len(accepted)
    <3>1. accepted[a].session = n[1] /\ accepted[a].seq > n[2]
      BY <1>2, <2>3, <2>4
    <3> QED BY <2>1, <2>2, <2>4, <3>1 DEF Missed
  <2>5. CASE a = Len(accepted) + 1
    <3>0. as[a].session = link.session /\ as[a].seq = d.seq
      BY <1>2, <1>3, <2>5
    <3>1. n[1] = link.session /\ n[2] < d.seq /\ n[2] <= link.lastSeq
      BY <1>1, <1>5, <1>10, <2>3, <3>0
    <3>2. ASSUME NEW c \in 1 .. Len(bases), bases[c].session = link.session,
                 bases[c].seq = link.lastSeq
          PROVE  FALSE
      <4>1. bases[b].seq = bases[c].seq
        BY <2>1, <3>1, <3>2 DEF LossInv
      <4> QED BY <1>1, <1>7, <2>1, <3>1, <3>2, <4>1
    <3>3. PICK e \in 1 .. Len(accepted) :
            accepted[e] = [session |-> link.session, seq |-> link.lastSeq]
      BY <1>1, <3>2 DEF LossInv, Ahead
    <3>4. accepted[e].session = n[1] /\ accepted[e].seq = link.lastSeq
      BY <3>1, <3>3
    <3>5. n[2] # link.lastSeq
      BY <2>2, <3>1, <3>3
    <3>6. accepted[e].seq > n[2]
      BY <1>1, <3>1, <3>4, <3>5
    <3> QED BY <2>1, <2>2, <3>4, <3>6 DEF Missed
  <2> QED BY <1>4, <2>4, <2>5
<1> QED BY <1>8, <1>9, <1>10

LEMMA AcceptKeepsLoss ==
    ASSUME LossInv, CoreTypes, LinkTypes, NEW d \in net, AcceptFacts(d)
    PROVE  LossInv'
<1>1. /\ d.session = link.session /\ d.seq > link.lastSeq
      /\ link'.session = link.session /\ link'.lastSeq = d.seq
      /\ link'.rxLost = link.rxLost + (d.seq - link.lastSeq - 1)
      /\ IsAppend(accepted', accepted, Id(d)) /\ bases' = bases
  BY DEF AcceptFacts, IsAppend
<1>2. /\ link.session \in 2 .. MaxSession /\ link.session \in Nat /\ link.lastSeq \in Nat
      /\ link.rxLost \in Nat /\ d.seq \in 1 .. MaxSeq /\ d.seq \in Nat
  <2>1. link.peer # None
    BY LinkAssumption DEF AcceptFacts
  <2>2. link.session >= 2
    BY <2>1 DEF LinkTypes
  <2>3. /\ link \in Links /\ d.seq \in 1 .. MaxSeq /\ link.session \in Nat
        /\ link.lastSeq \in Nat
    BY DatagramTypes
  <2>4. link.session \in 1 .. MaxSession /\ link.rxLost \in Nat
    BY <2>3 DEF Links
  <2> QED BY <2>2, <2>3, <2>4
<1>3. Appends(accepted', accepted, Id(d)) /\ IsSeq(accepted) /\ IsSeq(bases)
  BY <1>1, Appended DEF LossInv
<1>4. /\ IsSeq(accepted') /\ Len(accepted) \in Nat /\ Len(accepted') = Len(accepted) + 1
      /\ \A a \in 1 .. Len(accepted) : accepted'[a] = accepted[a]
      /\ accepted'[Len(accepted) + 1] = Id(d)
  BY <1>3 DEF Appends
<1>5. Ahead(d)
  BY <1>1, <1>2 DEF Ahead
<1>6. /\ Id(d) = [session |-> link.session, seq |-> d.seq] /\ Id(d) \in Ids
      /\ Id(d).session = link.session /\ Id(d).seq = d.seq
  BY <1>1, <1>2 DEF Id, Ids
<1>7. Onward
  BY <1>1, <1>2 DEF Onward
<1>8. \A b \in 1 .. Len(bases) : Reached(link', bases[b])
  <2> SUFFICES ASSUME NEW b \in 1 .. Len(bases) PROVE Reached(link', bases[b])
    OBVIOUS
  <2>1. /\ bases[b].session \in 2 .. link.session /\ bases[b].seq \in 1 .. MaxSeq
        /\ Reached(link, bases[b])
    BY DEF LossInv
  <2>2. bases[b].session \in Nat /\ bases[b].seq \in Nat
    BY <2>1
  <2> QED BY <1>7, <2>1, <2>2, ReachedStays
<1>9. \A a \in 1 .. Len(accepted') : /\ accepted'[a] \in Ids /\ Reached(link', accepted'[a])
                                     /\ accepted'[a].session >= 2
  <2> SUFFICES ASSUME NEW a \in 1 .. Len(accepted')
               PROVE  /\ accepted'[a] \in Ids /\ Reached(link', accepted'[a])
                      /\ accepted'[a].session >= 2
    OBVIOUS
  <2>1. CASE a = Len(accepted) + 1
    <3>1. accepted'[a] = Id(d)
      BY <1>4, <2>1
    <3>2. Reached(link', Id(d))
      BY <1>1, <1>2, <1>6 DEF Reached
    <3> QED BY <1>2, <1>6, <3>1, <3>2
  <2>2. CASE a # Len(accepted) + 1
    <3>1. a \in 1 .. Len(accepted) /\ accepted'[a] = accepted[a]
      BY <1>4, <2>2
    <3>2. /\ accepted[a] \in Ids /\ Reached(link, accepted[a]) /\ accepted[a].session >= 2
      BY <3>1 DEF LossInv
    <3>3. accepted[a].session \in Nat /\ accepted[a].seq \in Nat
      BY <3>2 DEF Ids
    <3>4. Reached(link', accepted[a])
      BY <1>7, <3>2, <3>3, ReachedStays
    <3> QED BY <3>1, <3>2, <3>4
  <2> QED BY <2>1, <2>2
<1>10. /\ Skipped' = Skipped \cup Gap(d) /\ Skipped \cap Gap(d) = {}
       /\ Skipped \subseteq Pairs
  <2>1. /\ Skipped = {n \in Pairs : Missed(bases, accepted, n)}
        /\ Skipped' = {n \in Pairs : Missed(bases, accepted', n)}
    BY <1>1, <1>3, <1>4, SkippedIs
  <2>2. \A n \in Pairs :
          /\ Missed(bases, accepted', n) <=> Missed(bases, accepted, n) \/ n \in Gap(d)
          /\ ~(Missed(bases, accepted, n) /\ n \in Gap(d))
    BY <1>1, <1>3, <1>5, MissedOnAccept
  <2>3. Gap(d) \subseteq Pairs
    <3> SUFFICES ASSUME NEW n \in Gap(d) PROVE n \in Pairs
      OBVIOUS
    <3>1. n = <<n[1], n[2]>> /\ n[1] = link.session /\ n[2] \in link.lastSeq + 1 .. d.seq - 1
      BY DEF Gap
    <3>2. n[2] \in 1 .. MaxSeq
      BY <1>2, <3>1, LinkAssumption
    <3> QED BY <1>2, <3>1, <3>2 DEF Pairs
  <2> QED BY <2>1, <2>2, <2>3
<1>11. LostAreSkipped'
  <2>1. IsFiniteSet(Skipped)
    BY <1>10, PairsFinite, FS_Subset
  <2>2. /\ IsFiniteSet(Gap(d)) /\ Cardinality(Gap(d)) = d.seq - link.lastSeq - 1
    BY <1>5, GapCounts
  <2>3. Cardinality(Skipped \cup Gap(d))
          = Cardinality(Skipped) + Cardinality(Gap(d)) - Cardinality(Skipped \cap Gap(d))
    BY <2>1, <2>2, FS_Union
  <2>4. Cardinality(Skipped \cap Gap(d)) = 0
    BY <1>10, FS_EmptySet
  <2>5. link.rxLost = Cardinality(Skipped)
    BY DEF LossInv, LostAreSkipped
  <2>6. link'.rxLost = Cardinality(Skipped')
    BY <1>1, <1>2, <1>10, <2>2, <2>3, <2>4, <2>5
  <2> QED BY <2>6 DEF LostAreSkipped
<1>12. Len(accepted) + 1 \in 1 .. Len(accepted')
  BY <1>4
<1>13. \E a \in 1 .. Len(accepted') :
         accepted'[a] = [session |-> link'.session, seq |-> link'.lastSeq]
  BY <1>1, <1>4, <1>6, <1>12
<1>14. \E b \in 1 .. Len(bases') : bases'[b].session = link'.session
  BY <1>1, <1>2 DEF LossInv
<1>15. /\ IsSeq(bases')
       /\ \A b \in 1 .. Len(bases') :
            bases'[b].session \in 2 .. link'.session /\ bases'[b].seq \in 1 .. MaxSeq
       /\ \A b, c \in 1 .. Len(bases') :
            bases'[b].session = bases'[c].session => bases'[b].seq = bases'[c].seq
       /\ \A b \in 1 .. Len(bases') : Reached(link', bases'[b])
  BY <1>1, <1>8 DEF LossInv
<1> QED BY <1>4, <1>9, <1>11, <1>13, <1>14, <1>15 DEF LossInv

-----------------------------------------------------------------------------
(***************************************************************************)
(* The invariant holds at the start and every step keeps it.               *)
(***************************************************************************)
LEMMA InitHolds == ASSUME Init PROVE HilInv
<1>1. /\ core = NewCore(1) /\ log = << >> /\ logError = FALSE /\ hash = << >>
      /\ pendingCmd = None /\ pendingBeat = FALSE /\ lastObsTick = None
      /\ stats = [commands |-> 0, superseded |-> 0, deadlineMiss |-> 0]
      /\ now = 0 /\ ended = FALSE /\ lastBeat = 0 /\ given = << >>
      /\ link = [session |-> 1, peer |-> None, lastSeq |-> 0, rxLost |-> 0]
      /\ net = {} /\ acks = {} /\ ctlSeq = [c \in Controllers |-> 0]
      /\ accepted = << >> /\ bases = << >>
  BY DEF Init, CoreInit
<1>2. core \in Cores(CommandRows, Poses) /\ InStep(core)
  BY <1>1, NewCoreInStep
<1>3. core.seq = 0 /\ core.chunk.rows = << >> /\ core.plane.beat = 0
  BY <1>1 DEF NewCore, NewPlane
<1>4. IsSeq(<< >>) /\ Len(<< >>) = 0
  BY EmptyIsSeq
<1>5. CoreTypes
  <2>1. now \in 0 .. MaxTick /\ lastBeat \in 0 .. now /\ lastObsTick \in 0 .. now \cup {None}
    BY <1>1, DriverAssumption
  <2>2. logError \in BOOLEAN /\ ended \in BOOLEAN /\ pendingBeat \in BOOLEAN
    BY <1>1, Zenon
  <2>3. /\ stats \in [commands : Nat, superseded : Nat, deadlineMiss : Nat]
        /\ core.seq = stats.commands
    BY <1>1, <1>3
  <2>4. IsSeq(log) /\ IsSeq(hash) /\ IsSeq(given) /\ Len(hash) = now
    BY <1>1, <1>4
  <2> QED BY <1>2, <2>1, <2>2, <2>3, <2>4 DEF CoreTypes
<1>6. PendingTypes
  BY <1>1 DEF PendingTypes
<1>7. LinkTypes
  <2>1. 0 \in 0 .. MaxSeq /\ 1 \in 1 .. MaxSession /\ None \in Controllers \cup {None}
    BY LinkAssumption
  <2>2. link \in [session : 1 .. MaxSession, peer : Controllers \cup {None},
                  lastSeq : 0 .. MaxSeq, rxLost : Nat]
    BY <1>1, <2>1
  <2>3. ctlSeq \in [Controllers -> 0 .. MaxSeq]
    BY <1>1, <2>1
  <2>4. link.peer = None
    BY <1>1
  <2> QED BY <1>1, <2>2, <2>3, <2>4 DEF LinkTypes
<1>8. DateInv
  <2>1. DOMAIN hash = {}
    BY <1>1
  <2>2. RunsInDate
    BY <2>1 DEF RunsInDate
  <2>3. \A i \in 1 .. Len(core.chunk.rows) : core.chunk.rows[i].obs = lastObsTick
    BY <1>3, <1>4
  <2> QED BY <1>1, <1>3, <2>2, <2>3 DEF DateInv
<1>9. ReplayInv
  <2>1. IsSeq(log) /\ Len(log) = 0
    BY <1>1, <1>4
  <2>2. ReplayStates(log)[0] = ReplayStart
    BY <2>1, ReplayUnfolds
  <2>3. ReplayStart = Agreed(core, None, hash)
    BY <1>1 DEF ReplayStart, Agreed
  <2>4. LogAgrees
    <3>1. ReplayStart.live = ReplayStart.replayed
      BY DEF ReplayStart
    <3>2. \A n \in 0 .. Len(log) : n = 0
      BY <2>1
    <3> QED BY <2>2, <3>1, <3>2 DEF LogAgrees
  <2>5. LogReplays
    BY <2>1, <2>2, <2>3 DEF LogReplays
  <2>6. TrailerEnds
    BY <2>1 DEF TrailerEnds
  <2>7. LogCounts
    <3>1. ObservedRecords = {}
      BY <1>1 DEF ObservedRecords
    <3> QED BY <1>1, <3>1, FS_EmptySet DEF LogCounts
  <2> QED BY <2>4, <2>5, <2>6, <2>7 DEF ReplayInv
<1>10. StreamInv
  BY <1>1, <1>4 DEF StreamInv
<1>11. LossInv
  <2>1. Skipped = {}
    BY <1>1 DEF Skipped
  <2>2. LostAreSkipped
    BY <1>1, <2>1, FS_EmptySet DEF LostAreSkipped
  <2>3. IsSeq(bases) /\ IsSeq(accepted) /\ Len(bases) = 0 /\ Len(accepted) = 0
        /\ link.session = 1
    BY <1>1, <1>4
  <2> QED BY <2>2, <2>3 DEF LossInv
<1> QED BY <1>5, <1>6, <1>7, <1>8, <1>9, <1>10, <1>11 DEF HilInv

LEMMA StepKeeps == ASSUME HilInv, [Next]_vars PROVE HilInv'
<1> USE DEF HilInv
<1>0. CoreInv
  BY DEF CoreInv
<1>1. ASSUME NEW c \in Controllers, SendHello(c) \/ SendInSession(c) PROVE HilInv'
  <2>1. PICK kind : \E session \in 0 .. link.session : \E obs \in 0 .. now :
          SendFacts(c, kind, session, obs)
    BY <1>1, SendIs
  <2>2. PICK session \in 0 .. link.session, obs \in 0 .. now :
          SendFacts(c, kind, session, obs)
    BY <2>1
  <2>3. UNCHANGED coreVars /\ UNCHANGED <<link, bases, accepted>>
    BY <2>2 DEF SendFacts
  <2>4. CoreInv'
    BY <1>0, <2>3, CoreUntouched
  <2>5. LinkTypes'
    BY <2>2, SendKeepsLink
  <2>6. StreamInv'
    BY <2>2, SendKeepsStream
  <2>7. LossInv'
    BY <2>3, LossKept
  <2> QED BY <2>4, <2>5, <2>6, <2>7 DEF CoreInv
<1>2. ASSUME NEW d \in net, Hello(d) PROVE HilInv'
  <2>1. HelloFacts(d)
    BY <1>2, HelloIs
  <2>2. UNCHANGED coreVars
    BY <2>1 DEF HelloFacts
  <2>3. CoreInv'
    BY <1>0, <2>2, CoreUntouched
  <2>4. LinkTypes'
    BY <2>1, HelloKeepsLink
  <2>5. StreamInv'
    BY <2>1, <2>4, HelloKeepsStream
  <2>6. LossInv'
    BY <2>1, HelloKeepsLoss
  <2> QED BY <2>3, <2>4, <2>5, <2>6 DEF CoreInv
<1>3. ASSUME NEW d \in net, AcceptDatagram(d) PROVE HilInv'
  <2>1. AcceptFacts(d)
    BY <1>3, AcceptIs
  <2>2. CoreInv'
    <3>1. CASE d.kind = "Command" /\ OnCommand(CommandIn(d))
      BY <1>0, <3>1, CommandIsGood, CommandKeepsCore
    <3>2. CASE OnHeartbeat
      BY <1>0, <3>2, HeartbeatKeepsCore
    <3>3. CASE UNCHANGED coreVars
      BY <1>0, <3>3, CoreUntouched
    <3> QED BY <2>1, <3>1, <3>2, <3>3 DEF AcceptFacts
  <2>3. LinkTypes'
    BY <2>1, AcceptKeepsLink
  <2>4. StreamInv'
    BY <2>1, <2>3, AcceptKeepsStream
  <2>5. LossInv'
    BY <2>1, AcceptKeepsLoss
  <2> QED BY <2>2, <2>3, <2>4, <2>5 DEF CoreInv
<1>4. ASSUME NEW pose \in Poses, LinkTick(pose) PROVE HilInv'
  <2>1. Tick(pose) /\ UNCHANGED linkVars /\ UNCHANGED <<link, bases, accepted>>
    BY <1>4 DEF LinkTick, linkVars
  <2>2. now' = now + 1
    BY <2>1, TickIs
  <2>3. CoreInv'
    BY <1>0, <2>1, TickKeepsCore
  <2>4. LinkTypes'
    BY <2>1, <2>2, ClockKeepsLink
  <2>5. StreamInv'
    BY <2>1, TickKeepsStream
  <2>6. LossInv'
    BY <2>1, LossKept
  <2> QED BY <2>3, <2>4, <2>5, <2>6 DEF CoreInv
<1>5. ASSUME LinkFinish PROVE HilInv'
  <2>1. Finish /\ UNCHANGED linkVars /\ UNCHANGED <<link, net, bases, accepted>>
    BY <1>5 DEF LinkFinish, linkVars
  <2>2. UNCHANGED <<now, given, pendingCmd>>
    BY <2>1 DEF Finish
  <2>3. CoreInv'
    BY <1>0, <2>1, FinishKeepsCore
  <2>4. LinkTypes'
    BY <2>1, <2>2, ClockKeepsLink
  <2>5. StreamInv'
    BY <2>1, <2>2 DEF StreamInv, Sent
  <2>6. LossInv'
    BY <2>1, LossKept
  <2> QED BY <2>3, <2>4, <2>5, <2>6 DEF CoreInv
<1>6. ASSUME UNCHANGED vars PROVE HilInv'
  <2>1. UNCHANGED coreVars /\ UNCHANGED linkVars /\ UNCHANGED <<link, net, bases, accepted>>
    BY <1>6 DEF vars, linkVars
  <2>2. UNCHANGED <<now, given, pendingCmd>>
    BY <2>1 DEF coreVars
  <2>3. CoreInv'
    BY <1>0, <2>1, CoreUntouched
  <2>4. LinkTypes'
    BY <2>1, <2>2, ClockKeepsLink
  <2>5. StreamInv'
    BY <2>1, <2>2 DEF StreamInv, Sent
  <2>6. LossInv'
    BY <2>1, LossKept
  <2> QED BY <2>3, <2>4, <2>5, <2>6 DEF CoreInv
<1> QED BY <1>1, <1>2, <1>3, <1>4, <1>5, <1>6 DEF Next, Receive

LEMMA AlwaysHilInv == Spec => []HilInv
<1>1. Init => HilInv
  BY InitHolds
<1>2. HilInv /\ [Next]_vars => HilInv'
  BY StepKeeps
<1> QED BY <1>1, <1>2, PTL DEF Spec

-----------------------------------------------------------------------------
(***************************************************************************)
(* What follows from the invariant.                                        *)
(***************************************************************************)
LEMMA TypesFollow == ASSUME HilInv PROVE TypeOK
<1>1. /\ link \in [session : 1 .. MaxSession, peer : Controllers \cup {None},
                   lastSeq : 0 .. MaxSeq, rxLost : Nat]
      /\ \A d \in net : d.session \in 0 .. link.session /\ d.seq \in 1 .. ctlSeq[d.from]
      /\ \A ack \in acks : ack.session \in 2 .. link.session
      /\ ctlSeq \in [Controllers -> 0 .. MaxSeq]
  BY DEF HilInv, LinkTypes
<1>2. /\ core.plane.held.seq \in NoSeq .. core.seq
      /\ core.seq = stats.commands /\ Len(hash) = now
      /\ lastObsTick \in 0 .. now \cup {None}
  BY DEF HilInv, CoreTypes, InStep
<1>3. logError \in BOOLEAN /\ ended \in BOOLEAN /\ pendingBeat \in BOOLEAN
  BY Zenon DEF HilInv, CoreTypes
<1> QED BY <1>1, <1>2, <1>3 DEF TypeOK

\* The end of the replay of a log that records agree on.
LEMMA ReplayOfLog ==
    ASSUME NEW l
    PROVE  /\ Replay(l).core = ReplayStates(l)[Len(l)].core
           /\ Replay(l).steps = Len(ReplayStates(l)[Len(l)].live)
           /\ Replay(l).identical <=>
                /\ ReplayStates(l)[Len(l)].live = ReplayStates(l)[Len(l)].replayed
                /\ Len(ReplayStates(l)[Len(l)].live) > 0
           /\ Replay(l).truncated <=> ~(l # << >> /\ l[Len(l)].tag = "Trailer")
BY DEF Replay

LEMMA ReplayFollows == ASSUME HilInv PROVE ReplaysIdentically
<1> SUFFICES ASSUME NEW prefix \in Prefixes
             PROVE  /\ Replay(prefix).identical = (Replay(prefix).steps > 0)
                    /\ ~logError /\ prefix = log => Replay(prefix).core = core
  BY DEF ReplaysIdentically
<1>1. IsSeq(log) /\ Len(log) \in Nat
  BY DEF HilInv, CoreTypes, IsSeq
<1>2. PICK n \in 0 .. Len(log) : prefix = SubSeq(log, 1, n)
  BY DEF Prefixes
<1>3. IsSeq(prefix) /\ Len(prefix) = n /\ \A i \in 1 .. n : prefix[i] = log[i]
  BY <1>1, <1>2, FirstOf
<1>4. SameRecords(prefix, log, n)
  BY <1>1, <1>3 DEF SameRecords
<1>5. SameReplay(prefix, log, n)
  BY <1>1, <1>3, <1>4, ReplayOfPrefix
<1>6. ReplayStates(prefix)[Len(prefix)] = ReplayStates(log)[n]
  BY <1>1, <1>3, <1>5 DEF SameReplay
<1>7. ReplayStates(log)[n].live = ReplayStates(log)[n].replayed
  BY DEF HilInv, ReplayInv, LogAgrees
<1> DEFINE end == ReplayStates(prefix)[Len(prefix)]
<1>8. /\ Replay(prefix).identical = (end.live = end.replayed /\ Len(end.live) > 0)
      /\ Replay(prefix).steps = Len(end.live)
  BY DEF Replay
<1>9. end.live = end.replayed
  BY <1>6, <1>7
<1>10. ASSUME ~logError, prefix = log PROVE Replay(prefix).core = core
  <2>1. ReplayStates(log)[Len(log)] = Agreed(core, None, hash)
    BY <1>10 DEF HilInv, ReplayInv, LogReplays
  <2>2. ReplayStates(log)[Len(log)].core = core
    BY <2>1 DEF Agreed
  <2> QED BY <1>10, <2>2, ReplayOfLog
<1> HIDE DEF end
<1>11. Replay(prefix).identical = (Replay(prefix).steps > 0)
  BY <1>8, <1>9
<1> QED BY <1>10, <1>11

LEMMA WholeFollows == ASSUME HilInv PROVE VerifiedIsWhole
<1> SUFFICES ASSUME IsVerified(Replay(log))
             PROVE  /\ ended /\ Replay(log).steps = now
                    /\ Cardinality(ObservedRecords) = now
  BY DEF VerifiedIsWhole
<1>1. IsSeq(log) /\ Len(log) \in Nat /\ Len(hash) = now
  BY DEF HilInv, CoreTypes, IsSeq
<1>2. log # << >> /\ log[Len(log)].tag = "Trailer"
  BY ReplayOfLog DEF IsVerified
<1>3. Len(log) # 0
  <2>1. ASSUME Len(log) = 0 PROVE FALSE
    <3>1. log = [i \in 1 .. 0 |-> log[i]]
      BY <1>1, <2>1 DEF IsSeq
    <3>2. log \in Seq({})
      BY <3>1
    <3> QED BY <1>2, <2>1, <3>2
  <2> QED BY <2>1
<1>4. Len(log) \in 1 .. Len(log)
  BY <1>1, <1>3
<1>5. ended /\ ~logError
  BY <1>2, <1>4 DEF HilInv, ReplayInv, TrailerEnds
<1>6. ReplayStates(log)[Len(log)] = Agreed(core, None, hash)
  BY <1>5 DEF HilInv, ReplayInv, LogReplays
<1>7. ReplayStates(log)[Len(log)].live = hash
  BY <1>6 DEF Agreed
<1>8. Replay(log).steps = now
  BY <1>1, <1>7, ReplayOfLog
<1>9. Cardinality(ObservedRecords) = now
  BY <1>5 DEF HilInv, ReplayInv, LogCounts
<1> QED BY <1>5, <1>8, <1>9

\* A step of the link is one of the stream: a send adds an identity, a tick
\* executes the pending one, and nothing else changes either.
LEMMA StepRefines ==
    ASSUME HilInv, [Next]_vars
    PROVE  [Stream!Next]_<<Sent, given>>
<1>1. ASSUME NEW c \in Controllers, SendHello(c) \/ SendInSession(c)
      PROVE  [Stream!Next]_<<Sent, given>>
  <2>1. PICK kind : \E session \in 0 .. link.session : \E obs \in 0 .. now :
          SendFacts(c, kind, session, obs)
    BY <1>1, SendIs DEF HilInv
  <2>2. PICK session \in 0 .. link.session, obs \in 0 .. now :
          SendFacts(c, kind, session, obs)
    BY <2>1
  <2> DEFINE d == [from |-> c, kind |-> kind, session |-> session,
                   seq |-> ctlSeq[c] + 1, obs |-> obs]
  <2>3. net' = net \cup {d} /\ given' = given
    BY <2>2 DEF SendFacts, coreVars
  <2>4. d.kind = kind
    OBVIOUS
  <2> HIDE DEF d
  <2>5. CASE kind = "Command"
    <3>1. Sent' = Sent \cup {Id(d)} /\ Id(d) \in Sent'
      BY <2>3, <2>4, <2>5 DEF Sent
    <3>2. Stream!Send(Id(d))
      BY <2>3, <3>1 DEF Stream!Send
    <3> QED BY <3>1, <3>2 DEF Stream!Next
  <2>6. CASE kind # "Command"
    <3>1. Sent' = Sent
      BY <2>3, <2>4, <2>6 DEF Sent
    <3> QED BY <2>3, <3>1
  <2> QED BY <2>5, <2>6
<1>2. ASSUME NEW d \in net, Hello(d) \/ AcceptDatagram(d)
      PROVE  [Stream!Next]_<<Sent, given>>
  <2>1. net' = net
    BY <1>2 DEF Hello, AcceptDatagram
  <2>2. given' = given
    BY <1>2, HelloIs, AcceptIs, AcceptKeepsLink DEF HilInv, HelloFacts, coreVars
  <2> QED BY <2>1, <2>2 DEF Sent
<1>3. ASSUME NEW pose \in Poses, LinkTick(pose)
      PROVE  [Stream!Next]_<<Sent, given>>
  <2>1. Tick(pose) /\ net' = net
    BY <1>3 DEF LinkTick
  <2>2. Sent' = Sent
    BY <2>1 DEF Sent
  <2>3. CASE pendingCmd = None
    <3>1. given' = given
      BY <2>1, <2>3, TickIs
    <3> QED BY <2>2, <3>1
  <2>4. CASE pendingCmd # None
    <3>1. given' = Append(given, pendingCmd.id)
      BY <2>1, <2>4, TickIs
    <3>2. DOMAIN given = 1 .. Len(given)
      BY DEF HilInv, CoreTypes, IsSeq
    <3>3. /\ pendingCmd.id \in Sent
          /\ \A i \in 1 .. Len(given) : Stream!Before(given[i], pendingCmd.id)
      BY <2>4 DEF HilInv, StreamInv
    <3>4. Stream!Execute(pendingCmd.id)
      BY <2>2, <3>1, <3>2, <3>3 DEF Stream!Execute
    <3> QED BY <3>3, <3>4 DEF Stream!Next
  <2> QED BY <2>3, <2>4
<1>4. ASSUME LinkFinish PROVE [Stream!Next]_<<Sent, given>>
  <2>1. net' = net /\ given' = given
    BY <1>4 DEF LinkFinish, linkVars, Finish
  <2> QED BY <2>1 DEF Sent
<1>5. ASSUME UNCHANGED vars PROVE [Stream!Next]_<<Sent, given>>
  <2>1. net' = net /\ given' = given
    BY <1>5 DEF vars, linkVars, coreVars
  <2> QED BY <2>1 DEF Sent
<1> QED BY <1>1, <1>2, <1>3, <1>4, <1>5 DEF Next, Receive

-----------------------------------------------------------------------------
\* The state of the link, the core and the controllers is always of its type, and
\* the core has numbered exactly the commands it was given.
THEOREM HilTypeCorrect == Spec => []TypeOK
<1>1. HilInv => TypeOK
  BY TypesFollow
<1> QED BY <1>1, AlwaysHilInv, PTL

\* However far the sink wrote, and wherever the run died, every prefix of the log
\* replays to the decisions it claims, and a whole one to the core itself.
THEOREM AlwaysReplaysIdentically == Spec => []ReplaysIdentically
<1>1. HilInv => ReplaysIdentically
  BY ReplayFollows
<1> QED BY <1>1, AlwaysHilInv, PTL

\* A log that replay calls verified is the log of a whole, finished run: none of
\* its ticks or decisions is missing.
THEOREM AlwaysVerifiedIsWhole == Spec => []VerifiedIsWhole
<1>1. HilInv => VerifiedIsWhole
  BY WholeFollows
<1> QED BY <1>1, AlwaysHilInv, PTL

\* A command runs only while the observation it answers and the last heartbeat
\* the link heard are in date.
THEOREM AlwaysRunsInDate == Spec => []RunsInDate
<1>1. HilInv => RunsInDate
  BY DEF HilInv, DateInv
<1> QED BY <1>1, AlwaysHilInv, PTL

\* rx_lost counts the numbers each session skipped, once each, under any loss,
\* duplication and reordering.
THEOREM AlwaysLostAreSkipped == Spec => []LostAreSkipped
<1>1. HilInv => LostAreSkipped
  BY DEF HilInv, LossInv
<1> QED BY <1>1, AlwaysHilInv, PTL

\* The link implements the command stream: the core is given only commands a
\* controller sent, each at most once, in the order of their sessions and numbers.
THEOREM LinkImplementsStream == Spec => CommandStreamSpec
<1>1. Init => Stream!Init
  <2>1. ASSUME Init PROVE net = {} /\ given = << >>
    BY <2>1 DEF Init, CoreInit
  <2> QED BY <2>1 DEF Stream!Init, Sent
<1>2. HilInv /\ [Next]_vars => [Stream!Next]_<<Sent, given>>
  BY StepRefines
<1> QED BY <1>1, <1>2, AlwaysHilInv, PTL DEF Spec, CommandStreamSpec, Stream!Spec
=============================================================================
