------------------------ MODULE TelemetryServerProofs ------------------------
(***************************************************************************)
(* The telemetry server for any number of clients, slots, queue places,    *)
(* publishing threads and frames.                                          *)
(*                                                                         *)
(* The slots rest on what the accept loop may still believe: between its   *)
(* two reads no connection enters a handshake, so the counter it holds     *)
(* bounds the connections that are in one.  The order of the frames rests  *)
(* on the map's lock: the thread that holds it has the newest frame, and   *)
(* the clients it has yet to serve have only older ones.                   *)
(***************************************************************************)
EXTENDS TelemetryServer, FiniteSetTheorems, NaturalsInduction, TLAPS

Stages == Admitted \cup {"none", "refused", "joining", "closed"}
In(stages) == {c \in Connections : stage[c] \in stages}

InMap == {"registered", "guarded", "serving"}
InHandshake == {"handshake", "acknowledged"}

\* The accept loop holds one connection at a time, which nobody serves yet.
Arrivals ==
    /\ arrived \in 0 .. MaxConnections
    /\ stage \in [Connections -> Stages]
    /\ counted \in Nat \cup {None}
    /\ counted # None => arrived \in Connections /\ stage[arrived] = "none"
    /\ \A c \in Connections : c > arrived => stage[c] = "none"

\* The counter and the map are what serve_client has made of them.
Registered ==
    /\ handshaking = Cardinality(In(Guarding))
    /\ clients = In(InMap)

\* What the accept loop read still bounds the handshakes in progress.
ReadBounds == counted # None => Cardinality(In(InHandshake)) <= counted

SlotInv == Arrivals /\ Registered /\ ReadBounds /\ SlotsWithinCap

-----------------------------------------------------------------------------
Ids == Nat
Frames == [id : Ids, stream : Streams, todo : SUBSET Connections]

\* Only the thread that holds the map's lock fans a frame out, and its frame is
\* the newest.
LockInv ==
    /\ lock \in Publishers \cup {None}
    /\ published \in Nat
    /\ publishing \in [Publishers -> Frames \cup {None}]
    /\ \A p \in Publishers : publishing[p] # None =>
         /\ lock = p
         /\ publishing[p].id = published
         /\ publishing[p].todo \subseteq clients

-----------------------------------------------------------------------------
\* A client that the frame being published has yet to reach.
Pending(c) == \E p \in Publishers : publishing[p] # None /\ c \in publishing[p].todo

\* The id a frame of c may have at most.
Newest(c) == IF Pending(c) THEN published - 1 ELSE published

Writers == {"none", "running", "broken", "done"}
LaneTypes ==
    /\ queue \in [Connections -> Seq(Ids)]
    /\ hand \in [Connections -> Ids \cup {None}]
    /\ delivered \in [Connections -> Seq(Ids)]
    /\ writer \in [Connections -> Writers]
    /\ sent \in [Connections -> Nat]
    /\ \A c \in Connections : Len(queue[c]) <= QueueCapacity

Increasing(s) == \A i, j \in 1 .. Len(s) : i < j => s[i] < s[j]

\* Delivered, in hand and queued, c's frames are in the order of their ids.
LaneOrdered(c) ==
    /\ Increasing(delivered[c]) /\ Increasing(queue[c])
    /\ \A i \in 1 .. Len(delivered[c]), j \in 1 .. Len(queue[c]) :
         delivered[c][i] < queue[c][j]
    /\ hand[c] # None => /\ \A i \in 1 .. Len(delivered[c]) : delivered[c][i] < hand[c]
                         /\ \A j \in 1 .. Len(queue[c]) : hand[c] < queue[c][j]

\* None of them is newer than the last frame published to c.
LaneInDate(c) ==
    /\ \A i \in 1 .. Len(delivered[c]) : delivered[c][i] <= Newest(c)
    /\ \A j \in 1 .. Len(queue[c]) : queue[c][j] <= Newest(c)
    /\ hand[c] # None => hand[c] <= Newest(c)

\* The writer's life within its client's, and what is left of it at its end.
WriterStage(c) ==
    /\ stage[c] \notin {"serving", "joining", "closed"} => writer[c] = "none"
    /\ stage[c] \in {"serving", "joining"} => writer[c] # "none"
    /\ writer[c] = "done" => stage[c] \in {"joining", "closed"}
    /\ writer[c] = "running" => stage[c] # "closed"
    /\ writer[c] = "done" => queue[c] = << >> /\ hand[c] = None

\* What was counted as sent was delivered, or is on its way.
Accounted(c) ==
    writer[c] # "broken" =>
      /\ hand[c] = None => sent[c] = Len(delivered[c]) + Len(queue[c])
      /\ hand[c] # None => sent[c] = Len(delivered[c]) + Len(queue[c]) + 1

Lane(c) == LaneOrdered(c) /\ LaneInDate(c) /\ WriterStage(c) /\ Accounted(c)

LaneInv == LaneTypes /\ \A c \in Connections : Lane(c)

ServerInv == SlotInv /\ LockInv /\ LaneInv

-----------------------------------------------------------------------------
(***************************************************************************)
(* Slots.                                                                  *)
(***************************************************************************)
\* The connections in any set of stages are finitely many.
LEMMA InFinite ==
    ASSUME NEW stages
    PROVE  /\ IsFiniteSet(In(stages)) /\ Cardinality(In(stages)) \in Nat
           /\ \A part \in SUBSET In(stages) :
                IsFiniteSet(part) /\ Cardinality(part) <= Cardinality(In(stages))
<1>1. IsFiniteSet(Connections)
  BY ServerAssumption, FS_Interval DEF Connections
<1>2. In(stages) \in SUBSET Connections
  BY DEF In
<1>3. IsFiniteSet(In(stages))
  BY <1>1, <1>2, FS_Subset
<1> QED BY <1>3, FS_CardinalityType, FS_Subset

\* A connection that moves is in the sets of stages it moves to, and in no other.
LEMMA Moved ==
    ASSUME stage \in [Connections -> Stages], NEW c \in Connections, NEW to \in Stages,
           stage' = [stage EXCEPT ![c] = to], NEW stages
    PROVE  In(stages)' = IF to \in stages THEN In(stages) \cup {c} ELSE In(stages) \ {c}
BY DEF In

\* How many there are in a set of stages once one has moved.
LEMMA MovedCount ==
    ASSUME stage \in [Connections -> Stages], NEW c \in Connections, NEW to \in Stages,
           stage' = [stage EXCEPT ![c] = to], NEW stages
    PROVE  Cardinality(In(stages)') =
             Cardinality(In(stages)) + (IF to \in stages THEN 1 ELSE 0)
                                     - (IF stage[c] \in stages THEN 1 ELSE 0)
<1>1. c \in In(stages) <=> stage[c] \in stages
  BY DEF In
<1>2. CASE to \in stages
  <2>1. In(stages)' = In(stages) \cup {c}
    BY <1>2, Moved
  <2> QED BY <1>1, <1>2, <2>1, InFinite, FS_AddElement
<1>3. CASE to \notin stages
  <2>1. In(stages)' = In(stages) \ {c}
    BY <1>3, Moved
  <2> QED BY <1>1, <1>3, <2>1, InFinite, FS_RemoveElement
<1> QED BY <1>2, <1>3

LEMMA SlotsInit == Init => SlotInv
<1> SUFFICES ASSUME Init PROVE SlotInv
  OBVIOUS
<1>1. Arrivals
  BY ServerAssumption DEF Init, Arrivals, Stages
<1>2. In(Guarding) = {} /\ In(InMap) = {} /\ In(Admitted) = {}
  BY DEF Init, In, Guarding, InMap, Admitted
<1>3. Registered
  BY <1>2, FS_EmptySet DEF Init, Registered
<1>4. ReadBounds
  BY DEF Init, ReadBounds
<1>5. SlotsWithinCap
  BY <1>2, FS_EmptySet, ServerAssumption DEF SlotsWithinCap, In
<1> QED BY <1>1, <1>3, <1>4, <1>5 DEF SlotInv

\* One connection moves on, giving back what the counter and the map hold for it.
LEMMA Served ==
    ASSUME SlotInv, UNCHANGED accepting,
           NEW c \in Connections, NEW to \in Stages \ {"none"}, stage[c] # "none",
           stage' = [stage EXCEPT ![c] = to],
           to \in Admitted => stage[c] \in Admitted,
           to \in Guarding => stage[c] \in Guarding,
           to \in InHandshake => stage[c] \in InHandshake,
           handshaking' = handshaking - (IF stage[c] \in Guarding /\ to \notin Guarding
                                           THEN 1 ELSE 0),
           clients' = IF to \in InMap THEN clients \cup {c} ELSE clients \ {c}
    PROVE  SlotInv'
<1>1. stage \in [Connections -> Stages] /\ to \in Stages
  BY DEF SlotInv, Arrivals
<1>2. Arrivals'
  BY <1>1 DEF SlotInv, Arrivals, accepting
<1>3. \A stages : Cardinality(In(stages)') =
                    Cardinality(In(stages)) + (IF to \in stages THEN 1 ELSE 0)
                                            - (IF stage[c] \in stages THEN 1 ELSE 0)
  BY <1>1, MovedCount
<1>4. \A stages : Cardinality(In(stages)) \in Nat
  BY InFinite
<1>5. Registered'
  <2>1. handshaking' = Cardinality(In(Guarding)')
    BY <1>3, <1>4 DEF SlotInv, Registered
  <2>2. clients' = In(InMap)'
    BY <1>1, Moved DEF SlotInv, Registered
  <2> QED BY <2>1, <2>2 DEF Registered
<1>6. ReadBounds'
  <2>1. Cardinality(In(InHandshake)') <= Cardinality(In(InHandshake))
    BY <1>3, <1>4
  <2>2. Cardinality(In(InHandshake)') \in Int
    BY <1>3, <1>4
  <2> QED BY <1>4, <2>1, <2>2 DEF SlotInv, ReadBounds, Arrivals, accepting
<1>7. SlotsWithinCap'
  <2>1. Cardinality(In(Admitted)') <= Cardinality(In(Admitted))
    BY <1>3, <1>4
  <2>2. Cardinality(In(Admitted)') \in Int
    BY <1>3, <1>4
  <2> QED BY <1>4, <2>1, <2>2, ServerAssumption DEF SlotInv, SlotsWithinCap, In
<1> QED BY <1>2, <1>5, <1>6, <1>7 DEF SlotInv

\* The handshakes in progress are among what the counter counts.
LEMMA SlotsRead == SlotInv /\ Accept => SlotInv'
<1> SUFFICES ASSUME SlotInv, Accept PROVE SlotInv'
  OBVIOUS
<1>1. UNCHANGED <<handshaking, stage, clients>> /\ counted' = handshaking
  BY DEF Accept, Loads, registry
<1>2. \A stages : In(stages)' = In(stages)
  BY <1>1 DEF In
<1>3. Arrivals'
  <2>1. counted' \in Nat
    BY <1>1, InFinite DEF SlotInv, Registered
  <2> QED BY <1>1, <2>1, ServerAssumption DEF Accept, SlotInv, Arrivals, Connections
<1>4. Registered'
  BY <1>1, <1>2 DEF SlotInv, Registered
<1>5. ReadBounds'
  <2>1. In(InHandshake) \subseteq In(Guarding)
    BY DEF In, InHandshake, Guarding
  <2>2. Cardinality(In(InHandshake)) <= handshaking
    BY <2>1, InFinite DEF SlotInv, Registered
  <2> QED BY <1>1, <1>2, <2>2 DEF ReadBounds
<1>6. SlotsWithinCap'
  BY <1>1 DEF SlotInv, SlotsWithinCap
<1> QED BY <1>3, <1>4, <1>5, <1>6 DEF SlotInv

\* Counted and registered together cover every connection that has a slot.
LEMMA SlotsGiven == SlotInv /\ (Refuse \/ Admit) => SlotInv'
<1> SUFFICES ASSUME SlotInv, Refuse \/ Admit PROVE SlotInv'
  OBVIOUS
<1> DEFINE to == IF Refuse THEN "refused" ELSE "handshake"
<1>1. /\ stage \in [Connections -> Stages] /\ arrived \in Connections
      /\ stage[arrived] = "none" /\ counted \in Nat /\ counted # None
      /\ counted' = None /\ UNCHANGED arrived
  BY DEF Refuse, Admit, SlotInv, Arrivals
<1>2. to \in Stages /\ stage' = [stage EXCEPT ![arrived] = to]
  BY DEF Refuse, Admit, Stages, Admitted, Guarding
<1>3. Arrivals'
  BY <1>1, <1>2 DEF SlotInv, Arrivals, Connections
<1>4. ReadBounds'
  BY <1>1 DEF ReadBounds
<1> HIDE DEF to
<1>9. \A stages : Cardinality(In(stages)') =
                    Cardinality(In(stages)) + (IF to \in stages THEN 1 ELSE 0)
                                            - (IF stage[arrived] \in stages THEN 1 ELSE 0)
  BY <1>1, <1>2, MovedCount
<1>10. \A stages : Cardinality(In(stages)) \in Nat
  BY InFinite
<1>5. clients = In(InMap) /\ clients' = clients /\ InMap \cap {"none", "refused", "handshake"} = {}
  BY DEF Refuse, Admit, SlotInv, Registered, InMap
<1>6. clients' = In(InMap)'
  <2>1. arrived \notin In(InMap)
    BY <1>1 DEF In, InMap
  <2>2. to \notin InMap
    BY <1>5 DEF to
  <2>3. In(InMap)' = In(InMap) \ {arrived}
    BY <1>1, <1>2, <2>2, Moved
  <2> QED BY <1>5, <2>1, <2>3
<1>7. CASE Refuse
  <2>1. to \notin Guarding /\ to \notin Admitted /\ stage[arrived] \notin Guarding
    BY <1>1, <1>7 DEF Guarding, Admitted, to
  <2>2. stage[arrived] \notin Admitted
    BY <1>1 DEF Guarding, Admitted
  <2>3. Cardinality(In(Guarding)') = Cardinality(In(Guarding))
    BY <1>9, <1>10, <2>1
  <2>4. Cardinality(In(Admitted)') = Cardinality(In(Admitted))
    BY <1>9, <1>10, <2>1, <2>2
  <2>5. Registered'
    BY <1>6, <1>7, <2>3 DEF SlotInv, Registered, Refuse
  <2>6. SlotsWithinCap'
    BY <2>4 DEF SlotInv, SlotsWithinCap, In
  <2> QED BY <1>3, <1>4, <2>5, <2>6 DEF SlotInv
<1>8. CASE Admit /\ ~Refuse
  <2>1. to \in Guarding /\ to \in Admitted /\ stage[arrived] \notin Guarding
    BY <1>1, <1>8 DEF Guarding, Admitted, to
  <2>2. stage[arrived] \notin Admitted
    BY <1>1 DEF Guarding, Admitted
  <2>3. Cardinality(In(Guarding)') = Cardinality(In(Guarding)) + 1
    BY <1>9, <1>10, <2>1
  <2>4. Cardinality(In(Admitted)') = Cardinality(In(Admitted)) + 1
    BY <1>9, <1>10, <2>1, <2>2
  <2>5. Registered'
    BY <1>6, <1>8, <2>3 DEF SlotInv, Registered, Admit
  <2>6. Cardinality(In(Admitted)) <= counted + Cardinality(clients)
    <3>1. In(Admitted) = In(InHandshake) \cup clients
      BY <1>5 DEF In, Admitted, Guarding, InHandshake, InMap
    <3>2. In(InHandshake) \cap clients = {}
      BY <1>5 DEF In, InHandshake, InMap
    <3>3. Cardinality(In(Admitted)) = Cardinality(In(InHandshake)) + Cardinality(clients)
      <4> DEFINE serving == In(InHandshake)
      <4>1. /\ IsFiniteSet(serving) /\ Cardinality(serving) \in Nat
            /\ IsFiniteSet(clients) /\ Cardinality(clients) \in Nat
        BY <1>5, InFinite
      <4>2. Cardinality(serving \cap clients) = 0
        BY <3>2, FS_EmptySet
      <4>3. In(Admitted) = serving \cup clients
        BY <3>1
      <4> HIDE DEF serving
      <4>4. Cardinality(serving \cup clients)
              = Cardinality(serving) + Cardinality(clients) - Cardinality(serving \cap clients)
        BY <4>1, FS_Union
      <4>5. Cardinality(In(Admitted)) = Cardinality(serving) + Cardinality(clients)
        BY <4>1, <4>2, <4>3, <4>4
      <4> QED BY <4>5 DEF serving
    <3>4. Cardinality(In(InHandshake)) <= counted
      BY <1>1 DEF SlotInv, ReadBounds
    <3> QED BY <1>1, <1>5, <3>3, <3>4, InFinite
  <2>7. Cardinality(In(Admitted)) + 1 <= MaxClients
    <3>1. counted + Cardinality(clients) < MaxClients
      BY <1>8 DEF Admit, InFlight, Loads
    <3> QED BY <1>1, <1>5, <2>6, <3>1, InFinite, ServerAssumption
  <2>8. SlotsWithinCap'
    BY <2>4, <2>7 DEF SlotsWithinCap, In
  <2> QED BY <1>3, <1>4, <2>5, <2>8 DEF SlotInv
<1> QED BY <1>7, <1>8

\* serve_client, step by step.
LEMMA SlotsServed ==
    ASSUME SlotInv, NEW c \in Connections,
           \/ HelloTaken(c) \/ HelloFails(c) \/ Register(c) \/ DropGuard(c)
           \/ SpawnWriter(c) \/ CloneFails(c) \/ Leave(c) \/ Join(c)
    PROVE  SlotInv'
<1>1. UNCHANGED accepting
  BY DEF HelloTaken, HelloFails, Register, DropGuard, SpawnWriter, CloneFails, Leave, Join
<1>2. handshaking \in Int /\ (c \in clients <=> stage[c] \in InMap)
  <2>1. Cardinality(In(Guarding)) \in Nat
    BY InFinite
  <2> QED BY <2>1 DEF SlotInv, Registered, In
<1>3. /\ Guarding = {"handshake", "acknowledged", "registered"}
      /\ InHandshake = {"handshake", "acknowledged"}
      /\ InMap = {"registered", "guarded", "serving"}
      /\ Admitted = {"handshake", "acknowledged", "registered", "guarded", "serving"}
      /\ Stages = {"none", "refused", "handshake", "acknowledged", "registered",
                   "guarded", "serving", "joining", "closed"}
  BY DEF Guarding, InHandshake, InMap, Admitted, Stages
<1>4. CASE HelloTaken(c)
  <2>1. stage[c] = "handshake" /\ stage' = [stage EXCEPT ![c] = "acknowledged"]
    BY <1>4 DEF HelloTaken, At
  <2>2. "acknowledged" \in Stages \ {"none"}
    BY <1>3
  <2>3. handshaking' = handshaking - (IF stage[c] \in Guarding /\ "acknowledged" \notin Guarding
                                               THEN 1 ELSE 0)
    BY <1>2, <1>3, <1>4, <2>1 DEF HelloTaken
  <2>4. clients' = IF "acknowledged" \in InMap THEN clients \cup {c} ELSE clients \ {c}
    BY <1>2, <1>3, <1>4, <2>1 DEF HelloTaken
  <2> QED BY <1>1, <1>3, <2>1, <2>2, <2>3, <2>4, Served
<1>5. CASE HelloFails(c)
  <2>1. stage[c] = "handshake" /\ stage' = [stage EXCEPT ![c] = "closed"]
    BY <1>5 DEF HelloFails, At
  <2>2. "closed" \in Stages \ {"none"}
    BY <1>3
  <2>3. handshaking' = handshaking - (IF stage[c] \in Guarding /\ "closed" \notin Guarding
                                               THEN 1 ELSE 0)
    BY <1>2, <1>3, <1>5, <2>1 DEF HelloFails
  <2>4. clients' = IF "closed" \in InMap THEN clients \cup {c} ELSE clients \ {c}
    BY <1>2, <1>3, <1>5, <2>1 DEF HelloFails
  <2> QED BY <1>1, <1>3, <2>1, <2>2, <2>3, <2>4, Served
<1>6. CASE Register(c)
  <2>1. stage[c] = "acknowledged" /\ stage' = [stage EXCEPT ![c] = "registered"]
    BY <1>6 DEF Register, At
  <2>2. "registered" \in Stages \ {"none"}
    BY <1>3
  <2>3. handshaking' = handshaking - (IF stage[c] \in Guarding /\ "registered" \notin Guarding
                                               THEN 1 ELSE 0)
    BY <1>2, <1>3, <1>6, <2>1 DEF Register
  <2>4. clients' = IF "registered" \in InMap THEN clients \cup {c} ELSE clients \ {c}
    BY <1>2, <1>3, <1>6, <2>1 DEF Register
  <2> QED BY <1>1, <1>3, <2>1, <2>2, <2>3, <2>4, Served
<1>7. CASE DropGuard(c)
  <2>1. stage[c] = "registered" /\ stage' = [stage EXCEPT ![c] = "guarded"]
    BY <1>7 DEF DropGuard, At
  <2>2. "guarded" \in Stages \ {"none"}
    BY <1>3
  <2>3. handshaking' = handshaking - (IF stage[c] \in Guarding /\ "guarded" \notin Guarding
                                               THEN 1 ELSE 0)
    BY <1>2, <1>3, <1>7, <2>1 DEF DropGuard
  <2>4. clients' = IF "guarded" \in InMap THEN clients \cup {c} ELSE clients \ {c}
    BY <1>2, <1>3, <1>7, <2>1 DEF DropGuard
  <2> QED BY <1>1, <1>3, <2>1, <2>2, <2>3, <2>4, Served
<1>8. CASE SpawnWriter(c)
  <2>1. stage[c] = "guarded" /\ stage' = [stage EXCEPT ![c] = "serving"]
    BY <1>8 DEF SpawnWriter, At
  <2>2. "serving" \in Stages \ {"none"}
    BY <1>3
  <2>3. handshaking' = handshaking - (IF stage[c] \in Guarding /\ "serving" \notin Guarding
                                               THEN 1 ELSE 0)
    BY <1>2, <1>3, <1>8, <2>1 DEF SpawnWriter
  <2>4. clients' = IF "serving" \in InMap THEN clients \cup {c} ELSE clients \ {c}
    BY <1>2, <1>3, <1>8, <2>1 DEF SpawnWriter
  <2> QED BY <1>1, <1>3, <2>1, <2>2, <2>3, <2>4, Served
<1>9. CASE CloneFails(c)
  <2>1. stage[c] = "guarded" /\ stage' = [stage EXCEPT ![c] = "closed"]
    BY <1>9 DEF CloneFails, At
  <2>2. "closed" \in Stages \ {"none"}
    BY <1>3
  <2>3. handshaking' = handshaking - (IF stage[c] \in Guarding /\ "closed" \notin Guarding
                                               THEN 1 ELSE 0)
    BY <1>2, <1>3, <1>9, <2>1 DEF CloneFails
  <2>4. clients' = IF "closed" \in InMap THEN clients \cup {c} ELSE clients \ {c}
    BY <1>2, <1>3, <1>9, <2>1 DEF CloneFails
  <2> QED BY <1>1, <1>3, <2>1, <2>2, <2>3, <2>4, Served
<1>10. CASE Leave(c)
  <2>1. stage[c] = "serving" /\ stage' = [stage EXCEPT ![c] = "joining"]
    BY <1>10 DEF Leave, At
  <2>2. "joining" \in Stages \ {"none"}
    BY <1>3
  <2>3. handshaking' = handshaking - (IF stage[c] \in Guarding /\ "joining" \notin Guarding
                                               THEN 1 ELSE 0)
    BY <1>2, <1>3, <1>10, <2>1 DEF Leave
  <2>4. clients' = IF "joining" \in InMap THEN clients \cup {c} ELSE clients \ {c}
    BY <1>2, <1>3, <1>10, <2>1 DEF Leave
  <2> QED BY <1>1, <1>3, <2>1, <2>2, <2>3, <2>4, Served
<1>11. CASE Join(c)
  <2>1. stage[c] = "joining" /\ stage' = [stage EXCEPT ![c] = "closed"]
    BY <1>11 DEF Join, At
  <2>2. "closed" \in Stages \ {"none"}
    BY <1>3
  <2>3. handshaking' = handshaking - (IF stage[c] \in Guarding /\ "closed" \notin Guarding
                                               THEN 1 ELSE 0)
    BY <1>2, <1>3, <1>11, <2>1 DEF Join
  <2>4. clients' = IF "closed" \in InMap THEN clients \cup {c} ELSE clients \ {c}
    BY <1>2, <1>3, <1>11, <2>1 DEF Join
  <2> QED BY <1>1, <1>3, <2>1, <2>2, <2>3, <2>4, Served
<1> QED BY <1>4, <1>5, <1>6, <1>7, <1>8, <1>9, <1>10, <1>11

\* No other step touches a slot.
LEMMA SlotsKept == SlotInv /\ UNCHANGED <<accepting, registry>> => SlotInv'
BY DEF accepting, registry, SlotInv, Arrivals, Registered, ReadBounds, SlotsWithinCap, In

LEMMA SlotStep == SlotInv /\ [Next]_vars => SlotInv'
<1>1. SlotInv /\ Next => SlotInv'
  <2> SUFFICES ASSUME SlotInv, Next PROVE SlotInv'
    OBVIOUS
  <2>1. CASE Accept \/ Refuse \/ Admit
    BY <2>1, SlotsRead, SlotsGiven
  <2>2. ASSUME NEW c \in Connections,
               \/ HelloTaken(c) \/ HelloFails(c) \/ Register(c) \/ DropGuard(c)
               \/ SpawnWriter(c) \/ CloneFails(c) \/ Leave(c) \/ Join(c)
        PROVE  SlotInv'
    BY <2>2, SlotsServed
  <2>3. ASSUME NEW c \in Connections,
               Subscribe(c) \/ Take(c) \/ Write(c) \/ WriteFails(c) \/ WriterEnds(c)
        PROVE  SlotInv'
    BY <2>3, SlotsKept DEF Subscribe, Take, Write, WriteFails, WriterEnds
  <2>4. ASSUME NEW p \in Publishers, Publish(p) \/ Fan(p) \/ Published(p)
        PROVE  SlotInv'
    BY <2>4, SlotsKept DEF Publish, Fan, Published
  <2> QED BY <2>1, <2>2, <2>3, <2>4 DEF Next
<1>2. SlotInv /\ UNCHANGED vars => SlotInv'
  BY SlotsKept DEF vars
<1> QED BY <1>1, <1>2

\* TelemetryServer!SlotsWithinCap, for every max_clients: reading the counter before
\* the map, the accept loop can be wrong only in counting a connection twice.
THEOREM SlotsAlwaysWithinCap == Spec => []SlotsWithinCap
<1>1. SlotInv => SlotsWithinCap
  BY DEF SlotInv
<1> QED BY <1>1, SlotsInit, SlotStep, PTL DEF Spec

-----------------------------------------------------------------------------
(***************************************************************************)
(* The lock.                                                               *)
(***************************************************************************)
\* The client whose turn it is, is one of those left.
LEMMA MinIsLeft == ASSUME NEW S \in SUBSET Connections, S # {} PROVE Min(S) \in S
<1> DEFINE R == OpToRel(<, Nat)
<1>1. S \subseteq Nat
  BY ServerAssumption DEF Connections
<1>2. \E x \in S : \A y \in S : ~ (<<y, x>> \in R)
  <2>1. IsWellFoundedOn(R, Nat)
    BY NatLessThanWellFounded
  <2> HIDE DEF R
  <2> QED BY <1>1, <2>1, WFMin
<1>3. \E x \in S : \A y \in S : x <= y
  <2>1. PICK x \in S : \A y \in S : ~ (<<y, x>> \in R)
    BY <1>2
  <2>2. ASSUME NEW y \in S PROVE x <= y
    <3>1. x \in Nat /\ y \in Nat /\ ~ (<<y, x>> \in R)
      BY <1>1, <2>1
    <3> QED BY <3>1 DEF OpToRel
  <2> QED BY <2>2
<1> QED BY <1>3 DEF Min

LEMMA LockInit == Init => LockInv
BY DEF Init, LockInv

\* While the lock is free nobody fans a frame out.
LEMMA FreeMeansIdle ==
    ASSUME LockInv, Unlocked PROVE \A p \in Publishers : publishing[p] = None
BY ServerAssumption DEF LockInv, Unlocked

LEMMA LockPublish ==
    ASSUME LockInv, SlotInv, NEW p \in Publishers, Publish(p) PROVE LockInv'
<1>1. Unlocked /\ \A q \in Publishers : publishing[q] = None
  BY FreeMeansIdle DEF Publish, MayPublish
<1>2. clients \in SUBSET Connections /\ clients' = clients
  BY DEF Publish, SlotInv, Registered, In, registry
<1>3. published \in Nat /\ published' = published + 1 /\ lock' = p
  BY DEF Publish, LockInv
<1>4. PICK stream \in Streams :
        publishing' = [publishing EXCEPT
          ![p] = [id |-> published + 1, stream |-> stream, todo |-> clients]]
  BY DEF Publish
<1>5. [id |-> published + 1, stream |-> stream, todo |-> clients] \in Frames
  BY <1>2, <1>3 DEF Frames, Ids
<1> QED BY <1>1, <1>2, <1>3, <1>4, <1>5 DEF LockInv, Ids

LEMMA LockFan ==
    ASSUME LockInv, SlotInv, NEW p \in Publishers, Fan(p) PROVE LockInv'
<1> DEFINE c == Min(publishing[p].todo)
<1>1. publishing' = [publishing EXCEPT ![p].todo = @ \ {c}]
  BY DEF Fan, Turn
<1>2. UNCHANGED <<lock, published, clients>>
  BY DEF Fan, registry
<1> HIDE DEF c
<1>3. publishing[p] # None /\ publishing[p] \in Frames
  BY DEF Fan, LockInv
<1>4. [publishing[p] EXCEPT !.todo = @ \ {c}] \in Frames
  BY <1>3 DEF Frames
<1>5. publishing' = [publishing EXCEPT ![p] = [publishing[p] EXCEPT !.todo = @ \ {c}]]
  BY <1>1 DEF LockInv
<1>6. \A q \in Publishers : publishing'[q] # None => /\ publishing[q] # None
                                                     /\ publishing'[q].id = publishing[q].id
                                                     /\ publishing'[q].todo \subseteq publishing[q].todo
  BY <1>3, <1>5 DEF LockInv, Frames
<1> QED BY <1>2, <1>4, <1>5, <1>6 DEF LockInv

LEMMA LockPublished ==
    ASSUME LockInv, SlotInv, NEW p \in Publishers, Published(p) PROVE LockInv'
<1>1. \A q \in Publishers : publishing[q] # None => q = p
  BY DEF Published, LockInv
<1>2. publishing' = [publishing EXCEPT ![p] = None] /\ lock' = None
      /\ UNCHANGED <<published, clients>>
  BY DEF Published, registry
<1> QED BY <1>1, <1>2 DEF LockInv

\* The map changes only while its lock is free.
LEMMA LockServed ==
    ASSUME LockInv, UNCHANGED fanout, UNCHANGED clients \/ Unlocked PROVE LockInv'
<1>1. UNCHANGED <<lock, publishing, published>>
  BY DEF fanout
<1>2. CASE UNCHANGED clients
  BY <1>1, <1>2 DEF LockInv
<1>3. CASE Unlocked
  BY <1>1, <1>3, FreeMeansIdle DEF LockInv
<1> QED BY <1>2, <1>3

LEMMA LockStep == LockInv /\ SlotInv /\ [Next]_vars => LockInv'
<1> SUFFICES ASSUME LockInv, SlotInv, [Next]_vars PROVE LockInv'
  OBVIOUS
<1>1. CASE Accept \/ Refuse \/ Admit
  BY <1>1, LockServed DEF Accept, Refuse, Admit, registry
<1>2. ASSUME NEW c \in Connections,
             \/ HelloTaken(c) \/ HelloFails(c) \/ Register(c) \/ DropGuard(c)
             \/ SpawnWriter(c) \/ CloneFails(c) \/ Leave(c) \/ Join(c)
      PROVE  LockInv'
  BY <1>2, LockServed DEF HelloTaken, HelloFails, Register, DropGuard, SpawnWriter,
     CloneFails, Leave, Join
<1>3. ASSUME NEW c \in Connections,
             Subscribe(c) \/ Take(c) \/ Write(c) \/ WriteFails(c) \/ WriterEnds(c)
      PROVE  LockInv'
  BY <1>3, LockServed DEF Subscribe, Take, Write, WriteFails, WriterEnds, registry
<1>4. ASSUME NEW p \in Publishers, Publish(p) \/ Fan(p) \/ Published(p)
      PROVE  LockInv'
  BY <1>4, LockPublish, LockFan, LockPublished
<1>5. CASE UNCHANGED vars
  BY <1>5, LockServed DEF vars, registry
<1> QED BY <1>1, <1>2, <1>3, <1>4, <1>5 DEF Next

-----------------------------------------------------------------------------
(***************************************************************************)
(* The lanes.                                                              *)
(***************************************************************************)
LEMMA LaneInit == Init => LaneInv
<1> SUFFICES ASSUME Init PROVE LaneInv
  OBVIOUS
<1>1. << >> \in Seq(Ids)
  OBVIOUS
<1>2. LaneTypes
  BY <1>1, ServerAssumption DEF Init, LaneTypes, Writers
<1>3. ASSUME NEW c \in Connections PROVE Lane(c)
  BY DEF Init, Lane, LaneOrdered, LaneInDate, WriterStage, Accounted, Increasing
<1> QED BY <1>2, <1>3 DEF LaneInv

\* One more, newer than all the others.
LEMMA IncreasingAppend ==
    ASSUME NEW s \in Seq(Ids), NEW x \in Ids, Increasing(s), \A i \in 1 .. Len(s) : s[i] < x
    PROVE  Increasing(Append(s, x))
BY DEF Increasing, Ids

\* Ids r are ids q and then x, which is newer than all of them.
Longer(r, q, x) ==
    /\ x \in Nat /\ Len(q) \in Nat /\ Len(r) = Len(q) + 1 /\ r[Len(q) + 1] = x
    /\ \A j \in 1 .. Len(q) : r[j] = q[j] /\ q[j] \in Nat /\ q[j] < x

LEMMA LongerCases ==
    ASSUME NEW r, NEW q, NEW x, Longer(r, q, x), NEW j \in 1 .. Len(r)
    PROVE  \/ j \in 1 .. Len(q) /\ r[j] = q[j]
           \/ r[j] = x
BY DEF Longer

LEMMA LongerBounds ==
    ASSUME NEW r, NEW q, NEW x, Longer(r, q, x)
    PROVE  \A j \in 1 .. Len(r) : r[j] <= x
<1> SUFFICES ASSUME NEW j \in 1 .. Len(r) PROVE r[j] <= x
  OBVIOUS
<1>1. CASE j \in 1 .. Len(q) /\ r[j] = q[j]
  BY <1>1 DEF Longer
<1>2. CASE r[j] = x
  BY <1>2 DEF Longer
<1> QED BY <1>1, <1>2, LongerCases

LEMMA LongerAfter ==
    ASSUME NEW r, NEW q, NEW x, Longer(r, q, x), NEW y, y < x, \A j \in 1 .. Len(q) : y < q[j]
    PROVE  \A j \in 1 .. Len(r) : y < r[j]
BY LongerCases

LEMMA IncreasingTail ==
    ASSUME NEW s \in Seq(Ids), s # << >>, Increasing(s)
    PROVE  /\ Increasing(Tail(s))
           /\ \A i \in 1 .. Len(Tail(s)) : Tail(s)[i] = s[i + 1] /\ i + 1 \in 1 .. Len(s)
           /\ \A i \in 1 .. Len(Tail(s)) : Head(s) < Tail(s)[i]
BY DEF Increasing, Ids

LEMMA NewestInt == ASSUME LockInv, NEW c PROVE Newest(c) \in Int
BY DEF LockInv, Newest

\* While the lock is held only its holder's frame is on its way.
LEMMA PendingIs ==
    ASSUME LockInv, NEW p \in Publishers, publishing[p] # None, NEW c
    PROVE  Pending(c) <=> c \in publishing[p].todo
BY DEF LockInv, Pending

\* One frame more, in either place.
LEMMA Counts ==
    \A d, q \in Nat : /\ d + q + 1 = (d + 1) + q
                      /\ d + q + 1 = d + (q + 1)
                      /\ d + q + 1 + 1 = d + (q + 1) + 1
OBVIOUS

\* What a client may have grows only.
LEMMA NewestPublish ==
    ASSUME LockInv, NEW p \in Publishers, Publish(p), NEW c \in Connections
    PROVE  Newest(c)' >= Newest(c)
<1>1. ~Pending(c)
  BY FreeMeansIdle DEF Publish, MayPublish, Pending
<1>2. published \in Nat /\ published' = published + 1
  BY DEF Publish, LockInv
<1> QED BY <1>1, <1>2 DEF Newest

LEMMA NewestFan ==
    ASSUME LockInv, NEW p \in Publishers, Fan(p), LockInv', NEW c \in Connections
    PROVE  /\ Newest(c)' >= Newest(c)
           /\ c = Min(publishing[p].todo) => Newest(c)' = published /\ Newest(c) = published - 1
<1> DEFINE turn == Min(publishing[p].todo)
<1>1. /\ publishing[p] # None /\ publishing[p].todo # {} /\ publishing[p] \in Frames
      /\ publishing' = [publishing EXCEPT ![p].todo = @ \ {turn}]
      /\ published \in Nat /\ published' = published
  BY DEF Fan, Turn, LockInv
<1>2. turn \in publishing[p].todo
  BY <1>1, MinIsLeft DEF Frames
<1> HIDE DEF turn
<1>3. publishing'[p] = [publishing[p] EXCEPT !.todo = @ \ {turn}]
  BY <1>1 DEF LockInv
<1>4. publishing'[p].todo = publishing[p].todo \ {turn}
  BY <1>1, <1>3 DEF Frames
<1>5. Pending(c) <=> c \in publishing[p].todo
  BY <1>1, PendingIs
<1>6. Pending(c)' => c \in publishing'[p].todo
  <2>1. \A q \in Publishers : publishing[q] # None => q = p
    BY <1>1 DEF LockInv
  <2>2. \A q \in Publishers : q # p => publishing'[q] = publishing[q]
    BY <1>1 DEF LockInv
  <2> QED BY <2>1, <2>2 DEF Pending
<1>7. c # turn => (Pending(c)' => Pending(c))
  BY <1>4, <1>5, <1>6
<1>8. c = turn => ~Pending(c)' /\ Pending(c)
  BY <1>2, <1>4, <1>5, <1>6
<1> QED BY <1>1, <1>7, <1>8 DEF Newest, turn

LEMMA NewestPublished ==
    ASSUME LockInv, NEW p \in Publishers, Published(p), NEW c \in Connections
    PROVE  Newest(c)' = Newest(c)
<1>1. ~Pending(c)
  BY PendingIs DEF Published
<1>2. \A q \in Publishers : publishing'[q] = publishing[q] \/ publishing'[q] = None
  BY DEF Published, LockInv
<1>3. ~Pending(c)'
  BY <1>1, <1>2 DEF Pending
<1> QED BY <1>1, <1>3 DEF Newest, Published

LEMMA NewestKept ==
    ASSUME UNCHANGED fanout, NEW c \in Connections PROVE Newest(c)' = Newest(c)
BY DEF fanout, Newest, Pending

\* A lane nobody touches stays as it was: its client's stage may move on, as long
\* as the writer's still fits it.
LEMMA LaneKept ==
    ASSUME LaneInv, LockInv, LockInv', NEW c \in Connections,
           Newest(c)' >= Newest(c), WriterStage(c)',
           queue'[c] = queue[c], hand'[c] = hand[c], delivered'[c] = delivered[c],
           sent'[c] = sent[c], writer'[c] = writer[c]
    PROVE  Lane(c)'
<1>1. Newest(c) \in Int /\ Newest(c)' \in Int
  BY NewestInt DEF LockInv, Newest
<1>2. /\ queue[c] \in Seq(Ids) /\ delivered[c] \in Seq(Ids) /\ hand[c] \in Ids \cup {None}
      /\ Lane(c)
  BY DEF LaneInv, LaneTypes
<1>3. LaneOrdered(c)' /\ Accounted(c)'
  BY <1>2 DEF Lane, LaneOrdered, Accounted
<1>4. LaneInDate(c)'
  BY <1>1, <1>2 DEF Lane, LaneInDate, Ids
<1> QED BY <1>3, <1>4 DEF Lane

LEMMA LanesKept ==
    ASSUME LaneInv, LockInv, LockInv', UNCHANGED <<queue, hand, delivered, writer, sent>>,
           \A c \in Connections : Newest(c)' >= Newest(c),
           \A c \in Connections : WriterStage(c)'
    PROVE  LaneInv'
<1>1. LaneTypes'
  BY DEF LaneInv, LaneTypes
<1>2. \A c \in Connections : Lane(c)'
  BY LaneKept
<1> QED BY <1>1, <1>2 DEF LaneInv

\* serve_client starts the writer, and waits for it.
LEMMA LaneServed ==
    ASSUME LaneInv, LockInv, LockInv', SlotInv, NEW c \in Connections,
           \/ HelloTaken(c) \/ HelloFails(c) \/ Register(c) \/ DropGuard(c)
           \/ CloneFails(c) \/ Leave(c) \/ Join(c)
    PROVE  LaneInv'
<1>1. UNCHANGED <<queue, hand, delivered, writer, sent>> /\ UNCHANGED fanout
  BY DEF HelloTaken, HelloFails, Register, DropGuard, CloneFails, Leave, Join, lanes
<1>2. /\ stage \in [Connections -> Stages] /\ WriterStage(c)
      /\ writer \in [Connections -> Writers]
  BY DEF SlotInv, Arrivals, LaneInv, LaneTypes, Lane
<1>3. PICK from, to : At(c, from, to)
  BY DEF HelloTaken, HelloFails, Register, DropGuard, CloneFails, Leave, Join
<1>4. WriterStage(c)'
  <2>1. \/ /\ writer[c] = "none" /\ stage'[c] \notin {"serving", "joining"}
        \/ /\ stage[c] = "serving" /\ stage'[c] = "joining"
        \/ /\ writer[c] \in {"broken", "done"} /\ stage[c] = "joining"
           /\ stage'[c] = "closed"
    BY <1>2 DEF WriterStage, HelloTaken, HelloFails, Register, DropGuard, CloneFails,
       Leave, Join, At
  <2> QED BY <1>1, <1>2, <2>1 DEF WriterStage
<1>5. ASSUME NEW d \in Connections PROVE WriterStage(d)'
  <2>1. CASE d = c
    BY <1>4, <2>1
  <2>2. CASE d # c
    <3>1. stage'[d] = stage[d]
      BY <1>2, <1>3, <2>2 DEF At
    <3> QED BY <1>1, <3>1 DEF LaneInv, Lane, WriterStage
  <2> QED BY <2>1, <2>2
<1>6. \A d \in Connections : Newest(d)' >= Newest(d)
  BY <1>1, NewestKept, NewestInt
<1> QED BY <1>1, <1>5, <1>6, LanesKept

LEMMA LaneSpawned ==
    ASSUME LaneInv, LockInv, LockInv', SlotInv, NEW c \in Connections, SpawnWriter(c)
    PROVE  LaneInv'
<1>1. /\ UNCHANGED <<queue, hand, delivered, sent>> /\ UNCHANGED fanout
      /\ stage[c] = "guarded" /\ stage' = [stage EXCEPT ![c] = "serving"]
      /\ writer' = [writer EXCEPT ![c] = "running"]
  BY DEF SpawnWriter, At
<1>2. LaneTypes /\ stage \in [Connections -> Stages]
  BY DEF LaneInv, SlotInv, Arrivals
<1>3. LaneTypes'
  BY <1>1, <1>2 DEF LaneTypes, Writers
<1>4. \A d \in Connections : Newest(d)' = Newest(d)
  BY <1>1, NewestKept
<1>5. ASSUME NEW d \in Connections PROVE Lane(d)'
  <2>1. CASE d = c
    <3>1. Lane(c) /\ writer[c] = "none"
      BY <1>1 DEF LaneInv, Lane, WriterStage
    <3>2. stage'[c] = "serving" /\ writer'[c] = "running"
      BY <1>1, <1>2 DEF LaneTypes
    <3>3. LaneOrdered(c)' /\ LaneInDate(c)'
      BY <1>1, <1>4, <3>1 DEF Lane, LaneOrdered, LaneInDate
    <3>4. WriterStage(c)' /\ Accounted(c)'
      BY <1>1, <3>1, <3>2 DEF Lane, WriterStage, Accounted
    <3> QED BY <2>1, <3>3, <3>4 DEF Lane
  <2>2. CASE d # c
    <3>1. stage'[d] = stage[d] /\ writer'[d] = writer[d]
      BY <1>1, <1>2, <2>2 DEF LaneTypes
    <3>2. WriterStage(d)'
      BY <1>1, <3>1 DEF LaneInv, Lane, WriterStage
    <3>3. Newest(d)' >= Newest(d)
      BY <1>4, NewestInt
    <3> QED BY <1>1, <3>1, <3>2, <3>3, LaneKept
  <2> QED BY <2>1, <2>2
<1> QED BY <1>3, <1>5 DEF LaneInv

\* The writer thread: it touches its own lane only, and the client's stage is as
\* it was.
LEMMA LaneWritten ==
    ASSUME LaneInv, LockInv, LockInv', SlotInv, NEW c \in Connections,
           Take(c) \/ Write(c) \/ WriteFails(c) \/ WriterEnds(c)
    PROVE  LaneInv'
<1>1. /\ UNCHANGED <<stage, sent>> /\ UNCHANGED fanout
      /\ writer[c] = "running" /\ stage[c] \notin {"closed"}
  BY DEF Take, Write, WriteFails, WriterEnds, Writing, registry, LaneInv, Lane, WriterStage
<1>2. LaneTypes /\ Lane(c)
  BY DEF LaneInv
<1>3. \A d \in Connections : Newest(d)' = Newest(d)
  BY <1>1, NewestKept
<1>4. /\ queue[c] \in Seq(Ids) /\ delivered[c] \in Seq(Ids) /\ hand[c] \in Ids \cup {None}
      /\ Len(queue[c]) <= QueueCapacity /\ None \notin Ids /\ sent[c] \in Nat
  BY <1>2, ServerAssumption DEF LaneTypes, Ids
<1>5. ASSUME NEW d \in Connections, d # c PROVE Lane(d)'
  <2>1. /\ queue'[d] = queue[d] /\ hand'[d] = hand[d] /\ delivered'[d] = delivered[d]
        /\ writer'[d] = writer[d] /\ sent'[d] = sent[d] /\ stage'[d] = stage[d]
    BY <1>1, <1>2, <1>5 DEF Take, Write, WriteFails, WriterEnds, LaneTypes
  <2>2. WriterStage(d)'
    <3>1. WriterStage(d)
      BY DEF LaneInv, Lane
    <3> QED BY <2>1, <3>1 DEF WriterStage
  <2>3. Newest(d)' >= Newest(d)
    BY <1>3, NewestInt
  <2> QED BY <2>1, <2>2, <2>3, LaneKept
<1>6. Newest(c)' = Newest(c) /\ Newest(c) \in Int
  BY <1>3, NewestInt
<1>11. /\ hand[c] = None => sent[c] = Len(delivered[c]) + Len(queue[c])
       /\ hand[c] # None => sent[c] = Len(delivered[c]) + Len(queue[c]) + 1
  BY <1>1, <1>2 DEF Lane, Accounted
<1> USE DEF Lane, LaneOrdered, LaneInDate, WriterStage
<1>7. CASE Take(c)
  <2>1. /\ queue[c] # << >> /\ hand[c] = None
        /\ hand' = [hand EXCEPT ![c] = Head(queue[c])]
        /\ queue' = [queue EXCEPT ![c] = Tail(queue[c])]
        /\ UNCHANGED <<delivered, writer>>
    BY <1>7 DEF Take
  <2>2. /\ Tail(queue[c]) \in Seq(Ids) /\ Len(Tail(queue[c])) = Len(queue[c]) - 1
        /\ Head(queue[c]) \in Ids /\ Head(queue[c]) = queue[c][1] /\ 1 \in 1 .. Len(queue[c])
    BY <1>4, <2>1
  <2>3. LaneTypes'
    BY <1>1, <1>2, <1>4, <2>1, <2>2, ServerAssumption DEF LaneTypes
  <2>4. hand'[c] = queue[c][1] /\ queue'[c] = Tail(queue[c]) /\ hand'[c] # None
    BY <1>2, <1>4, <2>1, <2>2 DEF LaneTypes
  <2>5. LaneOrdered(c)'
    <3>1. /\ Increasing(Tail(queue[c]))
          /\ \A j \in 1 .. Len(Tail(queue[c])) :
               /\ Tail(queue[c])[j] = queue[c][j + 1] /\ j + 1 \in 1 .. Len(queue[c])
               /\ queue[c][1] < Tail(queue[c])[j]
      BY <1>2, <1>4, <2>1, <2>2, IncreasingTail
    <3>2. \A i \in 1 .. Len(delivered[c]) :
            /\ \A j \in 1 .. Len(Tail(queue[c])) : delivered[c][i] < Tail(queue[c])[j]
            /\ delivered[c][i] < queue[c][1]
      BY <1>2, <2>2, <3>1
    <3>3. Increasing(delivered[c])
      BY <1>2
    <3> QED BY <2>1, <2>4, <3>1, <3>2, <3>3
  <2>6. LaneInDate(c)'
    BY <1>2, <1>4, <1>6, <2>1, <2>2, <2>4, IncreasingTail
  <2>7. WriterStage(c)'
    BY <1>1, <1>2, <2>1
  <2>8. Accounted(c)'
    <3>1. sent[c] = Len(delivered[c]) + Len(queue[c])
      BY <1>11, <2>1
    <3>2. Len(queue'[c]) = Len(queue[c]) - 1 /\ delivered'[c] = delivered[c]
          /\ sent'[c] = sent[c]
      BY <1>1, <2>1, <2>2, <2>4
    <3>3. Len(delivered[c]) \in Nat /\ Len(queue[c]) \in Nat
      BY <1>4
    <3>4. sent'[c] = Len(delivered'[c]) + Len(queue'[c]) + 1
      BY <3>1, <3>2, <3>3
    <3> QED BY <2>4, <3>4 DEF Accounted
  <2> QED BY <1>5, <2>3, <2>5, <2>6, <2>7, <2>8 DEF LaneInv
<1>8. CASE Write(c)
  <2>1. /\ hand[c] # None /\ hand[c] \in Ids
        /\ hand' = [hand EXCEPT ![c] = None]
        /\ delivered' = [delivered EXCEPT ![c] = Append(delivered[c], hand[c])]
        /\ UNCHANGED <<queue, writer>>
    BY <1>4, <1>8 DEF Write, Writing
  <2>2. /\ Append(delivered[c], hand[c]) \in Seq(Ids)
        /\ Len(Append(delivered[c], hand[c])) = Len(delivered[c]) + 1
    BY <1>4, <2>1
  <2>3. LaneTypes'
    BY <1>1, <1>2, <1>4, <2>1, <2>2 DEF LaneTypes
  <2>4. hand'[c] = None /\ delivered'[c] = Append(delivered[c], hand[c])
    BY <1>2, <2>1 DEF LaneTypes
  <2>5. LaneOrdered(c)'
    <3>1. Increasing(delivered[c])'
      BY <1>2, <1>4, <2>1, <2>4, IncreasingAppend
    <3>2. \A i \in 1 .. Len(delivered'[c]) :
            \/ i \in 1 .. Len(delivered[c]) /\ delivered'[c][i] = delivered[c][i]
            \/ delivered'[c][i] = hand[c]
      BY <1>4, <2>1, <2>2, <2>4
    <3> QED BY <1>2, <2>1, <2>4, <3>1, <3>2
  <2>6. LaneInDate(c)'
    BY <1>2, <1>4, <1>6, <2>1, <2>2, <2>4
  <2>7. WriterStage(c)'
    BY <1>1, <1>2, <2>1
  <2>8. Accounted(c)'
    <3>1. sent[c] = Len(delivered[c]) + Len(queue[c]) + 1
      BY <1>11, <2>1
    <3>2. Len(delivered'[c]) = Len(delivered[c]) + 1 /\ queue'[c] = queue[c]
          /\ sent'[c] = sent[c]
      BY <1>1, <2>1, <2>2, <2>4
    <3>3. Len(delivered[c]) \in Nat /\ Len(queue[c]) \in Nat
      BY <1>4
    <3>4. sent'[c] = Len(delivered'[c]) + Len(queue'[c])
      <4>1. Len(delivered[c]) + Len(queue[c]) + 1 = (Len(delivered[c]) + 1) + Len(queue[c])
        BY <3>3, Counts, Zenon
      <4> QED BY <3>1, <3>2, <4>1, Zenon
    <3> QED BY <2>4, <3>4 DEF Accounted
  <2> QED BY <1>5, <2>3, <2>5, <2>6, <2>7, <2>8 DEF LaneInv
<1>9. CASE WriteFails(c)
  <2>1. /\ hand' = [hand EXCEPT ![c] = None] /\ queue' = [queue EXCEPT ![c] = << >>]
        /\ writer' = [writer EXCEPT ![c] = "broken"] /\ UNCHANGED delivered
    BY <1>9 DEF WriteFails
  <2>2. << >> \in Seq(Ids) /\ Len(<< >>) = 0
    OBVIOUS
  <2>3. LaneTypes'
    BY <1>1, <1>2, <1>4, <2>1, <2>2, ServerAssumption DEF LaneTypes, Writers
  <2>4. hand'[c] = None /\ queue'[c] = << >> /\ writer'[c] = "broken"
    BY <1>2, <2>1 DEF LaneTypes
  <2>5. LaneOrdered(c)' /\ LaneInDate(c)'
    BY <1>2, <1>6, <2>1, <2>4 DEF Increasing
  <2>6. WriterStage(c)' /\ Accounted(c)'
    BY <1>1, <1>2, <2>1, <2>4 DEF Accounted
  <2> QED BY <1>5, <2>3, <2>5, <2>6 DEF LaneInv
<1>10. CASE WriterEnds(c)
  <2>1. /\ hand[c] = None /\ queue[c] = << >> /\ c \notin clients
        /\ writer' = [writer EXCEPT ![c] = "done"] /\ UNCHANGED <<hand, queue, delivered>>
    BY <1>10 DEF WriterEnds
  <2>2. stage[c] = "joining"
    BY <1>1, <1>2, <2>1 DEF SlotInv, Registered, In, Arrivals, InMap, Stages, Admitted, Guarding
  <2>3. LaneTypes'
    BY <1>1, <1>2, <2>1 DEF LaneTypes, Writers
  <2>4. writer'[c] = "done"
    BY <1>2, <2>1 DEF LaneTypes
  <2>5. Lane(c)'
    BY <1>1, <1>2, <1>6, <2>1, <2>2, <2>4 DEF Accounted
  <2> QED BY <1>5, <2>3, <2>5 DEF LaneInv
<1> QED BY <1>7, <1>8, <1>9, <1>10

\* A turn gives its client a frame newer than all it has.
LEMMA LaneTurn ==
    ASSUME LaneInv, LockInv, LockInv', SlotInv, NEW p \in Publishers, Fan(p)
    PROVE  LaneInv'
<1>1. /\ publishing[p] # None /\ publishing[p].todo # {} /\ publishing[p] \in Frames
      /\ publishing[p].id = published /\ publishing[p].todo \subseteq clients
      /\ UNCHANGED <<stage, hand, writer, delivered>> /\ published \in Nat
  BY DEF Fan, LockInv, registry
<1>2. PICK c \in Connections : c = Min(publishing[p].todo) /\ c \in clients
  BY <1>1, MinIsLeft DEF Frames
<1>3. \/ /\ HasRoom(c)
         /\ queue' = [queue EXCEPT ![c] = Append(queue[c], published)]
         /\ sent' = [sent EXCEPT ![c] = sent[c] + 1]
      \/ UNCHANGED <<queue, sent>>
  BY <1>1, <1>2 DEF Fan, Turn
<1>4. \A d \in Connections : Newest(d)' >= Newest(d)
  BY NewestFan
<1>5. Newest(c)' = published /\ Newest(c) = published - 1
  BY <1>2, NewestFan
<1>6. LaneTypes /\ Lane(c)
  BY <1>2 DEF LaneInv
<1>7. CASE UNCHANGED <<queue, sent>>
  <2>1. \A d \in Connections : WriterStage(d)'
    BY <1>1, <1>7 DEF LaneInv, Lane, WriterStage
  <2> QED BY <1>1, <1>4, <1>7, <2>1, LanesKept
<1>8. CASE /\ HasRoom(c)
           /\ queue' = [queue EXCEPT ![c] = Append(queue[c], published)]
           /\ sent' = [sent EXCEPT ![c] = sent[c] + 1]
  <2>1. /\ queue[c] \in Seq(Ids) /\ delivered[c] \in Seq(Ids)
        /\ hand[c] \in Ids \cup {None} /\ sent[c] \in Nat
        /\ Append(queue[c], published) \in Seq(Ids)
        /\ Len(Append(queue[c], published)) = Len(queue[c]) + 1
    BY <1>1, <1>2, <1>6 DEF LaneTypes, Ids
  <2>2. LaneTypes'
    BY <1>1, <1>6, <1>8, <2>1, ServerAssumption DEF LaneTypes, HasRoom
  <2>3. queue'[c] = Append(queue[c], published) /\ sent'[c] = sent[c] + 1
    BY <1>2, <1>6, <1>8 DEF LaneTypes
  <2>4. /\ \A i \in 1 .. Len(delivered[c]) : delivered[c][i] < published
        /\ \A j \in 1 .. Len(queue[c]) : queue[c][j] < published
        /\ hand[c] # None => hand[c] < published
    <3>1. /\ \A i \in 1 .. Len(delivered[c]) : delivered[c][i] <= published - 1
          /\ \A j \in 1 .. Len(queue[c]) : queue[c][j] <= published - 1
          /\ hand[c] # None => hand[c] <= published - 1
      BY <1>5, <1>6 DEF Lane, LaneInDate
    <3>2. /\ \A i \in 1 .. Len(delivered[c]) : delivered[c][i] \in Nat
          /\ \A j \in 1 .. Len(queue[c]) : queue[c][j] \in Nat
          /\ hand[c] # None => hand[c] \in Nat
      <4>1. \A i \in 1 .. Len(delivered[c]) : delivered[c][i] \in Nat
        BY <2>1 DEF Ids
      <4>2. \A j \in 1 .. Len(queue[c]) : queue[c][j] \in Nat
        BY <2>1 DEF Ids
      <4>3. hand[c] # None => hand[c] \in Nat
        BY <2>1 DEF Ids
      <4> QED BY <4>1, <4>2, <4>3
    <3> QED BY <1>1, <3>1, <3>2
  <2>11. /\ Len(queue[c]) \in Nat
         /\ \A j \in 1 .. Len(queue[c]) : queue'[c][j] = queue[c][j] /\ queue[c][j] \in Nat
         /\ queue'[c][Len(queue[c]) + 1] = published
    BY <2>1, <2>3 DEF Ids
  <2>12. Longer(queue'[c], queue[c], published)
    <3>1. Len(queue'[c]) = Len(queue[c]) + 1
      BY <2>1, <2>3
    <3>2. published \in Nat
      BY <1>1, <1>6 DEF LockInv
    <3> QED BY <2>4, <2>11, <3>1, <3>2 DEF Longer
  <2>5. LaneOrdered(c)'
    <3>1. Increasing(queue[c])'
      BY <1>1, <1>6, <2>1, <2>3, <2>4, IncreasingAppend DEF Lane, LaneOrdered, Ids
    <3>2. Increasing(delivered[c])' /\ delivered'[c] = delivered[c] /\ hand'[c] = hand[c]
      BY <1>1, <1>6 DEF Lane, LaneOrdered, Increasing
    <3>3. \A i \in 1 .. Len(delivered[c]) :
            /\ \A j \in 1 .. Len(queue[c]) : delivered[c][i] < queue[c][j]
            /\ hand[c] # None => delivered[c][i] < hand[c]
      BY <1>6 DEF Lane, LaneOrdered
    <3>4. hand[c] # None => \A j \in 1 .. Len(queue[c]) : hand[c] < queue[c][j]
      BY <1>6 DEF Lane, LaneOrdered
    <3>5. \A j \in 1 .. Len(queue'[c]) :
            /\ \A i \in 1 .. Len(delivered[c]) : delivered[c][i] < queue'[c][j]
            /\ hand[c] # None => hand[c] < queue'[c][j]
      <4>1. \A i \in 1 .. Len(delivered[c]) :
              (\A j \in 1 .. Len(queue[c]) : delivered[c][i] < queue[c][j])
                /\ delivered[c][i] < published
        BY <2>4, <3>3
      <4>2. \A i \in 1 .. Len(delivered[c]), j \in 1 .. Len(queue'[c]) :
              delivered[c][i] < queue'[c][j]
        BY <2>12, <4>1, LongerAfter
      <4>3. hand[c] # None => \A j \in 1 .. Len(queue'[c]) : hand[c] < queue'[c][j]
        BY <2>4, <2>12, <3>4, LongerAfter
      <4> QED BY <4>2, <4>3
    <3> QED BY <3>1, <3>2, <3>3, <3>5 DEF LaneOrdered
  <2>6. LaneInDate(c)'
    <3>1. /\ \A i \in 1 .. Len(delivered'[c]) : delivered'[c][i] <= published
          /\ hand'[c] # None => hand'[c] <= published
      BY <1>1, <2>1, <2>4 DEF Ids
    <3>2. \A j \in 1 .. Len(queue'[c]) : queue'[c][j] <= published
      BY <2>12, LongerBounds
    <3> QED BY <1>1, <1>5, <1>6, <3>1, <3>2 DEF Lane, LaneInDate
  <2>7. writer[c] # "done" /\ writer[c] # "broken"
    BY <1>2, <1>6, <1>8 DEF HasRoom, Lane, WriterStage, SlotInv, Registered, In, InMap
  <2>8. WriterStage(c)'
    BY <1>1, <1>6, <2>7 DEF Lane, WriterStage
  <2>9. Accounted(c)'
    <3>1. /\ hand[c] = None => sent[c] = Len(delivered[c]) + Len(queue[c])
          /\ hand[c] # None => sent[c] = Len(delivered[c]) + Len(queue[c]) + 1
      BY <1>6, <2>7 DEF Lane, Accounted
    <3>2. Len(queue'[c]) = Len(queue[c]) + 1 /\ delivered'[c] = delivered[c] /\ hand'[c] = hand[c]
      BY <1>1, <2>1, <2>3
    <3>3. Len(delivered[c]) \in Nat /\ Len(queue[c]) \in Nat
      BY <2>1
    <3>4. sent'[c] = sent[c] + 1
      BY <2>3
    <3>5. CASE hand[c] = None
      <4>1. sent'[c] = Len(delivered'[c]) + Len(queue'[c]) /\ hand'[c] = None
        <5>1. Len(delivered[c]) + Len(queue[c]) + 1 = Len(delivered[c]) + (Len(queue[c]) + 1)
          BY <3>3, Counts, Zenon
        <5> QED BY <3>1, <3>2, <3>4, <3>5, <5>1, Zenon
      <4> QED BY <4>1 DEF Accounted
    <3>6. CASE hand[c] # None
      <4>1. sent'[c] = Len(delivered'[c]) + Len(queue'[c]) + 1 /\ hand'[c] # None
        <5>1. Len(delivered[c]) + Len(queue[c]) + 1 + 1 = Len(delivered[c]) + (Len(queue[c]) + 1) + 1
          BY <3>3, Counts, Zenon
        <5> QED BY <3>1, <3>2, <3>4, <3>6, <5>1, Zenon
      <4> QED BY <4>1 DEF Accounted
    <3> QED BY <3>5, <3>6
  <2>10. ASSUME NEW d \in Connections, d # c PROVE Lane(d)'
    <3>1. queue'[d] = queue[d] /\ sent'[d] = sent[d]
      BY <1>6, <1>8, <2>10 DEF LaneTypes
    <3>2. WriterStage(d)'
      BY <1>1, <3>1 DEF LaneInv, Lane, WriterStage
    <3> QED BY <1>1, <1>4, <3>1, <3>2, LaneKept
  <2> QED BY <2>2, <2>5, <2>6, <2>8, <2>9, <2>10 DEF LaneInv, Lane
<1> QED BY <1>3, <1>7, <1>8

\* A frame is published to the clients of that moment, and a lane is not touched.
LEMMA LaneStep == ServerInv /\ [Next]_vars => LaneInv'
<1> SUFFICES ASSUME SlotInv, LockInv, LaneInv, [Next]_vars PROVE LaneInv'
  BY DEF ServerInv
<1>1. LockInv'
  BY LockStep
<1>2. CASE Accept \/ Refuse \/ Admit \/ UNCHANGED vars
  <2>1. UNCHANGED <<queue, hand, delivered, writer, sent>> /\ UNCHANGED fanout
    BY <1>2 DEF Accept, Refuse, Admit, lanes, vars
  <2>2. \A c \in Connections : Newest(c)' >= Newest(c)
    BY <2>1, NewestKept, NewestInt
  <2>3. ASSUME NEW c \in Connections PROVE WriterStage(c)'
    <3>1. \/ stage'[c] = stage[c]
          \/ stage[c] = "none" /\ stage'[c] \in {"refused", "handshake"}
      BY <1>2 DEF Accept, Refuse, Admit, registry, vars, SlotInv, Arrivals
    <3>2. WriterStage(c)
      BY DEF LaneInv, Lane
    <3> QED BY <2>1, <3>1, <3>2 DEF WriterStage
  <2> QED BY <1>1, <2>1, <2>2, <2>3, LanesKept
<1>3. ASSUME NEW c \in Connections,
             \/ HelloTaken(c) \/ HelloFails(c) \/ Register(c) \/ DropGuard(c)
             \/ CloneFails(c) \/ Leave(c) \/ Join(c)
      PROVE  LaneInv'
  BY <1>1, <1>3, LaneServed
<1>4. ASSUME NEW c \in Connections, SpawnWriter(c) PROVE LaneInv'
  BY <1>1, <1>4, LaneSpawned
<1>5. ASSUME NEW c \in Connections,
             Take(c) \/ Write(c) \/ WriteFails(c) \/ WriterEnds(c)
      PROVE  LaneInv'
  BY <1>1, <1>5, LaneWritten
<1>6. ASSUME NEW p \in Publishers, Fan(p) PROVE LaneInv'
  BY <1>1, <1>6, LaneTurn
<1>7. ASSUME NEW p \in Publishers, Publish(p) \/ Published(p) PROVE LaneInv'
  <2>1. UNCHANGED <<queue, hand, delivered, writer, sent, stage>>
    BY <1>7 DEF Publish, Published, lanes, registry
  <2>2. \A c \in Connections : Newest(c)' >= Newest(c)
    BY <1>7, NewestPublish, NewestPublished, NewestInt
  <2>3. \A c \in Connections : WriterStage(c)'
    BY <2>1 DEF LaneInv, Lane, WriterStage
  <2> QED BY <1>1, <2>1, <2>2, <2>3, LanesKept
<1>8. ASSUME NEW c \in Connections, Subscribe(c) PROVE LaneInv'
  <2>1. UNCHANGED <<queue, hand, delivered, writer, sent, stage>> /\ UNCHANGED fanout
    BY <1>8 DEF Subscribe, registry
  <2>2. \A d \in Connections : Newest(d)' >= Newest(d)
    BY <2>1, NewestKept, NewestInt
  <2>3. \A d \in Connections : WriterStage(d)'
    BY <2>1 DEF LaneInv, Lane, WriterStage
  <2> QED BY <1>1, <2>1, <2>2, <2>3, LanesKept
<1> QED BY <1>2, <1>3, <1>4, <1>5, <1>6, <1>7, <1>8 DEF Next

LEMMA ServerInvariant == Spec => []ServerInv
<1>1. Init => ServerInv
  BY SlotsInit, LockInit, LaneInit DEF ServerInv
<1>2. ServerInv /\ [Next]_vars => ServerInv'
  BY SlotStep, LockStep, LaneStep DEF ServerInv
<1> QED BY <1>1, <1>2, PTL DEF Spec

\* TelemetryServer!TypeOK: the counter and the map are exactly the connections in
\* their stages, and at most one thread holds the map.
THEOREM ServerTypeCorrect == Spec => []TypeOK
<1>1. ServerInv => TypeOK
  BY DEF ServerInv, SlotInv, Arrivals, Registered, In, InMap, LockInv, LaneInv, LaneTypes,
     Writers, TypeOK
<1> QED BY <1>1, ServerInvariant, PTL

\* TelemetryServer!OneOrder, for any number of publishing threads: the lock alone
\* puts the frames in order, through every queue and every loss.
THEOREM AlwaysOneOrder == Spec => []OneOrder
<1>1. ServerInv => OneOrder
  <2> SUFFICES ASSUME ServerInv, NEW c \in Connections, NEW i \in 1 .. Len(delivered[c]) - 1
               PROVE  delivered[c][i] < delivered[c][i + 1]
    BY DEF OneOrder
  <2>1. Increasing(delivered[c]) /\ delivered[c] \in Seq(Ids)
    BY DEF ServerInv, LaneInv, LaneTypes, Lane, LaneOrdered
  <2>2. Len(delivered[c]) \in Nat
    BY <2>1
  <2>3. i \in 1 .. Len(delivered[c]) /\ i + 1 \in 1 .. Len(delivered[c]) /\ i < i + 1
    BY <2>2
  <2> QED BY <2>1, <2>3 DEF Increasing
<1> QED BY <1>1, ServerInvariant, PTL

\* TelemetryServer!ClosedMeansDrained: a client that leaves is owed nothing.
THEOREM ClosedAlwaysDrained == Spec => []ClosedMeansDrained
<1>1. ServerInv => ClosedMeansDrained
  <2> SUFFICES ASSUME ServerInv, NEW c \in Connections,
                      stage[c] = "closed", writer[c] # "broken", writer[c] # "none"
               PROVE  Len(delivered[c]) = sent[c]
    BY DEF ClosedMeansDrained
  <2>1. /\ LaneTypes /\ WriterStage(c) /\ Accounted(c)
    BY DEF ServerInv, LaneInv, Lane
  <2>2. queue[c] = << >> /\ hand[c] = None
    BY <2>1 DEF LaneTypes, Writers, WriterStage
  <2>3. Len(delivered[c]) \in Nat /\ Len(<< >>) = 0
    BY <2>1 DEF LaneTypes
  <2> QED BY <2>1, <2>2, <2>3 DEF Accounted
<1> QED BY <1>1, ServerInvariant, PTL
=============================================================================
