--------------------------- MODULE TelemetryServer ---------------------------
(***************************************************************************)
(* es-telemetry/src/transport.rs: one accept loop, a reader and a writer   *)
(* thread per client, and any number of threads that publish.  They share  *)
(* the client map behind one mutex, the handshaking counter, and one       *)
(* bounded queue per client.  A connection is its session id, which is     *)
(* the order in which it was accepted.                                     *)
(***************************************************************************)
EXTENDS Integers, Sequences, FiniteSets, FiniteSetsExt

CONSTANTS
  MaxClients,       \* max_clients
  QueueCapacity,    \* CLIENT_QUEUE_CAPACITY
  Streams,
  Publishers,       \* the threads that call publish
  None,
  MaxConnections, MaxFrames   \* bounds on the runs TLC explores

ASSUME ServerAssumption ==
    /\ MaxClients \in Nat /\ QueueCapacity \in Nat \ {0}
    /\ MaxConnections \in Nat /\ MaxFrames \in Nat
    /\ None \notin Publishers /\ None \notin Nat

Connections == 1 .. MaxConnections

VARIABLES
  arrived,      \* next_id: how many connections the accept loop has taken
  counted,      \* the handshaking counter as the accept loop last read it, or None
  handshaking,  \* the counter itself
  stage,        \* where serve_client is
  clients,      \* the ids in the client map
  lock,         \* the publisher that holds the map's mutex, or None
  publishing,   \* per publisher: [id, stream, todo], or None
  subscribed, queue, hand,    \* per client: streams, queue, frame being written
  writer,       \* per client: "none", "running", "broken" or "done"
  sent, dropped,
  published, delivered        \* history: frames published, ids each peer received

accepting == <<arrived, counted>>
registry == <<handshaking, stage, clients>>
fanout == <<lock, publishing, published>>
lanes == <<subscribed, queue, hand, writer, sent, dropped, delivered>>
vars == <<accepting, registry, fanout, lanes>>

Init ==
    /\ arrived = 0 /\ counted = None /\ handshaking = 0
    /\ stage = [c \in Connections |-> "none"]
    /\ clients = {} /\ lock = None
    /\ publishing = [p \in Publishers |-> None]
    /\ subscribed = [c \in Connections |-> {}]
    /\ queue = [c \in Connections |-> << >>]
    /\ hand = [c \in Connections |-> None]
    /\ writer = [c \in Connections |-> "none"]
    /\ sent = [c \in Connections |-> 0] /\ dropped = [c \in Connections |-> 0]
    /\ published = 0 /\ delivered = [c \in Connections |-> << >>]

Unlocked == lock = None

-----------------------------------------------------------------------------
\* Variants named Wrong* are the plausible slips each property is run against.
WrongLoads == <<Cardinality(clients), handshaking>>

\* The accept loop's two reads, in the order it makes them: a connection moves from
\* the counter to the map, and is in both before it leaves the first.
Loads == <<handshaking, Cardinality(clients)>>

Accept ==
    /\ counted = None /\ arrived < MaxConnections
    /\ arrived' = arrived + 1
    /\ counted' = Loads[1]
    /\ UNCHANGED <<registry, fanout, lanes>>

InFlight == counted + Loads[2]

Refuse ==
    /\ counted # None /\ Unlocked
    /\ InFlight >= MaxClients
    /\ counted' = None
    /\ stage' = [stage EXCEPT ![arrived] = "refused"]
    /\ UNCHANGED <<arrived, handshaking, clients, fanout, lanes>>

Admit ==
    /\ counted # None /\ Unlocked
    /\ InFlight < MaxClients
    /\ counted' = None
    /\ handshaking' = handshaking + 1
    /\ stage' = [stage EXCEPT ![arrived] = "handshake"]
    /\ UNCHANGED <<arrived, clients, fanout, lanes>>

-----------------------------------------------------------------------------
(***************************************************************************)
(* serve_client.                                                           *)
(***************************************************************************)
At(c, from, to) == stage[c] = from /\ stage' = [stage EXCEPT ![c] = to]

\* A Hello the server takes, and the HelloAck.
HelloTaken(c) ==
    /\ At(c, "handshake", "acknowledged")
    /\ UNCHANGED <<accepting, handshaking, clients, fanout, lanes>>

\* The deadline, a closed socket, another message, a version or token refused:
\* every early return drops the guard.
HelloFails(c) ==
    /\ At(c, "handshake", "closed")
    /\ handshaking' = handshaking - 1
    /\ UNCHANGED <<accepting, clients, fanout, lanes>>

Register(c) ==
    /\ At(c, "acknowledged", "registered") /\ Unlocked
    /\ clients' = clients \cup {c}
    /\ UNCHANGED <<accepting, handshaking, fanout, lanes>>

\* Only now is the slot the counter held given back.
DropGuard(c) ==
    /\ At(c, "registered", "guarded")
    /\ handshaking' = handshaking - 1
    /\ UNCHANGED <<accepting, clients, fanout, lanes>>

SpawnWriter(c) ==
    /\ At(c, "guarded", "serving")
    /\ writer' = [writer EXCEPT ![c] = "running"]
    /\ UNCHANGED <<accepting, handshaking, clients, fanout, subscribed, queue, hand,
                   sent, dropped, delivered>>

CloneFails(c) ==
    /\ At(c, "guarded", "closed") /\ Unlocked
    /\ clients' = clients \ {c}
    /\ UNCHANGED <<accepting, handshaking, fanout, lanes>>

\* Each Subscribe replaces the set.
Subscribe(c) ==
    /\ stage[c] = "serving"
    /\ \E streams \in SUBSET Streams : subscribed' = [subscribed EXCEPT ![c] = streams]
    /\ UNCHANGED <<accepting, registry, fanout, queue, hand, writer, sent, dropped,
                   delivered>>

\* Bye, or a read that fails: leave the map, then wait for the writer.
Leave(c) ==
    /\ At(c, "serving", "joining") /\ Unlocked
    /\ clients' = clients \ {c}
    /\ UNCHANGED <<accepting, handshaking, fanout, lanes>>

Join(c) ==
    /\ At(c, "joining", "closed")
    /\ writer[c] \in {"broken", "done"}
    /\ UNCHANGED <<accepting, handshaking, clients, fanout, lanes>>

-----------------------------------------------------------------------------
(***************************************************************************)
(* The writer thread.  Dropping the map entry drops the sender, and recv   *)
(* ends only once the queue is empty too.                                  *)
(***************************************************************************)
Writing(c) == writer[c] = "running" /\ hand[c] # None

Take(c) ==
    /\ writer[c] = "running" /\ hand[c] = None /\ queue[c] # << >>
    /\ hand' = [hand EXCEPT ![c] = Head(queue[c])]
    /\ queue' = [queue EXCEPT ![c] = Tail(@)]
    /\ UNCHANGED <<accepting, registry, fanout, subscribed, writer, sent, dropped,
                   delivered>>

Write(c) ==
    /\ Writing(c)
    /\ delivered' = [delivered EXCEPT ![c] = Append(@, hand[c])]
    /\ hand' = [hand EXCEPT ![c] = None]
    /\ UNCHANGED <<accepting, registry, fanout, subscribed, queue, writer, sent, dropped>>

\* The write that fails ends the thread, and the receiver and its queue with it.
WriteFails(c) ==
    /\ Writing(c)
    /\ writer' = [writer EXCEPT ![c] = "broken"]
    /\ hand' = [hand EXCEPT ![c] = None]
    /\ queue' = [queue EXCEPT ![c] = << >>]
    /\ UNCHANGED <<accepting, registry, fanout, subscribed, sent, dropped, delivered>>

WrongWriterEnds(c) ==
    /\ writer[c] = "running" /\ hand[c] = None
    /\ c \notin clients
    /\ writer' = [writer EXCEPT ![c] = "done"]
    /\ UNCHANGED <<accepting, registry, fanout, subscribed, queue, hand, sent, dropped,
                   delivered>>

WriterEnds(c) ==
    /\ writer[c] = "running" /\ hand[c] = None /\ queue[c] = << >>
    /\ c \notin clients
    /\ writer' = [writer EXCEPT ![c] = "done"]
    /\ UNCHANGED <<accepting, registry, fanout, subscribed, queue, hand, sent, dropped,
                   delivered>>

-----------------------------------------------------------------------------
(***************************************************************************)
(* publish: the map stays locked while the frame goes to one client after  *)
(* the other, in id order.  Locking a client's set is part of its turn.    *)
(***************************************************************************)
WrongMayPublish(p) == TRUE   \* fans out over a copy of the map

MayPublish(p) == Unlocked

Publish(p) ==
    /\ publishing[p] = None /\ published < MaxFrames
    /\ MayPublish(p)
    /\ lock' = p
    /\ published' = published + 1
    /\ \E stream \in Streams :
         publishing' = [publishing EXCEPT
           ![p] = [id |-> published + 1, stream |-> stream, todo |-> clients]]
    /\ UNCHANGED <<accepting, registry, lanes>>

HasRoom(c) == writer[c] # "broken" /\ Len(queue[c]) < QueueCapacity

WrongTurn(p) ==   \* send, which waits for room
    LET c == Min(publishing[p].todo)
        wanted == publishing[p].stream \in subscribed[c]
    IN  /\ wanted => HasRoom(c)
        /\ publishing' = [publishing EXCEPT ![p].todo = @ \ {c}]
        /\ queue' = [queue EXCEPT ![c] = IF wanted THEN Append(@, publishing[p].id) ELSE @]
        /\ sent' = [sent EXCEPT ![c] = IF wanted THEN @ + 1 ELSE @]
        /\ UNCHANGED dropped

\* try_send: a full queue, or one whose writer has gone, drops the frame.
Turn(p) ==
    LET c == Min(publishing[p].todo)
        wanted == publishing[p].stream \in subscribed[c]
    IN  /\ publishing' = [publishing EXCEPT ![p].todo = @ \ {c}]
        /\ \/ /\ wanted /\ HasRoom(c)
              /\ queue' = [queue EXCEPT ![c] = Append(@, publishing[p].id)]
              /\ sent' = [sent EXCEPT ![c] = @ + 1]
              /\ UNCHANGED dropped
           \/ /\ wanted /\ ~HasRoom(c)
              /\ dropped' = [dropped EXCEPT ![c] = @ + 1]
              /\ UNCHANGED <<queue, sent>>
           \/ ~wanted /\ UNCHANGED <<queue, sent, dropped>>

Fan(p) ==
    /\ publishing[p] # None /\ publishing[p].todo # {}
    /\ Turn(p)
    /\ UNCHANGED <<accepting, registry, lock, published, subscribed, hand, writer,
                   delivered>>

Published(p) ==
    /\ publishing[p] # None /\ publishing[p].todo = {}
    /\ publishing' = [publishing EXCEPT ![p] = None]
    /\ lock' = None
    /\ UNCHANGED <<accepting, registry, published, lanes>>

-----------------------------------------------------------------------------
Next ==
    \/ Accept \/ Refuse \/ Admit
    \/ \E c \in Connections :
         \/ HelloTaken(c) \/ HelloFails(c) \/ Register(c) \/ DropGuard(c)
         \/ SpawnWriter(c) \/ CloneFails(c) \/ Subscribe(c) \/ Leave(c) \/ Join(c)
         \/ Take(c) \/ Write(c) \/ WriteFails(c) \/ WriterEnds(c)
    \/ \E p \in Publishers : Publish(p) \/ Fan(p) \/ Published(p)

(***************************************************************************)
(* A publishing thread that can take its next step does.  Nothing is       *)
(* assumed of the peers: they may never read, and never say Hello.         *)
(***************************************************************************)
Fairness == \A p \in Publishers : WF_vars(Fan(p) \/ Published(p))

Spec == Init /\ [][Next]_vars /\ Fairness

-----------------------------------------------------------------------------
(***************************************************************************)
(* Properties.                                                             *)
(***************************************************************************)
Guarding == {"handshake", "acknowledged", "registered"}
Admitted == Guarding \cup {"guarded", "serving"}

TypeOK ==
    /\ counted \in Nat \cup {None}
    /\ handshaking = Cardinality({c \in Connections : stage[c] \in Guarding})
    /\ clients = {c \in Connections : stage[c] \in {"registered", "guarded", "serving"}}
    /\ \A c \in Connections :
         /\ Len(queue[c]) <= QueueCapacity
         /\ writer[c] \in {"none", "running", "broken", "done"}
    /\ \A p \in Publishers : publishing[p] # None =>
         lock = p /\ publishing[p].todo \subseteq clients

\* The cap holds across the threads it is checked between: admitted connections,
\* in their handshake or registered, never outnumber max_clients, though the
\* accept loop reads the counter and the map one after the other.
SlotsWithinCap ==
    Cardinality({c \in Connections : stage[c] \in Admitted}) <= MaxClients

\* All clients see the frames in one order, the order in which publish took the
\* map's lock, whichever threads publish and whatever is dropped on the way.
OneOrder ==
    \A c \in Connections : \A i \in 1 .. Len(delivered[c]) - 1 :
      delivered[c][i] < delivered[c][i + 1]

\* A client that leaves gets what was queued for it: its thread ends only after
\* the frames counted as sent were written, unless a write failed.
ClosedMeansDrained ==
    \A c \in Connections :
      stage[c] = "closed" /\ writer[c] # "broken" /\ writer[c] # "none" =>
        Len(delivered[c]) = sent[c]

\* publish never waits for a peer: whoever holds the map's lock gives it back,
\* though no client reads what it was sent.
PublishCompletes == ~Unlocked ~> Unlocked
=============================================================================
