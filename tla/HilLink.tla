------------------------------- MODULE HilLink -------------------------------
(***************************************************************************)
(* es-ros2/src/hil/link.rs: the UDP front end of a HIL run.  The network   *)
(* loses, duplicates, delays and reorders: a datagram once sent stays in   *)
(* `net` and may be received any number of times, or never.                *)
(*                                                                         *)
(* Received datagrams wait in the socket until the drain at the head of    *)
(* the next tick; nothing reads the link in between, so receiving one by   *)
(* one before Tick is the same.  Session ids are taken as fresh, which the *)
(* code gets from the wall clock and a counter.                            *)
(***************************************************************************)
EXTENDS HilCore

CONSTANTS
  Controllers,    \* the addresses an external controller sends from
  RowCount,       \* rows of every command
  MaxSeq,         \* bound on a controller's seq
  MaxDatagrams,   \* bound on the datagrams the controllers send together
  MaxSession      \* bound on the session counter

Id(d) == [session |-> d.session, seq |-> d.seq]

CommandIn(d) ==
    [id |-> Id(d), obs |-> d.obs,
     rows |-> [i \in 1 .. RowCount |-> [id |-> Id(d), obs |-> d.obs, row |-> i]]]

\* A command is not None, nor are its rows.
ASSUME LinkAssumption ==
    /\ RowCount \in Nat /\ MaxSeq \in Nat
    /\ MaxDatagrams \in Nat /\ MaxSession \in Nat \ {0}
    /\ None \notin Controllers
    /\ \A d \in [session : 0 .. MaxSession, seq : 0 .. MaxSeq, obs : 0 .. MaxTick] :
         None \notin {CommandIn(d), CommandIn(d).rows}

VARIABLES
  link,       \* [session, peer, lastSeq, rxLost]
  net,        \* the datagrams sent to the link
  acks,       \* the sessions HelloAcks announced, and to whom
  ctlSeq,     \* the seq counter of each controller
  accepted,   \* history: [session, seq] of the datagrams accepted, in order
  bases       \* history: the seq each session started from

linkVars == <<link, net, acks, ctlSeq, accepted, bases>>
vars == <<coreVars, linkVars>>

Init ==
    /\ CoreInit
    /\ link = [session |-> 1, peer |-> None, lastSeq |-> 0, rxLost |-> 0]
    /\ net = {} /\ acks = {}
    /\ ctlSeq = [c \in Controllers |-> 0]
    /\ accepted = << >> /\ bases = << >>

-----------------------------------------------------------------------------
(***************************************************************************)
(* The controllers: one seq counter each, kept across handshakes.          *)
(***************************************************************************)
Send(c, kind, session, obs) ==
    /\ ctlSeq[c] < MaxSeq /\ Cardinality(net) < MaxDatagrams
    /\ ctlSeq' = [ctlSeq EXCEPT ![c] = @ + 1]
    /\ net' = net \cup {[from |-> c, kind |-> kind, session |-> session,
                         seq |-> ctlSeq[c] + 1, obs |-> obs]}
    /\ UNCHANGED <<coreVars, link, acks, accepted, bases>>

\* A controller of another deployment says "HelloOther".
SendHello(c) == \E kind \in {"Hello", "HelloOther"} : Send(c, kind, 0, 0)

SendInSession(c) ==
    \E ack \in acks, kind \in {"Command", "Heartbeat", "Bye"}, obs \in 0 .. now :
      /\ ack.to = c /\ Send(c, kind, ack.session, obs)
      /\ kind # "Command" => obs = 0

-----------------------------------------------------------------------------
WrongOpenSessionSameId(d) ==
    [link EXCEPT !.peer = d.from, !.lastSeq = d.seq]

\* hello: a fresh session, whose seq starts from the Hello's own.
OpenSession(d) ==
    [link EXCEPT !.peer = d.from, !.session = @ + 1, !.lastSeq = d.seq]

Hello(d) ==
    /\ d.kind = "Hello" /\ d.session = 0
    /\ link.session < MaxSession
    /\ link' = OpenSession(d)
    /\ acks' = acks \cup {[to |-> d.from, session |-> link'.session]}
    /\ bases' = Append(bases, [session |-> link'.session, seq |-> d.seq])
    /\ UNCHANGED <<coreVars, net, ctlSeq, accepted>>

WrongFreshAnySeq(d) == d.session = link.session /\ d.from = link.peer

\* A datagram of the open session, from its peer, newer than all before it.
\* Every other one is counted and dropped.
FreshInSession(d) ==
    /\ d.session = link.session /\ d.from = link.peer
    /\ d.seq > link.lastSeq

WrongAdvanceCountsSeq(d) ==
    [link EXCEPT !.rxLost = @ + (d.seq - link.lastSeq), !.lastSeq = d.seq]

Advanced(d) ==
    [link EXCEPT !.rxLost = @ + (d.seq - link.lastSeq - 1), !.lastSeq = d.seq]

AcceptDatagram(d) ==
    /\ d.kind \notin {"Hello", "HelloOther"} /\ FreshInSession(d)
    /\ link' = [Advanced(d) EXCEPT !.peer = IF d.kind = "Bye" THEN None ELSE @]
    /\ accepted' = Append(accepted, Id(d))
    /\ CASE d.kind = "Command" -> OnCommand(CommandIn(d))
         [] d.kind = "Heartbeat" -> OnHeartbeat
         [] OTHER -> UNCHANGED coreVars
    /\ UNCHANGED <<net, acks, ctlSeq, bases>>

Receive == ~ended /\ \E d \in net : Hello(d) \/ AcceptDatagram(d)

\* drain, observe, step, and the State that answers (any tick up to now is one
\* a controller may have seen).
LinkTick(pose) ==
    /\ Tick(pose)
    /\ UNCHANGED <<link, net, acks, ctlSeq, accepted, bases>>

LinkFinish == Finish /\ UNCHANGED linkVars

Next ==
    \/ \E c \in Controllers : SendHello(c) \/ SendInSession(c)
    \/ Receive
    \/ \E pose \in Poses : LinkTick(pose)
    \/ LinkFinish

Spec == Init /\ [][Next]_vars

-----------------------------------------------------------------------------
(***************************************************************************)
(* Properties.                                                             *)
(***************************************************************************)
TypeOK ==
    /\ link \in [session : 1 .. MaxSession, peer : Controllers \cup {None},
                 lastSeq : 0 .. MaxSeq, rxLost : Nat]
    /\ \A d \in net : d.session \in 0 .. link.session /\ d.seq \in 1 .. ctlSeq[d.from]
    /\ \A ack \in acks : ack.session \in 2 .. link.session
    /\ core.plane.held.seq \in NoSeq .. core.seq
    /\ core.seq = stats.commands
    /\ logError \in BOOLEAN /\ ended \in BOOLEAN /\ pendingBeat \in BOOLEAN
    /\ Len(hash) = now
    /\ lastObsTick \in 0 .. now \cup {None}
    /\ ctlSeq \in [Controllers -> 0 .. MaxSeq]

\* The commands the controllers sent.
Sent == {Id(d) : d \in {e \in net : e.kind = "Command"}}

\* What the core is given, whatever becomes of its log: a recorded Hello and
\* Command do not replay, a duplicate or a late datagram does not run, and a session that took over is never overtaken again.
Stream == INSTANCE CommandStream WITH sent <- Sent, done <- given
CommandStreamSpec == Stream!Spec

Skipped == {n \in (2 .. MaxSession) \X (1 .. MaxSeq) :
              /\ \E b \in DOMAIN bases : bases[b].session = n[1] /\ bases[b].seq < n[2]
              /\ \E a \in DOMAIN accepted : accepted[a].session = n[1] /\ accepted[a].seq > n[2]
              /\ \A a \in DOMAIN accepted : accepted[a] # [session |-> n[1], seq |-> n[2]]}

\* rx_lost is exact: it counts the numbers each session skipped, once each, and
\* a reordered datagram that was counted lost is never accepted afterwards.
LostAreSkipped == link.rxLost = Cardinality(Skipped)
=============================================================================
