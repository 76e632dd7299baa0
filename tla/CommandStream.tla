---------------------------- MODULE CommandStream ----------------------------
(***************************************************************************)
(* What the HIL link promises the robot, whatever the network does: a      *)
(* command runs only if a controller sent it, at most once, and never      *)
(* after a command of a later session or a later command of its own.       *)
(* An identity is [session, seq].                                          *)
(***************************************************************************)
EXTENDS Integers, Sequences

VARIABLES sent, done   \* the commands sent, and those executed, in order

Before(a, b) ==
    a.session < b.session \/ (a.session = b.session /\ a.seq < b.seq)

Init == sent = {} /\ done = << >>

Send(id) == sent' = sent \cup {id} /\ UNCHANGED done

Execute(id) ==
    /\ \A i \in DOMAIN done : Before(done[i], id)
    /\ done' = Append(done, id)
    /\ UNCHANGED sent

Next == \/ \E id \in sent' : Send(id)
        \/ \E id \in sent : Execute(id)

Spec == Init /\ [][Next]_<<sent, done>>
=============================================================================
