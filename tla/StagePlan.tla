------------------------------ MODULE StagePlan ------------------------------
(***************************************************************************)
(* What a control graph promises (docs/design/control-graph.md): the       *)
(* stages of an episode, in the order the tree unrolls to.  A plan is the  *)
(* list of what is still to do, the active stage first; the whole graph    *)
(* is one item of it.  A loop is an item with the number of rounds begun.  *)
(***************************************************************************)
EXTENDS Integers, Sequences

CONSTANTS Envs, Root,
          Unfolding   \* items one step may unfold, enough for the trees checked

VARIABLES graph, todo, outcome

Item(n, rounds) == [node |-> n, rounds |-> rounds]

Again(item, holds) ==
    LET node == graph[item.node]
    IN  \/ item.rounds = 0
        \/ IF node.count > 0 THEN item.rounds < node.count ELSE ~holds[item.node]

\* The first item replaced by what it consists of.
Unfold(plan, holds) ==
    LET item == Head(plan)
        node == graph[item.node]
        children == node.children
    IN  CASE node.kind = "Sequence" ->
               [i \in DOMAIN children |-> Item(children[i], 0)] \o Tail(plan)
          [] node.kind = "Branch" ->
               <<Item(children[IF holds[item.node] THEN 1 ELSE 2], 0)>> \o Tail(plan)
          [] node.kind = "Repeat" ->
               IF Again(item, holds)
                 THEN <<Item(children[1], 0), Item(item.node, item.rounds + 1)>> \o Tail(plan)
                 ELSE Tail(plan)

Settled(plan) == plan = << >> \/ graph[Head(plan).node].kind = "SubTask"

Settle(plan, holds) ==
    LET steps[n \in 0 .. Unfolding] ==
          IF n = 0 THEN plan
          ELSE CHOOSE p \in {IF Settled(q) THEN q ELSE Unfold(q, holds) :
                                q \in {steps[n - 1]}} : TRUE
    IN  steps[Unfolding]

Deciding == {n \in DOMAIN graph : \/ graph[n].kind = "Branch"
                                  \/ graph[n].kind = "Repeat" /\ graph[n].count = 0}

\* The plans one is turned into by what the conditions may hold.
Outcomes(plan) ==
    IF Settled(plan) THEN {plan}
    ELSE {Settle(plan, [n \in DOMAIN graph |-> n \in true]) : true \in SUBSET Deciding}

Fresh == <<Item(Root, 0)>>

Init ==
    /\ todo = [e \in Envs |-> Fresh]
    /\ outcome = [e \in Envs |-> "running"]

\* A step enters the graph if it is the first, and completes the active stage or not.
Advance(e) ==
    /\ outcome[e] = "running"
    /\ \E active \in Outcomes(todo[e]) :
         /\ Settled(active)
         /\ todo'[e] \in {active} \cup
              IF active = << >> THEN {} ELSE Outcomes(Tail(active))
         /\ Settled(todo'[e])
         /\ outcome'[e] = IF todo'[e] = << >> THEN "success" ELSE "running"

Fail(e) ==
    /\ outcome[e] = "running"
    /\ todo'[e] = << >> /\ outcome'[e] = "failure"

Restart(e) == todo'[e] = Fresh /\ outcome'[e] = "running"

Keep(e) == todo'[e] = todo[e] /\ outcome'[e] = outcome[e]

Next ==
    /\ \A e \in Envs : Keep(e) \/ Advance(e) \/ Fail(e) \/ Restart(e)
    /\ UNCHANGED graph

Spec == Init /\ [][Next]_<<graph, todo, outcome>>
=============================================================================
