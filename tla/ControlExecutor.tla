--------------------------- MODULE ControlExecutor ---------------------------
(***************************************************************************)
(* es-env/src/control.rs: the stage machine of one env, a stack of frames  *)
(* from the root of the control graph down to the active SubTask.  A node  *)
(* is [kind, children, count, timeout, predicate]: count 0 is an Until, and *)
(* a SubTask without a success predicate completes on its first step.      *)
(* The expressions are free: an assignment of truth values to the nodes    *)
(* stands for the port map one walk reads.  ControlGraph::validate refuses *)
(* everything but a tree whose children exist, so no reference dangles.    *)
(***************************************************************************)
EXTENDS Integers, Sequences

CONSTANTS
  MaxDescent,   \* MAX_DESCENT: iterations one walk may take
  Graphs,       \* the control graphs a run may be started with
  Root, NoNode

VARIABLE graph  \* the one it was started with; no step changes it

ASSUME ControlAssumption ==
    /\ MaxDescent \in Nat \ {0}
    /\ \A g \in Graphs :
         /\ Root \in DOMAIN g /\ NoNode \notin DOMAIN g
         /\ \A n \in DOMAIN g :
              /\ g[n].kind \in {"Sequence", "Branch", "Repeat", "SubTask"}
              /\ g[n].children \in Seq(DOMAIN g \ {Root})
              /\ g[n].kind = "Branch" => Len(g[n].children) = 2
              /\ g[n].kind = "Repeat" => Len(g[n].children) = 1
              /\ g[n].count \in Nat
              /\ g[n].kind = "SubTask" => g[n].timeout \in Nat \ {0}
         \* A tree has no cycle: in any set of its nodes there is one with no child in it.
         /\ \A S \in (SUBSET DOMAIN g) \ {{}} :
              \E n \in S : \A i \in DOMAIN g[n].children : g[n].children[i] \notin S

\* The nodes a walk decides at, and what it may find their expressions evaluate to.
Deciding == {n \in DOMAIN graph : \/ graph[n].kind = "Branch"
                                  \/ graph[n].kind = "Repeat" /\ graph[n].count = 0}
Conditions == {[n \in DOMAIN graph |-> n \in true] : true \in SUBSET Deciding}
NoConditions == [n \in DOMAIN graph |-> FALSE]

IdleStage == [stack |-> << >>, ticks |-> 0, scored |-> NoNode,
              started |-> FALSE, done |-> FALSE, failed |-> FALSE]

Frame(n, index) == [node |-> n, index |-> index]
Top(stack) == stack[Len(stack)]
Below(stack) == SubSeq(stack, 1, Len(stack) - 1)

\* Variants named Wrong* are the plausible slips each property is run against.
WrongAgain(frame, holds) ==
    IF graph[frame.node].count > 0 THEN frame.index < graph[frame.node].count
                                   ELSE ~holds[frame.node]

\* Does the loop the finished frame stands for take another round?
Again(frame, holds) ==
    IF graph[frame.node].count > 0 THEN frame.index + 1 < graph[frame.node].count
                                   ELSE ~holds[frame.node]

\* The arm of a Branch is chosen here, once, and lives in the frame from now on.
Arm(n, holds) == IF graph[n].kind = "Branch" /\ ~holds[n] THEN 1 ELSE 0

Descend(walk, holds) ==
    LET n == walk.pending
        arm == Arm(n, holds)
        stage == graph[n].kind = "SubTask"
    IN  [stack |-> Append(walk.stack, Frame(n, arm)),
         pending |-> IF stage THEN NoNode ELSE graph[n].children[arm + 1],
         at |-> IF stage THEN "stage" ELSE "walking"]

\* The finished frame is popped, and its parent asked for the next child.
Pop(walk, holds) ==
    LET frame == Top(walk.stack)
        node == graph[frame.node]
        next == frame.index + 2
    IN  CASE node.kind = "Sequence" /\ next \in DOMAIN node.children ->
               [walk EXCEPT !.stack = Append(Below(@), Frame(frame.node, frame.index + 1)),
                            !.pending = node.children[next]]
          [] node.kind = "Repeat" /\ Again(frame, holds) ->
               [walk EXCEPT !.stack = Append(Below(@), Frame(frame.node, frame.index + 1)),
                            !.pending = node.children[1]]
          [] OTHER -> [walk EXCEPT !.stack = Below(@), !.pending = NoNode]

\* One iteration of the loop.  An empty Sequence is pushed and popped in one.
Iterate(walk, holds) ==
    IF walk.at # "walking" THEN walk
    ELSE IF walk.pending # NoNode /\ graph[walk.pending].kind = "Sequence"
                                  /\ graph[walk.pending].children = << >>
      THEN [walk EXCEPT !.pending = NoNode]
    ELSE IF walk.pending # NoNode THEN Descend(walk, holds)
    ELSE IF walk.stack = << >> THEN [walk EXCEPT !.at = "end"]
    ELSE Pop(walk, holds)

\* run: until the top frame is a stage, the stack is empty, or the walk is cut off.
Run(stage, pending, holds) ==
    LET first == [stack |-> stage.stack, pending |-> pending, at |-> "walking"]
        walk[i \in 0 .. MaxDescent] ==
          IF i = 0 THEN first
          ELSE CHOOSE w \in {Iterate(v, holds) : v \in {walk[i - 1]}} : TRUE
        last == walk[MaxDescent]
    IN  [stage EXCEPT !.stack = last.stack,
                      !.ticks = IF last.at = "stage" THEN 0 ELSE @,
                      !.done = last.at # "stage",
                      !.failed = last.at = "walking"]

Entered(stage, entry) ==
    IF stage.started THEN stage
    ELSE Run([stage EXCEPT !.started = TRUE], Root, entry)

\* The stage's timeout is looked at before its success, and counts its own ticks.  A
\* walk cut off on entry may have stopped short of a stage: that fails the episode too.
WrongTimedOut(node, ticks) == graph[node].kind # "SubTask" \/ ticks > graph[node].timeout
TimedOut(node, ticks) == graph[node].kind # "SubTask" \/ ticks >= graph[node].timeout

Advanced(stage, complete, holds) ==
    LET node == Top(stage.stack).node
        ticked == [stage EXCEPT !.ticks = @ + 1, !.scored = node]
    IN  IF TimedOut(node, ticked.ticks)
          THEN [ticked EXCEPT !.done = TRUE, !.failed = TRUE]
        ELSE IF complete \/ ~graph[node].predicate THEN Run(ticked, NoNode, holds)
        ELSE ticked

\* step: entry happens on the first step of the episode, not at the reset.
ControlStep(stage, entry, complete, holds) ==
    LET entered == Entered(stage, entry)
    IN  IF stage.done THEN stage
        ELSE IF entered.stack = << >>
          THEN [entered EXCEPT !.done = TRUE, !.scored = NoNode]
        ELSE Advanced(entered, complete, holds)
=============================================================================
