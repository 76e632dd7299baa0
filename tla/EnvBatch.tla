------------------------------- MODULE EnvBatch -------------------------------
(***************************************************************************)
(* es-env/src/env.rs and episode.rs: `Env::step` takes the envs of a batch *)
(* in ascending order, evaluates the task's termination and the control    *)
(* graph of each, records a row, and at the end resets every env whose     *)
(* episode is over.  Physics, ports, rewards, the randomization draws and  *)
(* the numbers in a row are left out; a row is its `done` flag.            *)
(***************************************************************************)
EXTENDS ControlExecutor, FiniteSets

CONSTANTS
  NumEnvs,
  MaxEpisodeSteps,   \* the episode budget; 0 is none
  HoldTicks          \* hold_ticks of the task's one Terminate node

ASSUME EnvAssumption ==
    /\ NumEnvs \in Nat \ {0} /\ MaxEpisodeSteps \in Nat
    /\ HoldTicks \in Nat \ {0}

Envs == 0 .. NumEnvs - 1

VARIABLES
  cursor,     \* the env Env::step has come to; between two steps, 0
  ended,      \* to_reset: the envs whose termination this step has decided
  stage,      \* of each env: the state of the control executor,
  steps,      \* its control steps in this episode,
  held,       \* the ticks in a row its termination has held,
  quarantined,
  rows        \* and what the recorder has of the open episode

vars == <<graph, cursor, ended, stage, steps, held, quarantined, rows>>

Init ==
    /\ graph \in Graphs
    /\ cursor = 0 /\ ended = {}
    /\ stage = [e \in Envs |-> IdleStage]
    /\ steps = [e \in Envs |-> 0] /\ held = [e \in Envs |-> 0]
    /\ quarantined = {}
    /\ rows = [e \in Envs |-> << >>]

\* The task's termination fires when it has held for HoldTicks ticks in a row.
HeldAfter(e, holds) == IF holds THEN held[e] + 1 ELSE 0
BudgetSpent(n) == MaxEpisodeSteps > 0 /\ n >= MaxEpisodeSteps

\* Variants named Wrong* are the plausible slips each property is run against.
WrongRecords(excluded, done) == ~excluded

\* A quarantined env is out of the dataset, but for the row that ends its episode.
Records(excluded, done) == ~excluded \/ done

\* One env of Env::step.  A failed env is quarantined or its episode aborted, by the
\* failure policy; a policy that records the failure goes on as if there were none.
Evaluate ==
    /\ cursor < NumEnvs
    /\ \E holds, complete \in BOOLEAN, failure \in {"none", "quarantine", "abort"},
          entry \in IF stage[cursor].started THEN {NoConditions} ELSE Conditions,
          conditions \in Conditions :
         LET e == cursor
             after == ControlStep(stage[e], entry, complete, conditions)
             done == \/ HeldAfter(e, holds) >= HoldTicks
                     \/ BudgetSpent(steps[e] + 1)
                     \/ after.done \/ failure # "none"
         IN  /\ steps' = [steps EXCEPT ![e] = @ + 1]
             /\ held' = [held EXCEPT ![e] = HeldAfter(e, holds)]
             /\ stage' = [stage EXCEPT ![e] = after]
             /\ quarantined' = IF failure = "quarantine" THEN quarantined \cup {e}
                                                         ELSE quarantined
             /\ rows' = IF Records(e \in quarantined', done)
                          THEN [rows EXCEPT ![e] = Append(@, done)] ELSE rows
             /\ ended' = IF done THEN ended \cup {e} ELSE ended
    /\ cursor' = cursor + 1
    /\ UNCHANGED graph

\* What an env had counted is forgotten with the episode it was counted in.
Zeroed(f, envs) == [e \in Envs |-> IF e \in envs THEN 0 ELSE f[e]]

ResetEnvs(envs) ==
    /\ steps' = Zeroed(steps, envs)
    /\ held' = Zeroed(held, envs)
    /\ quarantined' = quarantined \ envs
    /\ stage' = [e \in Envs |-> IF e \in envs THEN IdleStage ELSE stage[e]]
    /\ rows' = [e \in Envs |-> IF e \in envs THEN << >> ELSE rows[e]]

WrongClosing == {e \in ended : ~stage[e].failed}
Closing == ended

\* The end of Env::step: every episode it has ended is handed out, and the next drawn.
CloseStep ==
    /\ cursor = NumEnvs
    /\ ResetEnvs(Closing)
    /\ cursor' = 0 /\ ended' = {}
    /\ UNCHANGED graph

\* Env::reset, called between two steps, closes episodes that may not be over.
Reset ==
    /\ cursor = 0
    /\ \E envs \in (SUBSET Envs) \ {{}} : ResetEnvs(envs)
    /\ UNCHANGED <<graph, cursor, ended>>

Next == Evaluate \/ CloseStep \/ Reset

Spec == Init /\ [][Next]_vars

-----------------------------------------------------------------------------
(***************************************************************************)
(* Properties.                                                             *)
(***************************************************************************)
\* Ranges, and what a decided termination implies: only an env that this step has
\* ended is quarantined or finished (env.rs 380-425), and the ticks a termination has
\* held are ticks of the episode (env.rs 278).
TypeOK ==
    /\ cursor \in 0 .. NumEnvs /\ ended \subseteq Envs
    /\ quarantined \subseteq ended
    /\ \A e \in Envs :
         /\ steps[e] \in Nat /\ held[e] \in 0 .. HoldTicks /\ held[e] <= steps[e]
         /\ rows[e] \in Seq(BOOLEAN)
         /\ stage[e].done => e \in ended

Todo(n, rounds) == [node |-> n, rounds |-> rounds]

\* The rest of an episode that has reached frame f of tree g: what its node has still
\* to do once the frame above it is finished.
RestOf(g, f) ==
    LET children == g[f.node].children IN
    CASE g[f.node].kind = "SubTask" -> <<Todo(f.node, 0)>>
      [] g[f.node].kind = "Repeat" -> <<Todo(f.node, f.index + 1)>>
      [] g[f.node].kind = "Branch" -> << >>
      [] g[f.node].kind = "Sequence" ->
           [i \in 1 .. Len(children) - f.index - 1 |->
              Todo(children[f.index + 1 + i], 0)]

RestOfStack(g, stack) ==
    LET rest[k \in 0 .. Len(stack)] ==
          IF k = 0 THEN << >> ELSE RestOf(g, stack[k]) \o rest[k - 1]
    IN  rest[Len(stack)]

PlanOf(g, s) ==
    IF s.done THEN << >>
    ELSE IF ~s.started THEN <<Todo(Root, 0)>>
    ELSE RestOfStack(g, s.stack)

OutcomeOf(s) == IF ~s.done THEN "running" ELSE IF s.failed THEN "failure" ELSE "success"

\* The stack machine runs the stages the tree unrolls to, in that order and no
\* other, whatever the conditions say and whenever an env is reset: a loop takes
\* its rounds, a Branch one arm, and a stage that is done is not entered again.
Plan == INSTANCE StagePlan WITH
          Unfolding <- MaxDescent,
          todo <- [e \in Envs |-> PlanOf(graph, stage[e])],
          outcome <- [e \in Envs |-> OutcomeOf(stage[e])]
StagesFollowPlan == Plan!Spec

Total(numbers) ==
    LET total[k \in 0 .. Len(numbers)] == IF k = 0 THEN 0 ELSE total[k - 1] + numbers[k]
    IN  total[Len(numbers)]

\* What the timeouts of a tree without Until leave an env: a stage whose own ticks
\* reach its timeout ends the episode, so a stage that is passed took fewer.
BudgetFrom(g, budget, n) ==
    LET children == g[n].children
    IN  CASE g[n].kind = "SubTask" -> g[n].timeout - 1
          [] g[n].kind = "Sequence" -> Total([i \in DOMAIN children |-> budget[children[i]]])
          [] g[n].kind = "Branch" ->
               IF budget[children[1]] > budget[children[2]]
                 THEN budget[children[1]] ELSE budget[children[2]]
          [] g[n].kind = "Repeat" -> g[n].count * budget[children[1]]

BudgetOf(g) ==
    LET budget[n \in DOMAIN g] == BudgetFrom(g, budget, n)
    IN  budget[Root] + 1

Counted(g) == \A n \in DOMAIN g : g[n].kind = "Repeat" => g[n].count > 0

\* Every episode ends: no path through the tree takes an env longer than the
\* timeouts along it, so no stage outlives its own and none is run twice.
WithinBudget == Counted(graph) => \A e \in Envs : steps[e] <= BudgetOf(graph)

\* The recorder has every step of the open episode, and the end of an episode is
\* marked on its last row and on no other, in every episode Env::step hands out; that
\* of an env quarantined by the step is no exception (env.rs 419).
EpisodesWhole ==
    \A e \in Envs :
      /\ Len(rows[e]) = steps[e]
      /\ \A r \in DOMAIN rows[e] : rows[e][r] = (e \in ended /\ r = Len(rows[e]))

\* control-graph.md says of a stage without a success predicate that it completes on
\* its first step.  The timeout is looked at first (control.rs 178), and a stage of
\* one tick, which validation accepts, fails the episode instead.
UnconditionalStageCompletes ==
    \A e \in Envs : stage[e].failed => graph[stage[e].scored].predicate
=============================================================================
