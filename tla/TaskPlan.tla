------------------------------ MODULE TaskPlan ------------------------------
(***************************************************************************)
(* Research plans: the task DAG, what validates it, and what a replan      *)
(* makes of an old plan and a new one.  A plan is a sequence of tasks; a   *)
(* task's needs are its evidence requirements, a function from their ids.  *)
(***************************************************************************)
EXTENDS Naturals, FiniteSets, SequencesExt

TaskStates == {"PENDING", "RUNNING", "COMPLETED", "FAILED", "UNKNOWN_EFFECT"}

\* Whatever else a task says (title, purpose) is its text.
Task(id, deps, needs, tool, text) ==
  [id |-> id, deps |-> deps, needs |-> needs, tool |-> tool, text |-> text,
   state |-> "PENDING"]
Need(minimum, stances) == [minimum |-> minimum, stances |-> stances]

TasksOf(plan) == {plan[i] : i \in DOMAIN plan}
IdsOf(plan) == {t.id : t \in TasksOf(plan)}
TaskOf(plan, id) == CHOOSE t \in TasksOf(plan) : t.id = id
Done(plan) == {t.id : t \in {u \in TasksOf(plan) : u.state = "COMPLETED"}}

\* The hash covers the whole definition, dependencies included, not the state.
InputHash(task) == [task EXCEPT !.state = "PENDING"]

\* The deterministic planner's, whatever the case and what is unresolved.
FixedPlan(tool) ==
  LET need(id, stance) == [n \in {id} |-> Need(1, {stance})]
  IN << Task("market", {}, need("market-signal", "SUPPORTING"), tool, "v1"),
        Task("fundamentals", {}, need("fundamental-signal", "SUPPORTING"), tool, "v1"),
        Task("risk", {"market", "fundamentals"}, need("risk-signal", "COUNTER"), tool, "v1") >>

-----------------------------------------------------------------------------
(* validate_task_dag takes the tasks without open dependencies layer by    *)
(* layer, until none is left or none can be taken.                         *)

WithoutLayer(plan, open) ==
  {id \in open : TaskOf(plan, id).deps \cap open # {}}
LeftOver(plan) ==
  FoldLeft(LAMBDA open, layer : WithoutLayer(plan, open), IdsOf(plan), plan)

\* Mutant: a cycle among the dependencies is not looked for.
DependenciesKnown(plan) ==
  /\ Cardinality(IdsOf(plan)) = Len(plan)
  /\ \A t \in TasksOf(plan) : t.deps \subseteq IdsOf(plan)

ValidDag(plan) ==
  /\ Cardinality(IdsOf(plan)) = Len(plan)
  /\ \A t \in TasksOf(plan) : t.deps \subseteq IdsOf(plan)
  /\ LeftOver(plan) = {}

\* The plan's case, mandate and input hash are the planner's copy of the run's.
ValidPlan(plan) == ValidDag(plan) /\ \A t \in TasksOf(plan) : DOMAIN t.needs # {}

\* Reference: no set of tasks waits for itself.
Acyclic(plan) ==
  \A waiting \in (SUBSET IdsOf(plan)) \ {{}} :
     \E id \in waiting : TaskOf(plan, id).deps \cap waiting = {}

-----------------------------------------------------------------------------
(* replan.                                                                 *)

\* The tasks of these ids, in the plan's order.
Selected(plan, ids) ==
  FoldLeft(LAMBDA kept, t : IF t.id \in ids THEN Append(kept, t) ELSE kept, << >>, plan)

\* A planner without dynamic tasks keeps to the ids of the old plan.
Retained(old, new, dynamic) == IF dynamic THEN new ELSE Selected(new, IdsOf(old))

Refreshed(task, new) ==
  IF task.id \in IdsOf(new) THEN [TaskOf(new, task.id) EXCEPT !.state = task.state] ELSE task

\* Tasks whose definition differs from the old one, or from the one that the
\* last receipt of a completed task names.
Changed(old, new, receipt) ==
  {t.id : t \in {u \in TasksOf(old) :
     u.id \in IdsOf(new) /\
       LET hash == InputHash(TaskOf(new, u.id))
       IN \/ InputHash(u) # hash
          \/ u.state = "COMPLETED" /\ u.id \in DOMAIN receipt /\ receipt[u.id] # hash}}

Merged(old, new) ==
  [i \in DOMAIN old |-> Refreshed(old[i], new)]
    \o Selected(new, IdsOf(new) \ IdsOf(old))

\* Mutant: tasks that depend on a reset one through another are forgotten.
OneLevel(tasks, reset) ==
  reset \cup {t.id : t \in {u \in TasksOf(tasks) : u.deps \cap reset # {}}}

WithDependents(tasks, reset) ==
  FoldLeft(LAMBDA ids, t : ids \cup {v.id : v \in {u \in TasksOf(tasks) : u.deps \cap ids # {}}},
           reset, tasks)

\* Unresolved, changed and new tasks, and all that depend on them.
ResetIds(old, new, receipt, unresolved) ==
  WithDependents(Merged(old, new),
                 unresolved \cup Changed(old, new, receipt) \cup (IdsOf(new) \ IdsOf(old)))

\* Mutant: the tasks stay as they are.
ResetNothing(tasks, reset) == tasks

ResetTasks(tasks, reset) ==
  [i \in DOMAIN tasks |->
     IF tasks[i].id \in reset THEN [tasks[i] EXCEPT !.state = "PENDING"] ELSE tasks[i]]
=============================================================================
