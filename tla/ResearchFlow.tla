---------------------------- MODULE ResearchFlow ----------------------------
(***************************************************************************)
(* A run from plan to memo and through its replans: what is collected,     *)
(* merged, synthesized, verified and reset.  One executor works on it and  *)
(* collects for a task in one step, which may break off; RunExecution has  *)
(* the steps and writes in between.  Ready tasks may be taken in any order *)
(* (the code takes them by id, layer by layer).                            *)
(***************************************************************************)
EXTENDS TaskEvidence

CONSTANTS
  Plans,      \* what a client or a model may make up, task states included
  Answers,    \* what a search and its coverage may answer: found and eligible
  Tool,       \* the provider behind the fixed plan's tool
  Prefix(_),  \* the part of an id before its first colon, if it has one
  MaxClaims, MaxCited,  \* limits of a draft: claims, evidence ids in one
  MaxNamed,   \* how many titles and requirements the scenarios' texts hold
  MaxRounds   \* bound on replans

ASSUME LimitAssumption == {MaxClaims, MaxCited, MaxNamed, MaxRounds} \subseteq Nat
ASSUME AnswerAssumption ==
  \A a \in Answers :
    /\ {"found", "eligible"} \subseteq DOMAIN a
    /\ a.found \in Seq({a.found[i] : i \in DOMAIN a.found})
ASSUME PlanAssumption ==
  \A plan \in Plans :
    /\ plan \in Seq(TasksOf(plan))
    /\ \A t \in TasksOf(plan) :
         /\ t = [Task(t.id, t.deps, t.needs, t.tool, t.text) EXCEPT !.state = t.state]
         /\ t.state \in TaskStates
         /\ IsFiniteSet(DOMAIN t.needs)

VARIABLES
  dynamic, \* the planner asks a model (supports_dynamic_tasks)
  run,     \* the run's payload
  round,   \* replans so far
  reason,  \* why the run FAILED, or what its last execution raised
  worked   \* per task: the round of its last collection

vars == <<dynamic, run, round, reason, worked>>

NoMemo == [status |-> "NONE"]
NewRun(plan) ==
  [state |-> "CREATED", tasks |-> plan, evidence |-> << >>, receipt |-> << >>,
   claims |-> << >>, review |-> "NONE", memo |-> NoMemo]

ReadyTasks == {t \in TasksOf(run.tasks) : t.state = "PENDING" /\ t.deps \subseteq Done(run.tasks)}

\* What plan and replan of the planner answer; a model's failures change nothing.
PlannerAnswers == IF dynamic THEN {p \in Plans : Len(p) \in 1 .. 5} ELSE {FixedPlan(Tool)}

\* create_run validates the planner's plan, or the client's tasks, before anything
\* is saved; a task keeps the state that it comes with.
Init ==
  /\ dynamic \in BOOLEAN
  /\ \E plan \in Plans \cup PlannerAnswers :
       plan # << >> /\ ValidPlan(plan) /\ run = NewRun(plan)
  /\ round = 0 /\ reason = "none" /\ worked = << >>

Fail(why) ==
  /\ run' = [run EXCEPT !.state = "FAILED"]
  /\ reason' = why

WithState(id, state) ==
  [i \in DOMAIN run.tasks |->
     IF run.tasks[i].id = id THEN [run.tasks[i] EXCEPT !.state = state] ELSE run.tasks[i]]

\* f with an entry for the id.
With(f, id, value) == [i \in DOMAIN f \cup {id} |-> IF i = id THEN value ELSE f[i]]

\* The run with the task in a new state, and a receipt for it.
Marked(task, state) ==
  [run EXCEPT !.tasks = WithState(task.id, state),
              !.receipt = With(@, task.id, InputHash(task))]

Completed(task, records) ==
  [Marked(task, "COMPLETED") EXCEPT !.state = "RUNNING",
                                    !.evidence = MergedEvidence(@, records)]

\* An execution gets past the tasks that an earlier one has left RUNNING.
Going ==
  /\ run.state \in {"CREATED", "RUNNING"}
  /\ \A t \in TasksOf(run.tasks) : t.state # "RUNNING"

\* A task is collected by the provider of its tool.
Collect(task) ==
  /\ Going /\ task \in ReadyTasks
  /\ \/ task.tool = "runtime" /\ run' = Completed(task, Runtime(task, round))
     \/ task.tool = "external" /\ \E a \in Answers :
          run' = Completed(task, External(task, a.found, a.eligible))
  /\ worked' = With(worked, task.id, round)
  /\ UNCHANGED <<dynamic, round, reason>>

\* The provider fails, its citation is for something else, or the tool is unknown.
FailCollection(task) ==
  /\ Going /\ task \in ReadyTasks
  /\ run' = [Marked(task, "FAILED") EXCEPT !.state = "FAILED"] /\ reason' = "provider"
  /\ UNCHANGED <<dynamic, round, worked>>

NoReadyTask ==
  /\ Going /\ Done(run.tasks) # IdsOf(run.tasks) /\ ReadyTasks = {}
  /\ Fail("no ready task")
  /\ UNCHANGED <<dynamic, round, worked>>

\* The collection breaks off, before its receipt is written or after: a crash, or
\* an answer that _qualify cannot place.
Interrupt(task) ==
  /\ Going /\ task \in ReadyTasks
  /\ \E receipt \in {run.receipt, Marked(task, "RUNNING").receipt} :
       run' = [Marked(task, "RUNNING") EXCEPT !.state = "RUNNING", !.receipt = receipt]
  /\ UNCHANGED <<dynamic, round, reason, worked>>

\* The next execution blocks the run over the first such task, whose receipt, if
\* there is none, it makes up.
Abandon ==
  /\ run.state \in {"CREATED", "RUNNING"}
  /\ \E i \in DOMAIN run.tasks :
       /\ run.tasks[i].state = "RUNNING"
       /\ \A j \in DOMAIN run.tasks : run.tasks[j].state = "RUNNING" => i <= j
       /\ run' = [Marked(run.tasks[i], "UNKNOWN_EFFECT") EXCEPT !.state = "BLOCKED"]
  /\ UNCHANGED <<dynamic, round, reason, worked>>

\* resolve_tool_attempt: RETRY or MARK_FAILED.
Resolve(task) ==
  /\ run.state = "BLOCKED" /\ task.state = "UNKNOWN_EFFECT" /\ task.id \in DOMAIN run.receipt
  /\ \/ /\ run' = [run EXCEPT !.state = "CREATED", !.tasks = WithState(task.id, "PENDING")]
        /\ UNCHANGED reason
     \/ /\ run' = [run EXCEPT !.state = "FAILED", !.tasks = WithState(task.id, "FAILED")]
        /\ reason' = "operator"
  /\ UNCHANGED <<dynamic, round, worked>>

-----------------------------------------------------------------------------
(* Synthesis: a draft, one claim per task, is checked and verified.        *)

\* Mutant: the claim cites what was observed, qualified or not.
DraftOfObserved ==
  [id \in IdsOf(run.tasks) |-> {r.id : r \in {s \in RecordsOf(run.evidence) : s.task = id}}]

\* DeterministicResearchSynthesizer.
Draft ==
  [id \in IdsOf(run.tasks) |-> {r.id : r \in {s \in Qualifying(run.evidence) : s.task = id}}]

\* A model may cite anything for a task, or leave it out.
EvidenceIds == {r.id : r \in RecordsOf(run.evidence)}
ModelDrafts ==
  {[Draft EXCEPT ![id] = cited] :
      id \in IdsOf(run.tasks), cited \in {{}, EvidenceIds} \cup {{e} : e \in EvidenceIds}}
  \cup {Restrict(Draft, IdsOf(run.tasks) \ {id}) : id \in IdsOf(run.tasks)}

\* The limits of the draft's type.
WithinLimits(draft) ==
  /\ Cardinality(DOMAIN draft) <= MaxClaims
  /\ \A id \in DOMAIN draft : Cardinality(draft[id]) <= MaxCited

\* The names in the deterministic scenarios, which have a limit each and one in
\* the memo that joins them: here it is one on their number.
Named ==
  LET naming(stances) == {t \in TasksOf(run.tasks) :
        \E r \in QualifiedFor(run.evidence, t) : r.stance \in stances}
      missing == UNION {{<<t.id, need>> : need \in
        {n \in DOMAIN t.needs : ~MetByRecords(run.evidence, t, n)}} : t \in TasksOf(run.tasks)}
  IN Cardinality(naming({"SUPPORTING"})) + Cardinality(naming({"COUNTER", "CONFLICTING"}))
       + 2 * Cardinality(missing)

Fits == WithinLimits(Draft) /\ Named <= MaxNamed

Accepts(draft) ==
  /\ DOMAIN draft = IdsOf(run.tasks)
  /\ \A id \in DOMAIN draft : \A e \in draft[id] :
       /\ e \in EvidenceIds
       /\ ById(run.evidence, e).task = id
       /\ ById(run.evidence, e).qualification = "QUALIFIED"

\* A claim that qualifies is verified by a provider that can; the claim's id is
\* its own in each round.
ClaimsOf(draft, supported) ==
  [id \in IdsOf(run.tasks) |->
     [id |-> <<id, round>>, cites |-> draft[id],
      status |-> IF /\ draft[id] # {} /\ TaskQualified(run.evidence, TaskOf(run.tasks, id))
                    /\ TaskOf(run.tasks, id).tool = "external" => id \in supported
                 THEN "QUALIFIED" ELSE "NEEDS_REVIEW"]]

ClaimIds(claims) == {claims[id].id : id \in DOMAIN claims}

\* The sections of the memo: what they link to.
Memo(claims, state) ==
  LET qualified == {r.id : r \in Qualifying(run.evidence)}
      against == {r.id : r \in {s \in RecordsOf(run.evidence) : s.stance # "SUPPORTING"}}
      section(evidence) == [claims |-> ClaimIds(claims), evidence |-> evidence]
  IN [status |-> IF state = "COMPLETED" THEN "READY_FOR_REVIEW" ELSE "DRAFT",
      unresolved |-> Unresolved(run.tasks, run.evidence),
      sections |-> [thesis |-> section(qualified), evidence |-> section(EvidenceIds),
                    risks |-> section(against), scenarios |-> section(qualified),
                    decision |-> section(qualified \cup against)]]

Finished(claims) ==
  LET state == IF /\ \A t \in TasksOf(run.tasks) : TaskQualified(run.evidence, t)
                  /\ \A id \in DOMAIN claims : claims[id].status = "QUALIFIED"
               THEN "COMPLETED" ELSE "PARTIAL"
  IN [run EXCEPT !.state = state, !.claims = claims, !.memo = Memo(claims, state),
                 !.review = IF Unresolved(run.tasks, run.evidence) = {}
                            THEN "PENDING_REVIEW" ELSE "NEEDS_REVIEW"]

Conclude(draft) ==
  /\ Accepts(draft)
  /\ \E supported \in SUBSET IdsOf(run.tasks) : run' = Finished(ClaimsOf(draft, supported))
  /\ reason' = "none"

Refuse(draft, why) ==
  \/ ~Accepts(draft) /\ Fail(why)
  \/ Accepts(draft) /\ Fail("verification")

\* A ValidationError, which execute does not catch: the run stays VERIFYING for
\* the next execution.
Raise(what) ==
  /\ run' = [run EXCEPT !.state = "VERIFYING"]
  /\ reason' = what

\* VERIFYING, synthesis, verification and the last write.
Verifying ==
  /\ run.state \in {"CREATED", "RUNNING", "VERIFYING"}
  /\ Done(run.tasks) = IdsOf(run.tasks)

VerifyDraft ==
  /\ Verifying
  /\ \/ Fits /\ Conclude(Draft)
     \/ WithinLimits(Draft) /\ Refuse(Draft, "synthesis")
     \/ ~Fits /\ Raise("limits")
  /\ UNCHANGED <<dynamic, round, worked>>

\* A model's draft over the limits is refused; its texts may each be within
\* theirs and too long for the memo.
VerifyModelDraft ==
  /\ Verifying
  /\ \E draft \in ModelDrafts :
       \/ WithinLimits(draft) /\ (Conclude(draft) \/ Refuse(draft, "model"))
       \/ WithinLimits(draft) /\ Accepts(draft) /\ Raise("memo")
       \/ ~WithinLimits(draft) /\ Fail("model")
  /\ UNCHANGED <<dynamic, round, worked>>

-----------------------------------------------------------------------------
\* Mutant: the memo of the PARTIAL run stays.
ReplanKeepingMemo(plan) ==
  LET new == Retained(run.tasks, plan, dynamic)
      open == {Prefix(u[1]) : u \in Unresolved(run.tasks, run.evidence)}
      reset == ResetIds(run.tasks, new, run.receipt, open)
      tasks == ResetTasks(Merged(run.tasks, new), reset)
  IN /\ run.state = "PARTIAL" /\ round < MaxRounds
     /\ new # << >> /\ ValidPlan(tasks)
     /\ run' = [run EXCEPT !.state = "CREATED", !.tasks = tasks, !.claims = << >>,
                  !.evidence = WithoutTasks(@, reset),
                  !.receipt = Restrict(@, DOMAIN @ \ reset)]
     /\ round' = round + 1
     /\ UNCHANGED <<dynamic, reason, worked>>

\* A refused plan leaves the run as it is.  Evidence and receipts of the tasks
\* that are reset go, and all that was made of the evidence.  The open tasks are
\* read off "task:requirement", up to the first colon.
Replan(plan) ==
  LET new == Retained(run.tasks, plan, dynamic)
      open == {Prefix(u[1]) : u \in Unresolved(run.tasks, run.evidence)}
      reset == ResetIds(run.tasks, new, run.receipt, open)
      tasks == ResetTasks(Merged(run.tasks, new), reset)
  IN /\ run.state = "PARTIAL" /\ round < MaxRounds
     /\ new # << >> /\ ValidPlan(tasks)
     /\ run' = [run EXCEPT !.state = "CREATED", !.tasks = tasks, !.claims = << >>,
                  !.review = "NONE", !.memo = NoMemo,
                  !.evidence = WithoutTasks(@, reset),
                  !.receipt = Restrict(@, DOMAIN @ \ reset)]
     /\ round' = round + 1
     /\ UNCHANGED <<dynamic, reason, worked>>

Next ==
  \/ \E task \in TasksOf(run.tasks) :
       \/ Collect(task) \/ FailCollection(task) \/ Interrupt(task) \/ Resolve(task)
  \/ NoReadyTask \/ Abandon
  \/ VerifyDraft \/ VerifyModelDraft
  \/ \E plan \in PlannerAnswers : Replan(plan)

Spec == Init /\ [][Next]_vars

-----------------------------------------------------------------------------
(* Properties.                                                             *)

\* The types.  A task that was collected and is COMPLETED has its receipt, across
\* replans; a BLOCKED run has an attempt to resolve; and a thesis under review
\* comes and goes with its memo.
TypeOK ==
  /\ dynamic \in BOOLEAN
  /\ run.state \in {"CREATED", "RUNNING", "VERIFYING", "BLOCKED", "COMPLETED", "PARTIAL", "FAILED"}
  /\ \A t \in TasksOf(run.tasks) : t.state \in TaskStates
  /\ DOMAIN run.receipt \subseteq IdsOf(run.tasks)
  /\ Done(run.tasks) \cap DOMAIN worked \subseteq DOMAIN run.receipt
  /\ run.state = "BLOCKED" => \E t \in TasksOf(run.tasks) :
       t.state = "UNKNOWN_EFFECT" /\ t.id \in DOMAIN run.receipt
  /\ run.review = "NONE" <=> run.memo = NoMemo
  /\ round \in 0 .. MaxRounds
  /\ reason \in {"none", "provider", "no ready task", "operator", "synthesis", "model",
                 "verification", "limits", "memo"}
  /\ DOMAIN worked \subseteq IdsOf(run.tasks)

\* However answers repeat or overlap, the run holds a record once.
RecordsOnce ==
  \A i, j \in DOMAIN run.evidence : SameKey(run.evidence[i], run.evidence[j]) => i = j

\* What a completed task shows, if it was collected at all, was collected for its
\* present definition, after everything it depends on: replans keep no work that
\* a change made stale.
WorkCurrent ==
  \A t \in TasksOf(run.tasks) :
    t.state = "COMPLETED" /\ t.id \in DOMAIN worked =>
      /\ run.receipt[t.id] = InputHash(t)
      /\ t.deps \subseteq Done(run.tasks)
      /\ \A u \in t.deps \cap DOMAIN worked : worked[u] <= worked[t.id]

\* A run ends with no ready task only over a task that its plan came with as
\* FAILED or UNKNOWN_EFFECT and no attempt was made at; all else that was
\* accepted, merged plans included, can be worked off.
NoDeadEnd ==
  /\ Acyclic(run.tasks)
  /\ reason = "no ready task" =>
       \E t \in TasksOf(run.tasks) :
         t.state \in {"FAILED", "UNKNOWN_EFFECT"} /\ t.id \notin DOMAIN run.receipt

\* A run is COMPLETED only on evidence: every need has enough distinct records
\* of its own task, every claim cites some, and all of them are qualified.
CompletedGrounded ==
  run.state = "COMPLETED" =>
    /\ \A t \in TasksOf(run.tasks) : \A need \in DOMAIN t.needs :
         \E ids \in SUBSET EvidenceIds :
           /\ Cardinality(ids) >= t.needs[need].minimum
           /\ \A e \in ids : \E r \in RecordsOf(run.evidence) :
                r.id = e /\ r.task = t.id /\ r.need = need /\ r.qualification = "QUALIFIED"
    /\ \A id \in IdsOf(run.tasks) :
         /\ run.claims[id].cites # {}
         /\ \A e \in run.claims[id].cites : \E r \in RecordsOf(run.evidence) :
              r.id = e /\ r.task = id /\ r.qualification = "QUALIFIED"
    /\ run.memo.unresolved = {} /\ run.review = "PENDING_REVIEW"

\* The deterministic synthesis is refused only where two records share an id,
\* in two versions or for two tasks; it raises, and leaves the run VERIFYING, only
\* over too many tasks, too many ids for one, or a plan that has more to name than
\* the texts hold.
SynthesisRefused ==
  /\ reason = "synthesis" =>
       \E i, j \in DOMAIN run.evidence : i # j /\ run.evidence[i].id = run.evidence[j].id
  /\ reason = "limits" =>
       \/ Len(run.tasks) > MaxClaims
       \/ \E t \in TasksOf(run.tasks) :
            Cardinality({r.id : r \in QualifiedFor(run.evidence, t)}) > MaxCited
       \/ 2 * (Len(run.tasks) + Cardinality(NeedsOf(run.tasks))) > MaxNamed

\* score_run finds nothing dangling in a memo: its claims, evidence and
\* requirements are those of the run.
MemoLinks ==
  run.memo # NoMemo =>
    /\ \A s \in DOMAIN run.memo.sections :
         /\ run.memo.sections[s].claims \subseteq ClaimIds(run.claims)
         /\ run.memo.sections[s].evidence \subseteq EvidenceIds
    /\ run.memo.unresolved \subseteq NeedsOf(run.tasks)
=============================================================================
