# TLA+ models of the research runtime

A *run* is one investment research task graph that the backend executes: it
collects evidence task by task from external providers, synthesizes claims,
verifies them, and stores a thesis. Runs live in SQLite or PostgreSQL; several
threads of the API process and several polling workers may execute, cancel,
retry, replan and annotate the same run. What the project checks is that a run,
its receipts and its memory survive this: every interleaving of store and
provider calls, every crash between two of them, and every lost lease; that what a
run concludes rests on its evidence, through every replan; that what analysts add
to it stays consistent; and that the page which shows it catches up with it.

Paths below are relative to `src/backend/research-runtime/src/deepresearch/`.

## 1. The system

### Components

| Component | State | Operations | Correct when |
|---|---|---|---|
| **Run execution**: `runtime/engine.py`, with `runtime/reliability.py`, which replaces four engine methods and adds `replan` when the package is imported | the payload of the run (a JSON document in one row), a checkpoint, the event log | `execute`, `resolve_tool_attempt`, `cancel`, `replan`, `record_*` | dependencies come first; a provider is called once per receipt and never again without an operator's RETRY; nothing is concluded over an unfinished plan or an unknown outcome; a finished run is never half published; a cancelled one stays cancelled |
| **Leases**: `persistence/store.py`, `persistence/postgres_store.py`, `engine._heartbeat` | `run_leases` (one row per run: id, `expires_at`), one heartbeat thread per call | acquire, renew, release, the `EXISTS` fence of owned writes | a healthy call keeps its lease however long its provider takes; writes come in the order of grants; nobody loses an unexpired lease |
| **Work queue and worker**: `worker.py`, `runtime/queue.py`, `reliability.list_runnable_runs` | `RUN_ENQUEUED` events, a Redis list and a set of pending ids | enqueue, dequeue, scan, attempt | an id is dispatched once; an enqueued run is attempted although Redis or a process loses it |
| **Investment memory**: `engine._build_memo`, `reliability._build_memo/_persist`, `engine.record_decision` | one entry per target, one attribute of the engine | extend by a run, extend by a decision | each thesis that ended a run is listed, and no other; a recorded decision is listed |
| **Reviews, decisions, artifacts**: `engine.record_*`, `api.py` | artifacts and lists in the payload, statuses of thesis and memo | record an analysis, a valuation, a red-team or IC review, a decision | memo, reviews and decisions are of the thesis they name; an approved thesis has its approval |
| **MVP workflow**: `runtime/mvp.py` | none of its own | execute, record everything in a fixed order, evaluate | however often it is cut off and called again, everything is recorded once, the decision last |
| **Planner, DAG validation, replan**: `runtime/planner.py`, `engine.validate_task_dag`, `reliability.replan` | the tasks | plan, validate, merge an old plan and a new one, reset tasks | no tasks of a plan wait for each other; no work that a change made stale is kept |
| **Evidence, synthesis**: `runtime/evidence.py`, `tools.py`, `synthesis.py`, `engine._synthesize` | evidence, claims, thesis and memo | retrieve, qualify, merge; draft, check, verify | a record is held once; a COMPLETED run's claims cite qualified evidence of their own tasks |
| **Financial tools**: `runtime/financial.py` | none | decimal arithmetic over SEC facts | the numbers are right |
| **Evaluation**: `evaluation/` | none | score a finished run | a gate fails only over what is really wrong |
| **HTTP and operations**: `api.py`, `ops/` | rate-limit windows, audit rows | authorize, limit, audit, migrate, probe | policy, window and audit are complete |
| **Web client**: `src/apps/web/src` | a cache of run, trace and events | poll every 2 s until terminal; call, show the answer, fetch again | it shows its own writes, follows the run to its end, then stops asking |

### How they interact

- The API (`api.create_app`) makes **one** engine; FastAPI serves its plain
  functions from a thread pool, so all calls of the process share that engine. A
  worker is a process of its own with its own engine and one loop.
- `execute` takes the lease, starts the heartbeat thread, and works on a **copy**
  of the payload. It writes the whole copy back, at each step, by a statement that
  requires its unexpired lease. All other API calls read the payload, change
  their copy and write it back **without lease or version**.
- The patched `_execute` looks for a claim check whose outcome is unknown before
  the original one runs; the patched `_persist` makes the final write one
  transaction of run, event and memory.
- `mvp-complete` is one HTTP request that makes up to ten such calls, and decides
  what is already recorded from the run it read before the first.
- A replan resets a PARTIAL run to CREATED with a merged plan: evidence, receipts
  and claims of the reset tasks go, and so do thesis and memo; artifacts, reviews and
  decisions stay.
- The run page polls run, trace and events as three independent queries, each
  by the state that its data (for events: the run's data) showed last.
- Enqueueing writes an event to the database and then, if configured, the id to
  Redis. The worker takes at most one id from Redis per scan, but attempts all
  that the database lists as runnable.

### What is hard

Steps of threads and processes between any two store calls; the SELECT for
`CANCELLED` and the UPDATE after it; a crash between receipt, provider call and
result; a call that goes on after its lease expired; a stale copy written back;
a provider call longer than a lease; an id marked pending and never pushed; an
attribute shared by threads; a workflow cut off between two of its ten writes; what
is left of one round of a run in the next; records of one id in two versions or for
two tasks; answers that cross on their way to the page. `PROJECT.json` lists each as a hazard at its
line, with the properties that cover it, or a note why none does yet.

## 2. Modules

```
RunRecord ──┬── RunSteps ── ResearchRun    one write at a time: what a durable run promises
 (payload)  └── RunExecution               executors and handlers on one run;
                  └── MCRunExecution         DurableRun == ResearchRun!Spec
RunLease ──── MCRunLease                   lease table, heartbeat, clock
WorkQueue                                  events, Redis, workers; many runs
CompletionMemory ── MCCompletionMemory     memory entries; many runs and targets
TaskPlan ── TaskEvidence ── ResearchFlow   plans, evidence, a run from plan to memo
                      └── MCResearchFlow
ArtifactChain ── ReviewWorkflow            artifacts, reviews, decisions, mvp-complete;
                    └── MCReviewWorkflow     ChainGrows == ArtifactChain WITH stored parts
RunPage                                    the run page of the web client

RunExecutionProofs ── RunDurabilityProofs  the proofs of RunExecution
RunLeaseProofs                             WorkQueueProofs
CompletionMemoryProofs                     ReviewWorkflowProofs
RunPageProofs                              ResearchFlowProofs
```

Operators commented "Mutant:" are not part of any specification. Each is a
plausible bug in the definition below it, kept to confirm that the property
named in `PROJECT.json` notices it.

### RunRecord: the payload

`domain/models.py` and what the engine does to its copy. A task is a number,
because tasks of a layer start in the order of their ids. Its evidence is one
bit: do distinct QUALIFIED records meet every requirement of the task
(`_task_is_qualified`)? Its receipts (`ToolExecution`, `TASK_COLLECTION`) are a
sequence of outcomes, and so are its claim checks (`CLAIM_VERIFICATION`); claims
are one per task because `_synthesize` refuses anything else. The code keeps the
status `UNKNOWN_EFFECT` on a resolved receipt and adds the resolution: the model
names the resolution. A record that the answer for one task replaces may be another
task's, with another qualification: `CompleteTask` takes any set of other tasks whose
records went that way (`MayTake`). `Planned` are the states that the tasks of the
accepted plan have: `create_run` keeps them. The deterministic planner makes all of
them PENDING (`AllPending`), and so do the instances here; other states, which a model
or a client may send, are `ResearchFlow`'s.

### RunExecution: interleavings on one run

Everything an executor or handler does between two store or provider calls is
one action; each executor has a label (`pc`), a copy (`mem`), its task (`cur`), the
rest of the layer (`layer`), what is left of `stop_after_tasks` (`quota`) and the
heartbeat's flag (`lost`).

| Label | The next call | Action |
|---|---|---|
| `idle` | `get_run` at the top of `execute` | `Execute` (API), `Poll` (worker, only what `list_runnable_runs` gives) |
| `acquire`, `release` | `acquire_run_lease`, `release_run_lease` | `AcquireLease`, `ReleaseLease` |
| `load` | `get_run` of the patched `_execute` | `LoadForChecks` |
| `reload` | `get_run` of the original `_execute` | `Load` |
| `resume` | `append_event_owned` of RUN_RESUMED | `Resume` |
| `next` | none: choose a layer or a task | `NextLayer`, `NextTask`, `StartVerifying` |
| `check`, `update`, `event` | SELECT, UPDATE, INSERT of an owned write | `CheckCancelled`, `UpdateOwned`, `AppendEvent` |
| `open`, `call`, `answer` | receipt, provider, its answer | `OpenReceipt`, `CallProvider`, `CollectSucceeds`, `CollectFails` |
| `ckpt`, `more` | `save_checkpoint_owned`; none | `SaveCheckpoint`, `AfterTask` |
| `synth`, `claim` | the synthesizer; none | `Synthesize`, `SettleClaim`, `RefuseClaim`, `StartCheck`, `ClaimsDone` |
| `vcall`, `vanswer`, `vdone`, `vfail` | the verifier, its answer | `CallVerifier`, `CheckAnswered`, `CheckedClaim`, `SynthesisFails` |
| `finish`, `memory` | final write; `save_memory_owned` | `FinishRun`, `SaveMemory` |

A handler reads and changes its copy in one action (`ReadTo...`) and overwrites
the payload in the next (`WriteBack`). `_ensure_lease` guards the labels in
`Guarded`: with `lost` set, the only step is `LoseLease`. Faults are a store error
(`Raise`), a crash (`Crash`), an expiry under a stalled holder (`Expire`) and a
renewal that raises (`HeartbeatError`). `Overlapping` are executors whose engine another
thread may use at the same time: it can take the attribute with the memory out of the
engine, and then the final write is a run and an event like any other, and only
`SaveMemory` stores the entry.

`finished` is a history variable: the thesis of the stored run has its final event and
its memory entry. A replan or a retry takes it back, so that every round of a run has to
be published anew. An artifact may be recorded any number of times; only the receipts
are bounded (`MaxAttempts`).

The lease is only who has it and whether it has expired. That this is enough is
what `RunLease` shows: writes are fenced and nobody loses a live lease.

### ResearchRun: the abstract run

One payload, no executors, no leases, no crashes. `RunSteps` says what one write may
make of a payload, as relations between the payload before it (`r`) and after it
(`q`): what the engine writes on its own (`Advanced`: `Started`, `Stuck`, `Receipted`,
`Collected`, `Checkpointed`, `Blocked`, `Verifying`, `Checked`, `SynthesisFailed`, `Finished`),
and what an operator does (`Resolved`, `Replanned`). `ResearchRun` is the behaviour made of
those steps. `RunExecution` states `DurableRun == Durable!Spec`: under the identity mapping
of `run`, every write of the detailed model is a step of the abstract one, or none.
Cancellations and artifacts are not steps of it. They are taken in any state and
written from a stale copy, so that what they make of the run is no function of the
run they overwrite; `DurableRun` is about instances without them.

### RunLease: time

The table, the threads and the clock. A store call reads `time.time()` before its
transaction begins: the time in a statement (`now`, `beatNow`) may be older than
the statement, and `Stall` lets it be arbitrarily old. An acquisition deletes the
expired rows of *all* runs. The heartbeat waits `Interval` = TTL/3 between
`MinInterval` and `MaxInterval` (0.01 s and 30 s in the code) *after* a renewal
ended. One clock stands for the clocks of all processes.

### WorkQueue: many runs

`stored` keeps of a run what the queue can see: CREATED, STARTED (RUNNING or
VERIFYING), PARTIAL, SETTLED. `MarkPending` and `Push` are SADD and RPUSH, `Pop` and
`Unmark` LPOP and SREM. A scan is a snapshot (`Scan`), then attempts in order, the
dequeued run first. `ExecuteByApi` is the environment: an API call may move a run on
at any time. Two details of the code are coarser here: `list_runnable_runs` orders
by row while `_verifying_runs` adds the VERIFYING ones after them (the model has
one order, by id), and an intent is idempotent, where the code leaves the event out only if it
is already the run's last one.

### CompletionMemory: many runs, threads and targets

The end of `execute` seen from the memory. `completion` is the attribute
`_pending_completion_memory`, one per engine and so one per process. An executor
reads the entry and appends its thesis (`ReadMemory`), sets the attribute
(`SetCompletion`), takes it in `_persist` (`TakeCompletion`), writes run, event and entry in
one transaction (`WriteFinal`), deletes the attribute (`ClearCompletion`) and saves the entry
once more (`SaveAgain`). An analyst either decides, which reads run and entry and writes
entry and run, or replans, which writes the run without its thesis (`ReadToReplan`,
`PersistCopy`). A run can be replanned and finish again with a thesis of its own, and then
`engine.py:1052-1055` appends run, memo and thesis once more: the code does not
look whether the run is listed. A thesis is therefore a pair of its run and a number, an
entry is the theses and the decisions it lists, and its `run_ids` are the runs of its
theses, once for each of them. The order of an entry, its latest run and the delta
between theses are not modelled, nor is which decisions a payload holds (`ReviewWorkflow`
has that); every finished run counts as one that may be replanned. The CANCELLED
check of the final transaction is in `RunExecution` and not repeated. `finished` and
`crossed` are history variables: the theses that ended a run, and the targets for which an
entry with other theses was written while somebody else had read the old one and not
yet written.

### TaskPlan, TaskEvidence, ResearchFlow: what a run concludes

`TaskPlan` has the operators on plans: `ValidDag` is `validate_task_dag`, layer by
layer (`LeftOver`), and `Acyclic` its reference; `Merged`, `Changed`, `ResetIds` and
`ResetTasks` are the plan's part of `replan`. A task's text is one value; the input hash
is the whole definition. `TaskEvidence` has those on evidence: what the HTTP provider
(`External`) and the deterministic one (`Runtime`) make of an answer, the merge by id
and content hash (`MergedEvidence`), and what counts (`Met`: distinct ids of QUALIFIED
records of the task). An object that a search returns is a name and a version: its
id depends on the name, and on the need if the task has several; its content hash on both.

`ResearchFlow` puts them together for one run. Tasks come with the states that the
plan gives them (`Plans` has any). `Collect` is a task from its receipt to
its checkpoint in one step, `FailCollection` one whose provider fails, `Interrupt` one that
breaks off before its receipt is written or after, `Abandon` is the block that the next
execution puts on a run with a task left RUNNING, `Resolve` the operator's answer, and
`NoReadyTask` the end of a run that has tasks to do and none that can be. `Going` keeps
an execution from passing a RUNNING task. `VerifyDraft` and
`VerifyModelDraft` are `_synthesize`, the verification and the final write with the
deterministic synthesizer or a model, `Replan` is `replan`. A draft has limits in the
code: 20 claims, 100 evidence ids in one, a length for each of its texts. `MaxClaims`,
`MaxCited` and `MaxNamed` stand for them, the last for the lengths, as the number of titles
and requirements that the scenarios name. Beyond them the deterministic synthesizer
raises a `ValidationError` that `execute` does not catch, so that the run stays VERIFYING
(`Raise`); a model's draft beyond them is refused, but one whose texts are each within
their limits may still make a memo section too long, which raises as well. A replan reads the
tasks to reset off `task:requirement`, up to the first colon (`Prefix`).

The interleavings within those steps are `RunExecution`'s, where evidence is one bit per
task; here evidence is records and there is one executor. `dynamic` says whether the
planner asks a model. `worked` is a ghost: the round in which a task was collected last. List comprehensions
over plan and evidence are folds (`Selected`, `WithoutTasks`), and a dictionary's update is
`With`: the prover knows `FoldLeft` by its definition, but neither `SelectSeq` nor `@@`.

### ReviewWorkflow: what analysts add

A call is a `Route` of steps: one for a single endpoint, and for `mvp-complete` the
read at its start, the two artifacts, the red-team review, an IC review per role (five
in the code, two in the instance), the decision and the evaluation. `Read` and `Write` are the two store
calls of a `record_*`; a decision has a third, `Save`, because the memory entry is
written first. `Begin`, `Check`, `Get` and `Evaluate` are reads of the run between them.
`Skip` is a part that the workflow found in the run it read at its start. `Lose` is the
end of the process or a store error at any point; a retry is another call of the same
body. Executions and replans are here only what a call can meet of them: `Execute` or
`ExecuteFor` writes RUNNING, `FinishExecution` writes a copy that is as old, `Replan` too.

`Failures` is `score_run` with the case that the workflow builds. The case's
`minimum_qualified_evidence` is the count at its own read, so the check is about two
reads of the run.

`ArtifactChain` is the abstract workflow: parts are stored one at a time, never lost,
the decision after the reviews, a receipt only when all are there. The mapping
(`Chain`) takes as stored the parts under the workflow's ids.

`overlapped` is a ghost: two calls, or a call and an execution or replan, were in flight at
once. Properties about calls one after the other are stated with it, because writes
that overlap overwrite each other's records by design of the store: no version
guards them. `PayloadConsistent` holds whatever overlaps. `cut` is another ghost: the ids of
decisions whose own call was cut off between the memory entry and the run, until some call
saves them. `ListedOrCut` then says of each decision that is listed and not in the run
that its own call is between the two writes, or was cut off there.

### RunPage: the web client

`use-runtime-run.ts` over TanStack Query, which is modelled from how the code uses it:
a query has its data (`cache`), one request in flight (`fetch`) and an error (`failed`).
`Sent` and `read` divide a request at the point where the runtime reads the run, so
that answers may arrive in any order; an answer of a cancelled request never arrives.
`invalidateQueries` and `refetch` cancel a request of a query that has data and go
on with one of a query that has none. `Answer` is a mutation's `onSuccess`. The run
is a version and a state; `Handle` reads and writes it in one step, where
`RunExecution` has the two steps of a handler. `answered` (the newest version that a
call of this page was answered with) and `late` (queries whose *first* request was in
flight when it was) are ghosts.

## 3. Runs

All bounds are constants in the `.cfg`. `MaxFaults` bounds crashes, exceptions and
lost leases in a behaviour; `MaxAttempts` the receipts of a task; `MaxClock` the clock.

| Run | States | Instance | Shows |
|---|---|---|---|
| `ExecutionRecovery` | 743k | 2 tasks in a chain, the second with claim checks; an API thread, whose engine another thread may use, and a worker; one operator who retries and rejects; one fault; `stop_after_tasks` 1 | after any crash, take-over or stalled holder the run is consistent, receipts match calls, and it evolves as `ResearchRun` does |
| `ExecutionHandlers` | 5.5M | 2 independent tasks; one executor; one handler that cancels, records and retries; one fault | stale writes of handlers never produce an inconsistent payload; finished is published; a cancellation stands |
| `ExecutionProgress` | 663k | 1 task with checks; two executors; retries; two faults; fairness | a runnable run reaches a terminal state or BLOCKED |
| `ExecutionReplan` | 249k | 2 tasks in a chain, the first with checks; one worker; retry, reject, replan; two faults | the same promises when a PARTIAL run starts again |
| `LeaseTable` | 989k | two calls for one run, lease 4, latency 1, clock to 7 | leases are kept, fenced, and end in time only |
| `WorkerScan` | 738k | 2 runs, 1 client, 2 workers, Redis, one fault; fairness | dispatched once, and served |
| `MemoryWorkers` | 4.5M | two workers finish two runs of one target, three theses in all, beside an analyst who decides and replans | the memory lists the theses that ended a run and no other, but for those that crossing writes drop |
| `ReviewWorkflow` | 687k | three calls of five bodies (`mvp-complete`; artifact, red-team, IC review, decision with other contents), two roles, two evidence records, two executions, a replan | what analysts add is consistent whatever overlaps, and complete and single when calls come one after the other |
| `ResearchFlow` | 229k | nine plans (a chain, a changed root, a cycle once merged, a new task with a colon in its id, tasks that come COMPLETED, RUNNING or FAILED, three invalid), six answers of a search, both planners and synthesizers, an operator, two replans | records are held once, work is current, no tasks wait for each other, a run without a ready task had one that was given up in its plan, COMPLETED is grounded, the synthesizer refuses or raises for the reasons named only, memos link |
| `RunPage` | 482k | run and trace, seven buttons, two clicks, three versions, one failed request, three first states; fairness | the page shows its own writes, follows the run, stops asking |

Why the bounds are enough to see the hazards: two tasks give a dependency, a
checkpoint between tasks and a plan partly done; one fault with two executors is a
crash followed by a take-over, or a stalled holder beside its successor; two
faults crash the recovery itself. A lease of 4 with latency 1 and interval 1
satisfies `RenewalAssumption` with nothing to spare on either side of a renewal
that is late twice; the clock to 7 passes one expiry and a second grant. Two runs
and two workers order a scan, skip a leased run, and meet at the list.

`ReviewWorkflow`: three calls are a call, one that is cut off or overlaps, and one that
meets the result; `Racing` = 2 bounds the calls of a behaviour in which some overlap,
and leaves three where none does. `MaxTheses` = 2 is one thesis before a replan and
one after. `Harvests` are what an execution finds or a replan keeps: all, or one of
the two, so that a replan may leave a review or an artifact without its evidence. The calls are symmetric; no liveness is checked there.
`ResearchFlow`: two rounds of replan (`MaxRounds`) let a task be changed and changed
back; a chain of three tasks has a dependent that depends through another. The limits are
small so that they are met on both sides: a plan merged with a new task has four claims
(`MaxClaims` = 3), one answer makes three qualified records of a task (`MaxCited` = 2), and
the chain with nothing found has more to name than `MaxNamed` = 5. `Plans` and
`Answers` are listed in `MCResearchFlow`, each for the case it makes.
`MemoryWorkers`: `MaxTheses` = 3 is two runs that end and one of them once more after a
replan; the two runs are interchangeable, as they have the same target.
`RunPage`: two clicks (`MaxClicks`) let two calls cross, three versions (`MaxWrites`)
two writes of others or of the page. Events are left out of the instance: with three
queries one click already takes four minutes, and their query has the same actions.
Deadlock checking is off where a settled run leaves nothing to do.

### Where the code and its documents disagree

Each of these runs checks one property that a document states, and TLC finds
a behaviour of the code that violates it. `PROJECT.json` quotes the lines.

| Run | Property | What happens |
|---|---|---|
| `CancelRace` | `CancelledIsFinal` | `save_run_owned` SELECTs, `cancel` writes without a lease, the UPDATE overwrites it. Once no write is under way between those two, it does stand: `CancelledStands` |
| `CreatedRun` | `CreatedRunServed` | `mvp-complete` has a CREATED run executed, which gives its thesis a new id, and then refuses the request's decision, which could not name it. The tests fill the id in after an execution of their own |

The models have more, without a run of their own. The first three are found in instances that
differ from the ones above in the one constant named, the others are among the behaviours of
the runs above:

- `record_financial_analysis` writes back a run as it was before a receipt; after a
  crash the next executor calls the provider again, although tool-attempt-recovery says that an
  attempt of unknown outcome must not be retried automatically (`RunExecution!NoAutomaticRetry`
  with `"record"` among the handlers of a recovery).
- A run that raises something else than a lease error each time ends every worker scan
  at that run, and those after it wait for ever, although durable-research-worker says that
  all runnable runs are attempted once (`IntentServed` with a member of `Broken`).
- Two threads of one API process that finish together exchange their memory entries
  through the engine's attribute (`FinishedRemembered` with two executors of one engine).
- The second save of a memory entry is older than a decision recorded since the first,
  which is then in the run and not in the entry (`CompletionMemory!SaveAgain` after `SaveEntry`).
- A draft beyond the limits of its type makes the deterministic synthesizer raise. `execute` does
  not catch it (`engine.py:595`), so that the run stays VERIFYING, is listed as runnable, and raises again at every
  attempt, and the exception ends the worker's scan as in the second item
  (`ResearchFlow!Raise`; `SynthesisRefused` says over what).
- A plan of a model or of a client may have tasks that are not PENDING (`models.py:312`,
  `planner.py:44`): `_validate_plan` does not look and `create_run` keeps them. One that comes FAILED
  leaves the run without a ready task; one that comes COMPLETED is never collected until a replan
  finds its needs unmet; one that comes RUNNING is blocked over a receipt that is made up
  (`NoDeadEnd`, `ResearchFlow!Abandon`).
- A task whose id has a colon is not reset by a replan over its unmet needs (`reliability.py:175`),
  so that no replan ever collects for it again (`ResearchFlow!Prefix`).
- A thesis is dropped from the memory where two executors, or an executor and an analyst, read an
  entry before either writes it (`FinishedRemembered`, `crossed`).

Seen while modelling, besides: a PARTIAL run is
listed as runnable and attempted by every scan, but `execute` returns it at once
(`engine.py:377`, against the durable-research-worker specification's resumable
partial runs); a replan removes evidence of the tasks it resets
(`reliability.py:199`), although the durable-replanning specification speaks of
preserving it; a stale record can put an unqueued run back to CREATED, where no
worker looks for it; a run that ends, is replanned and ends again is listed twice in
`run_ids` of its target's entry (`engine.py:1053`), once for each thesis; the evaluation after a replan fails over
reviews and artifacts that the replan left (`VerdictExplained` names all the ways); a
model's or a search's records of one id in two versions, or for two tasks with one
need each, make the engine refuse its own deterministic synthesis (`SynthesisRefused`).

### Fairness

`RunExecution!Fairness`: an execute call that does not crash takes its next step;
a worker polls again and again (`worker.main` loops, `run_once` catches lease errors); the
clock passes a dead holder's expiry. `Raise` leaves the executor idle and it polls again, which for
a worker means its process is started again: that a supervisor does so is assumed,
as the worker service of `docker-compose.yml` has no restart policy. Handlers,
operators and API executes have no fairness: nobody has to call.

`WorkQueue!Fairness`: workers keep going, a dead one is restarted, a lease nobody
renews expires. Clients have none: a client may stop between the event, SADD and
RPUSH for ever, and the run is served all the same.

`RunPage!Fairness`: the page stays open, visible and online, so the interval's timer
fires and a request is answered or fails. Users click or not, and nobody has to write.

The first two stop at BLOCKED, which waits for an operator by design, and
allow finitely many faults.

## 4. Proofs

TLAPS proves these for every value of the constants that satisfies the named
assumptions.

**RunExecution** (`Invariance`, `TypeCorrect`, `Consistency`). `RunConsistent` is not
inductive: an executor may write a copy much older than the stored run. The
invariant `EInv` says that *every copy is sound by itself*: the stored run, each
handler's copy and each executor's copy satisfy `Sound`, and `LocalAt` adds what an
executor knows of its copy at its label (at `open` its task is RUNNING without an
open receipt, at `answer` the receipt is open, from `synth` on the run is VERIFYING...). A
write replaces the payload by a sound copy, so it does not matter who wins. The
lemmas on the payload operators come first in the module. Assumptions:
`AllPending`, because a task that comes COMPLETED, FAILED or UNKNOWN_EFFECT has no receipt that
accounts for it, and several may come RUNNING; and
`"replan" \notin HandlerOps`. A replan keeps the checks of tasks it does not reset, and a stale
record can bring a check of unknown outcome back among them; the run then collects
evidence over an unfinished check, which TLC found. Without stale records
it is proved with replan too, below.

`Publication` and `Cancellation` hold for plans in any state and whatever the handlers serve, replan
included. Their invariant `SInv` is about the states of the copies: one that is on its way into the store is
open, unless the call ends with this write; the write that ends it and publishes has a
COMPLETED or PARTIAL run, any other a FAILED or BLOCKED one. `Cancellation` needs no assumption: a
cancellation stands because the SELECT of every later write sees it, and because
no handler makes another state of a CANCELLED run that it reads. `Publication` needs
`OnePublisher`: no engine is used by two threads at once (`Overlapping = {}`), or the final write may go
without the memory; and one handler is served at a time. A handler's copy is COMPLETED or PARTIAL
only if the run it read was published with that thesis, and with a second handler a replan may be
stored in between: the copy then brings back the run with the thesis it had, which was published
but which `finished`, taken back by the replan, no longer speaks of. A crash after the write, or a lost lease before `SaveMemory`, changes nothing of it.

**RunDurability** (`Durability`, `Checking`, `ConsistencyReplanned`, `Receipts`). Assumptions
`AllPending` and `OneOperator`: the handlers are one, who retries, rejects and replans. A second handler,
a cancellation or an artifact may write back what an executor has moved on from, and
then `DurableRun`, `ChecksConsistent` and `OneCallPerReceipt` are false (section 3). Any
dependencies, any number of executors, faults, retries and replans, and engines that are
shared or not.

`EInv` does not look at who owns the lease, and the refinement does: a write
must be a step *from the stored run*, not only a sound payload. `DInv` says that
the executor that owns the lease is in step with the store. At each label `Knows` says
what it has read (its copy is the stored run, up to the claims it is settling) and
what follows for its task and its layer; while a write is under way (`StepAt`) the copy
is what one step of `RunSteps` makes of the stored run. Nothing is said of the copies of
executors without the lease, which the UPDATE refuses. The operator's copy stays one step
away from the run (`Pending`), because a run that can be resolved or replanned is BLOCKED
or PARTIAL and has no executor that is about to write, so nobody moves it meanwhile. `Fresh` is what makes a
call that has not read the run independent of what it did before. `Durability` maps the
initial state to the initial state and every step of `Next` to a step of
`ResearchRun` or a stutter (`StepDInv`); `EvolvesGood` in `RunExecutionProofs` proves that every
abstract step keeps the payload consistent and its checks too, from which `Checking` and
`ConsistencyReplanned` follow.

`Receipts` adds `CInv`, about calls: an executor that is at its call under a receipt, owner or
not, is there alone, and nobody has called under the receipt; calls have been made only under stored receipts; the
owner that is about to store a receipt adds the next number. Receipts are never taken back as
long as nobody replans (`ReceiptsKept`), which is its third assumption, and nobody
writes back an older copy, which `OneOperator` excludes: an artifact recorded beside a running
executor takes a receipt back, and its number is called under again (section 3).

**RunLease** (`TypeCorrect`, `KeepsLease`, `WritesFenced`, `NoTakeover`). `LInv` is the types, `Fence` (a
row names the call with the newest grant of its run, and nobody newer has written:
no time is involved) and `Timely` (the deadlines of an undisturbed call, and their
distance from its expiry). Assumption: `Interval + 2 * Latency < TTL`. With the
default lease of 300 s and its 30 s interval, a call keeps its lease as long
as its store calls take less than 135 s.

**WorkQueue** (`TypeCorrect`, `Dispatch`). `DispatchedOnce` is strengthened by: a client
between calls has a run (`ClientsBusy`). Any number of runs, clients and workers.

**CompletionMemory** (`TypeCorrect`, `NoPhantomRuns`, `Remembered`). `MInv` says of each executor that
the entry it built lists its own thesis and, *as long as it has the lease*, only
finished ones besides; that the attribute, then `taken`, is that very entry; and of
each analyst that the entry it read lists finished theses. The one assumption is
`OneExecutor` (one execute call per process, as in a worker): two executors of one
engine are the counterexample without it. Runs may share targets in any way and be
replanned any number of times. For `Remembered`, `RInv` adds that the entry of a target that
nobody crossed is `Complete`: it lists every finished thesis, and whoever has read it and may
still write it has read all that it lists now. A write with other theses between the read and
the write of another makes the target `crossed`; the theorem says that this is the only way
to lose one.

**ReviewWorkflow** (`Invariance`, `TypeCorrect`, `Consistency`; `Alone`, `Decides`, `Listing`,
`Verdict`, `Growth`). As in `RunExecution`, what a
call or a job writes may be much older than what it overwrites, so `RInv` says that the
stored run, every call's copy and the job's copy are each `Sound`: what
`PayloadConsistent` says of the stored run, and `Bounded`: no copy knows a thesis that is
yet to be synthesized. Without the bound a new thesis could be one that old reviews
already name, and its empty memo would miss them. `Underway` says that a call is at a step of its route,
and that a decision which waits for its second write was judged by the copy it will save;
`JobOK` that an execution's copy is RUNNING (and so has no thesis), and that a job on
behalf of a workflow belongs to a call that waits for it. Assumptions:
`EvidenceAssumption`, `HarvestAssumption`, `BodyAssumption` (bodies are of the
endpoints), `RoleAssumption` (no role has the name of an endpoint),
`CallAssumption` and `BoundAssumption`, all of them evaluated by TLC. Any number of calls, roles and theses.

The other four are about behaviours in which nothing has overlapped, and need what the one
call in flight knows of the run. `Sequential` says it: its copy is the stored run; what the
workflow found at its start and its steps since then (`Past`) are stored, and nobody else has
decided meanwhile (`Following`); records rest on what they cite (`Linked`: artifacts on
qualified evidence, reviews of the current thesis on counter evidence of the run, the
workflow's decision on all of its reviews); decision ids of calls that have not answered are
unused; and what only the memory lists is about to be saved by its call (`Saving`) or is in `cut`.
From it follow that a decision is found again and so recorded once (`Decides`), that nothing else is listed
without being in the run (`Listing`), and that an evaluation fails over leftovers
of a replan and nothing else (`Verdict`, from `FailsOverLeftovers`, which goes through the ten checks
of `score_run` that are modelled). `Growth` is the refinement of `ArtifactChain`: the write of a part is its
`Store`, the evaluation its `Receive`, and every other step leaves parts and receipts as they
are; `WorkflowRoute` gives the order, decision after reviews and evaluation after all. They use that evidence is finite and
that an artifact that is sent has a hash, which is what tells a recorded one from none.

**RunPage** (`Invariance`, `TypeCorrect`, `WritesShown`). `PInv` is the types and, of the call and of
each query: an answer is not newer than the run; what a query fetches after the
answer is as new as the answer; a request that was in flight before it has been dropped, or was
the query's first, which is what `late` records. Any number of clicks, writes and failed requests.

**ResearchFlow** (`Types`, `Records`, `Work`, `DeadEnds`, `Refused`, `Grounded`, `Links`). All seven
invariants of the run, for any plans, any answers and any number of replans. What a replan
resets, what a merge leaves and which plans are valid are folds over sequences, so the
proof starts below them: a fold is the last of a chain of intermediate results
(`FoldExists`, then `SelectedSteps`, `WithoutTasksSteps`, `MergedSteps`, `DependentsSteps`,
`Layers`), and an induction along the chain is a least counterexample (`Least`, `UpTo`),
which the library's well-founded order on finite sets of numbers provides without an
operator parameter. On that rest three facts about the code's loops:

- `ValidAcyclic`: tasks that wait for each other are in every layer, so that a plan of which
  `validate_task_dag` leaves nothing over has none.
- `DependentsClosed`: a level of `WithDependents` that adds nothing is closed, every other one
  adds a task of the plan, so that after as many levels as there are tasks nothing that
  depends on a reset task is left out. The code loops until nothing changes.
- `MergedOnce`: merging an answer of any length, compared with itself too, leaves every id
  and content hash once.

The inductive invariant is `Formed`: the payload has its fields, its plan is `Workable` (an id
names one task, dependencies are in the plan, no set of tasks waits for itself) and its
evidence holds a record once. `Steps` says that every step is one of six: a task is
collected (`Collects`), takes another state without being done (`MarksSomehow`: it fails, breaks off, is
given up or resolved), the run fails, stays VERIFYING (`Raises`), the last write (`Concludes`), a replan, or nothing. To `Formed` each property adds what it
needs: `Work` that what is done was collected in a round that has begun (`Dated`);
`DeadEnds` and `Refused` that only a run which failed or raised has a reason (`Explained`);
`Links` that a run being worked on has no memo (`Unwritten`). `DeadEnds` is that the tasks
which are not done cannot all wait for each other, so one is ready unless one is given up; `Attempted` says that
a run which is worked on has given up no task that has a receipt: an attempt that is given up
ends the run or blocks it, and the operator resolves the only one. So the task came with its plan. `Refused` compares what the deterministic
draft holds with the limits: `NamedBound` bounds what there is to name by the tasks and their needs,
`DraftTooBig` says which limit was passed. `Work` is the subtle one: a task that a
replan leaves done has its old definition, hence its old dependencies, and none of those is
reset, because the task would be with it. Assumptions, all evaluated by TLC: a plan is a sequence
of tasks in any states with finitely many needs, each as the planner makes it (`PlanAssumption`), what a search
finds is a sequence (`AnswerAssumption`), and the limits and the bound are numbers
(`LimitAssumption`). Of `Prefix` nothing is assumed: what a replan resets may be any tasks that are
closed under dependents. `Draft` and `ModelDrafts`
play no part in `Grounded`: it holds of any draft that `Accepts` lets pass.

Model-checked only: liveness under fairness (`RunnableSettles`, `IntentServed`, `EndFollowed`,
`EndsQuiet`) and everything with ENABLED, which the prover does not support. Every other
property that a passing run checks is a theorem, under the assumptions given here with each.

## 5. Not modelled

- What providers, LLM clients and SEC endpoints return: the answer is chosen
  (which objects, eligible or not, supported or not; an error; a draft that differs from
  the deterministic one in one claim, or a refusal). Prompts, HTTP retries and file caches
  are behind that choice.
- Events other than RUN_ENQUEUED and the final one: no step of a run depends on them.
- Decimal arithmetic of `financial.py`: no state, and unit tests reach all of it.
- Scorecards, cases, exports, readiness probes, migrations, identity tokens: I/O
  without interleaved state.
- The rate limiter: its list of times is read and changed between two awaits of one event
  loop, so there is nothing to interleave. The access policy: a table without state.
- The audit trail: written after the response, best effort by the comment at
  `ops/audit.py:174`; nothing reads a record again but the query endpoint.
- `score_plan`, the catalog comparison and the planner regression: sequential tools over files.
- The other pages of the client fetch once and show; the mock workspace is fixtures.
- Isolation in PostgreSQL: `RunLease` has the statements of the SQLite store, whose write
  transactions exclude each other. Under READ COMMITTED the `EXISTS` of an owned write
  may see a lease row that an acquisition is replacing; a model of row locks is not here.
- Plans with tasks that are not PENDING, beside executors that interleave: `RunRecord` has them
  (`Planned`), but the runs of `RunExecution` and its proofs other than `Publication` and
  `Cancellation` are about plans that begin PENDING. `ResearchFlow` has them, with one executor.
- A synthesis that raises for good, in `RunExecution`: there an execution that raises is a fault,
  and faults are finite. `RunnableSettles` is about runs whose draft is within its limits.
- Clock skew between processes: leases compare the clocks of two machines, and the
  model has one.

## 6. Plan

Done, the core first: payload and execution, the abstract run, leases, queue, memory;
then reviews and the workflow with their abstract chain, plans and evidence, and the page;
proofs of each.

Left: **row locks**, the PostgreSQL store under READ COMMITTED.
