---------------------------- MODULE RunExecution ----------------------------
(***************************************************************************)
(* Executors (worker processes and threads of the API) that run            *)
(* ResearchEngine.execute on one stored run, and API handlers that read    *)
(* the run, change their copy and write the whole payload back.            *)
(*                                                                         *)
(* Everything an executor or a handler does between two store or provider  *)
(* calls is one action; the calls are the points where they interleave.    *)
(* An owned write takes three of them: the SELECT that looks for           *)
(* CANCELLED, the UPDATE fenced by the lease, and the fenced event.        *)
(*                                                                         *)
(* The lease is abstracted to its holder and whether it has expired: an    *)
(* executor's lease id is unique to one execute call, so the holder of a   *)
(* crashed call is Orphan and matches nobody.                              *)
(***************************************************************************)
EXTENDS RunRecord, FiniteSets

CONSTANTS
  Executors,    \* threads that may call execute
  Workers,      \* those that belong to a polling worker
  Overlapping,  \* those whose engine another thread may use at the same time
  Handlers,     \* threads that serve the other API calls
  HandlerOps,   \* the calls they serve: a subset of the five below
  StopAfter,    \* values of stop_after_tasks; 0 stands for None
  Outcomes,     \* what an evidence provider may answer
  MaxAttempts,  \* bound: receipts of one task that a retry, a replan or an
                \* artifact adds to
  MaxFaults,    \* bound: crashes, exceptions and lost leases in a behaviour
  Nobody, Orphan

ASSUME ExecutorsAssumption ==
  /\ Workers \subseteq Executors /\ Overlapping \subseteq Executors
  /\ {Nobody, Orphan} \cap Executors = {}
ASSUME HandlersAssumption == HandlerOps \subseteq {"cancel", "retry", "reject", "record", "replan"}
ASSUME StopAfterAssumption == StopAfter \subseteq Nat
ASSUME OutcomesAssumption == Outcomes \subseteq {"qualified", "unqualified", "error"}
ASSUME BoundsAssumption == MaxAttempts \in Nat /\ MaxFaults \in Nat

VARIABLES
  run,       \* the stored payload
  queued,    \* a RUN_ENQUEUED event was ever appended
  finished,  \* history: the thesis of the run that is stored as COMPLETED or
             \* PARTIAL has its final event and its memory entry
  holder,    \* whose lease row the run has
  live,      \* the row has not expired
  pc, then,  \* per executor: its next call, and where it goes on after a write
  mem,       \* per executor: its copy of the run
  cur,       \* per executor: the task it works on
  layer,     \* per executor: ready tasks of the layer it has not started
  quota,     \* per executor: tasks left to stop_after_tasks, 0 for no limit
  lost,      \* per executor: its heartbeat saw the lease lost
  hpc, hmem, \* per handler: whether it has a copy to write, and the copy
  calls,     \* history: per task, receipt numbers the provider was called under
  faults     \* bound counter

store == <<run, queued, finished>>
lease == <<holder, live>>
local == <<mem, cur, layer, quota>>
handlers == <<hpc, hmem>>
vars == <<store, lease, pc, then, local, lost, handlers, calls, faults>>

NoTask == 0

Writing == {"check", "update", "event"}
\* Labels that _ensure_lease guards.
Guarded == {"load", "reload", "next", "answer", "vanswer", "vfail", "finish"}
Working == Writing \cup Guarded \cup
           {"resume", "open", "call", "ckpt", "more", "synth", "claim", "vcall",
            "vdone", "memory"}
Labels == Working \cup {"idle", "acquire", "release"}

Init ==
  /\ run = NewRun
  /\ queued = FALSE /\ finished = FALSE
  /\ holder = Nobody /\ live = FALSE
  /\ pc = [e \in Executors |-> "idle"]
  /\ then = [e \in Executors |-> "idle"]
  /\ mem = [e \in Executors |-> Blank]
  /\ cur = [e \in Executors |-> NoTask]
  /\ layer = [e \in Executors |-> {}]
  /\ quota = [e \in Executors |-> 0]
  /\ lost = [e \in Executors |-> FALSE]
  /\ hpc = [h \in Handlers |-> "idle"]
  /\ hmem = [h \in Handlers |-> Blank]
  /\ calls = [t \in Tasks |-> {}]
  /\ faults = 0

-----------------------------------------------------------------------------
(* Helpers.                                                                *)

Owns(e) == holder = e /\ live
Goto(e, label) == pc' = [pc EXCEPT ![e] = label] /\ UNCHANGED then
Holds(e, r) == mem' = [mem EXCEPT ![e] = r]

\* _persist of copy r on behalf of e, which goes on at label.
Persist(e, r, label) ==
  /\ Holds(e, r)
  /\ pc' = [pc EXCEPT ![e] = "check"]
  /\ then' = [then EXCEPT ![e] = label]

AttemptNumber(e) == Len(mem[e].attempts[cur[e]])

Runnable == \/ run.state \in {"RUNNING", "VERIFYING"}
            \/ run.state \in {"CREATED", "PARTIAL"} /\ queued

-----------------------------------------------------------------------------
(* Entry and exit of execute.                                              *)

Enqueue ==
  /\ run.state \in {"CREATED", "PARTIAL"}
  /\ queued' = TRUE
  /\ UNCHANGED <<run, finished, lease, pc, then, local, lost, handlers, calls, faults>>

Execute(e, n) ==
  /\ pc[e] = "idle"
  /\ run.state \notin Settled
  /\ quota' = [quota EXCEPT ![e] = n]
  /\ Goto(e, "acquire")
  /\ UNCHANGED <<store, lease, mem, cur, layer, lost, handlers, calls, faults>>

\* run_once: a worker executes what list_runnable_runs returns.
Poll(e) == Runnable /\ Execute(e, 0)

\* Mutant: expired rows are not deleted first.
AcquireFreeLease(e) ==
  /\ pc[e] = "acquire"
  /\ IF holder # Nobody
     THEN Goto(e, "idle") /\ UNCHANGED lease
     ELSE Goto(e, "load") /\ holder' = e /\ live' = TRUE
  /\ UNCHANGED <<store, local, lost, handlers, calls, faults>>

\* acquire_run_lease, after the first look at the run.
AcquireLease(e) ==
  /\ pc[e] = "acquire"
  /\ IF holder # Nobody /\ live
     THEN Goto(e, "idle") /\ UNCHANGED lease
     ELSE Goto(e, "load") /\ holder' = e /\ live' = TRUE
  /\ UNCHANGED <<store, local, lost, handlers, calls, faults>>

\* The finally block of execute; the row goes only if it is still e's.
ReleaseLease(e) ==
  /\ pc[e] = "release"
  /\ IF holder = e THEN holder' = Nobody /\ live' = FALSE ELSE UNCHANGED lease
  /\ pc' = [pc EXCEPT ![e] = "idle"]
  /\ then' = [then EXCEPT ![e] = "idle"]
  /\ mem' = [mem EXCEPT ![e] = Blank]
  /\ cur' = [cur EXCEPT ![e] = NoTask]
  /\ layer' = [layer EXCEPT ![e] = {}]
  /\ quota' = [quota EXCEPT ![e] = 0]
  /\ lost' = [lost EXCEPT ![e] = FALSE]
  /\ UNCHANGED <<store, handlers, calls, faults>>

-----------------------------------------------------------------------------
(* Owned writes.                                                           *)

\* Mutant: the SELECT is dropped.
SkipCancelledCheck(e) ==
  /\ pc[e] = "check"
  /\ Goto(e, "update")
  /\ UNCHANGED <<store, lease, local, lost, handlers, calls, faults>>

\* save_run_owned, first statement: a stored CANCELLED refuses other states.
CheckCancelled(e) ==
  /\ pc[e] = "check"
  /\ IF run.state = "CANCELLED" /\ mem[e].state # "CANCELLED"
     THEN Goto(e, "release") ELSE Goto(e, "update")
  /\ UNCHANGED <<store, lease, local, lost, handlers, calls, faults>>

\* Mutant: the UPDATE has no EXISTS clause.
UpdateUnfenced(e) ==
  /\ pc[e] = "update"
  /\ run' = mem[e]
  /\ finished' = (finished \/ then[e] = "memory")
  /\ Goto(e, IF then[e] = "memory" THEN "memory" ELSE "event")
  /\ UNCHANGED <<queued, lease, local, lost, handlers, calls, faults>>

\* Mutant: the final write leaves event and memory to later transactions.
UpdateRunOnly(e) ==
  /\ pc[e] = "update"
  /\ IF ~Owns(e)
     THEN Goto(e, "release") /\ UNCHANGED run
     ELSE run' = mem[e] /\ Goto(e, IF then[e] = "memory" THEN "memory" ELSE "event")
  /\ UNCHANGED <<queued, finished, lease, local, lost, handlers, calls, faults>>

\* Second statement: the UPDATE whose WHERE clause requires e's unexpired lease.
\* The final write (save_run_event_memory_owned) adds event and memory to it, but
\* not where another thread has taken the engine's _pending_completion_memory:
\* then it is a write like any other, and the memory is left to SaveMemory.
UpdateOwned(e) ==
  /\ pc[e] = "update"
  /\ IF ~Owns(e)
     THEN Goto(e, "release") /\ UNCHANGED store
     ELSE /\ run' = mem[e]
          /\ UNCHANGED queued
          /\ \/ /\ then[e] = "memory"
                /\ finished' = TRUE /\ Goto(e, "memory")
             \/ /\ then[e] # "memory" \/ e \in Overlapping
                /\ UNCHANGED finished /\ Goto(e, "event")
  /\ UNCHANGED <<lease, local, lost, handlers, calls, faults>>

\* append_event_owned.
AppendEvent(e) ==
  /\ pc[e] = "event"
  /\ Goto(e, IF Owns(e) THEN then[e] ELSE "release")
  /\ UNCHANGED <<store, lease, local, lost, handlers, calls, faults>>

-----------------------------------------------------------------------------
(* Recovery of what an earlier executor left.                              *)

\* Mutant: the patch that looks for an unfinished check is not installed.
LoadWithoutChecks(e) ==
  /\ pc[e] = "load" /\ ~lost[e]
  /\ Goto(e, "reload")
  /\ UNCHANGED <<store, lease, local, lost, handlers, calls, faults>>

\* The patched _execute reads the run once for an unfinished claim check...
LoadForChecks(e) ==
  /\ pc[e] = "load" /\ ~lost[e]
  /\ IF run.state = "VERIFYING" /\ Unverified(run) # {}
     THEN Persist(e, BlockCheck(run), "release")
     ELSE Goto(e, "reload") /\ UNCHANGED mem
  /\ UNCHANGED <<store, lease, cur, layer, quota, lost, handlers, calls, faults>>

\* ... and the original one reads it again.
Load(e) ==
  /\ pc[e] = "reload" /\ ~lost[e]
  /\ \/ /\ run.state \in Settled
        /\ Goto(e, "release") /\ UNCHANGED mem
     \/ /\ run.state \notin Settled /\ Abandoned(run) # {}
        /\ \E t \in Abandoned(run) :
             /\ \A u \in Abandoned(run) : t <= u
             /\ Persist(e, BlockTask(run, t), "release")
     \/ /\ run.state \notin Settled /\ Abandoned(run) = {}
        /\ Holds(e, run)
        /\ Goto(e, IF Completed(run) # {} THEN "resume" ELSE "next")
  /\ UNCHANGED <<store, lease, cur, layer, quota, lost, handlers, calls, faults>>

\* The RUN_RESUMED event is an owned append like any other.
Resume(e) ==
  /\ pc[e] = "resume"
  /\ Goto(e, IF Owns(e) THEN "next" ELSE "release")
  /\ UNCHANGED <<store, lease, local, lost, handlers, calls, faults>>

-----------------------------------------------------------------------------
(* The task loop.                                                          *)

NextLayer(e) ==
  /\ pc[e] = "next" /\ ~lost[e] /\ layer[e] = {}
  /\ Completed(mem[e]) # Tasks
  /\ IF Ready(mem[e]) = {}
     THEN Persist(e, FailRun(mem[e]), "release") /\ UNCHANGED layer
     ELSE /\ layer' = [layer EXCEPT ![e] = Ready(mem[e])]
          /\ UNCHANGED <<pc, then, mem>>
  /\ UNCHANGED <<store, lease, cur, quota, lost, handlers, calls, faults>>

NextTask(e) ==
  /\ pc[e] = "next" /\ ~lost[e]
  /\ \E t \in layer[e] :
       /\ \A u \in layer[e] : t <= u
       /\ layer' = [layer EXCEPT ![e] = @ \ {t}]
       /\ cur' = [cur EXCEPT ![e] = t]
       /\ Persist(e, StartTask(mem[e], t), "open")
  /\ UNCHANGED <<store, lease, quota, lost, handlers, calls, faults>>

\* Mutant: the receipt waits for the write that follows the call.
OpenReceiptInMemory(e) ==
  /\ pc[e] = "open"
  /\ Holds(e, OpenAttempt(mem[e], cur[e]))
  /\ Goto(e, "call")
  /\ UNCHANGED <<store, lease, cur, layer, quota, lost, handlers, calls, faults>>

\* The durable receipt that precedes the provider call.
OpenReceipt(e) ==
  /\ pc[e] = "open"
  /\ Persist(e, OpenAttempt(mem[e], cur[e]), "call")
  /\ UNCHANGED <<store, lease, cur, layer, quota, lost, handlers, calls, faults>>

CallProvider(e) ==
  /\ pc[e] = "call"
  /\ calls' = [calls EXCEPT ![cur[e]] = @ \cup {AttemptNumber(e)}]
  /\ Goto(e, "answer")
  /\ UNCHANGED <<store, lease, local, lost, handlers, faults>>

CollectSucceeds(e) ==
  /\ pc[e] = "answer" /\ ~lost[e]
  /\ \E o \in Outcomes \ {"error"}, taken \in MayTake(mem[e], cur[e]) :
       Persist(e, CompleteTask(mem[e], cur[e], o = "qualified", taken), "ckpt")
  /\ UNCHANGED <<store, lease, cur, layer, quota, lost, handlers, calls, faults>>

CollectFails(e) ==
  /\ pc[e] = "answer" /\ ~lost[e]
  /\ "error" \in Outcomes
  /\ Persist(e, FailTask(mem[e], cur[e]), "release")
  /\ UNCHANGED <<store, lease, cur, layer, quota, lost, handlers, calls, faults>>

\* _checkpoint: save_checkpoint_owned, then the run that refers to it.
SaveCheckpoint(e) ==
  /\ pc[e] = "ckpt"
  /\ IF Owns(e) THEN Persist(e, Checkpoint(mem[e]), "more")
                ELSE Goto(e, "release") /\ UNCHANGED mem
  /\ UNCHANGED <<store, lease, cur, layer, quota, lost, handlers, calls, faults>>

\* Mutant: no limit counts down like a limit.
AfterTaskCountsDown(e) ==
  /\ pc[e] = "more"
  /\ quota' = [quota EXCEPT ![e] = @ - 1]
  /\ cur' = [cur EXCEPT ![e] = NoTask]
  /\ Goto(e, IF quota[e] = 1 THEN "release" ELSE "next")
  /\ UNCHANGED <<store, lease, mem, layer, lost, handlers, calls, faults>>

\* stop_after_tasks ends the call with the run still RUNNING.
AfterTask(e) ==
  /\ pc[e] = "more"
  /\ quota' = [quota EXCEPT ![e] = IF @ = 0 THEN 0 ELSE @ - 1]
  /\ cur' = [cur EXCEPT ![e] = NoTask]
  /\ Goto(e, IF quota[e] = 1 THEN "release" ELSE "next")
  /\ UNCHANGED <<store, lease, mem, layer, lost, handlers, calls, faults>>

-----------------------------------------------------------------------------
(* Synthesis and claim verification.                                       *)

StartVerifying(e) ==
  /\ pc[e] = "next" /\ ~lost[e] /\ layer[e] = {}
  /\ Completed(mem[e]) = Tasks
  /\ Persist(e, BeginVerifying(mem[e]), "synth")
  /\ UNCHANGED <<store, lease, cur, layer, quota, lost, handlers, calls, faults>>

\* The synthesizer answers with one claim per task, or its answer is refused.
Synthesize(e) ==
  /\ pc[e] = "synth"
  /\ \/ Holds(e, ClearClaims(mem[e])) /\ Goto(e, "claim")
     \/ Goto(e, "vfail") /\ UNCHANGED mem
  /\ UNCHANGED <<store, lease, cur, layer, quota, lost, handlers, calls, faults>>

\* A claim that needs no check is QUALIFIED only if it cites evidence and its
\* task's requirements are met.
SettleClaim(e) ==
  /\ pc[e] = "claim"
  /\ \E t \in Tasks, cites \in BOOLEAN :
       LET qualifies == cites /\ t \in mem[e].qualified
       IN  /\ mem[e].claim[t] = "NONE"
           /\ ~(qualifies /\ t \in Verifiable)
           /\ Holds(e, AddClaim(mem[e], t, IF qualifies THEN "QUALIFIED" ELSE "NEEDS_REVIEW"))
  /\ UNCHANGED <<store, lease, pc, then, cur, layer, quota, lost, handlers, calls, faults>>

\* A proposed claim that cites unknown, foreign or unqualified evidence.
RefuseClaim(e) ==
  /\ pc[e] = "claim"
  /\ \E t \in Tasks : mem[e].claim[t] = "NONE"
  /\ Goto(e, "vfail")
  /\ UNCHANGED <<store, lease, local, lost, handlers, calls, faults>>

\* Here _ensure_lease stands between the new receipt and its write.
StartCheck(e) ==
  /\ pc[e] = "claim"
  /\ \E t \in Verifiable \cap mem[e].qualified :
       /\ mem[e].claim[t] = "NONE"
       /\ cur' = [cur EXCEPT ![e] = t]
       /\ IF lost[e] THEN Goto(e, "release") /\ UNCHANGED mem
                     ELSE Persist(e, OpenCheck(mem[e], t), "vcall")
  /\ UNCHANGED <<store, lease, layer, quota, lost, handlers, calls, faults>>

CallVerifier(e) ==
  /\ pc[e] = "vcall"
  /\ Goto(e, "vanswer")
  /\ UNCHANGED <<store, lease, local, lost, handlers, calls, faults>>

CheckAnswered(e) ==
  /\ pc[e] = "vanswer" /\ ~lost[e]
  /\ \/ \E verdict \in {"SUPPORTED", "UNSUPPORTED"} :
          Persist(e, CloseCheck(mem[e], cur[e], verdict), "vdone")
     \/ Persist(e, CloseCheck(mem[e], cur[e], "FAILED"), "vfail")
  /\ UNCHANGED <<store, lease, cur, layer, quota, lost, handlers, calls, faults>>

CheckedClaim(e) ==
  /\ pc[e] = "vdone"
  /\ Holds(e, AddClaim(mem[e], cur[e],
                IF Verdict(mem[e], cur[e]) = "SUPPORTED" THEN "QUALIFIED" ELSE "NEEDS_REVIEW"))
  /\ cur' = [cur EXCEPT ![e] = NoTask]
  /\ Goto(e, "claim")
  /\ UNCHANGED <<store, lease, layer, quota, lost, handlers, calls, faults>>

SynthesisFails(e) ==
  /\ pc[e] = "vfail" /\ ~lost[e]
  /\ Persist(e, FailRun(mem[e]), "release")
  /\ UNCHANGED <<store, lease, cur, layer, quota, lost, handlers, calls, faults>>

ClaimsDone(e) ==
  /\ pc[e] = "claim"
  /\ \A t \in Tasks : mem[e].claim[t] # "NONE"
  /\ Goto(e, "finish")
  /\ UNCHANGED <<store, lease, local, lost, handlers, calls, faults>>

FinishRun(e) ==
  /\ pc[e] = "finish" /\ ~lost[e]
  /\ Persist(e, Finish(mem[e]), "memory")
  /\ UNCHANGED <<store, lease, cur, layer, quota, lost, handlers, calls, faults>>

\* save_memory_owned once more; whether it raises or not, execute is over.
SaveMemory(e) ==
  /\ pc[e] = "memory"
  /\ finished' = (finished \/ (Owns(e) /\ run.state = mem[e].state))
  /\ Goto(e, "release")
  /\ UNCHANGED <<run, queued, lease, local, lost, handlers, calls, faults>>

-----------------------------------------------------------------------------
(* Faults: each costs one of MaxFaults, except an orphan's expiry and the   *)
(* heartbeat noticing what already happened.                               *)

Fault == faults < MaxFaults /\ faults' = faults + 1

\* _ensure_lease raises RunLeaseLostError.
LoseLease(e) ==
  /\ pc[e] \in Guarded /\ lost[e]
  /\ Goto(e, "release")
  /\ UNCHANGED <<store, lease, local, lost, handlers, calls, faults>>

\* A store error, or an answer that cannot be qualified: nothing in _execute
\* catches it, only the finally block of execute runs.
Raise(e) ==
  /\ pc[e] \in Working /\ Fault
  /\ Goto(e, "release")
  /\ UNCHANGED <<store, lease, local, lost, handlers, calls>>

Crash(e) ==
  /\ pc[e] \in Working \cup {"release"} /\ Fault
  /\ holder' = IF holder = e THEN Orphan ELSE holder
  /\ pc' = [pc EXCEPT ![e] = "idle"]
  /\ then' = [then EXCEPT ![e] = "idle"]
  /\ mem' = [mem EXCEPT ![e] = Blank]
  /\ cur' = [cur EXCEPT ![e] = NoTask]
  /\ layer' = [layer EXCEPT ![e] = {}]
  /\ quota' = [quota EXCEPT ![e] = 0]
  /\ lost' = [lost EXCEPT ![e] = FALSE]
  /\ UNCHANGED <<store, live, handlers, calls>>

\* The holder stalls for longer than lease_seconds between two renewals.
Expire ==
  /\ live /\ holder # Orphan /\ Fault
  /\ live' = FALSE
  /\ UNCHANGED <<store, holder, pc, then, local, lost, handlers, calls>>

ExpireOrphan ==
  /\ live /\ holder = Orphan
  /\ live' = FALSE
  /\ UNCHANGED <<store, holder, pc, then, local, lost, handlers, calls, faults>>

\* _heartbeat: renewal of a row that is gone or expired sets the flag...
NoticeLoss(e) ==
  /\ pc[e] \in Working /\ ~lost[e] /\ ~Owns(e)
  /\ lost' = [lost EXCEPT ![e] = TRUE]
  /\ UNCHANGED <<store, lease, pc, then, local, handlers, calls, faults>>

\* ... and so does a renewal that raises, with the lease still held.
HeartbeatError(e) ==
  /\ pc[e] \in Working /\ ~lost[e] /\ Owns(e) /\ Fault
  /\ lost' = [lost EXCEPT ![e] = TRUE]
  /\ UNCHANGED <<store, lease, pc, then, local, handlers, calls>>

-----------------------------------------------------------------------------
(* API handlers: get_run, a change to the copy, an unconditional save_run.  *)

Take(h, r) ==
  /\ hpc[h] = "idle"
  /\ hpc' = [hpc EXCEPT ![h] = "write"]
  /\ hmem' = [hmem EXCEPT ![h] = r]
  /\ UNCHANGED <<store, lease, pc, then, local, lost, calls, faults>>

\* Mutant: cancel takes any run that is not CANCELLED yet.
ReadAnyToCancel(h) ==
  /\ "cancel" \in HandlerOps
  /\ run.state # "CANCELLED"
  /\ Take(h, Cancel(run))

\* cancel.
ReadToCancel(h) ==
  /\ "cancel" \in HandlerOps
  /\ run.state \notin Settled
  /\ Take(h, Cancel(run))

ReadToRetry(h) ==
  /\ "retry" \in HandlerOps
  /\ run.state = "BLOCKED"
  /\ \/ \E t \in Tasks, k \in 1..(MaxAttempts - 1) :
          /\ k \in OpenAttempts(run, t) /\ run.task[t] = "UNKNOWN_EFFECT"
          /\ Take(h, RetryAttempt(run, t, k))
     \/ \E t \in Tasks : \E k \in OpenChecks(run, t) : Take(h, RetryCheck(run, t, k))

ReadToReject(h) ==
  /\ "reject" \in HandlerOps
  /\ run.state = "BLOCKED"
  /\ \/ \E t \in Tasks : \E k \in OpenAttempts(run, t) :
          /\ run.task[t] = "UNKNOWN_EFFECT"
          /\ Take(h, RejectAttempt(run, t, k))
     \/ \E t \in Tasks : \E k \in OpenChecks(run, t) : Take(h, RejectCheck(run, t, k))

\* record_financial_analysis, record_valuation_scenarios: in any state.
ReadToRecord(h) ==
  /\ "record" \in HandlerOps
  /\ \A t \in Tasks : Len(run.checks[t]) < MaxAttempts
  /\ Take(h, RecordArtifact(run))

\* Mutant: replan takes every finished run.
ReadToReplanFinished(h) ==
  /\ "replan" \in HandlerOps
  /\ run.state \in {"PARTIAL", "COMPLETED"}
  /\ \A t \in Tasks : Len(run.checks[t]) < MaxAttempts
  /\ \E reset \in MustReset(run) : Take(h, Replan(run, reset))

\* replan: only a PARTIAL run, which becomes CREATED again.
ReadToReplan(h) ==
  /\ "replan" \in HandlerOps
  /\ run.state = "PARTIAL"
  /\ \A t \in Tasks : Len(run.checks[t]) < MaxAttempts
  /\ \E reset \in MustReset(run) : Take(h, Replan(run, reset))

WriteBack(h) ==
  /\ hpc[h] = "write"
  /\ run' = hmem[h]
  /\ finished' = (finished /\ hmem[h].state \in {"COMPLETED", "PARTIAL"})
  /\ hpc' = [hpc EXCEPT ![h] = "idle"]
  /\ hmem' = [hmem EXCEPT ![h] = Blank]
  /\ UNCHANGED <<queued, lease, pc, then, local, lost, calls, faults>>

-----------------------------------------------------------------------------

Step(e) ==
  \/ AcquireLease(e) \/ ReleaseLease(e)
  \/ CheckCancelled(e) \/ UpdateOwned(e) \/ AppendEvent(e)
  \/ LoadForChecks(e) \/ Load(e) \/ Resume(e)
  \/ NextLayer(e) \/ NextTask(e) \/ OpenReceipt(e) \/ CallProvider(e)
  \/ CollectSucceeds(e) \/ CollectFails(e) \/ SaveCheckpoint(e) \/ AfterTask(e)
  \/ StartVerifying(e) \/ Synthesize(e) \/ SettleClaim(e) \/ RefuseClaim(e)
  \/ StartCheck(e) \/ CallVerifier(e) \/ CheckAnswered(e) \/ CheckedClaim(e)
  \/ SynthesisFails(e) \/ ClaimsDone(e) \/ FinishRun(e) \/ SaveMemory(e)
  \/ LoseLease(e)

Disturb(e) == Raise(e) \/ Crash(e) \/ NoticeLoss(e) \/ HeartbeatError(e)

Handle(h) ==
  \/ ReadToCancel(h) \/ ReadToRetry(h) \/ ReadToReject(h)
  \/ ReadToRecord(h) \/ ReadToReplan(h) \/ WriteBack(h)

Next ==
  \/ Enqueue \/ Expire \/ ExpireOrphan
  \/ \E e \in Executors \ Workers, n \in StopAfter : Execute(e, n)
  \/ \E e \in Workers : Poll(e)
  \/ \E e \in Executors : Step(e) \/ Disturb(e)
  \/ \E h \in Handlers : Handle(h)

Spec == Init /\ [][Next]_vars

\* An execute call that does not crash keeps going; a worker keeps polling; the
\* clock passes a dead holder's expiry.  Nobody has to call the API.
Fairness ==
  /\ \A e \in Executors : WF_vars(Step(e))
  /\ \A e \in Workers : WF_vars(Poll(e))
  /\ WF_vars(ExpireOrphan)

LiveSpec == Spec /\ Fairness

-----------------------------------------------------------------------------
(* Properties.                                                             *)

\* Types of all variables.
TypeOK ==
  /\ run \in Run
  /\ queued \in BOOLEAN /\ finished \in BOOLEAN
  /\ holder \in Executors \cup {Nobody, Orphan} /\ live \in BOOLEAN
  /\ pc \in [Executors -> Labels]
  /\ then \in [Executors -> Labels]
  /\ mem \in [Executors -> Run]
  /\ cur \in [Executors -> Tasks \cup {NoTask}]
  /\ layer \in [Executors -> SUBSET Tasks]
  /\ quota \in [Executors -> Nat]
  /\ lost \in [Executors -> BOOLEAN]
  /\ hpc \in [Handlers -> {"idle", "write"}]
  /\ hmem \in [Handlers -> Run]
  /\ calls \in [Tasks -> SUBSET Nat]
  /\ faults \in 0..MaxFaults

\* Whatever executors and handlers interleave, and wherever they stop, the
\* stored payload is one the engine could have built alone: dependencies first,
\* one attempt in flight, no second attempt without an operator's RETRY, BLOCKED
\* exactly while an effect is unknown, no thesis over unfinished work.
RunConsistent == Consistent(run)

\* With one operator at a time the same holds of claim checks: no run is failed,
\* finished or restarted over a check whose outcome is unknown.
ChecksConsistent == UnknownCheckBlocks(run)

\* An attempt whose outcome is unknown is not made again without a RETRY: the
\* receipt an executor calls the provider under was never called under before.
NoAutomaticRetry ==
  \A e \in Executors : pc[e] = "call" => AttemptNumber(e) \notin calls[cur[e]]

\* The evidence provider is never called without a receipt of that very call in
\* the stored run, and never twice under one receipt; with RunConsistent, never
\* a second time without an operator's RETRY (_execute, resolve_tool_attempt).
OneCallPerReceipt ==
  /\ \A t \in Tasks : calls[t] \subseteq DOMAIN run.attempts[t]
  /\ NoAutomaticRetry

\* A run that reads COMPLETED or PARTIAL has its final event and its entry in
\* the investment memory (save_run_event_memory_owned), after every replan anew.
FinishedPublished == run.state \in {"COMPLETED", "PARTIAL"} => finished

\* Once a cancellation is stored and no write that began before it is under
\* way, nothing takes it back: not execute, not a resolution, not an artifact.
CancelledForGood ==
  /\ run.state = "CANCELLED"
  /\ \A e \in Executors : pc[e] # "update"
  /\ \A h \in Handlers : hpc[h] = "write" => hmem[h].state = "CANCELLED"

CancelledStands == [][CancelledForGood => CancelledForGood']_vars

\* A cancellation that is stored is never overwritten.
CancelledIsFinal == [][run.state = "CANCELLED" => run'.state = "CANCELLED"]_vars

\* The stored run itself: copies, labels and leases are hidden.
Durable == INSTANCE ResearchRun WITH run <- run

\* With one operator at a time, the stored run evolves as if one executor
\* worked on it and every write took effect at once.
DurableRun == Durable!Spec

\* A run that a worker may pick up is brought to a terminal state, or to BLOCKED
\* for an operator, whichever executors die on the way.
RunnableSettles == Runnable ~> run.state \in Settled
=============================================================================
