------------------------------ MODULE WorkQueue ------------------------------
(***************************************************************************)
(* How queued runs reach a worker: the RUN_ENQUEUED event in the database, *)
(* the Redis list with its set of pending ids, and the scan of a polling   *)
(* worker, which takes one id from Redis and then everything the database  *)
(* lists as runnable.  What execute does with one run is in RunExecution;  *)
(* here it ends the run, is refused or interrupted, or kills the worker.   *)
(*                                                                         *)
(* A run is a number: workers list runs in the order of their rows.        *)
(***************************************************************************)
EXTENDS Integers, Sequences

CONSTANTS
  Runs,
  Broken,     \* runs whose execution always raises what run_once does not catch
  Clients,    \* threads that serve the enqueue call
  Workers,    \* polling worker processes
  UseQueue,   \* --redis-url is given
  MaxFaults,  \* bound: crashes, lost leases and exceptions in a behaviour
  NoRun

ASSUME RunsAssumption == Runs \subseteq Nat /\ Broken \subseteq Runs /\ NoRun \notin Runs
ASSUME QueueAssumption == UseQueue \in BOOLEAN /\ MaxFaults \in Nat

VARIABLES
  stored,   \* per run: STARTED is RUNNING or VERIFYING, SETTLED any final state
            \* but PARTIAL
  intents,  \* runs with a RUN_ENQUEUED event
  list,     \* the Redis list
  pending,  \* the Redis set of ids that were pushed
  cpc, crun,  \* per client: its next call, and the run it enqueues
  wpc,      \* per worker: its next step
  front,    \* per worker: the id it dequeued
  todo,     \* per worker: runs of its scan that it has not attempted
  leased,   \* runs with a lease that has not expired
  faults    \* bound counter

redis == <<list, pending>>
client == <<cpc, crun>>
worker == <<wpc, front, todo>>
vars == <<stored, intents, redis, client, worker, leased, faults>>

Init ==
  /\ stored = [r \in Runs |-> "CREATED"]
  /\ intents = {}
  /\ list = << >> /\ pending = {}
  /\ cpc = [c \in Clients |-> "idle"]
  /\ crun = [c \in Clients |-> NoRun]
  /\ wpc = [w \in Workers |-> "idle"]
  /\ front = [w \in Workers |-> NoRun]
  /\ todo = [w \in Workers |-> {}]
  /\ leased = {}
  /\ faults = 0

Fault == faults < MaxFaults /\ faults' = faults + 1

-----------------------------------------------------------------------------
(* The enqueue call.                                                       *)

CGoto(c, label, r) ==
  /\ cpc' = [cpc EXCEPT ![c] = label]
  /\ crun' = [crun EXCEPT ![c] = r]

LookUp(c, r) ==
  /\ cpc[c] = "idle"
  /\ stored[r] \in {"CREATED", "PARTIAL"}
  /\ CGoto(c, "event", r)
  /\ UNCHANGED <<stored, intents, redis, worker, leased, faults>>

\* An event that is the run's last one already is not appended again.
AppendIntent(c) ==
  /\ cpc[c] = "event"
  /\ intents' = intents \cup {crun[c]}
  /\ IF UseQueue THEN CGoto(c, "mark", crun[c]) ELSE CGoto(c, "idle", NoRun)
  /\ UNCHANGED <<stored, redis, worker, leased, faults>>

\* Mutant: the answer of SADD is ignored.
MarkAndPush(c) ==
  /\ cpc[c] = "mark"
  /\ pending' = pending \cup {crun[c]}
  /\ CGoto(c, "push", crun[c])
  /\ UNCHANGED <<stored, intents, list, worker, leased, faults>>

\* SADD: an id that is pending is not pushed.
MarkPending(c) ==
  /\ cpc[c] = "mark"
  /\ pending' = pending \cup {crun[c]}
  /\ IF crun[c] \in pending THEN CGoto(c, "idle", NoRun) ELSE CGoto(c, "push", crun[c])
  /\ UNCHANGED <<stored, intents, list, worker, leased, faults>>

\* RPUSH.
Push(c) ==
  /\ cpc[c] = "push"
  /\ list' = Append(list, crun[c])
  /\ CGoto(c, "idle", NoRun)
  /\ UNCHANGED <<stored, intents, pending, worker, leased, faults>>

ClientCrash(c) ==
  /\ cpc[c] # "idle" /\ Fault
  /\ CGoto(c, "idle", NoRun)
  /\ UNCHANGED <<stored, intents, redis, worker, leased>>

-----------------------------------------------------------------------------
(* run_once.                                                               *)

WGoto(w, label) == wpc' = [wpc EXCEPT ![w] = label]

\* LPOP, of a list that may be empty or not configured.
Pop(w) ==
  /\ wpc[w] = "idle"
  /\ IF list = << >>
     THEN WGoto(w, "scan") /\ UNCHANGED <<list, front>>
     ELSE /\ WGoto(w, "unmark")
          /\ front' = [front EXCEPT ![w] = Head(list)]
          /\ list' = Tail(list)
  /\ UNCHANGED <<stored, intents, pending, client, todo, leased, faults>>

\* SREM.
Unmark(w) ==
  /\ wpc[w] = "unmark"
  /\ pending' = pending \ {front[w]}
  /\ WGoto(w, "scan")
  /\ UNCHANGED <<stored, intents, list, client, front, todo, leased, faults>>

\* list_runnable_runs, and the VERIFYING runs.
Runnable == {r \in Runs : \/ stored[r] = "STARTED"
                          \/ stored[r] \in {"CREATED", "PARTIAL"} /\ r \in intents}

\* Mutant: a worker with a queue attempts what it dequeued.
ScanDispatched(w) ==
  /\ wpc[w] = "scan"
  /\ todo' = [todo EXCEPT ![w] = IF UseQueue THEN Runnable \cap {front[w]} ELSE Runnable]
  /\ WGoto(w, "loop")
  /\ UNCHANGED <<stored, intents, redis, client, front, leased, faults>>

\* Mutant: the dequeued id goes first whether the scan lists it or not.
ScanUnchecked(w) ==
  /\ wpc[w] = "scan"
  /\ todo' = [todo EXCEPT ![w] = Runnable \cup {front[w]}]
  /\ WGoto(w, "loop")
  /\ UNCHANGED <<stored, intents, redis, client, front, leased, faults>>

Scan(w) ==
  /\ wpc[w] = "scan"
  /\ todo' = [todo EXCEPT ![w] = Runnable]
  /\ WGoto(w, "loop")
  /\ UNCHANGED <<stored, intents, redis, client, front, leased, faults>>

\* The dequeued run is attempted first, the others in the order of their rows.
IsNext(w, r) ==
  /\ r \in todo[w]
  /\ IF front[w] \in todo[w] THEN r = front[w] ELSE \A s \in todo[w] : r <= s

Attempted(w, r) == todo' = [todo EXCEPT ![w] = @ \ {r}]

\* execute returns a run that is settled by now, or meets a lease.
Skip(w) ==
  /\ wpc[w] = "loop"
  /\ \E r \in todo[w] :
       /\ IsNext(w, r)
       /\ stored[r] \in {"PARTIAL", "SETTLED"} \/ r \in leased
       /\ Attempted(w, r)
  /\ UNCHANGED <<stored, intents, redis, client, wpc, front, leased, faults>>

Begin(w) ==
  /\ wpc[w] = "loop"
  /\ \E r \in todo[w] :
       /\ IsNext(w, r)
       /\ stored[r] \in {"CREATED", "STARTED"} /\ r \notin leased
       /\ leased' = leased \cup {r}
  /\ WGoto(w, "execute")
  /\ UNCHANGED <<stored, intents, redis, client, front, todo, faults>>

\* What execute may leave of a run that it does not end.
LeftAs(r) == stored' \in {stored, [stored EXCEPT ![r] = "STARTED"]}

Finish(w) ==
  /\ wpc[w] = "execute"
  /\ \E r \in todo[w] \ Broken, state \in {"PARTIAL", "SETTLED"} :
       /\ IsNext(w, r)
       /\ stored' = [stored EXCEPT ![r] = state]
       /\ leased' = leased \ {r}
       /\ Attempted(w, r)
  /\ WGoto(w, "loop")
  /\ UNCHANGED <<intents, redis, client, front, faults>>

\* RunLeaseLostError.
Interrupted(w) ==
  /\ wpc[w] = "execute" /\ Fault
  /\ \E r \in todo[w] :
       IsNext(w, r) /\ LeftAs(r) /\ leased' = leased \ {r} /\ Attempted(w, r)
  /\ WGoto(w, "loop")
  /\ UNCHANGED <<intents, redis, client, front>>

Dies(w) ==
  /\ wpc' = [wpc EXCEPT ![w] = "down"]
  /\ front' = [front EXCEPT ![w] = NoRun]
  /\ todo' = [todo EXCEPT ![w] = {}]

\* Any other exception, a store error for one, ends the process with the lease
\* released.
Raises(w) ==
  /\ wpc[w] = "execute"
  /\ \E r \in todo[w] :
       /\ IsNext(w, r) /\ LeftAs(r) /\ leased' = leased \ {r}
       /\ IF r \in Broken THEN UNCHANGED faults ELSE Fault
  /\ Dies(w)
  /\ UNCHANGED <<intents, redis, client>>

Crash(w) ==
  /\ wpc[w] # "down" /\ Fault
  /\ IF wpc[w] = "execute" THEN \E r \in todo[w] : IsNext(w, r) /\ LeftAs(r)
                           ELSE UNCHANGED stored
  /\ Dies(w)
  /\ UNCHANGED <<intents, redis, client, leased>>

Restart(w) ==
  /\ wpc[w] = "down"
  /\ WGoto(w, "idle")
  /\ UNCHANGED <<stored, intents, redis, client, front, todo, leased, faults>>

\* The loop ends; main sleeps and scans again.
Sleep(w) ==
  /\ wpc[w] = "loop" /\ todo[w] = {}
  /\ WGoto(w, "idle")
  /\ front' = [front EXCEPT ![w] = NoRun]
  /\ UNCHANGED <<stored, intents, redis, client, todo, leased, faults>>

-----------------------------------------------------------------------------
(* The rest of the system.                                                 *)

\* Nobody executes r: its lease is a dead worker's.
ExpireLease(r) ==
  /\ r \in leased
  /\ \A w \in Workers : wpc[w] = "execute" => ~IsNext(w, r)
  /\ leased' = leased \ {r}
  /\ UNCHANGED <<stored, intents, redis, client, worker, faults>>

\* The execute call of the API, which may stop after some tasks.
ExecuteByApi(r) ==
  /\ stored[r] \in {"CREATED", "STARTED"} /\ r \notin leased \cup Broken
  /\ \E state \in {"STARTED", "PARTIAL", "SETTLED"} : stored' = [stored EXCEPT ![r] = state]
  /\ UNCHANGED <<intents, redis, client, worker, leased, faults>>

ClientStep(c) == AppendIntent(c) \/ MarkPending(c) \/ Push(c)

WorkerStep(w) ==
  \/ Pop(w) \/ Unmark(w) \/ Scan(w) \/ Skip(w) \/ Begin(w) \/ Finish(w) \/ Raises(w)
  \/ Restart(w) \/ Sleep(w)

Next ==
  \/ \E c \in Clients : ClientStep(c) \/ ClientCrash(c) \/ \E r \in Runs : LookUp(c, r)
  \/ \E w \in Workers : WorkerStep(w) \/ Interrupted(w) \/ Crash(w)
  \/ \E r \in Runs : ExpireLease(r) \/ ExecuteByApi(r)

Spec == Init /\ [][Next]_vars

\* Workers keep polling, a dead one is started again, and leases expire.
\* Clients need not finish: a client thread may stop at any call.
Fairness ==
  /\ \A w \in Workers : WF_vars(WorkerStep(w))
  /\ \A r \in Runs : WF_vars(ExpireLease(r))

LiveSpec == Spec /\ Fairness

-----------------------------------------------------------------------------
(* Properties.                                                             *)

\* Types of all variables.
TypeOK ==
  /\ stored \in [Runs -> {"CREATED", "STARTED", "PARTIAL", "SETTLED"}]
  /\ intents \subseteq Runs
  /\ list \in Seq(Runs) /\ pending \subseteq Runs
  /\ cpc \in [Clients -> {"idle", "event", "mark", "push"}]
  /\ crun \in [Clients -> Runs \cup {NoRun}]
  /\ wpc \in [Workers -> {"idle", "unmark", "scan", "loop", "execute", "down"}]
  /\ front \in [Workers -> Runs \cup {NoRun}]
  /\ todo \in [Workers -> SUBSET Runs]
  /\ leased \subseteq Runs
  /\ faults \in 0..MaxFaults

Pushing(c) == cpc[c] = "push"
Unmarking(w) == wpc[w] = "unmark"

\* A run id is at one place at most on its way from SADD to SREM: with a client
\* about to push it, in the list, or with a worker about to unmark it, and only
\* while it is marked as pending.  So it is dispatched once however often and by
\* however many clients it is enqueued (RedisRunQueue.enqueue, dequeue).
DispatchedOnce ==
  /\ \A i, j \in DOMAIN list : list[i] = list[j] => i = j
  /\ \A c \in Clients : Pushing(c) =>
       /\ crun[c] \in pending
       /\ \A i \in DOMAIN list : list[i] # crun[c]
       /\ \A d \in Clients : Pushing(d) /\ crun[d] = crun[c] => d = c
  /\ \A w \in Workers : Unmarking(w) =>
       /\ front[w] \in pending
       /\ \A i \in DOMAIN list : list[i] # front[w]
       /\ \A c \in Clients : Pushing(c) => crun[c] # front[w]
       /\ \A v \in Workers : Unmarking(v) /\ front[v] = front[w] => v = w
  /\ \A i \in DOMAIN list : list[i] \in pending

\* An enqueued run is brought to an end whichever client or worker dies on the
\* way, and also when its id never gets to Redis or is stuck in the pending set:
\* the database event is what counts (list_runnable_runs, run_once).
IntentServed ==
  \A r \in Runs \ Broken :
    r \in intents /\ stored[r] = "CREATED" ~> stored[r] \in {"PARTIAL", "SETTLED"}
=============================================================================
