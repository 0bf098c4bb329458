------------------------------ MODULE RunPage ------------------------------
(***************************************************************************)
(* The run page of the web client: three cached queries (run, trace and    *)
(* events) that poll while what they show is not terminal, and buttons     *)
(* whose calls change the run, put their answer into the cache and have    *)
(* the queries fetched again.  The run in the runtime is a version that    *)
(* grows with every write or event, and a state; RunExecution has the two  *)
(* store calls of a write apart.                                           *)
(*                                                                         *)
(* fetch, cancel, invalidate and setQueryData are TanStack Query's; the    *)
(* page is open, visible and online.                                       *)
(***************************************************************************)
EXTENDS Naturals

CONSTANTS
  Queries,     \* of "run", "trace" and "events": those of this page
  Starts,      \* states of the run when the page is opened
  Kinds,       \* the buttons of this page
  MaxWrites,   \* bound on versions
  MaxClicks,   \* bound on clicks
  MaxFailures  \* bound on requests that fail on their way

ASSUME QueryAssumption == Queries \subseteq {"run", "trace", "events"} /\ "run" \in Queries
ASSUME KindAssumption ==
  Kinds \subseteq {"execute", "replan", "cancel", "enqueue", "record", "analyze", "resolve"}
ASSUME StartAssumption ==
  Starts \subseteq {"CREATED", "RUNNING", "VERIFYING", "COMPLETED", "PARTIAL", "FAILED",
                    "CANCELLED", "BLOCKED"}
ASSUME BoundAssumption == MaxWrites \in Nat \ {0} /\ MaxClicks \in Nat /\ MaxFailures \in Nat

VARIABLES
  stored,    \* the run in the runtime
  cache,     \* per query: what was fetched, or NotLoaded
  fetch,     \* per query: the request in flight
  failed,    \* queries whose last fetch failed
  call,      \* per button: its call in flight
  answered,  \* newest version that a call has answered with
  late,      \* queries whose first fetch a successful call found in flight
  clicks, failures

vars == <<stored, cache, fetch, failed, call, answered, late, clicks, failures>>

\* terminalRunStates.
Ended == {"COMPLETED", "PARTIAL", "FAILED", "CANCELLED", "BLOCKED"}
Active == {"CREATED", "RUNNING", "VERIFYING"}

NotLoaded == [version |-> 0, state |-> "NONE"]
Quiet == [phase |-> "idle", value |-> NotLoaded]
Sent == [phase |-> "sent", value |-> NotLoaded]

\* What executors, operators and other clients may make of the run.
Moves(state) ==
  CASE state = "CREATED" -> {"CREATED", "RUNNING", "FAILED", "CANCELLED"}
    [] state = "RUNNING" -> {"RUNNING", "VERIFYING", "FAILED", "BLOCKED", "CANCELLED"}
    [] state = "VERIFYING" -> {"COMPLETED", "PARTIAL", "FAILED", "BLOCKED", "CANCELLED"}
    [] state = "BLOCKED" -> {"CREATED", "FAILED"}
    [] state = "PARTIAL" -> {"CREATED", "PARTIAL"}
    [] OTHER -> {state}
Written(state) == [version |-> stored.version + 1, state |-> state]

-----------------------------------------------------------------------------
(* Queries.                                                                *)

\* Mutant: the trace polls by the run's state.
PollsByRun(q) == cache["run"].state \notin Ended \cup {"NONE"}
\* Mutant: what is loaded is fetched again whatever it says.
PollsLoaded(q) == cache[q] # NotLoaded

\* refetchInterval: run and trace go by their own data, events by the run's.
Polls(q) == cache[IF q = "events" THEN "run" ELSE q].state \notin Ended \cup {"NONE"}

\* Mutant: fetches in flight are kept.
RefetchedUncancelled(some, data) ==
  /\ fetch' = [q \in Queries |-> IF q \in some /\ fetch[q] = Quiet THEN Sent ELSE fetch[q]]
  /\ UNCHANGED late

\* invalidateQueries and refetch: a query with data drops its fetch in flight,
\* one without goes on with it.
Refetched(some, data) ==
  LET kept == {q \in some : data[q] = NotLoaded /\ fetch[q] # Quiet}
  IN /\ fetch' = [q \in Queries |-> IF q \in some \ kept THEN Sent ELSE fetch[q]]
     /\ late' = (late \ some) \cup kept

Poll(q) ==
  /\ fetch[q] = Quiet /\ Polls(q)
  /\ fetch' = [fetch EXCEPT ![q] = Sent]
  /\ late' = late \ {q}
  /\ UNCHANGED <<stored, cache, failed, call, answered, clicks, failures>>

\* The runtime reads the run, then the answer arrives.
Serve(q) ==
  /\ fetch[q] = Sent
  /\ fetch' = [fetch EXCEPT ![q] = [phase |-> "read", value |-> stored]]
  /\ UNCHANGED <<stored, cache, failed, call, answered, late, clicks, failures>>

Arrive(q) ==
  /\ fetch[q].phase = "read"
  /\ cache' = [cache EXCEPT ![q] = fetch[q].value]
  /\ fetch' = [fetch EXCEPT ![q] = Quiet]
  /\ failed' = failed \ {q}
  /\ UNCHANGED <<stored, call, answered, late, clicks, failures>>

\* The request and its retry fail; what was fetched before stays.
FetchFails(q) ==
  /\ fetch[q] # Quiet /\ failures < MaxFailures
  /\ fetch' = [fetch EXCEPT ![q] = Quiet]
  /\ failed' = failed \cup {q}
  /\ failures' = failures + 1
  /\ UNCHANGED <<stored, cache, call, answered, late, clicks>>

-----------------------------------------------------------------------------
(* Buttons.                                                                *)

\* An error of the run query hides all but its own retry button.  "record" is a
\* review or a decision, "analyze" an artifact: their forms need a thesis and
\* qualified evidence, which the cached state does not tell.
Shown(kind) ==
  /\ "run" \notin failed
  /\ cache["run"].state \in
       (CASE kind = "execute" -> {"CREATED"}
          [] kind = "replan" -> {"PARTIAL"}
          [] kind = "enqueue" -> {"CREATED", "PARTIAL"}
          [] kind = "cancel" -> Active
          [] kind = "resolve" -> {"BLOCKED"}
          [] kind = "record" -> {"COMPLETED", "PARTIAL"}
          [] kind = "analyze" -> Active \cup {"COMPLETED", "PARTIAL"})

Click(kind) ==
  /\ Shown(kind) /\ call[kind] = Quiet /\ clicks < MaxClicks
  /\ call' = [call EXCEPT ![kind] = Sent]
  /\ clicks' = clicks + 1
  /\ UNCHANGED <<stored, cache, fetch, failed, answered, late, failures>>

Refresh ==
  /\ clicks < MaxClicks
  /\ Refetched(IF "run" \in failed THEN {"run"} ELSE Queries, cache)
  /\ clicks' = clicks + 1
  /\ UNCHANGED <<stored, cache, failed, call, answered, failures>>

\* What the runtime makes of the run for a call; none where it refuses.  An
\* execution's writes are steps of Write, and it answers when it has ended.
Outcomes(kind) ==
  CASE kind = "execute" -> IF stored.state \in Ended THEN {stored} ELSE {}
    [] kind = "cancel" -> IF stored.state \in Ended THEN {stored} ELSE {Written("CANCELLED")}
    [] kind = "replan" -> IF stored.state = "PARTIAL" THEN {Written("CREATED")} ELSE {}
    [] kind = "enqueue" -> IF stored.state \in {"CREATED", "PARTIAL"}
                           THEN {Written(stored.state)} ELSE {stored}
    [] kind = "resolve" -> IF stored.state = "BLOCKED"
                           THEN {Written(state) : state \in Moves("BLOCKED")} ELSE {}
    [] kind = "record" -> IF stored.state \in {"COMPLETED", "PARTIAL"}
                          THEN {Written(stored.state)} ELSE {}
    [] kind = "analyze" -> {Written(stored.state)}

\* Mutant: the call is answered before its write is made.
HandleUnsaved(kind) ==
  /\ call[kind] = Sent /\ stored.version < MaxWrites
  /\ \E run \in Outcomes(kind) : call' = [call EXCEPT ![kind] = [phase |-> "read", value |-> run]]
  /\ UNCHANGED <<stored, cache, fetch, failed, answered, late, clicks, failures>>

Handle(kind) ==
  /\ call[kind] = Sent /\ stored.version < MaxWrites
  /\ stored' \in Outcomes(kind)
  /\ call' = [call EXCEPT ![kind] = [phase |-> "read", value |-> stored']]
  /\ UNCHANGED <<cache, fetch, failed, answered, late, clicks, failures>>

Refuse(kind) ==
  /\ call[kind] = Sent
  /\ Outcomes(kind) = {} \/ kind \in {"execute", "record", "analyze"}
  /\ call' = [call EXCEPT ![kind] = Quiet]
  /\ UNCHANGED <<stored, cache, fetch, failed, answered, late, clicks, failures>>

\* The request does not come through, or its answer: nothing is fetched again.
CallFails(kind) ==
  /\ call[kind] # Quiet /\ failures < MaxFailures
  /\ call' = [call EXCEPT ![kind] = Quiet]
  /\ failures' = failures + 1
  /\ UNCHANGED <<stored, cache, fetch, failed, answered, late, clicks>>

\* onSuccess: an answer that is a run is shown at once, an artifact in the run that
\* was cached, and all is fetched again.
Answer(kind) ==
  LET run == call[kind].value
      projects == kind \in {"execute", "replan", "record"}
  IN /\ call[kind].phase = "read"
     /\ cache' = IF projects THEN [cache EXCEPT !["run"] = run] ELSE cache
     /\ failed' = IF projects THEN failed \ {"run"} ELSE failed
     /\ Refetched(Queries, cache')
     /\ call' = [call EXCEPT ![kind] = Quiet]
     /\ answered' = IF run.version > answered THEN run.version ELSE answered
     /\ UNCHANGED <<stored, clicks, failures>>

Write ==
  /\ stored.version < MaxWrites
  /\ \E state \in Moves(stored.state) : stored' = Written(state)
  /\ UNCHANGED <<cache, fetch, failed, call, answered, late, clicks, failures>>

-----------------------------------------------------------------------------
Init ==
  /\ stored \in [version : {1}, state : Starts]
  /\ cache = [q \in Queries |-> NotLoaded]
  /\ fetch = [q \in Queries |-> Sent]
  /\ failed = {}
  /\ call = [kind \in Kinds |-> Quiet]
  /\ answered = 0 /\ late = {} /\ clicks = 0 /\ failures = 0

Next ==
  \/ \E q \in Queries : Poll(q) \/ Serve(q) \/ Arrive(q) \/ FetchFails(q)
  \/ \E kind \in Kinds :
       Click(kind) \/ Handle(kind) \/ Refuse(kind) \/ CallFails(kind) \/ Answer(kind)
  \/ Refresh \/ Write

\* The interval's timer fires, and requests are answered or fail.
Fairness ==
  \A q \in Queries : WF_vars(Poll(q)) /\ WF_vars(Serve(q)) /\ WF_vars(Arrive(q))

Spec == Init /\ [][Next]_vars /\ Fairness

-----------------------------------------------------------------------------
(* Properties.                                                             *)

Versions == [version : 0 .. MaxWrites, state : Ended \cup Active \cup {"NONE"}]
Requests == [phase : {"idle", "sent", "read"}, value : Versions]

\* The types; no call was answered with a version that the runtime has not.
TypeOK ==
  /\ stored \in Versions
  /\ cache \in [Queries -> Versions]
  /\ fetch \in [Queries -> Requests]
  /\ failed \subseteq Queries /\ late \subseteq Queries
  /\ call \in [Kinds -> Requests]
  /\ answered \in 0 .. stored.version
  /\ clicks \in 0 .. MaxClicks /\ failures \in 0 .. MaxFailures

\* Once a call of this page was answered, the page shows nothing older than the
\* answer, in any query, except while a fetch is in flight that corrects it or
\* an error is shown; or when the query's first fetch was already on its way.
\* Answers that arrive in another order than they were given may not stay.
OwnWritesShown ==
  \A q \in Queries :
    fetch[q] = Quiet /\ q \notin failed \cup late /\ cache[q] # NotLoaded
      => cache[q].version >= answered

\* A page that shows run or trace in progress comes to show that it ended,
\* whoever ended it, unless it goes on.
EndFollowed ==
  \A q \in Queries \ {"events"} :
    (cache[q].state \in Active /\ stored.state \in Ended)
      ~> (cache[q].state \in Ended \/ stored.state \in Active)

\* When a run stays ended, the page stops asking for it.
EndsQuiet ==
  <>[](stored.state \in Ended) => <>[](\A q \in Queries : fetch[q] = Quiet)
=============================================================================
