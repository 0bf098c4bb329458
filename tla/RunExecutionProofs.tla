------------------------- MODULE RunExecutionProofs -------------------------
(***************************************************************************)
(* RunConsistent for any plan whose tasks are PENDING, any number of       *)
(* executors and API handlers, any interleaving of their calls, and any    *)
(* crashes and lost leases.                                                *)
(*                                                                         *)
(* The argument does not depend on who wins a race.  Every write replaces  *)
(* the whole payload by a copy that some executor or handler has built, so *)
(* it is enough that every copy is sound by itself.  A handler's copy is   *)
(* sound because it was changed once, at the read.  An executor's copy is  *)
(* sound because of where the executor is: LocalAt says what it knows of   *)
(* its copy before each of its calls.                                      *)
(*                                                                         *)
(* One handler is left out.  A replan keeps the receipts of the tasks it    *)
(* does not reset, and a stale record may have put a claim check of        *)
(* unknown outcome back among them: the run then collects evidence over    *)
(* an unfinished check, which no executor alone would do.  Replans beside  *)
(* executors alone are in RunDurabilityProofs.                             *)
(*                                                                         *)
(* First come the lemmas on the payload.  The last section is about the     *)
(* states of run and copies, for any plan: a finished run is published, if  *)
(* its writers do not overlap, and a cancellation stands.                  *)
(***************************************************************************)
EXTENDS RunExecution, RunSteps, SequenceTheorems, TLAPS

-----------------------------------------------------------------------------
(* The payload.  Every change the engine or a handler makes to a copy of a *)
(* run keeps it Consistent, under the condition in which the code makes it; *)
(* and a run that evolves by these changes one at a time knows of every    *)
(* claim check in flight as well.                                          *)

\* A copy that the engine or a handler may hold.
Sound(r) == r \in Run /\ Consistent(r)

\* States in which an executor works on its copy.
Open(r) == r.state \notin Settled

\* The executor's attempt at t is in flight.
InFlight(r, t) ==
  /\ r.task[t] = "RUNNING" /\ r.attempts[t] # << >>
  /\ r.attempts[t][Len(r.attempts[t])] = "OPEN"

-----------------------------------------------------------------------------
(* Receipts of one task.                                                   *)

\* Closing the last receipt in one way or another.
LEMMA LastReceipt ==
  ASSUME NEW s \in Seq(AttemptStates), s # << >>, NEW o \in AttemptStates
  PROVE  LET q == [s EXCEPT ![Len(s)] = o]
         IN  /\ q \in Seq(AttemptStates) /\ Len(q) = Len(s) /\ Len(s) \in Nat \ {0}
             /\ q[Len(q)] = o
             /\ \A k \in 1..(Len(q) - 1) : q[k] = s[k]
<1>1. Len(s) \in 1..Len(s)
  BY EmptySeq
<1> QED BY <1>1, ExceptSeq

\* An open receipt is the last one, and its task is in flight or unknown.
LEMMA OpenIsLast ==
  ASSUME NEW s \in Seq(AttemptStates), NEW state, Accounted(s, state),
         NEW k \in 1..Len(s), s[k] = "OPEN"
  PROVE  k = Len(s) /\ state \in {"RUNNING", "UNKNOWN_EFFECT"} /\ s # << >>
BY DEF Accounted

\* A receipt may be opened where none is open.
LEMMA AppendReceipt ==
  ASSUME NEW s \in Seq(AttemptStates), Accounted(s, "RUNNING"),
         \A k \in 1..Len(s) : s[k] # "OPEN"
  PROVE  LET q == Append(s, "OPEN")
         IN  /\ q \in Seq(AttemptStates) /\ q # << >> /\ q[Len(q)] = "OPEN"
             /\ Accounted(q, "RUNNING") /\ Accounted(q, "UNKNOWN_EFFECT")
<1>1. /\ Append(s, "OPEN") \in Seq(AttemptStates) /\ Append(s, "OPEN") # << >>
      /\ Len(Append(s, "OPEN")) = Len(s) + 1
      /\ Len(s) \in Nat
      /\ Append(s, "OPEN")[Len(s) + 1] = "OPEN"
      /\ \A k \in 1..Len(s) : Append(s, "OPEN")[k] = s[k]
  BY AppendProperties DEF AttemptStates
<1>2. \A k \in 1..Len(s) : s[k] = "RETRY_AUTHORIZED"
  BY <1>1 DEF Accounted
<1> QED BY <1>1, <1>2 DEF Accounted

\* The fields of a payload.
LEMMA Fields ==
  ASSUME NEW r \in Run
  PROVE  /\ r.state \in RunStates
         /\ r.task \in [Tasks -> TaskStates]
         /\ r.attempts \in [Tasks -> Seq(AttemptStates)]
         /\ r.qualified \subseteq Tasks /\ r.checkpoint \subseteq Tasks
         /\ r.claim \in [Tasks -> ClaimStates]
         /\ r.checks \in [Tasks -> Seq(CheckStates)]
         /\ r.thesis \in BOOLEAN /\ r.artifact \in BOOLEAN
BY DEF Run

-----------------------------------------------------------------------------
(* Payloads.                                                               *)

\* A run of which nothing is done is consistent.
LEMMA BlankSound == Sound(Blank)
<1>1. Blank \in Run
  BY TasksAssumption, EmptySeq DEF Blank, NoClaims, Run, RunStates, TaskStates, ClaimStates
<1>2. /\ Blank.state = "CREATED" /\ Blank.thesis = FALSE
      /\ Blank.qualified = {} /\ Blank.checkpoint = {}
      /\ \A t \in Tasks : /\ Blank.task[t] = "PENDING" /\ Blank.claim[t] = "NONE"
                           /\ Blank.attempts[t] = << >> /\ Blank.checks[t] = << >>
  BY DEF Blank, NoClaims
<1>0. Len(<< >>) = 0
  OBVIOUS
<1>3. Unverified(Blank) = {}
  <2>1. \A t \in Tasks : \A k \in 1..Len(Blank.checks[t]) : FALSE
    BY <1>0, <1>2
  <2> QED BY <2>1 DEF Unverified, OpenChecks
<1>4. AttemptsAccounted(Blank)
  <2>1. Accounted(<< >>, "PENDING")
    BY <1>0 DEF Accounted
  <2> QED BY <1>2, <2>1 DEF AttemptsAccounted
<1>5. DependenciesFirst(Blank) /\ UnknownEffectBlocks(Blank)
  BY <1>2 DEF DependenciesFirst, UnknownEffectBlocks
<1>6. ThesisGrounded(Blank)
  BY <1>2, <1>3, VerifiableAssumption DEF ThesisGrounded
<1> QED BY <1>1, <1>4, <1>5, <1>6 DEF Sound, Consistent

\* A ready task of a run with nothing in flight may start.
LEMMA StartTaskSound ==
  ASSUME NEW r, Sound(r), Open(r), Abandoned(r) = {}, NEW t \in Ready(r)
  PROVE  Sound(StartTask(r, t))
<1> DEFINE q == StartTask(r, t)
<1>1. q \in Run
  BY DEF Sound, Run, StartTask, RunStates, TaskStates, Ready
<1>2. /\ t \in Tasks /\ r.task[t] = "PENDING" /\ DependsOn[t] \subseteq Completed(r)
      /\ \A u \in Tasks : r.task[u] \notin {"RUNNING", "UNKNOWN_EFFECT", "FAILED"}
      /\ Unverified(r) = {} /\ r.thesis = FALSE
  BY Fields DEF Sound, Open, Settled, Abandoned, Ready, Consistent, UnknownEffectBlocks,
     ThesisGrounded, Completed
<1>3. /\ q.state = "RUNNING" /\ q.task = [r.task EXCEPT ![t] = "RUNNING"]
      /\ q.attempts = r.attempts /\ q.checks = r.checks /\ q.claim = r.claim
      /\ q.checkpoint = r.checkpoint /\ q.qualified = r.qualified /\ q.thesis = r.thesis
  BY <1>2 DEF Sound, Run, StartTask
<1>4. Completed(q) = Completed(r) /\ Unverified(q) = {}
  BY <1>2, <1>3, Fields DEF Sound, Completed, Unverified, OpenChecks
<1>5. DependenciesFirst(q)
  BY <1>2, <1>3, <1>4, Fields DEF Sound, Consistent, DependenciesFirst
<1>6. AttemptsAccounted(q)
  BY <1>2, <1>3, Fields DEF Sound, Consistent, AttemptsAccounted, Accounted
<1>7. UnknownEffectBlocks(q)
  BY <1>2, <1>3, Fields DEF Sound, UnknownEffectBlocks
<1>8. ThesisGrounded(q)
  BY <1>2, <1>3, <1>4 DEF Sound, Consistent, ThesisGrounded, Verdict
<1> QED BY <1>1, <1>5, <1>6, <1>7, <1>8 DEF Sound, Consistent

\* A checkpoint names the completed tasks.
LEMMA CheckpointSound ==
  ASSUME NEW r, Sound(r)
  PROVE  Sound(Checkpoint(r))
<1> DEFINE q == Checkpoint(r)
<1>1. q \in Run
  BY DEF Sound, Run, Checkpoint, Completed
<1>2. Consistent(q)
  BY VerifiableAssumption, Fields DEF Sound, Checkpoint,
     Consistent, DependenciesFirst, AttemptsAccounted,
     UnknownEffectBlocks, ThesisGrounded, Unverified, OpenChecks, Completed, AllQualified, Verdict
<1> QED BY <1>1, <1>2 DEF Sound

\* A run with nothing in flight may fail.
LEMMA FailRunSound ==
  ASSUME NEW r, Sound(r), Open(r), Abandoned(r) = {}
  PROVE  Sound(FailRun(r))
<1> DEFINE q == FailRun(r)
<1>1. q \in Run
  BY DEF Sound, Run, FailRun, RunStates
<1>2. Consistent(q)
  BY VerifiableAssumption, Fields DEF Sound, Open, Settled, Abandoned, FailRun,
     Consistent, DependenciesFirst, AttemptsAccounted,
     UnknownEffectBlocks, ThesisGrounded, Unverified, OpenChecks, Completed, AllQualified, Verdict
<1> QED BY <1>1, <1>2 DEF Sound

\* A run with an unknown claim check may be blocked.
LEMMA BlockCheckSound ==
  ASSUME NEW r, Sound(r), Open(r), Unverified(r) # {}
  PROVE  Sound(BlockCheck(r))
<1> DEFINE q == BlockCheck(r)
<1>1. q \in Run
  BY DEF Sound, Run, BlockCheck, RunStates
<1>2. Consistent(q)
  BY VerifiableAssumption, Fields DEF Sound, Open, Settled, TaskStates, BlockCheck,
     Consistent, DependenciesFirst, AttemptsAccounted,
     UnknownEffectBlocks, ThesisGrounded, Unverified, OpenChecks, Completed, AllQualified, Verdict
<1> QED BY <1>1, <1>2 DEF Sound

\* A wholly executed run may be verified.
LEMMA BeginVerifyingSound ==
  ASSUME NEW r, Sound(r), Open(r), Completed(r) = Tasks
  PROVE  Sound(BeginVerifying(r))
<1> DEFINE q == BeginVerifying(r)
<1>1. q \in Run
  BY DEF Sound, Run, BeginVerifying, RunStates
<1>2. Consistent(q)
  BY VerifiableAssumption, Fields DEF Sound, Open, Settled, BeginVerifying,
     Consistent, DependenciesFirst, AttemptsAccounted,
     UnknownEffectBlocks, ThesisGrounded, Unverified, OpenChecks, Completed, AllQualified, Verdict
<1> QED BY <1>1, <1>2 DEF Sound

\* The claims of an unfinished run may be dropped.
LEMMA ClearClaimsSound ==
  ASSUME NEW r, Sound(r), Open(r)
  PROVE  Sound(ClearClaims(r))
<1> DEFINE q == ClearClaims(r)
<1>1. q \in Run
  BY DEF Sound, Run, ClearClaims, NoClaims, ClaimStates
<1>2. Consistent(q)
  BY VerifiableAssumption, Fields DEF Sound, Open, Settled, NoClaims, ClearClaims,
     Consistent, DependenciesFirst, AttemptsAccounted,
     UnknownEffectBlocks, ThesisGrounded, Unverified, OpenChecks, Completed, AllQualified, Verdict
<1> QED BY <1>1, <1>2 DEF Sound

\* A verified run may finish.
LEMMA FinishSound ==
  ASSUME NEW r, Sound(r), r.state = "VERIFYING"
  PROVE  Sound(Finish(r))
<1> DEFINE q == Finish(r)
<1>1. q \in Run
  BY DEF Sound, Run, Finish, RunStates
<1>2. /\ q.thesis = TRUE /\ q.state = (IF AllQualified(r) THEN "COMPLETED" ELSE "PARTIAL")
      /\ q.task = r.task /\ q.attempts = r.attempts /\ q.checks = r.checks
      /\ q.claim = r.claim /\ q.checkpoint = r.checkpoint /\ q.qualified = r.qualified
  BY DEF Sound, Run, Finish
<1>3. Completed(r) = Tasks /\ Completed(q) = Tasks /\ Unverified(q) = Unverified(r)
      /\ (AllQualified(q) <=> AllQualified(r))
  BY <1>2 DEF Sound, Consistent, ThesisGrounded, Completed, Unverified, OpenChecks, AllQualified
<1>4. DependenciesFirst(q) /\ AttemptsAccounted(q)
  BY <1>2, <1>3 DEF Sound, Consistent, DependenciesFirst, AttemptsAccounted, Completed
<1>5. UnknownEffectBlocks(q)
  BY <1>2, <1>3 DEF UnknownEffectBlocks, Completed
<1>6. ThesisGrounded(q)
  BY <1>2, <1>3 DEF Sound, Consistent, ThesisGrounded, Verdict
<1> QED BY <1>1, <1>4, <1>5, <1>6 DEF Sound, Consistent

\* An unsettled run may be cancelled.
LEMMA CancelSound ==
  ASSUME NEW r, Sound(r), Open(r)
  PROVE  Sound(Cancel(r))
<1> DEFINE q == Cancel(r)
<1>1. q \in Run
  BY DEF Sound, Run, Cancel, RunStates
<1>2. Consistent(q)
  BY VerifiableAssumption, Fields DEF Sound, Open, Settled, Cancel,
     Consistent, DependenciesFirst, AttemptsAccounted,
     UnknownEffectBlocks, ThesisGrounded, Unverified, OpenChecks, Completed, AllQualified, Verdict
<1> QED BY <1>1, <1>2 DEF Sound

\* An artifact may be added at any time.
LEMMA RecordArtifactSound ==
  ASSUME NEW r, Sound(r)
  PROVE  Sound(RecordArtifact(r))
<1> DEFINE q == RecordArtifact(r)
<1>1. q \in Run
  BY DEF Sound, Run, RecordArtifact
<1>2. Consistent(q)
  BY VerifiableAssumption, Fields DEF Sound, RecordArtifact,
     Consistent, DependenciesFirst, AttemptsAccounted,
     UnknownEffectBlocks, ThesisGrounded, Unverified, OpenChecks, Completed, AllQualified, Verdict
<1> QED BY <1>1, <1>2 DEF Sound

-----------------------------------------------------------------------------
(* Changes to the one task that is in flight or of unknown effect.         *)

\* Everything else in the payload then is settled: nothing is verified yet, and
\* no other task is in flight, unknown or failed.
LEMMA OnlyOne ==
  ASSUME NEW r, Sound(r), NEW t \in Tasks, r.task[t] \in {"RUNNING", "UNKNOWN_EFFECT"}
  PROVE  /\ Unverified(r) = {} /\ r.thesis = FALSE
         /\ r.state \in {"RUNNING", "CANCELLED", "BLOCKED"}
         /\ r.task[t] = "RUNNING" => r.state \in {"RUNNING", "CANCELLED"}
         /\ DependsOn[t] \subseteq Completed(r) /\ t \notin Completed(r)
         /\ \A u \in Tasks \ {t} : r.task[u] \in {"PENDING", "COMPLETED"}
<1>1. r \in Run /\ DependenciesFirst(r) /\ UnknownEffectBlocks(r) /\ ThesisGrounded(r)
  BY DEF Sound, Consistent
<1>2. t \notin Completed(r) /\ Completed(r) # Tasks
  BY DEF Completed
<1>3. /\ r.state \in {"RUNNING", "CANCELLED", "BLOCKED"}
      /\ r.task[t] = "RUNNING" => r.state \in {"RUNNING", "CANCELLED"}
  BY <1>1 DEF UnknownEffectBlocks
<1>4. Unverified(r) = {} /\ r.thesis = FALSE
  BY <1>1, <1>2, <1>3, Fields DEF ThesisGrounded
<1>5. DependsOn[t] \subseteq Completed(r)
  BY <1>1 DEF DependenciesFirst
<1>6. \A u \in Tasks \ {t} : r.task[u] \in {"PENDING", "COMPLETED"}
  <2> SUFFICES ASSUME NEW u \in Tasks \ {t} PROVE r.task[u] \in {"PENDING", "COMPLETED"}
    OBVIOUS
  <2>1. r.task[u] \in TaskStates
    BY <1>1, Fields
  <2>2. r.task[u] \notin {"RUNNING", "UNKNOWN_EFFECT"}
    BY <1>1 DEF UnknownEffectBlocks
  <2>3. r.task[u] # "FAILED"
    BY <1>1, <1>3 DEF UnknownEffectBlocks
  <2> QED BY <2>1, <2>2, <2>3 DEF TaskStates
<1> QED BY <1>2, <1>3, <1>4, <1>5, <1>6

\* q is r with task t gone on to s, its receipts and the run's state in accord.
ChangesTask(r, q, t, s) ==
  /\ q \in Run
  /\ q.task = [r.task EXCEPT ![t] = s]
  /\ \A u \in Tasks \ {t} : q.attempts[u] = r.attempts[u]
  /\ Accounted(q.attempts[t], s)
  /\ q.checks = r.checks /\ q.claim = r.claim /\ q.checkpoint = r.checkpoint /\ q.thesis = r.thesis
  /\ q.qualified \subseteq r.qualified \cup (IF s = "COMPLETED" THEN {t} ELSE {})
  /\ q.state \in {"CREATED", "RUNNING", "CANCELLED", "FAILED", "BLOCKED"}
  /\ s = "RUNNING" => q.state \in {"RUNNING", "CANCELLED"}
  /\ s = "FAILED" => q.state = "FAILED"
  /\ s = "UNKNOWN_EFFECT" <=> q.state = "BLOCKED"

\* A change to one task in flight, with its receipts, keeps a copy sound.
LEMMA TaskChange ==
  ASSUME NEW r, Sound(r), NEW t \in Tasks, r.task[t] \in {"RUNNING", "UNKNOWN_EFFECT"},
         NEW q, NEW s \in TaskStates, ChangesTask(r, q, t, s)
  PROVE  Sound(q)
<1> USE DEF ChangesTask
<1>1. /\ r \in Run /\ DependenciesFirst(r) /\ AttemptsAccounted(r) /\ ThesisGrounded(r)
  BY DEF Sound, Consistent
<1>2. /\ Unverified(r) = {} /\ r.thesis = FALSE
      /\ DependsOn[t] \subseteq Completed(r) /\ t \notin Completed(r)
      /\ \A u \in Tasks \ {t} : r.task[u] \in {"PENDING", "COMPLETED"}
  BY OnlyOne
<1>3. q.task[t] = s /\ \A u \in Tasks \ {t} : q.task[u] = r.task[u]
  BY <1>1, Fields
<1>4. Completed(q) = Completed(r) \cup (IF s = "COMPLETED" THEN {t} ELSE {}) /\ Unverified(q) = {}
  BY <1>2, <1>3 DEF Completed, Unverified, OpenChecks
<1>5. DependenciesFirst(q)
  BY <1>1, <1>2, <1>3, <1>4 DEF DependenciesFirst
<1>6. AttemptsAccounted(q)
  BY <1>1, <1>3 DEF AttemptsAccounted
<1>7. UnknownEffectBlocks(q)
  BY <1>2, <1>3 DEF UnknownEffectBlocks
<1>8. ThesisGrounded(q)
  BY <1>1, <1>2, <1>4 DEF ThesisGrounded, Verdict
<1> QED BY <1>5, <1>6, <1>7, <1>8 DEF Sound, Consistent

\* The receipt that precedes the provider call may be opened.
LEMMA OpenAttemptSound ==
  ASSUME NEW r, Sound(r), NEW t \in Tasks, r.task[t] = "RUNNING", OpenAttempts(r, t) = {}
  PROVE  Sound(OpenAttempt(r, t)) /\ InFlight(OpenAttempt(r, t), t)
         /\ OpenAttempt(r, t).state = r.state
<1> DEFINE q == OpenAttempt(r, t)
           a == Append(r.attempts[t], "OPEN")
<1>1. r \in Run /\ r.attempts[t] \in Seq(AttemptStates) /\ Accounted(r.attempts[t], "RUNNING")
  BY Fields DEF Sound, Consistent, AttemptsAccounted
<1>2. \A k \in 1..Len(r.attempts[t]) : r.attempts[t][k] # "OPEN"
  BY DEF OpenAttempts
<1>3. /\ a \in Seq(AttemptStates) /\ a # << >> /\ a[Len(a)] = "OPEN" /\ Accounted(a, "RUNNING")
  BY <1>1, <1>2, AppendReceipt
<1>4. [r.attempts EXCEPT ![t] = a] \in [Tasks -> Seq(AttemptStates)]
  BY <1>1, <1>3, Fields
<1>5. q = [r EXCEPT !.attempts = [r.attempts EXCEPT ![t] = a]]
  BY DEF OpenAttempt
<1> HIDE DEF q, a
<1>6. /\ q \in Run /\ q.attempts[t] = a /\ \A u \in Tasks \ {t} : q.attempts[u] = r.attempts[u]
      /\ q.task = r.task /\ q.checks = r.checks /\ q.claim = r.claim /\ q.checkpoint = r.checkpoint
      /\ q.thesis = r.thesis /\ q.qualified = r.qualified /\ q.state = r.state
  BY <1>1, <1>4, <1>5 DEF Run
<1>7. q.task = [r.task EXCEPT ![t] = "RUNNING"] /\ q.state \in {"RUNNING", "CANCELLED"}
  <2>1. r.state \in {"RUNNING", "CANCELLED"}
    BY OnlyOne
  <2>2. r.task \in [Tasks -> TaskStates]
    BY <1>1, Fields
  <2> QED BY ONLY r.task[t] = "RUNNING", t \in Tasks, <1>6, <2>1, <2>2
<1>8. ChangesTask(r, q, t, "RUNNING")
  BY <1>3, <1>6, <1>7 DEF ChangesTask
<1>9. Sound(q)
  BY <1>8, TaskChange DEF TaskStates
<1>10. InFlight(q, t)
  BY <1>3, <1>6 DEF InFlight
<1> QED BY <1>6, <1>9, <1>10 DEF q

\* How the end of an attempt and the task's next state go together.
Closes(outcome, taskState) ==
  \/ outcome = "SUCCEEDED" /\ taskState = "COMPLETED"
  \/ outcome \in {"FAILED", "MARKED_FAILED"} /\ taskState = "FAILED"
  \/ outcome = "RETRY_AUTHORIZED" /\ taskState = "PENDING"

\* Closing the last receipt accounts for the task's new state.
LEMMA CloseReceipt ==
  ASSUME NEW a \in Seq(AttemptStates), a # << >>, NEW state, Accounted(a, state),
         NEW outcome \in AttemptStates, NEW taskState, Closes(outcome, taskState)
  PROVE  LET b == [a EXCEPT ![Len(a)] = outcome]
         IN  b \in Seq(AttemptStates) /\ Accounted(b, taskState)
<1> DEFINE b == [a EXCEPT ![Len(a)] = outcome]
<1>1. /\ b \in Seq(AttemptStates) /\ Len(b) = Len(a) /\ Len(a) \in Nat \ {0}
      /\ b[Len(b)] = outcome /\ \A k \in 1..(Len(b) - 1) : b[k] = a[k]
  BY LastReceipt
<1> HIDE DEF b
<1>2. \A k \in 1..(Len(b) - 1) : b[k] = "RETRY_AUTHORIZED"
  BY <1>1 DEF Accounted
<1>3. Accounted(b, taskState)
  BY <1>1, <1>2 DEF Accounted, Closes
<1> QED BY <1>1, <1>3 DEF b

\* r with the last receipt of t closed.
Closed(r, t, outcome, taskState, runState, met) ==
  [r EXCEPT !.task = [r.task EXCEPT ![t] = taskState],
            !.attempts = [r.attempts EXCEPT ![t] = [@ EXCEPT ![Len(r.attempts[t])] = outcome]],
            !.qualified = met, !.state = runState]

\* The last receipt may be closed and the task go on, over a state of the run
\* that says so.
LEMMA CloseAttemptSound ==
  ASSUME NEW r, Sound(r), NEW t \in Tasks, r.task[t] \in {"RUNNING", "UNKNOWN_EFFECT"},
         r.attempts[t] # << >>,
         NEW outcome \in AttemptStates, NEW taskState \in TaskStates, Closes(outcome, taskState),
         NEW runState \in {"CREATED", "RUNNING", "CANCELLED", "FAILED"},
         NEW met \in SUBSET Tasks,
         met \subseteq r.qualified \cup (IF taskState = "COMPLETED" THEN {t} ELSE {}),
         taskState = "FAILED" => runState = "FAILED"
  PROVE  Sound(Closed(r, t, outcome, taskState, runState, met))
<1> DEFINE q == Closed(r, t, outcome, taskState, runState, met)
           a == r.attempts[t]
           b == [a EXCEPT ![Len(a)] = outcome]
<1>1. r \in Run /\ a \in Seq(AttemptStates) /\ Accounted(a, r.task[t])
  BY Fields DEF Sound, Consistent, AttemptsAccounted
<1>2. b \in Seq(AttemptStates) /\ Accounted(b, taskState)
  BY <1>1, CloseReceipt
<1>3. q = [r EXCEPT !.task = [r.task EXCEPT ![t] = taskState],
                    !.attempts = [r.attempts EXCEPT ![t] = b],
                    !.qualified = met, !.state = runState]
  BY DEF Closed
<1> HIDE DEF q, b
<1>4. /\ [r.attempts EXCEPT ![t] = b] \in [Tasks -> Seq(AttemptStates)]
      /\ [r.task EXCEPT ![t] = taskState] \in [Tasks -> TaskStates]
  BY <1>1, <1>2, Fields
<1>5. q \in Run
  BY <1>1, <1>3, <1>4 DEF Run, RunStates
<1>8. /\ q.attempts[t] = b /\ \A u \in Tasks \ {t} : q.attempts[u] = r.attempts[u]
      /\ q.task = [r.task EXCEPT ![t] = taskState]
      /\ q.checks = r.checks /\ q.claim = r.claim /\ q.checkpoint = r.checkpoint
      /\ q.thesis = r.thesis /\ q.qualified = met /\ q.state = runState
  BY <1>1, <1>3, <1>4, Fields DEF Run
<1>6. taskState # "RUNNING" /\ taskState # "UNKNOWN_EFFECT"
  BY DEF Closes
<1>7. ChangesTask(r, q, t, taskState)
  BY <1>2, <1>5, <1>6, <1>8 DEF ChangesTask
<1> QED BY <1>7, TaskChange DEF q

\* A collection that succeeds.
LEMMA CompleteTaskSound ==
  ASSUME NEW r, Sound(r), NEW t \in Tasks, InFlight(r, t), NEW meets \in BOOLEAN, NEW taken
  PROVE  /\ Sound(CompleteTask(r, t, meets, taken))
         /\ Abandoned(CompleteTask(r, t, meets, taken)) = {}
         /\ CompleteTask(r, t, meets, taken).state = r.state
<1> DEFINE q == CompleteTask(r, t, meets, taken)
           met == (IF meets THEN r.qualified \cup {t} ELSE r.qualified) \ taken
<1>1. r \in Run /\ r.state \in {"RUNNING", "CANCELLED"} /\ r.qualified \subseteq Tasks
      /\ \A u \in Tasks \ {t} : r.task[u] # "RUNNING"
  BY OnlyOne, Fields DEF Sound, InFlight
<1>2. q = Closed(r, t, "SUCCEEDED", "COMPLETED", r.state, met)
  BY <1>1 DEF CompleteTask, CloseAttempt, Run, Closed
<1>3. met \in SUBSET Tasks /\ met \subseteq r.qualified \cup {t}
  BY <1>1
<1> HIDE DEF q, met
<1>4. Sound(q)
  BY <1>1, <1>2, <1>3, CloseAttemptSound DEF InFlight, Closes, AttemptStates, TaskStates
<1>5. q.task = [r.task EXCEPT ![t] = "COMPLETED"] /\ q.state = r.state
  BY <1>1, <1>2 DEF Run, Closed
<1>6. Abandoned(q) = {}
  BY <1>1, <1>5, Fields DEF Abandoned
<1> QED BY <1>4, <1>5, <1>6 DEF q

\* A collection that fails.
LEMMA FailTaskSound ==
  ASSUME NEW r, Sound(r), NEW t \in Tasks, InFlight(r, t)
  PROVE  Sound(FailTask(r, t))
<1> DEFINE q == FailTask(r, t)
<1>1. r \in Run /\ r.qualified \in SUBSET Tasks
  BY Fields DEF Sound
<1>2. q = Closed(r, t, "FAILED", "FAILED", "FAILED", r.qualified)
  BY <1>1 DEF FailTask, FailRun, CloseAttempt, Run, Closed
<1> HIDE DEF q
<1>3. Sound(q)
  BY <1>1, <1>2, CloseAttemptSound DEF InFlight, Closes, AttemptStates, TaskStates
<1> QED BY <1>3 DEF q

\* Where the open receipt of an unknown effect is.
LEMMA OpenIsLastOf ==
  ASSUME NEW r, Sound(r), NEW t \in Tasks, NEW k \in OpenAttempts(r, t)
  PROVE  k = Len(r.attempts[t]) /\ r.attempts[t] # << >>
<1>1. r.attempts[t] \in Seq(AttemptStates) /\ Accounted(r.attempts[t], r.task[t])
  BY Fields DEF Sound, Consistent, AttemptsAccounted
<1>2. k \in 1..Len(r.attempts[t]) /\ r.attempts[t][k] = "OPEN"
  BY DEF OpenAttempts
<1> QED BY <1>1, <1>2, OpenIsLast

\* An operator's RETRY of a collection.
LEMMA RetryAttemptSound ==
  ASSUME NEW r, Sound(r), NEW t \in Tasks, NEW k \in OpenAttempts(r, t),
         r.task[t] = "UNKNOWN_EFFECT"
  PROVE  Sound(RetryAttempt(r, t, k))
<1> DEFINE q == RetryAttempt(r, t, k)
<1>1. r \in Run /\ r.qualified \in SUBSET Tasks
  BY Fields DEF Sound
<1>2. k = Len(r.attempts[t]) /\ r.attempts[t] # << >>
  BY OpenIsLastOf
<1>3. q = Closed(r, t, "RETRY_AUTHORIZED", "PENDING", "CREATED", r.qualified)
  BY <1>1, <1>2 DEF RetryAttempt, Run, Closed
<1> HIDE DEF q
<1>4. Sound(q)
  BY <1>1, <1>2, <1>3, CloseAttemptSound DEF Closes, AttemptStates, TaskStates
<1> QED BY <1>4 DEF q

\* An operator's MARK_FAILED of a collection.
LEMMA RejectAttemptSound ==
  ASSUME NEW r, Sound(r), NEW t \in Tasks, NEW k \in OpenAttempts(r, t),
         r.task[t] = "UNKNOWN_EFFECT"
  PROVE  Sound(RejectAttempt(r, t, k))
<1> DEFINE q == RejectAttempt(r, t, k)
<1>1. r \in Run /\ r.qualified \in SUBSET Tasks
  BY Fields DEF Sound
<1>2. k = Len(r.attempts[t]) /\ r.attempts[t] # << >>
  BY OpenIsLastOf
<1>3. q = Closed(r, t, "MARKED_FAILED", "FAILED", "FAILED", r.qualified)
  BY <1>1, <1>2 DEF RejectAttempt, Run, Closed
<1> HIDE DEF q
<1>4. Sound(q)
  BY <1>1, <1>2, <1>3, CloseAttemptSound DEF Closes, AttemptStates, TaskStates
<1> QED BY <1>4 DEF q

\* The take-over of a task found RUNNING.
LEMMA BlockTaskSound ==
  ASSUME NEW r, Sound(r), NEW t \in Abandoned(r)
  PROVE  Sound(BlockTask(r, t))
<1> DEFINE q == BlockTask(r, t)
<1>1. /\ r \in Run /\ t \in Tasks /\ r.task[t] = "RUNNING" /\ r.attempts[t] \in Seq(AttemptStates)
      /\ Accounted(r.attempts[t], "RUNNING")
  BY Fields DEF Sound, Consistent, AttemptsAccounted, Abandoned
<1>2. Unverified(r) = {}
  BY <1>1, OnlyOne
<1>3. PICK a \in Seq(AttemptStates) :
        /\ Accounted(a, "UNKNOWN_EFFECT")
        /\ q = [r EXCEPT !.task = [r.task EXCEPT ![t] = "UNKNOWN_EFFECT"],
                         !.attempts = [r.attempts EXCEPT ![t] = a], !.state = "BLOCKED"]
  <2>1. CASE OpenAttempts(r, t) # {}
    <3>1. PICK k \in OpenAttempts(r, t) : k = Len(r.attempts[t]) /\ r.attempts[t] # << >>
      BY <1>1, <2>1, OpenIsLastOf
    <3>2. Accounted(r.attempts[t], "UNKNOWN_EFFECT")
      BY <1>1, <3>1, EmptySeq DEF OpenAttempts, Accounted
    <3>3. q = [r EXCEPT !.task = [r.task EXCEPT ![t] = "UNKNOWN_EFFECT"],
                        !.attempts = [r.attempts EXCEPT ![t] = r.attempts[t]], !.state = "BLOCKED"]
      <4>1. q = [r EXCEPT !.task = [r.task EXCEPT ![t] = "UNKNOWN_EFFECT"], !.state = "BLOCKED"]
        BY <2>1 DEF BlockTask
      <4>2. r.attempts = [r.attempts EXCEPT ![t] = r.attempts[t]]
        BY <1>1, Fields
      <4> QED BY <1>1, <4>1, <4>2 DEF Run
    <3> QED BY <1>1, <3>2, <3>3
  <2>2. CASE OpenAttempts(r, t) = {}
    <3> DEFINE a == Append(r.attempts[t], "OPEN")
    <3>1. a \in Seq(AttemptStates) /\ Accounted(a, "UNKNOWN_EFFECT")
      BY <1>1, <2>2, AppendReceipt DEF OpenAttempts
    <3>2. q = [r EXCEPT !.task = [r.task EXCEPT ![t] = "UNKNOWN_EFFECT"],
                        !.attempts = [r.attempts EXCEPT ![t] = a], !.state = "BLOCKED"]
      BY <1>1, <1>2, <2>2 DEF BlockTask, OpenAttempt, Run
    <3> QED BY <3>1, <3>2
  <2> QED BY <2>1, <2>2
<1> HIDE DEF q
<1>4. /\ [r.attempts EXCEPT ![t] = a] \in [Tasks -> Seq(AttemptStates)]
      /\ [r.task EXCEPT ![t] = "UNKNOWN_EFFECT"] \in [Tasks -> TaskStates]
  BY <1>1, Fields DEF TaskStates
<1>5. /\ q \in Run /\ q.attempts[t] = a /\ \A u \in Tasks \ {t} : q.attempts[u] = r.attempts[u]
      /\ q.task = [r.task EXCEPT ![t] = "UNKNOWN_EFFECT"]
      /\ q.checks = r.checks /\ q.claim = r.claim /\ q.checkpoint = r.checkpoint
      /\ q.thesis = r.thesis /\ q.qualified = r.qualified /\ q.state = "BLOCKED"
  BY <1>1, <1>3, <1>4 DEF Run, RunStates
<1>6. ChangesTask(r, q, t, "UNKNOWN_EFFECT")
  BY <1>3, <1>5 DEF ChangesTask
<1>7. Sound(q)
  BY <1>1, <1>6, TaskChange DEF TaskStates
<1> QED BY <1>7 DEF q

-----------------------------------------------------------------------------
(* Changes to the claims and their checks, over a wholly executed plan.    *)

\* Every claim that was to be checked and qualified was found SUPPORTED last.
ClaimsChecked(r) ==
  \A t \in Verifiable : r.claim[t] = "QUALIFIED" => r.checks[t] # << >> /\ Verdict(r, t) = "SUPPORTED"

\* q is r with other claims, checks and state.
ChangesClaims(r, q) ==
  /\ q \in Run /\ ClaimsChecked(q)
  /\ q.task = r.task /\ q.attempts = r.attempts
  /\ q.checkpoint = r.checkpoint /\ q.qualified = r.qualified
  /\ q.thesis = FALSE /\ q.state \in {"CREATED", "VERIFYING", "FAILED"}

\* A change to claims and checks alone keeps a wholly executed copy sound.
LEMMA ClaimsChange ==
  ASSUME NEW r, Sound(r), Completed(r) = Tasks, NEW q, ChangesClaims(r, q)
  PROVE  Sound(q)
<1>1. /\ r \in Run /\ DependenciesFirst(r) /\ AttemptsAccounted(r) /\ ThesisGrounded(r)
  BY DEF Sound, Consistent
<1>2. Completed(q) = Tasks /\ \A t \in Tasks : q.task[t] = "COMPLETED"
  BY DEF ChangesClaims, Completed
<1>3. DependenciesFirst(q) /\ AttemptsAccounted(q)
  BY <1>1, <1>2, DependsOnAssumption DEF ChangesClaims, DependenciesFirst, AttemptsAccounted
<1>4. UnknownEffectBlocks(q)
  BY <1>2 DEF ChangesClaims, UnknownEffectBlocks
<1>5. ThesisGrounded(q)
  BY <1>1, <1>2 DEF ChangesClaims, ClaimsChecked, ThesisGrounded
<1> QED BY <1>3, <1>4, <1>5 DEF ChangesClaims, Sound, Consistent

\* What is known of a payload whose claims are worked on.
LEMMA Executed ==
  ASSUME NEW r, Sound(r), Open(r) \/ r.state = "BLOCKED",
         r.state = "VERIFYING" \/ Unverified(r) # {}
  PROVE  r \in Run /\ Completed(r) = Tasks /\ ClaimsChecked(r) /\ r.thesis = FALSE
BY Fields DEF Sound, Consistent, ThesisGrounded, ClaimsChecked, Open, Settled

\* r with the checks of t replaced.
WithChecks(r, t, checks) == [r EXCEPT !.checks = [r.checks EXCEPT ![t] = checks]]

\* The checks of a claim not settled yet are free to change.
LEMMA WithChecksSound ==
  ASSUME NEW r, Sound(r), r.state = "VERIFYING", NEW t \in Tasks, r.claim[t] = "NONE",
         NEW checks \in Seq(CheckStates)
  PROVE  LET q == WithChecks(r, t, checks)
         IN  /\ Sound(q) /\ q.state = "VERIFYING" /\ q.claim[t] = "NONE" /\ q.checks[t] = checks
             /\ q.qualified = r.qualified
<1> DEFINE q == WithChecks(r, t, checks)
<1>1. r \in Run /\ Completed(r) = Tasks /\ ClaimsChecked(r) /\ r.thesis = FALSE
  BY Executed DEF Open, Settled
<1>2. [r.checks EXCEPT ![t] = checks] \in [Tasks -> Seq(CheckStates)]
  BY <1>1, Fields
<1>3. /\ q \in Run /\ q.task = r.task /\ q.attempts = r.attempts /\ q.claim = r.claim
      /\ q.checkpoint = r.checkpoint /\ q.qualified = r.qualified
      /\ q.thesis = r.thesis /\ q.state = r.state /\ q.checks = [r.checks EXCEPT ![t] = checks]
  BY <1>1, <1>2 DEF WithChecks, Run
<1> HIDE DEF q
<1>4. q.checks[t] = checks /\ \A u \in Tasks \ {t} : q.checks[u] = r.checks[u]
  BY <1>1, <1>3, Fields
<1>5. ClaimsChecked(q)
  BY <1>1, <1>3, <1>4, VerifiableAssumption DEF ClaimsChecked, Verdict
<1>6. ChangesClaims(r, q)
  BY <1>1, <1>3, <1>5 DEF ChangesClaims
<1>7. Sound(q)
  BY <1>1, <1>6, ClaimsChange
<1> QED BY <1>3, <1>4, <1>7 DEF q

\* The receipt that precedes a claim check may be opened.
LEMMA OpenCheckSound ==
  ASSUME NEW r, Sound(r), r.state = "VERIFYING", NEW t \in Tasks, r.claim[t] = "NONE"
  PROVE  LET q == OpenCheck(r, t)
         IN  /\ Sound(q) /\ q.state = "VERIFYING" /\ q.claim[t] = "NONE" /\ q.checks[t] # << >>
<1>1. r.checks[t] \in Seq(CheckStates)
  BY Fields DEF Sound
<1> DEFINE d == Append(r.checks[t], "OPEN")
           q == OpenCheck(r, t)
<1>2. d \in Seq(CheckStates) /\ d # << >>
  BY <1>1, AppendProperties DEF CheckStates
<1>3. q = WithChecks(r, t, d)
  BY DEF OpenCheck, WithChecks
<1> HIDE DEF d, q
<1>4. Sound(q) /\ q.state = "VERIFYING" /\ q.claim[t] = "NONE" /\ q.checks[t] = d
  BY <1>2, <1>3, WithChecksSound
<1> QED BY <1>2, <1>4 DEF q

\* A claim check may be answered.
LEMMA CloseCheckSound ==
  ASSUME NEW r, Sound(r), r.state = "VERIFYING", NEW t \in Tasks, r.claim[t] = "NONE",
         r.checks[t] # << >>, NEW verdict \in CheckStates
  PROVE  LET q == CloseCheck(r, t, verdict)
         IN  /\ Sound(q) /\ q.state = "VERIFYING" /\ q.claim[t] = "NONE"
             /\ q.checks[t] # << >> /\ Verdict(q, t) = verdict
<1> DEFINE c == r.checks[t]
           d == [c EXCEPT ![Len(c)] = verdict]
           q == CloseCheck(r, t, verdict)
<1>1. c \in Seq(CheckStates) /\ Len(c) \in 1..Len(c)
  BY Fields, EmptySeq DEF Sound
<1>2. d \in Seq(CheckStates) /\ Len(d) = Len(c) /\ d[Len(d)] = verdict
  BY <1>1, ExceptSeq
<1>3. q = WithChecks(r, t, d)
  BY DEF CloseCheck, WithChecks
<1> HIDE DEF q, d
<1>4. Sound(q) /\ q.state = "VERIFYING" /\ q.claim[t] = "NONE" /\ q.checks[t] = d
  BY <1>2, <1>3, WithChecksSound
<1>5. d # << >> /\ Verdict(q, t) = verdict
  BY <1>1, <1>2, <1>4, EmptySeq DEF Verdict
<1> QED BY <1>4, <1>5 DEF q

\* A claim may be settled; a checked one is QUALIFIED only by its verdict.
LEMMA AddClaimSound ==
  ASSUME NEW r, Sound(r), r.state = "VERIFYING", NEW t \in Tasks, NEW status \in ClaimStates,
         t \in Verifiable /\ status = "QUALIFIED" => r.checks[t] # << >> /\ Verdict(r, t) = "SUPPORTED"
  PROVE  Sound(AddClaim(r, t, status)) /\ AddClaim(r, t, status).state = "VERIFYING"
<1> DEFINE q == AddClaim(r, t, status)
<1>1. r \in Run /\ Completed(r) = Tasks /\ ClaimsChecked(r) /\ r.thesis = FALSE
  BY Executed DEF Open, Settled
<1>2. [r.claim EXCEPT ![t] = status] \in [Tasks -> ClaimStates]
  BY <1>1, Fields
<1>3. /\ q \in Run /\ q.task = r.task /\ q.attempts = r.attempts /\ q.checks = r.checks
      /\ q.checkpoint = r.checkpoint /\ q.qualified = r.qualified
      /\ q.thesis = r.thesis /\ q.state = r.state /\ q.claim = [r.claim EXCEPT ![t] = status]
  BY <1>1, <1>2 DEF AddClaim, Run
<1> HIDE DEF q
<1>4. q.claim[t] = status /\ \A u \in Tasks \ {t} : q.claim[u] = r.claim[u]
  BY <1>1, <1>3, Fields
<1>5. ClaimsChecked(q)
  BY <1>1, <1>3, <1>4, VerifiableAssumption DEF ClaimsChecked, Verdict
<1>6. ChangesClaims(r, q)
  BY <1>1, <1>3, <1>5 DEF ChangesClaims
<1> QED BY <1>1, <1>3, <1>6, ClaimsChange DEF q

\* Receipts of a check of unknown outcome.
LEMMA ReplacedCheck ==
  ASSUME NEW r \in Run, NEW t \in Tasks, NEW k \in OpenChecks(r, t), NEW verdict \in CheckStates
  PROVE  LET c == r.checks[t]
             d == [c EXCEPT ![k] = verdict]
         IN  /\ c \in Seq(CheckStates) /\ d \in Seq(CheckStates)
             /\ c # << >> /\ d # << >> /\ Len(d) = Len(c)
             /\ d[Len(d)] = (IF k = Len(c) THEN verdict ELSE c[Len(c)])
             /\ k = Len(c) => c[Len(c)] = "OPEN"
<1> DEFINE c == r.checks[t]
           d == [c EXCEPT ![k] = verdict]
<1>1. c \in Seq(CheckStates) /\ k \in 1..Len(c) /\ c[k] = "OPEN"
  BY Fields DEF OpenChecks
<1>2. Len(c) \in 1..Len(c) /\ c # << >>
  BY <1>1, EmptySeq
<1>3. /\ d \in Seq(CheckStates) /\ Len(d) = Len(c)
      /\ \A j \in 1..Len(c) : d[j] = IF j = k THEN verdict ELSE c[j]
  BY <1>1, ExceptSeq
<1> HIDE DEF c, d
<1>4. d # << >>
  BY <1>2, <1>3, EmptySeq
<1>5. d[Len(d)] = (IF k = Len(c) THEN verdict ELSE c[Len(c)])
  BY <1>2, <1>3
<1> QED BY <1>1, <1>2, <1>3, <1>4, <1>5 DEF c, d

\* An operator's RETRY of a claim check: all claims are to be settled anew.
LEMMA RetryCheckSound ==
  ASSUME NEW r, Sound(r), r.state = "BLOCKED", NEW t \in Tasks, NEW k \in OpenChecks(r, t)
  PROVE  Sound(RetryCheck(r, t, k))
<1> DEFINE d == [r.checks[t] EXCEPT ![k] = "RETRY_AUTHORIZED"]
           q == RetryCheck(r, t, k)
<1>1. r \in Run /\ Completed(r) = Tasks
  BY Executed DEF Unverified
<1>2. d \in Seq(CheckStates)
  BY <1>1, ReplacedCheck DEF CheckStates
<1>3. NoClaims \in [Tasks -> ClaimStates] /\ [r.checks EXCEPT ![t] = d] \in [Tasks -> Seq(CheckStates)]
  BY <1>1, <1>2, Fields DEF NoClaims, ClaimStates
<1>4. /\ q \in Run /\ q.task = r.task /\ q.attempts = r.attempts /\ q.claim = NoClaims
      /\ q.checkpoint = r.checkpoint /\ q.qualified = r.qualified
      /\ q.thesis = FALSE /\ q.state = "CREATED"
  BY <1>1, <1>3 DEF RetryCheck, ClearClaims, Run, RunStates
<1> HIDE DEF q
<1>5. ClaimsChecked(q)
  BY <1>4, VerifiableAssumption DEF ClaimsChecked, NoClaims
<1>6. ChangesClaims(r, q)
  BY <1>4, <1>5 DEF ChangesClaims
<1> QED BY <1>1, <1>6, ClaimsChange DEF q

\* An operator's MARK_FAILED of a claim check.
LEMMA RejectCheckSound ==
  ASSUME NEW r, Sound(r), r.state = "BLOCKED", NEW t \in Tasks, NEW k \in OpenChecks(r, t)
  PROVE  Sound(RejectCheck(r, t, k))
<1> DEFINE d == [r.checks[t] EXCEPT ![k] = "MARKED_FAILED"]
           q == RejectCheck(r, t, k)
<1>1. r \in Run /\ Completed(r) = Tasks /\ ClaimsChecked(r) /\ r.thesis = FALSE
  BY Executed DEF Unverified
<1>2. /\ d \in Seq(CheckStates) /\ d # << >> /\ r.checks[t] # << >>
      /\ r.checks[t][Len(r.checks[t])] = "SUPPORTED" => d[Len(d)] = "SUPPORTED"
  BY <1>1, ReplacedCheck DEF CheckStates
<1>3. q = [r EXCEPT !.state = "FAILED", !.checks = [r.checks EXCEPT ![t] = d]]
  BY DEF RejectCheck
<1> HIDE DEF d
<1>4. [r.checks EXCEPT ![t] = d] \in [Tasks -> Seq(CheckStates)]
  BY <1>1, <1>2, Fields
<1>5. /\ q \in Run /\ q.task = r.task /\ q.attempts = r.attempts /\ q.claim = r.claim
      /\ q.checkpoint = r.checkpoint /\ q.qualified = r.qualified
      /\ q.thesis = FALSE /\ q.state = "FAILED" /\ q.checks = [r.checks EXCEPT ![t] = d]
  BY <1>1, <1>3, <1>4 DEF Run, RunStates
<1> HIDE DEF q
<1>6. q.checks[t] = d /\ \A u \in Tasks \ {t} : q.checks[u] = r.checks[u]
  BY <1>1, <1>5, Fields
<1>7. ClaimsChecked(q)
  BY <1>1, <1>2, <1>5, <1>6, VerifiableAssumption DEF ClaimsChecked, Verdict
<1>8. ChangesClaims(r, q)
  BY <1>5, <1>7 DEF ChangesClaims
<1> QED BY <1>1, <1>8, ClaimsChange DEF q

-----------------------------------------------------------------------------
(* What the executor relies on next.                                       *)

\* A task that starts has no open receipt, and the others stay ready.
LEMMA StartTaskFacts ==
  ASSUME NEW r, Sound(r), NEW t \in Ready(r)
  PROVE  LET q == StartTask(r, t)
         IN  /\ q.state = "RUNNING" /\ q.task[t] = "RUNNING" /\ OpenAttempts(q, t) = {}
             /\ Ready(r) \ {t} \subseteq Ready(q)
<1> DEFINE q == StartTask(r, t)
<1>1. /\ r \in Run /\ t \in Tasks /\ r.task[t] = "PENDING" /\ r.task \in [Tasks -> TaskStates]
      /\ r.attempts[t] \in Seq(AttemptStates) /\ Accounted(r.attempts[t], "PENDING")
  BY Fields DEF Ready, Sound, Consistent, AttemptsAccounted
<1>2. /\ q.state = "RUNNING" /\ q.task = [r.task EXCEPT ![t] = "RUNNING"] /\ q.attempts = r.attempts
  BY <1>1 DEF StartTask, Run
<1> HIDE DEF q
<1>3. \A k \in 1..Len(r.attempts[t]) : r.attempts[t][k] # "OPEN"
  BY <1>1, OpenIsLast
<1>4. q.task[t] = "RUNNING" /\ \A u \in Tasks \ {t} : q.task[u] = r.task[u]
  BY <1>1, <1>2
<1>5. Completed(r) = Completed(q)
  BY <1>1, <1>4 DEF Completed
<1>6. Ready(r) \ {t} \subseteq Ready(q)
  BY <1>4, <1>5 DEF Ready
<1>7. OpenAttempts(q, t) = {}
  BY <1>2, <1>3 DEF OpenAttempts
<1> QED BY <1>2, <1>4, <1>6, <1>7 DEF q

\* A receipt or a checkpoint changes no task.
LEMMA SameTasks ==
  ASSUME NEW r \in Run, NEW t \in Tasks, NEW q \in {OpenAttempt(r, t), Checkpoint(r)}
  PROVE  Ready(q) = Ready(r) /\ Abandoned(q) = Abandoned(r) /\ q.state = r.state
<1>1. q.task = r.task /\ q.state = r.state
  BY DEF OpenAttempt, Checkpoint, Run
<1> QED BY <1>1 DEF Ready, Abandoned, Completed

\* The tasks that were ready stay so when another completes.
LEMMA CompleteTaskReady ==
  ASSUME NEW r, Sound(r), NEW t \in Tasks, InFlight(r, t), NEW meets \in BOOLEAN, NEW taken
  PROVE  Ready(r) \subseteq Ready(CompleteTask(r, t, meets, taken))
<1> DEFINE q == CompleteTask(r, t, meets, taken)
<1>1. r \in Run /\ r.task \in [Tasks -> TaskStates] /\ r.task[t] = "RUNNING"
  BY Fields DEF Sound, InFlight
<1>2. q.task = [r.task EXCEPT ![t] = "COMPLETED"]
  BY <1>1 DEF CompleteTask, CloseAttempt, Run
<1> HIDE DEF q
<1>3. q.task[t] = "COMPLETED" /\ \A u \in Tasks \ {t} : q.task[u] = r.task[u]
  BY <1>1, <1>2
<1>4. Completed(r) \subseteq Completed(q)
  BY <1>3 DEF Completed
<1>5. Ready(r) \subseteq Ready(q)
  BY <1>1, <1>3, <1>4 DEF Ready
<1> QED BY <1>5 DEF q
-----------------------------------------------------------------------------
(* One write at a time.                                                    *)

\* A stored run that is written one step at a time.
Good(r) == Sound(r) /\ UnknownCheckBlocks(r)

\* Which checks are in flight depends on nothing but the checks.
LEMMA SameChecks ==
  ASSUME NEW r, NEW q, q.checks = r.checks
  PROVE  Unverified(q) = Unverified(r) /\ \A t : OpenChecks(q, t) = OpenChecks(r, t)
BY DEF Unverified, OpenChecks

\* A change that leaves the checks alone.
LEMMA GoodKept ==
  ASSUME NEW r, Good(r), NEW q, Sound(q), q.checks = r.checks,
         Unverified(r) = {} \/ q.state \in {"VERIFYING", "BLOCKED"}
  PROVE  Good(q)
BY SameChecks DEF Good, UnknownCheckBlocks

\* A change after which no check is in flight.
LEMMA GoodClosed ==
  ASSUME NEW q, Sound(q), Unverified(q) = {}
  PROVE  Good(q)
BY DEF Good, UnknownCheckBlocks

\* While evidence is collected no check is in flight.
LEMMA RunningUnverified ==
  ASSUME NEW r, Good(r), Running(r)
  PROVE  Unverified(r) = {} /\ Open(r) /\ r \in Run
BY DEF Good, Sound, UnknownCheckBlocks, Running, Open, Settled

\* Changes to tasks and their receipts leave the checks alone.
LEMMA TaskChecks ==
  ASSUME NEW r \in Run, NEW t, NEW meets \in BOOLEAN, NEW taken
  PROVE  \A q \in {StartTask(r, t), FailRun(r), OpenAttempt(r, t),
                   CompleteTask(r, t, meets, taken), FailTask(r, t), Checkpoint(r),
                   BlockTask(r, t), BlockCheck(r), BeginVerifying(r), Finish(r)} :
            q.checks = r.checks
<1>1. \A q \in {StartTask(r, t), FailRun(r), OpenAttempt(r, t), Checkpoint(r), BlockCheck(r),
                BeginVerifying(r), Finish(r)} : q.checks = r.checks
  BY DEF Run, StartTask, FailRun, OpenAttempt, Checkpoint, BlockCheck, BeginVerifying, Finish
<1>2. CompleteTask(r, t, meets, taken).checks = r.checks
  BY DEF Run, CompleteTask, CloseAttempt
<1>3. FailTask(r, t).checks = r.checks
  BY DEF Run, FailTask, FailRun, CloseAttempt
<1>4. BlockTask(r, t).checks = r.checks
  BY DEF Run, BlockTask, OpenAttempt
<1>. QED
  BY <1>1, <1>2, <1>3, <1>4

\* A task with an open receipt is in flight or of unknown effect.
LEMMA OpenInFlight ==
  ASSUME NEW r, Sound(r), NEW t \in Tasks, OpenAttempts(r, t) # {}
  PROVE  /\ r.attempts[t] # << >> /\ r.attempts[t][Len(r.attempts[t])] = "OPEN"
         /\ r.task[t] \in {"RUNNING", "UNKNOWN_EFFECT"}
<1>1. PICK k \in OpenAttempts(r, t) : TRUE
  OBVIOUS
<1>2. k = Len(r.attempts[t]) /\ r.attempts[t] # << >>
  BY OpenIsLastOf
<1>3. r.attempts[t] \in Seq(AttemptStates) /\ Accounted(r.attempts[t], r.task[t])
  BY Fields DEF Sound, Consistent, AttemptsAccounted
<1>4. k \in 1..Len(r.attempts[t]) /\ r.attempts[t][k] = "OPEN"
  BY DEF OpenAttempts
<1>. QED
  BY <1>2, <1>3, <1>4, OpenIsLast

\* The collection of evidence.
LEMMA CollectionGood ==
  ASSUME NEW r, Good(r), NEW q,
         \/ Started(r, q) \/ Stuck(r, q) \/ Receipted(r, q) \/ Collected(r, q)
         \/ Checkpointed(r, q)
  PROVE  Good(q)
<1>1. Running(r)
  BY DEF Started, Stuck, Receipted, Collected, Checkpointed
<1>2. Unverified(r) = {} /\ Open(r) /\ r \in Run /\ Sound(r)
  BY <1>1, RunningUnverified DEF Good
<1>3. CASE Started(r, q)
  <2>1. PICK t \in Ready(r) : q = StartTask(r, t)
    BY <1>3 DEF Started
  <2>2. Sound(q) /\ q.checks = r.checks
    BY <1>2, <1>3, <2>1, StartTaskSound, TaskChecks DEF Started
  <2>. QED
    BY <1>2, <2>2, GoodKept
<1>4. CASE Stuck(r, q)
  BY <1>2, <1>4, FailRunSound, TaskChecks, GoodKept DEF Stuck
<1>5. CASE Receipted(r, q)
  <2>1. PICK t \in Abandoned(r) : OpenAttempts(r, t) = {} /\ q = OpenAttempt(r, t)
    BY <1>5 DEF Receipted
  <2>2. t \in Tasks /\ r.task[t] = "RUNNING"
    BY DEF Abandoned
  <2>3. Sound(q) /\ q.checks = r.checks
    BY <1>2, <2>1, <2>2, OpenAttemptSound, TaskChecks
  <2>. QED
    BY <1>2, <2>3, GoodKept
<1>6. CASE Collected(r, q)
  <2>1. PICK t \in Abandoned(r), meets \in BOOLEAN, taken \in SUBSET r.qualified :
          OpenAttempts(r, t) # {} /\ q \in {CompleteTask(r, t, meets, taken), FailTask(r, t)}
    BY <1>6 DEF Collected, MayTake
  <2>2. t \in Tasks /\ InFlight(r, t)
    BY <1>2, <2>1, OpenInFlight DEF Abandoned, InFlight
  <2>3. CASE q = CompleteTask(r, t, meets, taken)
    <3>1. Sound(q)
      BY <1>2, <2>2, <2>3, CompleteTaskSound
    <3>2. q.checks = r.checks
      BY <1>2, <2>3, TaskChecks
    <3>. QED
      BY <1>2, <3>1, <3>2, GoodKept
  <2>4. CASE q = FailTask(r, t)
    <3>1. Sound(q) /\ q.checks = r.checks
      BY <1>2, <2>2, <2>4, FailTaskSound, TaskChecks
    <3>. QED
      BY <1>2, <3>1, GoodKept
  <2>. QED
    BY <2>1, <2>3, <2>4
<1>7. CASE Checkpointed(r, q)
  BY <1>2, <1>7, CheckpointSound, TaskChecks, GoodKept DEF Checkpointed
<1>. QED
  BY <1>3, <1>4, <1>5, <1>6, <1>7

\* What blocks a run, and what starts its verification.
LEMMA BlockedGood ==
  ASSUME NEW r, Good(r), NEW q, Blocked(r, q) \/ Verifying(r, q)
  PROVE  Good(q)
<1>1. Sound(r) /\ r \in Run
  BY DEF Good, Sound
<1>2. ASSUME NEW t \in Abandoned(r), Running(r), q = BlockTask(r, t) PROVE Good(q)
  <2>1. Sound(q) /\ q.checks = r.checks
    BY <1>1, <1>2, BlockTaskSound, TaskChecks
  <2>. QED
    BY <1>2, <2>1, RunningUnverified, GoodKept
<1>3. CASE r.state = "VERIFYING" /\ Unverified(r) # {} /\ q = BlockCheck(r)
  <2>1. Sound(q) /\ q.checks = r.checks
    BY <1>1, <1>3, BlockCheckSound, TaskChecks DEF Open, Settled
  <2>2. q.state = "BLOCKED"
    BY <1>1, <1>3 DEF BlockCheck, Run
  <2>. QED
    BY <2>1, <2>2, GoodKept
<1>4. CASE Verifying(r, q)
  <2>1. Sound(q) /\ q.checks = r.checks
    BY <1>1, <1>4, BeginVerifyingSound, TaskChecks DEF Verifying, Open
  <2>. QED
    BY <1>4, <2>1, GoodKept DEF Verifying
<1>. QED
  BY <1>2, <1>3, <1>4 DEF Blocked

\* What is known of a copy with an executor's claims.
LEMMA ClaimedSound ==
  ASSUME NEW r, Sound(r), r.state = "VERIFYING", NEW c \in Claimed(r)
  PROVE  /\ Sound(c) /\ c \in Run /\ c.state = "VERIFYING" /\ c.checks = r.checks
         /\ c.task = r.task /\ c.attempts = r.attempts
<1>1. r \in Run /\ Completed(r) = Tasks /\ r.thesis = FALSE
  BY Executed DEF Open, Settled
<1>2. PICK claims \in [Tasks -> ClaimStates] :
        /\ c = [r EXCEPT !.claim = claims]
        /\ \A t \in Verifiable : claims[t] = "QUALIFIED" =>
             r.checks[t] # << >> /\ Verdict(r, t) = "SUPPORTED"
  BY DEF Claimed
<1>3. /\ c \in Run /\ c.claim = claims /\ c.checks = r.checks /\ c.task = r.task
      /\ c.attempts = r.attempts /\ c.checkpoint = r.checkpoint /\ c.qualified = r.qualified
      /\ c.thesis = r.thesis /\ c.state = r.state
  BY <1>1, <1>2 DEF Run
<1>4. ClaimsChecked(c)
  BY <1>2, <1>3 DEF ClaimsChecked, Verdict
<1>5. Sound(c)
  BY <1>1, <1>3, <1>4, ClaimsChange DEF ChangesClaims
<1>. QED
  BY <1>3, <1>5

\* A check is opened where none is in flight.
LEMMA OpenedCheckGood ==
  ASSUME NEW c, Sound(c), c.state = "VERIFYING", Unverified(c) = {},
         NEW t \in Tasks, c.claim[t] = "NONE"
  PROVE  LET q == OpenCheck(c, t)
         IN  Good(q) /\ q.state = "VERIFYING" /\ t \in Unverified(q)
<1> DEFINE q == OpenCheck(c, t)
<1>1. Sound(q) /\ q.state = "VERIFYING"
  BY OpenCheckSound
<1>2. c \in Run /\ c.checks \in [Tasks -> Seq(CheckStates)]
  BY Fields DEF Sound
<1>3. q.checks = [c.checks EXCEPT ![t] = Append(c.checks[t], "OPEN")]
  BY <1>2 DEF OpenCheck, Run
<1> HIDE DEF q
<1>4. /\ Len(q.checks[t]) = Len(c.checks[t]) + 1 /\ Len(c.checks[t]) \in Nat
      /\ \A k \in 1..Len(c.checks[t]) : q.checks[t][k] = c.checks[t][k]
      /\ q.checks[t][Len(c.checks[t]) + 1] = "OPEN"
      /\ \A u \in Tasks \ {t} : q.checks[u] = c.checks[u]
  BY <1>2, <1>3, AppendProperties DEF CheckStates
<1>5. \A u \in Tasks : OpenChecks(c, u) = {}
  BY DEF Unverified
<1>6. OpenChecks(q, t) = {Len(q.checks[t])} /\ \A u \in Tasks \ {t} : OpenChecks(q, u) = {}
  BY <1>4, <1>5 DEF OpenChecks
<1>7. Unverified(q) = {t}
  <2>1. OpenChecks(q, t) # {}
    BY <1>6
  <2>2. \A u \in Tasks : u \in Unverified(q) <=> OpenChecks(q, u) # {}
    BY DEF Unverified
  <2>3. Unverified(q) \subseteq Tasks
    BY DEF Unverified
  <2> QED BY <1>6, <2>1, <2>2, <2>3
<1>8. UnknownCheckBlocks(q)
  BY <1>1, <1>6, <1>7 DEF UnknownCheckBlocks
<1>. QED
  BY <1>1, <1>7, <1>8 DEF Good, q

\* The one check in flight.
LEMMA InFlightCheck ==
  ASSUME NEW r, Good(r), NEW t \in Unverified(r)
  PROVE  /\ t \in Tasks /\ r.checks[t] \in Seq(CheckStates) /\ r.checks[t] # << >>
         /\ Verdict(r, t) = "OPEN" /\ OpenChecks(r, t) = {Len(r.checks[t])}
         /\ \A u \in Tasks \ {t} : OpenChecks(r, u) = {}
<1>1. t \in Tasks /\ r.checks[t] \in Seq(CheckStates)
  BY Fields DEF Good, Sound, Unverified
<1>2. PICK k \in OpenChecks(r, t) : TRUE
  BY DEF Unverified
<1>3. k = Len(r.checks[t]) /\ k \in 1..Len(r.checks[t]) /\ r.checks[t][k] = "OPEN"
  BY DEF Good, UnknownCheckBlocks, OpenChecks
<1>4. OpenChecks(r, t) = {Len(r.checks[t])}
  BY <1>3 DEF Good, UnknownCheckBlocks, OpenChecks
<1>5. \A u \in Tasks \ {t} : OpenChecks(r, u) = {}
  BY DEF Good, UnknownCheckBlocks, Unverified
<1>. QED
  BY <1>1, <1>3, <1>4, <1>5, EmptySeq DEF Verdict

\* The checks of r with the last one of t closed.
ChecksClosed(r, t, verdict) ==
  [r.checks EXCEPT ![t] = [@ EXCEPT ![Len(r.checks[t])] = verdict]]

\* The one check in flight may be closed in one way or another.
LEMMA ClosedCheck ==
  ASSUME NEW r, Good(r), NEW t \in Unverified(r), NEW verdict \in CheckStates \ {"OPEN"},
         NEW q, q.checks = ChecksClosed(r, t, verdict)
  PROVE  /\ Unverified(q) = {} /\ q.checks[t] # << >> /\ q.checks \in [Tasks -> Seq(CheckStates)]
         /\ \A u \in Tasks \ {t} : q.checks[u] = r.checks[u]
<1> DEFINE c == r.checks[t]
           d == [c EXCEPT ![Len(c)] = verdict]
<1>1. /\ t \in Tasks /\ c \in Seq(CheckStates) /\ c # << >>
      /\ OpenChecks(r, t) = {Len(c)} /\ \A u \in Tasks \ {t} : OpenChecks(r, u) = {}
  BY InFlightCheck
<1>2. r.checks \in [Tasks -> Seq(CheckStates)]
  BY Fields DEF Good, Sound
<1>3. Len(c) \in 1..Len(c)
  BY <1>1, EmptySeq
<1>4. /\ d \in Seq(CheckStates) /\ Len(d) = Len(c)
      /\ \A k \in 1..Len(c) : d[k] = IF k = Len(c) THEN verdict ELSE c[k]
  BY <1>1, <1>3, ExceptSeq
<1>5. q.checks[t] = d /\ \A u \in Tasks \ {t} : q.checks[u] = r.checks[u]
  BY <1>1, <1>2 DEF ChecksClosed
<1> HIDE DEF d
<1>6. d # << >>
  BY <1>3, <1>4, EmptySeq
<1>7. OpenChecks(q, t) = {}
  BY <1>1, <1>4, <1>5 DEF OpenChecks
<1>8. \A u \in Tasks \ {t} : OpenChecks(q, u) = {}
  BY <1>1, <1>5 DEF OpenChecks
<1>9. q.checks \in [Tasks -> Seq(CheckStates)]
  BY <1>1, <1>2, <1>4 DEF d, ChecksClosed
<1>. QED
  BY <1>5, <1>6, <1>7, <1>8, <1>9 DEF Unverified

\* The synthesis.
LEMMA SynthesisGood ==
  ASSUME NEW r, Good(r), NEW q, Checked(r, q) \/ SynthesisFailed(r, q) \/ Finished(r, q)
  PROVE  Good(q)
<1>1. r.state = "VERIFYING" /\ Sound(r)
  BY DEF Checked, SynthesisFailed, Finished, Good
<1>2. ASSUME NEW c \in Claimed(r), Unverified(r) = {}
      PROVE  Sound(c) /\ c \in Run /\ c.state = "VERIFYING" /\ Unverified(c) = {}
  BY <1>1, <1>2, ClaimedSound, SameChecks
<1>3. ASSUME NEW c \in Claimed(r), NEW t \in Tasks, Unverified(r) = {},
             c.claim[t] = "NONE", q = OpenCheck(c, t)
      PROVE  Good(q)
  BY <1>2, <1>3, OpenedCheckGood
<1>4. ASSUME NEW t \in Unverified(r), NEW verdict \in {"SUPPORTED", "UNSUPPORTED", "FAILED"},
             q = CloseCheck(r, t, verdict)
      PROVE  Good(q)
  <2>1. r \in Run /\ Completed(r) = Tasks /\ ClaimsChecked(r) /\ r.thesis = FALSE
    BY <1>1, Executed DEF Open, Settled
  <2>2. q = [r EXCEPT !.checks = ChecksClosed(r, t, verdict)]
    BY <1>4 DEF CloseCheck, ChecksClosed
  <2>3. verdict \in CheckStates \ {"OPEN"}
    BY <1>4 DEF CheckStates
  <2>4. q.checks = ChecksClosed(r, t, verdict)
    BY <2>1, <2>2 DEF Run
  <2>5. /\ Unverified(q) = {} /\ q.checks[t] # << >> /\ q.checks \in [Tasks -> Seq(CheckStates)]
        /\ \A u \in Tasks \ {t} : q.checks[u] = r.checks[u]
    BY <1>4, <2>4, <2>3, ClosedCheck
  <2>6. /\ q \in Run /\ q.task = r.task /\ q.attempts = r.attempts /\ q.claim = r.claim
        /\ q.checkpoint = r.checkpoint /\ q.qualified = r.qualified
        /\ q.thesis = r.thesis /\ q.state = r.state
    BY <2>1, <2>2, <2>4, <2>5 DEF Run
  <2>7. r.claim[t] # "QUALIFIED" \/ t \notin Verifiable
    BY <1>4, <2>1, InFlightCheck DEF ClaimsChecked
  <2>8. ClaimsChecked(q)
    BY <2>1, <2>5, <2>6, <2>7, VerifiableAssumption DEF ClaimsChecked, Verdict
  <2>9. Sound(q)
    BY <1>1, <2>1, <2>6, <2>8, ClaimsChange DEF ChangesClaims
  <2>. QED
    BY <2>5, <2>9, GoodClosed
<1>5. CASE SynthesisFailed(r, q)
  <2>1. PICK c \in Claimed(r) : q = FailRun(c)
    BY <1>5 DEF SynthesisFailed
  <2>2. Sound(c) /\ c \in Run /\ c.state = "VERIFYING" /\ Unverified(c) = {}
    BY <1>2, <1>5 DEF SynthesisFailed
  <2>3. Open(c) /\ Abandoned(c) = {}
    BY <2>2 DEF Open, Settled, Abandoned, Sound, Consistent, UnknownEffectBlocks
  <2>4. Sound(q) /\ q.checks = c.checks
    BY <2>1, <2>2, <2>3, FailRunSound, TaskChecks
  <2>. QED
    BY <2>2, <2>4, SameChecks, GoodClosed
<1>6. CASE Finished(r, q)
  <2>1. PICK c \in Claimed(r) : q = Finish(c)
    BY <1>6 DEF Finished
  <2>2. Sound(c) /\ c \in Run /\ c.state = "VERIFYING" /\ Unverified(c) = {}
    BY <1>2, <1>6 DEF Finished
  <2>3. Sound(q) /\ q.checks = c.checks
    BY <2>1, <2>2, FinishSound, TaskChecks
  <2>. QED
    BY <2>2, <2>3, SameChecks, GoodClosed
<1>. QED
  BY <1>3, <1>4, <1>5, <1>6 DEF Checked

\* An operator's resolution.
LEMMA ResolvedGood ==
  ASSUME NEW r, Good(r), NEW q, Resolved(r, q)
  PROVE  Good(q) /\ q.state # "VERIFYING"
<1>1. r.state = "BLOCKED" /\ Sound(r) /\ r \in Run
  BY DEF Resolved, Good, Sound
<1>2. ASSUME NEW t \in Tasks, NEW k \in OpenAttempts(r, t),
             q \in {RetryAttempt(r, t, k), RejectAttempt(r, t, k)}
      PROVE  Good(q) /\ q.state # "VERIFYING"
  <2>1. r.task[t] \in {"RUNNING", "UNKNOWN_EFFECT"}
    BY <1>1, <1>2, OpenInFlight
  <2>2. r.task[t] = "UNKNOWN_EFFECT" /\ Unverified(r) = {}
    BY <1>1, <2>1, OnlyOne
  <2>3. Sound(q)
    BY <1>1, <1>2, <2>2, RetryAttemptSound, RejectAttemptSound
  <2>4. q.checks = r.checks /\ q.state # "VERIFYING"
    BY <1>1, <1>2 DEF RetryAttempt, RejectAttempt, Run
  <2>. QED
    BY <2>2, <2>3, <2>4, SameChecks, GoodClosed
<1>3. ASSUME NEW t \in Tasks, NEW k \in OpenChecks(r, t),
             q \in {RetryCheck(r, t, k), RejectCheck(r, t, k)}
      PROVE  Good(q) /\ q.state # "VERIFYING"
  <2>1. t \in Unverified(r)
    BY <1>3 DEF Unverified
  <2>2. k = Len(r.checks[t])
    BY <1>3, <2>1, InFlightCheck
  <2>3. Sound(q)
    BY <1>1, <1>3, RetryCheckSound, RejectCheckSound
  <2>4. PICK verdict \in {"RETRY_AUTHORIZED", "MARKED_FAILED"} :
          q.checks = ChecksClosed(r, t, verdict)
    BY <1>1, <1>3, <2>2 DEF RetryCheck, RejectCheck, ClearClaims, Run, ChecksClosed
  <2>5. Unverified(q) = {}
    BY <2>1, <2>4, ClosedCheck DEF CheckStates
  <2>6. q.state # "VERIFYING"
    BY <1>1, <1>3 DEF RetryCheck, RejectCheck, ClearClaims, Run
  <2>. QED
    BY <2>3, <2>5, <2>6, GoodClosed
<1>. QED
  BY <1>2, <1>3 DEF Resolved

\* A replan takes back tasks with everything that depends on them.
LEMMA ReplannedGood ==
  ASSUME NEW r, Good(r), NEW q, Replanned(r, q)
  PROVE  Good(q) /\ q.state = "CREATED"
<1>1. PICK reset \in MustReset(r) : q = Replan(r, reset)
  BY DEF Replanned
<1>2. /\ r.state = "PARTIAL" /\ r \in Run /\ DependenciesFirst(r) /\ AttemptsAccounted(r)
      /\ ThesisGrounded(r) /\ Unverified(r) = {}
  BY DEF Replanned, Good, Sound, Consistent, UnknownCheckBlocks
<1>3. reset \subseteq Tasks /\ \A t \in Tasks : DependsOn[t] \cap reset # {} => t \in reset
  BY DEF MustReset
<1>4. Completed(r) = Tasks /\ \A t \in Tasks : r.task[t] = "COMPLETED"
  BY <1>2 DEF ThesisGrounded, Completed
<1> DEFINE task == [t \in Tasks |-> IF t \in reset THEN "PENDING" ELSE r.task[t]]
           attempts == [t \in Tasks |-> IF t \in reset THEN << >> ELSE r.attempts[t]]
           checks == [t \in Tasks |-> IF t \in reset THEN << >> ELSE r.checks[t]]
<1>5. /\ q.state = "CREATED" /\ q.thesis = FALSE /\ q.checkpoint = {} /\ q.task = task
      /\ q.attempts = attempts /\ q.checks = checks /\ q.claim = NoClaims
      /\ q.qualified = r.qualified \ reset /\ q.artifact = r.artifact
      /\ q = [state |-> q.state, task |-> q.task, attempts |-> q.attempts,
              qualified |-> q.qualified, checkpoint |-> q.checkpoint, claim |-> q.claim,
              checks |-> q.checks, thesis |-> q.thesis, artifact |-> q.artifact]
  BY <1>1, <1>2 DEF Replan, ClearClaims, Run
<1>6. q \in Run
  <2>1. task \in [Tasks -> TaskStates]
    BY <1>2, Fields DEF TaskStates
  <2>2. attempts \in [Tasks -> Seq(AttemptStates)]
    BY <1>2, Fields, EmptySeq
  <2>3. checks \in [Tasks -> Seq(CheckStates)]
    BY <1>2, Fields, EmptySeq
  <2>4. NoClaims \in [Tasks -> ClaimStates]
    BY DEF NoClaims, ClaimStates
  <2>5. r.qualified \ reset \in SUBSET Tasks /\ r.artifact \in BOOLEAN
    BY <1>2, Fields
  <2> HIDE DEF task, attempts, checks
  <2>. QED
    BY <1>5, <2>1, <2>2, <2>3, <2>4, <2>5 DEF Run, RunStates
<1>7. Completed(q) = Tasks \ reset
  BY <1>4, <1>5 DEF Completed
<1>8. Unverified(q) = {}
  <2>1. \A t \in Tasks : OpenChecks(r, t) = {}
    BY <1>2 DEF Unverified
  <2>2. ASSUME NEW t \in Tasks PROVE OpenChecks(q, t) = {}
    <3>1. CASE t \in reset
      <4>1. q.checks[t] = << >> /\ Len(<< >>) = 0
        BY <1>5, <3>1
      <4>. QED
        BY <4>1 DEF OpenChecks
    <3>2. CASE t \notin reset
      BY <1>5, <2>1, <3>2 DEF OpenChecks
    <3>. QED
      BY <3>1, <3>2
  <2>. QED
    BY <2>2 DEF Unverified
<1>9. DependenciesFirst(q)
  BY <1>3, <1>5, <1>7, DependsOnAssumption DEF DependenciesFirst
<1>10. AttemptsAccounted(q)
  <2>1. Accounted(<< >>, "PENDING")
    <3>1. Len(<< >>) = 0
      OBVIOUS
    <3>. QED
      BY <3>1 DEF Accounted
  <2>. QED
    BY <1>2, <1>5, <2>1 DEF AttemptsAccounted
<1>11. UnknownEffectBlocks(q)
  BY <1>4, <1>5 DEF UnknownEffectBlocks
<1>12. ThesisGrounded(q)
  BY <1>2, <1>4, <1>5, <1>7, <1>8, Fields, VerifiableAssumption DEF ThesisGrounded, NoClaims
<1>. QED
  BY <1>5, <1>6, <1>8, <1>9, <1>10, <1>11, <1>12, GoodClosed DEF Sound, Consistent

\* One write at a time keeps the stored run good.
LEMMA EvolvesGood ==
  ASSUME NEW r, Good(r), NEW q, Evolves(r, q)
  PROVE  Good(q)
BY CollectionGood, BlockedGood, SynthesisGood, ResolvedGood, ReplannedGood DEF Evolves, Advanced

\* So is a new run.
LEMMA BlankGood == Good(Blank)
<1>1. \A t \in Tasks : Blank.checks[t] = << >>
  BY DEF Blank
<1>2. Len(<< >>) = 0
  OBVIOUS
<1>3. Unverified(Blank) = {}
  BY <1>1, <1>2 DEF Unverified, OpenChecks
<1>. QED
  BY <1>3, BlankSound, GoodClosed

-----------------------------------------------------------------------------
(* The executors and the handlers.                                         *)

\* The call an executor is at, or goes on to after the write it is in.
At(p, th) == IF p \in Writing THEN th ELSE p

\* What an executor at this label knows of its copy r, its task t and the ready
\* tasks l of the layer.
LocalAt(label, r, t, l) ==
  /\ label \in {"idle", "acquire", "load", "reload"} => l = {}
  /\ label \in {"next", "resume", "open", "call", "answer", "ckpt", "more"} => l \subseteq Ready(r)
  /\ label \in {"next", "resume", "ckpt", "more"} => Open(r) /\ Abandoned(r) = {}
  /\ label = "open" => t \in Tasks /\ r.task[t] = "RUNNING" /\ OpenAttempts(r, t) = {}
  /\ label \in {"call", "answer"} => t \in Tasks /\ InFlight(r, t)
  /\ label \in {"open", "call", "answer"} => Open(r)
  /\ label \in {"synth", "claim", "vcall", "vanswer", "vdone", "vfail", "finish"} =>
       r.state = "VERIFYING"
  /\ label \in {"vcall", "vanswer", "vdone"} =>
       t \in Tasks /\ r.claim[t] = "NONE" /\ r.checks[t] # << >>

Local(e) ==
  /\ Sound(mem[e])
  /\ then[e] \notin Writing
  /\ LocalAt(At(pc[e], then[e]), mem[e], cur[e], layer[e])

\* Types of what is not a copy of the run.
Rest ==
  /\ queued \in BOOLEAN /\ finished \in BOOLEAN
  /\ holder \in Executors \cup {Nobody, Orphan} /\ live \in BOOLEAN
  /\ quota \in [Executors -> Nat]
  /\ lost \in [Executors -> BOOLEAN]
  /\ calls \in [Tasks -> SUBSET Nat]
  /\ faults \in 0..MaxFaults

\* Types of where an executor is and what it holds.
Locals ==
  /\ pc \in [Executors -> Labels]
  /\ then \in [Executors -> Labels]
  /\ mem \in [Executors -> Run]
  /\ cur \in [Executors -> Tasks \cup {NoTask}]
  /\ layer \in [Executors -> SUBSET Tasks]

Copies ==
  /\ hpc \in [Handlers -> {"idle", "write"}]
  /\ hmem \in [Handlers -> Run]
  /\ \A h \in Handlers : Sound(hmem[h])

\* The inductive invariant.
EInv ==
  /\ Rest /\ Locals /\ Copies
  /\ Sound(run)
  /\ \A e \in Executors : Local(e)

\* e goes to label p with copy r, task t and layer l; everybody else stays.
Moves(e, p, th, r, t, l) ==
  /\ pc' = [pc EXCEPT ![e] = p]
  /\ then' = [then EXCEPT ![e] = th]
  /\ mem' = [mem EXCEPT ![e] = r]
  /\ cur' = [cur EXCEPT ![e] = t]
  /\ layer' = [layer EXCEPT ![e] = l]
  /\ UNCHANGED handlers

-----------------------------------------------------------------------------

\* The invariant is kept if the mover's new copy is sound for its new place.
LEMMA MovesKeep ==
  ASSUME EInv, Rest', NEW e \in Executors,
         NEW p \in Labels, NEW th \in Labels \ Writing, NEW r, Sound(r),
         NEW t \in Tasks \cup {NoTask}, NEW l \in SUBSET Tasks,
         Moves(e, p, th, r, t, l), LocalAt(At(p, th), r, t, l),
         run' = run \/ run' = mem[e]
  PROVE  EInv'
<1>1. Locals'
  BY DEF EInv, Locals, Moves, Sound
<1>2. Copies'
  BY DEF EInv, Copies, Moves, handlers
<1>3. Sound(run')
  BY DEF EInv, Local
<1>4. ASSUME NEW d \in Executors PROVE Local(d)'
  <2>1. CASE d = e
    <3>1. pc'[e] = p /\ then'[e] = th /\ mem'[e] = r /\ cur'[e] = t /\ layer'[e] = l
      BY DEF EInv, Locals, Moves
    <3> QED BY <2>1, <3>1 DEF Local
  <2>2. CASE d # e
    <3>1. /\ pc'[d] = pc[d] /\ then'[d] = then[d] /\ mem'[d] = mem[d]
          /\ cur'[d] = cur[d] /\ layer'[d] = layer[d]
      BY <2>2 DEF EInv, Locals, Moves
    <3> QED BY <3>1 DEF EInv, Local
  <2> QED BY <2>1, <2>2
<1> QED BY <1>1, <1>2, <1>3, <1>4 DEF EInv

\* What holds of one executor.
LEMMA Executor ==
  ASSUME EInv, NEW e \in Executors
  PROVE  /\ pc[e] \in Labels /\ then[e] \in Labels \ Writing
         /\ mem[e] \in Run /\ Sound(mem[e]) /\ Sound(run) /\ run \in Run
         /\ cur[e] \in Tasks \cup {NoTask} /\ layer[e] \in SUBSET Tasks
         /\ pc[e] \in Writing => LocalAt(then[e], mem[e], cur[e], layer[e])
         /\ pc[e] \notin Writing => LocalAt(pc[e], mem[e], cur[e], layer[e])
BY DEF EInv, Locals, Local, At, Sound

\* Nothing is known of the copy of an executor that leaves, or is done.
LEMMA Leaving ==
  ASSUME NEW label \in {"release", "memory"}, NEW r, NEW t, NEW l
  PROVE  LocalAt(label, r, t, l)
BY DEF LocalAt

\* A step that only moves on.
LEMMA GotoKeeps ==
  ASSUME EInv, Rest', NEW e \in Executors, NEW p \in Labels,
         Goto(e, p), UNCHANGED <<mem, cur, layer, handlers>>, run' = run \/ run' = mem[e],
         LocalAt(At(p, then[e]), mem[e], cur[e], layer[e])
  PROVE  EInv'
<1>1. Moves(e, p, then[e], mem[e], cur[e], layer[e])
  BY DEF Goto, Moves, EInv, Locals
<1> QED BY <1>1, Executor, MovesKeep

\* A step that goes on to write a new copy.
LEMMA PersistKeeps ==
  ASSUME EInv, Rest', NEW e \in Executors, NEW label \in Labels \ Writing, NEW r, Sound(r),
         Persist(e, r, label), UNCHANGED <<run, handlers>>,
         NEW t \in Tasks \cup {NoTask}, cur' = [cur EXCEPT ![e] = t],
         NEW l \in SUBSET Tasks, layer' = [layer EXCEPT ![e] = l],
         LocalAt(label, r, t, l)
  PROVE  EInv'
<1>1. Moves(e, "check", label, r, t, l) /\ "check" \in Labels /\ At("check", label) = label
  BY DEF Persist, Holds, Moves, Labels, Working, Writing, At
<1> QED BY <1>1, MovesKeep

\* Unchanged tasks and layers.
LEMMA Same ==
  ASSUME EInv, NEW e \in Executors
  PROVE  /\ cur = [cur EXCEPT ![e] = cur[e]] /\ layer = [layer EXCEPT ![e] = layer[e]]
         /\ then = [then EXCEPT ![e] = then[e]] /\ mem = [mem EXCEPT ![e] = mem[e]]
         /\ pc = [pc EXCEPT ![e] = pc[e]]
BY DEF EInv, Locals

-----------------------------------------------------------------------------
(* Entry, exit and owned writes.                                           *)

\* An executor that starts knows nothing of the run yet.
LEMMA ExecuteStep == ASSUME EInv, NEW e \in Executors, NEW n \in Nat, Execute(e, n) PROVE EInv'
<1>1. Rest'
  BY DEF Execute, EInv, Rest, store, lease
<1>2. LocalAt("acquire", mem[e], cur[e], layer[e])
  BY Executor DEF Execute, LocalAt, Writing
<1> QED BY <1>1, <1>2, GotoKeeps DEF Execute, store, Labels, Working, At, Writing

\* Nor does one that got the lease, or was refused.
LEMMA AcquireLeaseStep == ASSUME EInv, NEW e \in Executors, AcquireLease(e) PROVE EInv'
<1>1. Rest'
  BY DEF AcquireLease, EInv, Rest, store, lease, local
<1>2. LocalAt("idle", mem[e], cur[e], layer[e]) /\ LocalAt("load", mem[e], cur[e], layer[e])
  BY Executor DEF AcquireLease, LocalAt, Writing
<1> QED BY <1>1, <1>2, GotoKeeps DEF AcquireLease, store, local, Labels, Working, Guarded, At, Writing

\* The finally block drops the copy.
LEMMA ReleaseLeaseStep == ASSUME EInv, NEW e \in Executors, ReleaseLease(e) PROVE EInv'
<1>1. Rest'
  BY DEF ReleaseLease, EInv, Rest, store, lease, handlers
<1>2. Moves(e, "idle", "idle", Blank, NoTask, {}) /\ run' = run
  BY DEF ReleaseLease, Moves, store
<1>3. LocalAt("idle", Blank, NoTask, {})
  BY DEF LocalAt
<1> QED BY <1>1, <1>2, <1>3, BlankSound, MovesKeep DEF Labels, Working, Writing, Guarded, At

\* The SELECT for CANCELLED changes no copy.
LEMMA CheckCancelledStep == ASSUME EInv, NEW e \in Executors, CheckCancelled(e) PROVE EInv'
<1>1. Rest'
  BY DEF CheckCancelled, EInv, Rest, store, lease, local
<1>2. LocalAt(then[e], mem[e], cur[e], layer[e])
  BY Executor DEF CheckCancelled, Writing
<1> QED BY <1>1, <1>2, Leaving, GotoKeeps
        DEF CheckCancelled, store, local, Labels, Working, Writing, At

\* The fenced UPDATE stores the sound copy of its writer, or nothing.
LEMMA UpdateOwnedStep == ASSUME EInv, NEW e \in Executors, UpdateOwned(e) PROVE EInv'
<1>1. Rest'
  BY DEF UpdateOwned, EInv, Rest, store, lease, local
<1>2. LocalAt(then[e], mem[e], cur[e], layer[e])
  BY Executor DEF UpdateOwned, Writing
<1>3. /\ run' = run \/ run' = mem[e]
      /\ UNCHANGED <<mem, cur, layer, handlers>>
      /\ Goto(e, "release") \/ Goto(e, "memory") \/ Goto(e, "event")
  BY DEF UpdateOwned, store, local
<1> QED BY <1>1, <1>2, <1>3, Leaving, GotoKeeps DEF Labels, Working, Writing, At

\* After the event the executor is where it meant to go on.
LEMMA AppendEventStep == ASSUME EInv, NEW e \in Executors, AppendEvent(e) PROVE EInv'
<1>1. Rest'
  BY DEF AppendEvent, EInv, Rest, store, lease, local
<1>2. LocalAt(then[e], mem[e], cur[e], layer[e]) /\ then[e] \in Labels \ Writing
  BY Executor DEF AppendEvent, Writing
<1> QED BY <1>1, <1>2, Leaving, GotoKeeps
        DEF AppendEvent, store, local, Labels, Working, At

-----------------------------------------------------------------------------
(* Recovery.                                                               *)

\* A run with an unknown check is blocked; any other is read again.
LEMMA LoadForChecksStep == ASSUME EInv, NEW e \in Executors, LoadForChecks(e) PROVE EInv'
<1>1. Rest'
  BY DEF LoadForChecks, EInv, Rest, store, lease
<1>2. layer[e] = {}
  BY Executor DEF LoadForChecks, LocalAt, Writing
<1>3. CASE run.state = "VERIFYING" /\ Unverified(run) # {}
  <2>1. Sound(BlockCheck(run))
    BY <1>3, Executor, BlockCheckSound DEF Open, Settled
  <2> QED BY <1>1, <1>3, <2>1, Leaving, Same, Executor, PersistKeeps
          DEF LoadForChecks, store, Labels, Working, Writing
<1>4. CASE ~(run.state = "VERIFYING" /\ Unverified(run) # {})
  <2>1. Goto(e, "reload") /\ UNCHANGED <<mem, cur, layer, handlers, run>>
    BY <1>4 DEF LoadForChecks, store
  <2> QED BY <1>1, <1>2, <2>1, GotoKeeps DEF LocalAt, Labels, Working, Guarded, Writing, At
<1> QED BY <1>3, <1>4

\* A take-over blocks one abandoned task; a run without any is taken as stored.
LEMMA LoadStep == ASSUME EInv, NEW e \in Executors, Load(e) PROVE EInv'
<1>1. Rest' /\ UNCHANGED <<run, cur, layer, handlers>>
  BY DEF Load, EInv, Rest, store, lease
<1>2. layer[e] = {}
  BY Executor DEF Load, LocalAt, Writing
<1>3. CASE Goto(e, "release") /\ UNCHANGED mem
  BY <1>1, <1>3, Leaving, GotoKeeps DEF Labels, Writing, At
<1>4. ASSUME NEW t \in Abandoned(run), Persist(e, BlockTask(run, t), "release") PROVE EInv'
  <2>1. Sound(BlockTask(run, t))
    BY Executor, BlockTaskSound
  <2> QED BY <1>1, <1>4, <2>1, Leaving, Same, Executor, PersistKeeps DEF Labels, Working, Writing
<1>5. ASSUME run.state \notin Settled, Abandoned(run) = {}, Holds(e, run),
             NEW label \in {"resume", "next"}, Goto(e, label)
      PROVE  EInv'
  <2>1. Moves(e, label, then[e], run, cur[e], layer[e])
    BY <1>1, <1>5, Same DEF Moves, Holds, Goto
  <2>2. LocalAt(label, run, cur[e], layer[e]) /\ label \in Labels \ Writing
    BY <1>2, <1>5 DEF LocalAt, Open, Labels, Working, Writing, Guarded
  <2> QED BY <1>1, <2>1, <2>2, Executor, MovesKeep DEF At
<1> QED BY <1>3, <1>4, <1>5 DEF Load

\* The RUN_RESUMED event precedes the task loop.
LEMMA ResumeStep == ASSUME EInv, NEW e \in Executors, Resume(e) PROVE EInv'
<1>1. Rest'
  BY DEF Resume, EInv, Rest, store, lease, local
<1>2. LocalAt("next", mem[e], cur[e], layer[e])
  BY Executor DEF Resume, LocalAt, Writing
<1> QED BY <1>1, <1>2, Leaving, GotoKeeps DEF Resume, store, local, Labels, Working, Guarded, At, Writing

-----------------------------------------------------------------------------
(* The task loop.                                                          *)

\* The new layer is ready; a plan that is stuck fails.
LEMMA NextLayerStep == ASSUME EInv, NEW e \in Executors, NextLayer(e) PROVE EInv'
<1>1. Rest' /\ UNCHANGED <<run, cur, handlers>>
  BY DEF NextLayer, EInv, Rest, store, lease
<1>2. Open(mem[e]) /\ Abandoned(mem[e]) = {} /\ pc[e] = "next"
  BY Executor DEF NextLayer, LocalAt, Writing
<1>3. CASE Ready(mem[e]) = {}
  <2>1. Persist(e, FailRun(mem[e]), "release") /\ UNCHANGED layer
    BY <1>3 DEF NextLayer
  <2>2. Sound(FailRun(mem[e]))
    BY <1>2, Executor, FailRunSound
  <2> QED BY ZenonT(30), <1>1, <2>1, <2>2, Leaving, Same, Executor, PersistKeeps DEF Labels, Working, Writing
<1>4. CASE Ready(mem[e]) # {}
  <2>1. layer' = [layer EXCEPT ![e] = Ready(mem[e])] /\ UNCHANGED <<pc, then, mem>>
    BY <1>4 DEF NextLayer
  <2>2. Moves(e, pc[e], then[e], mem[e], cur[e], Ready(mem[e]))
    BY <1>1, <2>1, Same DEF Moves
  <2>3. LocalAt("next", mem[e], cur[e], Ready(mem[e])) /\ Ready(mem[e]) \in SUBSET Tasks
    BY <1>2 DEF LocalAt, Ready
  <2> QED BY <1>1, <1>2, <2>2, <2>3, Executor, MovesKeep DEF At, Writing
<1> QED BY <1>3, <1>4

\* The other tasks of the layer stay ready when one starts.
LEMMA NextTaskStep == ASSUME EInv, NEW e \in Executors, NextTask(e) PROVE EInv'
<1>1. Rest' /\ UNCHANGED <<run, handlers>>
  BY DEF NextTask, EInv, Rest, store, lease
<1>2. /\ Sound(mem[e]) /\ Open(mem[e]) /\ Abandoned(mem[e]) = {}
      /\ layer[e] \subseteq Ready(mem[e]) /\ layer[e] \in SUBSET Tasks
  BY Executor DEF NextTask, LocalAt, Writing
<1>3. PICK t \in layer[e] : /\ layer' = [layer EXCEPT ![e] = layer[e] \ {t}]
                            /\ cur' = [cur EXCEPT ![e] = t]
                            /\ Persist(e, StartTask(mem[e], t), "open")
  BY Same DEF NextTask, EInv, Locals
<1> DEFINE q == StartTask(mem[e], t)
<1>4. t \in Ready(mem[e]) /\ t \in Tasks
  BY <1>2
<1>5. Sound(q)
  BY <1>2, <1>4, StartTaskSound
<1>6. /\ q.state = "RUNNING" /\ q.task[t] = "RUNNING" /\ OpenAttempts(q, t) = {}
      /\ Ready(mem[e]) \ {t} \subseteq Ready(q)
  BY <1>2, <1>4, StartTaskFacts
<1> HIDE DEF q
<1>7. LocalAt("open", q, t, layer[e] \ {t})
  BY <1>2, <1>4, <1>6 DEF LocalAt, Open, Settled
<1>8. Persist(e, q, "open") /\ layer[e] \ {t} \in SUBSET Tasks
  BY <1>2, <1>3 DEF q
<1> QED BY <1>1, <1>3, <1>4, <1>5, <1>7, <1>8, PersistKeeps DEF Labels, Working, Writing

\* The receipt puts the task in flight.
LEMMA OpenReceiptStep == ASSUME EInv, NEW e \in Executors, OpenReceipt(e) PROVE EInv'
<1> DEFINE t == cur[e]
           q == OpenAttempt(mem[e], t)
<1>1. Rest' /\ UNCHANGED <<run, cur, layer, handlers>> /\ Persist(e, q, "call")
  BY DEF OpenReceipt, EInv, Rest, store, lease
<1>2. /\ Sound(mem[e]) /\ mem[e] \in Run /\ Open(mem[e]) /\ t \in Tasks /\ mem[e].task[t] = "RUNNING"
      /\ OpenAttempts(mem[e], t) = {} /\ layer[e] \subseteq Ready(mem[e])
  BY Executor DEF OpenReceipt, LocalAt, Writing
<1>3. Sound(q) /\ InFlight(q, t) /\ q.state = mem[e].state
  BY <1>2, OpenAttemptSound
<1>4. Ready(q) = Ready(mem[e])
  BY <1>2, SameTasks
<1> HIDE DEF q
<1>5. LocalAt("call", q, t, layer[e])
  BY <1>2, <1>3, <1>4 DEF LocalAt, Open
<1> QED BY <1>1, <1>3, <1>5, Executor, Same, PersistKeeps DEF Labels, Working, Writing

\* The provider is called for the task in flight.
LEMMA CallProviderStep == ASSUME EInv, NEW e \in Executors, CallProvider(e) PROVE EInv'
<1>1. cur[e] \in Tasks /\ LocalAt("answer", mem[e], cur[e], layer[e])
  BY Executor DEF CallProvider, LocalAt, Writing
<1>2. AttemptNumber(e) \in Nat
  BY <1>1, Executor, Fields, EmptySeq DEF AttemptNumber
<1>3. calls' \in [Tasks -> SUBSET Nat]
  BY <1>1, <1>2 DEF CallProvider, EInv, Rest
<1>4. Rest'
  BY <1>3 DEF CallProvider, EInv, Rest, store, lease, local
<1> QED BY <1>1, <1>4, GotoKeeps DEF CallProvider, store, local, Labels, Working, Guarded, At, Writing

\* With the answer the task is completed and nothing is in flight.
LEMMA CollectSucceedsStep == ASSUME EInv, NEW e \in Executors, CollectSucceeds(e) PROVE EInv'
<1>1. Rest' /\ UNCHANGED <<run, cur, layer, handlers>>
  BY DEF CollectSucceeds, EInv, Rest, store, lease
<1>2. PICK meets \in BOOLEAN, taken \in MayTake(mem[e], cur[e]) :
        Persist(e, CompleteTask(mem[e], cur[e], meets, taken), "ckpt")
  BY DEF CollectSucceeds
<1> DEFINE t == cur[e]
           q == CompleteTask(mem[e], t, meets, taken)
<1>3. /\ Sound(mem[e]) /\ Open(mem[e]) /\ t \in Tasks /\ InFlight(mem[e], t)
      /\ layer[e] \subseteq Ready(mem[e])
  BY Executor DEF CollectSucceeds, LocalAt, Writing
<1>4. Sound(q) /\ Abandoned(q) = {} /\ q.state = mem[e].state
  BY <1>3, CompleteTaskSound
<1>5. Ready(mem[e]) \subseteq Ready(q)
  BY <1>3, CompleteTaskReady
<1>6. Persist(e, q, "ckpt")
  BY <1>2
<1> HIDE DEF q
<1>7. LocalAt("ckpt", q, t, layer[e])
  BY <1>3, <1>4, <1>5 DEF LocalAt, Open
<1> QED BY <1>1, <1>4, <1>6, <1>7, Executor, Same, PersistKeeps DEF Labels, Working, Writing

\* A provider error fails task and run.
LEMMA CollectFailsStep == ASSUME EInv, NEW e \in Executors, CollectFails(e) PROVE EInv'
<1> DEFINE q == FailTask(mem[e], cur[e])
<1>1. /\ Rest' /\ UNCHANGED <<run, cur, layer, handlers>>
      /\ Persist(e, q, "release")
  BY DEF CollectFails, EInv, Rest, store, lease
<1>2. Sound(mem[e]) /\ cur[e] \in Tasks /\ InFlight(mem[e], cur[e])
  BY Executor DEF CollectFails, LocalAt, Writing
<1>3. Sound(q)
  BY <1>2, FailTaskSound
<1> HIDE DEF q
<1> QED BY <1>1, <1>3, Leaving, Executor, Same, PersistKeeps DEF Labels, Working, Writing

\* The checkpoint names the completed tasks.
LEMMA SaveCheckpointStep == ASSUME EInv, NEW e \in Executors, SaveCheckpoint(e) PROVE EInv'
<1> DEFINE q == Checkpoint(mem[e])
<1>1. Rest' /\ UNCHANGED <<run, cur, layer, handlers>>
  BY DEF SaveCheckpoint, EInv, Rest, store, lease
<1>2. /\ Sound(mem[e]) /\ mem[e] \in Run /\ Open(mem[e]) /\ Abandoned(mem[e]) = {}
      /\ layer[e] \subseteq Ready(mem[e])
  BY Executor DEF SaveCheckpoint, LocalAt, Writing
<1>3. CASE Persist(e, q, "more")
  <2>1. Sound(q)
    BY <1>2, CheckpointSound
  <2>2. q.task = mem[e].task /\ q.state = mem[e].state
    BY <1>2 DEF Checkpoint, Run
  <2> HIDE DEF q
  <2>3. LocalAt("more", q, cur[e], layer[e])
    BY <1>2, <2>2 DEF LocalAt, Open, Ready, Abandoned, Completed
  <2> QED BY <1>1, <1>3, <2>1, <2>3, Executor, Same, PersistKeeps DEF Labels, Working, Writing
<1>4. CASE Goto(e, "release") /\ UNCHANGED mem
  BY <1>1, <1>4, Leaving, GotoKeeps DEF Labels, Writing, At
<1> QED BY <1>3, <1>4 DEF SaveCheckpoint

\* The loop goes on, or stops after its quota of tasks.
LEMMA AfterTaskStep == ASSUME EInv, NEW e \in Executors, AfterTask(e) PROVE EInv'
<1>1. Rest'
  BY DEF AfterTask, EInv, Rest, store, lease
<1>2. LocalAt("next", mem[e], NoTask, layer[e])
  BY Executor DEF AfterTask, LocalAt, Writing
<1>3. PICK label \in {"release", "next"} : Moves(e, label, then[e], mem[e], NoTask, layer[e])
  <2>1. PICK label \in {"release", "next"} : Goto(e, label)
    BY DEF AfterTask
  <2> QED BY <2>1, Same DEF AfterTask, Moves, Goto
<1>4. run' = run /\ label \in Labels /\ At(label, then[e]) = label
  BY DEF AfterTask, store, Labels, Working, Guarded, At, Writing
<1>5. LocalAt(label, mem[e], NoTask, layer[e])
  BY <1>2, <1>3, Leaving
<1>6. /\ Sound(mem[e]) /\ then[e] \in Labels \ Writing
      /\ NoTask \in Tasks \cup {NoTask} /\ layer[e] \in SUBSET Tasks
  BY Executor
<1> QED BY <1>1, <1>3, <1>4, <1>5, <1>6, MovesKeep

-----------------------------------------------------------------------------
(* Synthesis and claim verification.                                       *)

\* Verification starts over a wholly executed plan.
LEMMA StartVerifyingStep == ASSUME EInv, NEW e \in Executors, StartVerifying(e) PROVE EInv'
<1> DEFINE q == BeginVerifying(mem[e])
<1>1. Rest' /\ UNCHANGED <<run, cur, layer, handlers>> /\ Persist(e, q, "synth")
  BY DEF StartVerifying, EInv, Rest, store, lease
<1>2. Sound(mem[e]) /\ mem[e] \in Run /\ Open(mem[e]) /\ Completed(mem[e]) = Tasks
  BY Executor DEF StartVerifying, LocalAt, Writing
<1>3. Sound(q) /\ q.state = "VERIFYING"
  BY <1>2, BeginVerifyingSound DEF BeginVerifying, Run
<1> HIDE DEF q
<1>4. LocalAt("synth", q, cur[e], layer[e])
  BY <1>3 DEF LocalAt
<1> QED BY <1>1, <1>3, <1>4, Executor, Same, PersistKeeps DEF Labels, Working, Writing

\* The synthesizer's answer replaces the claims of an earlier attempt.
LEMMA SynthesizeStep == ASSUME EInv, NEW e \in Executors, Synthesize(e) PROVE EInv'
<1> DEFINE q == ClearClaims(mem[e])
<1>1. Rest' /\ UNCHANGED <<run, cur, layer, handlers>>
  BY DEF Synthesize, EInv, Rest, store, lease
<1>2. Sound(mem[e]) /\ mem[e] \in Run /\ mem[e].state = "VERIFYING"
  BY Executor DEF Synthesize, LocalAt, Writing
<1>3. CASE Holds(e, q) /\ Goto(e, "claim")
  <2>1. Sound(q) /\ q.state = "VERIFYING"
    BY <1>2, ClearClaimsSound DEF ClearClaims, Run, Open, Settled
  <2>2. Moves(e, "claim", then[e], q, cur[e], layer[e])
    BY <1>1, <1>3, Same DEF Moves, Holds, Goto
  <2> HIDE DEF q
  <2>3. LocalAt("claim", q, cur[e], layer[e])
    BY <2>1 DEF LocalAt
  <2> QED BY <1>1, <2>1, <2>2, <2>3, Executor, MovesKeep DEF Labels, Working, At, Writing
<1>4. CASE Goto(e, "vfail") /\ UNCHANGED mem
  <2>1. LocalAt("vfail", mem[e], cur[e], layer[e])
    BY <1>2 DEF LocalAt
  <2> QED BY <1>1, <1>4, <2>1, GotoKeeps DEF Labels, Working, Guarded, At, Writing
<1> QED BY <1>3, <1>4 DEF Synthesize

\* A claim that needs no check is qualified only without a verifier.
LEMMA SettleClaimStep == ASSUME EInv, NEW e \in Executors, SettleClaim(e) PROVE EInv'
<1>1. Rest' /\ UNCHANGED <<run, pc, then, cur, layer, handlers>>
  BY DEF SettleClaim, EInv, Rest, store, lease
<1>2. Sound(mem[e]) /\ mem[e].state = "VERIFYING" /\ pc[e] = "claim"
  BY Executor DEF SettleClaim, LocalAt, Writing
<1>3. PICK t \in Tasks, status \in ClaimStates :
        /\ t \in Verifiable => status # "QUALIFIED"
        /\ Holds(e, AddClaim(mem[e], t, status))
  BY DEF SettleClaim, ClaimStates
<1> DEFINE q == AddClaim(mem[e], t, status)
<1>4. Sound(q) /\ q.state = "VERIFYING"
  BY <1>2, <1>3, AddClaimSound
<1>5. Moves(e, "claim", then[e], q, cur[e], layer[e])
  BY <1>1, <1>2, <1>3, Same DEF Moves, Holds
<1> HIDE DEF q
<1>6. LocalAt("claim", q, cur[e], layer[e])
  BY <1>4 DEF LocalAt
<1> QED BY <1>1, <1>4, <1>5, <1>6, Executor, MovesKeep DEF Labels, Working, At, Writing

\* A refused claim leads to the failure of the run.
LEMMA RefuseClaimStep == ASSUME EInv, NEW e \in Executors, RefuseClaim(e) PROVE EInv'
<1>1. Rest'
  BY DEF RefuseClaim, EInv, Rest, store, lease, local
<1>2. LocalAt("vfail", mem[e], cur[e], layer[e])
  BY Executor DEF RefuseClaim, LocalAt, Writing
<1> QED BY <1>1, <1>2, GotoKeeps DEF RefuseClaim, store, local, Labels, Working, Guarded, At, Writing

\* The receipt of a check is opened for a claim that is not stored yet.
LEMMA StartCheckStep == ASSUME EInv, NEW e \in Executors, StartCheck(e) PROVE EInv'
<1>1. Rest' /\ UNCHANGED <<run, layer, handlers>>
  BY DEF StartCheck, EInv, Rest, store, lease
<1>2. Sound(mem[e]) /\ mem[e].state = "VERIFYING"
  BY Executor DEF StartCheck, LocalAt, Writing
<1>3. PICK t \in Tasks :
        /\ mem[e].claim[t] = "NONE" /\ cur' = [cur EXCEPT ![e] = t]
        /\ \/ Goto(e, "release") /\ UNCHANGED mem
           \/ Persist(e, OpenCheck(mem[e], t), "vcall")
  BY VerifiableAssumption DEF StartCheck
<1> DEFINE q == OpenCheck(mem[e], t)
<1>4. Sound(q) /\ q.state = "VERIFYING" /\ q.claim[t] = "NONE" /\ q.checks[t] # << >>
  BY <1>2, <1>3, OpenCheckSound
<1>5. CASE Goto(e, "release") /\ UNCHANGED mem
  <2>1. Moves(e, "release", then[e], mem[e], t, layer[e])
    BY <1>1, <1>3, <1>5, Same DEF Moves, Goto
  <2> QED BY <1>1, <2>1, Leaving, Executor, MovesKeep DEF Labels, At, Writing
<1>6. CASE Persist(e, q, "vcall")
  <2> HIDE DEF q
  <2>1. LocalAt("vcall", q, t, layer[e])
    BY <1>4 DEF LocalAt
  <2> QED BY <1>1, <1>3, <1>4, <1>6, <2>1, Executor, Same, PersistKeeps DEF Labels, Working, Writing
<1> QED BY <1>3, <1>5, <1>6

\* The verifier is called under that receipt.
LEMMA CallVerifierStep == ASSUME EInv, NEW e \in Executors, CallVerifier(e) PROVE EInv'
<1>1. Rest'
  BY DEF CallVerifier, EInv, Rest, store, lease, local
<1>2. LocalAt("vanswer", mem[e], cur[e], layer[e])
  BY Executor DEF CallVerifier, LocalAt, Writing
<1> QED BY <1>1, <1>2, GotoKeeps DEF CallVerifier, store, local, Labels, Working, Guarded, At, Writing

\* The answer closes the receipt.
LEMMA CheckAnsweredStep == ASSUME EInv, NEW e \in Executors, CheckAnswered(e) PROVE EInv'
<1>1. Rest' /\ UNCHANGED <<run, cur, layer, handlers>>
  BY DEF CheckAnswered, EInv, Rest, store, lease
<1>2. /\ Sound(mem[e]) /\ mem[e].state = "VERIFYING" /\ cur[e] \in Tasks
      /\ mem[e].claim[cur[e]] = "NONE" /\ mem[e].checks[cur[e]] # << >>
  BY Executor DEF CheckAnswered, LocalAt, Writing
<1>3. PICK verdict \in CheckStates, label \in {"vdone", "vfail"} :
        Persist(e, CloseCheck(mem[e], cur[e], verdict), label)
  BY DEF CheckAnswered, CheckStates
<1> DEFINE q == CloseCheck(mem[e], cur[e], verdict)
<1>4. Sound(q) /\ q.state = "VERIFYING" /\ q.claim[cur[e]] = "NONE" /\ q.checks[cur[e]] # << >>
  BY <1>2, CloseCheckSound
<1>5. Persist(e, q, label)
  BY <1>3
<1> HIDE DEF q
<1>6. LocalAt(label, q, cur[e], layer[e])
  BY <1>2, <1>4 DEF LocalAt
<1> QED BY <1>1, <1>4, <1>5, <1>6, Executor, Same, PersistKeeps DEF Labels, Working, Guarded, Writing

\* Only the verdict SUPPORTED qualifies the claim.
LEMMA CheckedClaimStep == ASSUME EInv, NEW e \in Executors, CheckedClaim(e) PROVE EInv'
<1>1. Rest' /\ UNCHANGED <<run, layer, handlers>> /\ Goto(e, "claim")
      /\ cur' = [cur EXCEPT ![e] = NoTask]
  BY DEF CheckedClaim, EInv, Rest, store, lease
<1>2. /\ Sound(mem[e]) /\ mem[e].state = "VERIFYING" /\ cur[e] \in Tasks
      /\ mem[e].checks[cur[e]] # << >>
  BY Executor DEF CheckedClaim, LocalAt, Writing
<1>3. PICK status \in ClaimStates :
        /\ status = "QUALIFIED" => Verdict(mem[e], cur[e]) = "SUPPORTED"
        /\ Holds(e, AddClaim(mem[e], cur[e], status))
  BY DEF CheckedClaim, ClaimStates
<1> DEFINE q == AddClaim(mem[e], cur[e], status)
<1>4. Sound(q) /\ q.state = "VERIFYING"
  BY <1>2, <1>3, AddClaimSound
<1>5. Moves(e, "claim", then[e], q, NoTask, layer[e])
  BY <1>1, <1>3, Same DEF Moves, Holds, Goto
<1> HIDE DEF q
<1>6. LocalAt("claim", q, NoTask, layer[e])
  BY <1>4 DEF LocalAt
<1> QED BY <1>1, <1>4, <1>5, <1>6, Executor, MovesKeep DEF Labels, Working, At, Writing

\* A run that cannot be synthesized fails.
LEMMA SynthesisFailsStep == ASSUME EInv, NEW e \in Executors, SynthesisFails(e) PROVE EInv'
<1>1. /\ Rest' /\ UNCHANGED <<run, cur, layer, handlers>>
      /\ Persist(e, FailRun(mem[e]), "release")
  BY DEF SynthesisFails, EInv, Rest, store, lease
<1>2. Sound(mem[e]) /\ mem[e].state = "VERIFYING"
  BY Executor DEF SynthesisFails, LocalAt, Writing
<1>3. Open(mem[e]) /\ Abandoned(mem[e]) = {}
  BY <1>2 DEF Open, Settled, Abandoned, Sound, Consistent, UnknownEffectBlocks
<1>4. Sound(FailRun(mem[e]))
  BY <1>2, <1>3, FailRunSound
<1> QED BY ZenonT(30), <1>1, <1>4, Leaving, Executor, Same, PersistKeeps DEF Labels, Working, Writing

\* Every task has its claim.
LEMMA ClaimsDoneStep == ASSUME EInv, NEW e \in Executors, ClaimsDone(e) PROVE EInv'
<1>1. Rest'
  BY DEF ClaimsDone, EInv, Rest, store, lease, local
<1>2. LocalAt("finish", mem[e], cur[e], layer[e])
  BY Executor DEF ClaimsDone, LocalAt, Writing
<1> QED BY <1>1, <1>2, GotoKeeps DEF ClaimsDone, store, local, Labels, Working, Guarded, At, Writing

\* The thesis is stored with the final state.
LEMMA FinishRunStep == ASSUME EInv, NEW e \in Executors, FinishRun(e) PROVE EInv'
<1>1. /\ Rest' /\ UNCHANGED <<run, cur, layer, handlers>>
      /\ Persist(e, Finish(mem[e]), "memory")
  BY DEF FinishRun, EInv, Rest, store, lease
<1>2. Sound(mem[e]) /\ mem[e].state = "VERIFYING"
  BY Executor DEF FinishRun, LocalAt, Writing
<1>3. Sound(Finish(mem[e]))
  BY <1>2, FinishSound
<1> QED BY ZenonT(30), <1>1, <1>3, Leaving, Executor, Same, PersistKeeps DEF Labels, Working, Writing

\* Nothing is left to do but to release.
LEMMA SaveMemoryStep == ASSUME EInv, NEW e \in Executors, SaveMemory(e) PROVE EInv'
<1>1. Rest'
  BY DEF SaveMemory, EInv, Rest, store, lease, local
<1> QED BY <1>1, Leaving, GotoKeeps DEF SaveMemory, store, local, Labels, At, Writing

-----------------------------------------------------------------------------
(* Faults.                                                                 *)

\* A fault is counted within its bound.
LEMMA FaultCounted == ASSUME EInv, Fault PROVE faults' \in 0..MaxFaults
BY BoundsAssumption DEF EInv, Rest, Fault

\* RunLeaseLostError ends the call.
LEMMA LoseLeaseStep == ASSUME EInv, NEW e \in Executors, LoseLease(e) PROVE EInv'
<1>1. Rest'
  BY DEF LoseLease, EInv, Rest, store, lease, local
<1> QED BY <1>1, Leaving, GotoKeeps DEF LoseLease, store, local, Labels, At, Writing

\* Any other exception ends it too.
LEMMA RaiseStep == ASSUME EInv, NEW e \in Executors, Raise(e) PROVE EInv'
<1>1. Rest'
  BY FaultCounted DEF Raise, EInv, Rest, store, lease, local
<1> QED BY <1>1, Leaving, GotoKeeps DEF Raise, store, local, Labels, At, Writing

\* A crash loses the copy and leaves the stored run as it is.
LEMMA CrashStep == ASSUME EInv, NEW e \in Executors, Crash(e) PROVE EInv'
<1>1. Rest'
  BY FaultCounted DEF Crash, EInv, Rest, store, handlers
<1>2. Moves(e, "idle", "idle", Blank, NoTask, {}) /\ run' = run
  BY DEF Crash, Moves, store
<1>3. LocalAt("idle", Blank, NoTask, {})
  BY DEF LocalAt
<1> QED BY <1>1, <1>2, <1>3, BlankSound, MovesKeep DEF Labels, Working, Writing, Guarded, At

\* Steps that touch neither the stored run nor a copy of it.
LEMMA UntouchedKeeps ==
  ASSUME EInv, Rest', UNCHANGED <<run, pc, then, mem, cur, layer, handlers>>
  PROVE  EInv'
BY DEF EInv, Locals, Copies, Local, handlers

\* Leases expire and heartbeats notice without touching the run.
LEMMA LeaseSteps ==
  ASSUME EInv, \/ Enqueue \/ Expire \/ ExpireOrphan
               \/ \E e \in Executors : NoticeLoss(e) \/ HeartbeatError(e)
  PROVE  EInv'
<1>1. CASE Enqueue
  BY <1>1, UntouchedKeeps DEF Enqueue, EInv, Rest, lease, local
<1>2. CASE Expire
  BY <1>2, FaultCounted, UntouchedKeeps DEF Expire, EInv, Rest, store, local
<1>3. CASE ExpireOrphan
  BY <1>3, UntouchedKeeps DEF ExpireOrphan, EInv, Rest, store, local
<1>4. ASSUME NEW e \in Executors, NoticeLoss(e) PROVE EInv'
  BY <1>4, UntouchedKeeps DEF NoticeLoss, EInv, Rest, store, lease, local
<1>5. ASSUME NEW e \in Executors, HeartbeatError(e) PROVE EInv'
  BY <1>5, FaultCounted, UntouchedKeeps DEF HeartbeatError, EInv, Rest, store, lease, local
<1> QED BY <1>1, <1>2, <1>3, <1>4, <1>5

-----------------------------------------------------------------------------
(* API handlers.                                                           *)

\* A handler may hold a sound copy of its own.
LEMMA TakeKeeps ==
  ASSUME EInv, NEW h \in Handlers, NEW r, Sound(r), Take(h, r)
  PROVE  EInv'
<1>1. Rest' /\ Locals' /\ Sound(run')
  BY DEF Take, EInv, Rest, Locals, store, lease, local
<1>2. Copies'
  BY DEF Take, EInv, Copies, Sound
<1>3. ASSUME NEW e \in Executors PROVE Local(e)'
  BY DEF Take, EInv, Local, local
<1> QED BY <1>1, <1>2, <1>3 DEF EInv

\* Whatever a handler makes of the run it read is sound.
LEMMA ReadStep ==
  ASSUME EInv, NEW h \in Handlers,
         ReadToCancel(h) \/ ReadToRetry(h) \/ ReadToReject(h) \/ ReadToRecord(h)
  PROVE  EInv'
<1>1. Sound(run)
  BY DEF EInv
<1>2. CASE ReadToCancel(h)
  BY <1>1, <1>2, CancelSound, TakeKeeps DEF ReadToCancel, Open
<1>3. CASE ReadToRetry(h)
  <2>1. ASSUME NEW t \in Tasks, NEW k \in OpenAttempts(run, t), run.task[t] = "UNKNOWN_EFFECT",
               Take(h, RetryAttempt(run, t, k))
        PROVE  EInv'
    BY <1>1, <2>1, RetryAttemptSound, TakeKeeps
  <2>2. ASSUME NEW t \in Tasks, NEW k \in OpenChecks(run, t), Take(h, RetryCheck(run, t, k))
        PROVE  EInv'
    BY <1>1, <1>3, <2>2, RetryCheckSound, TakeKeeps DEF ReadToRetry
  <2> QED BY <1>3, <2>1, <2>2 DEF ReadToRetry
<1>4. CASE ReadToReject(h)
  <2>1. ASSUME NEW t \in Tasks, NEW k \in OpenAttempts(run, t), run.task[t] = "UNKNOWN_EFFECT",
               Take(h, RejectAttempt(run, t, k))
        PROVE  EInv'
    BY <1>1, <2>1, RejectAttemptSound, TakeKeeps
  <2>2. ASSUME NEW t \in Tasks, NEW k \in OpenChecks(run, t), Take(h, RejectCheck(run, t, k))
        PROVE  EInv'
    BY <1>1, <1>4, <2>2, RejectCheckSound, TakeKeeps DEF ReadToReject
  <2> QED BY <1>4, <2>1, <2>2 DEF ReadToReject
<1>5. CASE ReadToRecord(h)
  BY <1>1, <1>5, RecordArtifactSound, TakeKeeps DEF ReadToRecord
<1> QED BY <1>2, <1>3, <1>4, <1>5

\* save_run puts the handler's copy in place of the stored run.
LEMMA WriteBackStep == ASSUME EInv, NEW h \in Handlers, WriteBack(h) PROVE EInv'
<1>1. Rest' /\ Locals' /\ Sound(run')
  BY DEF WriteBack, EInv, Rest, Locals, Copies, lease, local
<1>2. Copies'
  BY BlankSound DEF WriteBack, EInv, Copies, Sound
<1>3. ASSUME NEW e \in Executors PROVE Local(e)'
  BY DEF WriteBack, EInv, Local, local
<1> QED BY <1>1, <1>2, <1>3 DEF EInv

-----------------------------------------------------------------------------
(* The theorems.                                                           *)

\* A run is new as a blank copy is where the plan has its tasks PENDING.
LEMMA NewIsBlank == ASSUME AllPending PROVE NewRun = Blank
<1>1. Planned = Blank.task
  BY DEF AllPending, Blank
<1>2. Blank = [f \in DOMAIN Blank |-> Blank[f]]
  BY DEF Blank
<1> QED BY <1>1, <1>2 DEF NewRun

\* Initially every copy is the new run.
LEMMA InitEInv == AllPending /\ Init => EInv
<1> SUFFICES ASSUME AllPending, Init PROVE EInv
  OBVIOUS
<1>1. Blank \in Run /\ Sound(Blank) /\ run = Blank
  BY BlankSound, NewIsBlank DEF Sound, Init
<1>2. Rest
  <2>1. /\ quota \in [Executors -> Nat] /\ lost \in [Executors -> BOOLEAN]
        /\ calls \in [Tasks -> SUBSET Nat]
    BY DEF Init
  <2>2. faults \in 0..MaxFaults
    BY BoundsAssumption DEF Init
  <2> QED BY <2>1, <2>2 DEF Init, Rest
<1>3. Locals /\ Copies
  BY <1>1 DEF Init, Locals, Copies, Labels
<1>4. ASSUME NEW e \in Executors PROVE Local(e)
  <2>1. pc[e] = "idle" /\ then[e] = "idle" /\ mem[e] = Blank /\ layer[e] = {} /\ cur[e] = NoTask
    BY DEF Init
  <2>2. LocalAt("idle", Blank, NoTask, {})
    BY DEF LocalAt
  <2> QED BY <1>1, <2>1, <2>2 DEF Local, At, Writing
<1> QED BY <1>1, <1>2, <1>3, <1>4 DEF Init, EInv

\* Every step but a replan keeps the invariant.
LEMMA NextEInv ==
  ASSUME "replan" \notin HandlerOps
  PROVE  EInv /\ [Next]_vars => EInv'
<1> SUFFICES ASSUME EInv, [Next]_vars PROVE EInv'
  OBVIOUS
<1>1. CASE UNCHANGED vars
  BY <1>1, UntouchedKeeps DEF vars, store, lease, local, handlers, EInv, Rest
<1>2. CASE Enqueue \/ Expire \/ ExpireOrphan
  BY <1>2, LeaseSteps
<1>3. ASSUME NEW e \in Executors, NEW n \in StopAfter, Execute(e, n) PROVE EInv'
  BY <1>3, StopAfterAssumption, ExecuteStep
<1>4. ASSUME NEW e \in Executors, Poll(e) PROVE EInv'
  BY <1>4, ExecuteStep DEF Poll
<1>5. ASSUME NEW e \in Executors, Step(e) PROVE EInv'
  BY <1>5, AcquireLeaseStep, ReleaseLeaseStep, CheckCancelledStep, UpdateOwnedStep,
     AppendEventStep, LoadForChecksStep, LoadStep, ResumeStep, NextLayerStep, NextTaskStep,
     OpenReceiptStep, CallProviderStep, CollectSucceedsStep, CollectFailsStep,
     SaveCheckpointStep, AfterTaskStep, StartVerifyingStep, SynthesizeStep, SettleClaimStep,
     RefuseClaimStep, StartCheckStep, CallVerifierStep, CheckAnsweredStep, CheckedClaimStep,
     SynthesisFailsStep, ClaimsDoneStep, FinishRunStep, SaveMemoryStep, LoseLeaseStep DEF Step
<1>6. ASSUME NEW e \in Executors, Disturb(e) PROVE EInv'
  BY <1>6, RaiseStep, CrashStep, LeaseSteps DEF Disturb
<1>7. ASSUME NEW h \in Handlers, Handle(h) PROVE EInv'
  BY <1>7, ReadStep, WriteBackStep DEF Handle, ReadToReplan
<1> QED BY <1>1, <1>2, <1>3, <1>4, <1>5, <1>6, <1>7, ExecutorsAssumption DEF Next

\* Where nobody replans, every copy of the run stays sound, and every executor's
\* copy fits the call the executor is at.
THEOREM Invariance ==
  ASSUME AllPending, "replan" \notin HandlerOps
  PROVE  Spec => []EInv
BY InitEInv, NextEInv, PTL DEF Spec

\* Where nobody replans, every variable keeps its type.
THEOREM TypeCorrect ==
  ASSUME AllPending, "replan" \notin HandlerOps
  PROVE  Spec => []TypeOK
<1>1. EInv => TypeOK
  BY DEF EInv, Rest, Locals, Copies, Sound, TypeOK
<1> QED BY <1>1, Invariance, PTL

\* Where nobody replans, and whoever wrote last, the stored run is one that the
\* engine could have built alone: every write carries a consistent copy.
THEOREM Consistency ==
  ASSUME AllPending, "replan" \notin HandlerOps
  PROVE  Spec => []RunConsistent
<1>1. EInv => RunConsistent
  BY DEF EInv, Sound, RunConsistent
<1> QED BY <1>1, Invariance, PTL

-----------------------------------------------------------------------------
(* Publication and cancellation depend on the states of the copies alone,  *)
(* and hold whatever the handlers serve, replan included.                  *)

Over == {"COMPLETED", "PARTIAL"}

\* Labels of an executor that goes on with its copy.
Underway ==
  Labels \ (Writing \cup {"idle", "acquire", "load", "reload", "release", "memory"})

\* A copy on its way into the store is open, unless the call ends with it: then
\* the final write has a finished run, and any other a FAILED or BLOCKED one.
StateAt(p, th, r) ==
  /\ "state" \in DOMAIN r
  /\ At(p, th) \in Underway => Open(r)
  /\ p \in Writing /\ th \notin Underway =>
       IF th = "memory" THEN r.state \in Over ELSE r.state \in {"FAILED", "BLOCKED"}

\* What the publication of a run takes: no engine is used by two threads at once,
\* and of the other calls one is served at a time.
OnePublisher == Overlapping = {} /\ \A h, g \in Handlers : h = g

Published == /\ FinishedPublished
             /\ \A h \in Handlers : hmem[h].state \in Over => finished

SInv ==
  /\ pc \in [Executors -> Labels] /\ then \in [Executors -> Labels \ Writing]
  /\ mem = [e \in Executors |-> mem[e]] /\ hmem = [h \in Handlers |-> hmem[h]]
  /\ hpc \in [Handlers -> {"idle", "write"}]
  /\ \A e \in Executors : StateAt(pc[e], then[e], mem[e])
  /\ "state" \in DOMAIN run
  /\ \A h \in Handlers : "state" \in DOMAIN hmem[h]
  /\ OnePublisher => Published

\* One executor moves, and stores nothing.
LEMMA StatesKept ==
  ASSUME SInv, NEW e \in Executors, NEW p \in Labels, NEW th \in Labels \ Writing, NEW r,
         pc' = [pc EXCEPT ![e] = p], then' = [then EXCEPT ![e] = th],
         mem' = [mem EXCEPT ![e] = r], StateAt(p, th, r),
         UNCHANGED <<run, handlers>>, finished => finished'
  PROVE  SInv'
<1>1. ASSUME NEW d \in Executors PROVE StateAt(pc'[d], then'[d], mem'[d])
  BY DEF SInv
<1>. QED
  BY <1>1 DEF SInv, Published, FinishedPublished, handlers

\* ... and only goes on.
LEMMA GotoStates ==
  ASSUME SInv, NEW e \in Executors, NEW p \in Labels, Goto(e, p),
         UNCHANGED <<mem, run, handlers>>, finished => finished', StateAt(p, then[e], mem[e])
  PROVE  SInv'
<1>1. /\ then[e] \in Labels \ Writing /\ then' = [then EXCEPT ![e] = then[e]]
      /\ mem' = [mem EXCEPT ![e] = mem[e]] /\ pc' = [pc EXCEPT ![e] = p]
  BY DEF Goto, SInv
<1>. QED
  BY <1>1, StatesKept

\* ... or goes on to store a copy.
LEMMA PersistStates ==
  ASSUME SInv, NEW e \in Executors, NEW label \in Labels \ Writing, NEW r, Persist(e, r, label),
         UNCHANGED <<run, finished, handlers>>, StateAt("check", label, r)
  PROVE  SInv'
<1>1. "check" \in Labels /\ pc' = [pc EXCEPT ![e] = "check"]
      /\ then' = [then EXCEPT ![e] = label] /\ mem' = [mem EXCEPT ![e] = r]
  BY DEF Persist, Holds, Labels, Working, Writing
<1>. QED
  BY <1>1, StatesKept

\* Nothing has to be known of a copy where a call begins or ends.
LEMMA EndStates ==
  ASSUME SInv, NEW e \in Executors, NEW p \in {"idle", "acquire", "load", "reload", "release", "memory"}
  PROVE  p \in Labels /\ StateAt(p, then[e], mem[e])
BY DEF SInv, StateAt, Labels, Working, Guarded, Writing, Underway, At

\* What the changes of an executor make of the run's state.
LEMMA NewStates ==
  ASSUME NEW r, "state" \in DOMAIN r, NEW t, NEW outcome, NEW meets \in BOOLEAN, NEW taken
  PROVE  /\ \A q \in {StartTask(r, t), OpenAttempt(r, t), CloseAttempt(r, t, outcome),
                      CompleteTask(r, t, meets, taken), Checkpoint(r), BeginVerifying(r), ClearClaims(r),
                      OpenCheck(r, t), CloseCheck(r, t, outcome), AddClaim(r, t, outcome)} :
               "state" \in DOMAIN q /\ (Open(r) => Open(q))
         /\ \A q \in {FailRun(r), FailTask(r, t), BlockTask(r, t), BlockCheck(r)} :
               "state" \in DOMAIN q /\ q.state \in {"FAILED", "BLOCKED"}
         /\ "state" \in DOMAIN Finish(r) /\ Finish(r).state \in Over
<1>1. /\ DOMAIN StartTask(r, t) = DOMAIN r /\ StartTask(r, t).state = "RUNNING"
      /\ DOMAIN BeginVerifying(r) = DOMAIN r /\ BeginVerifying(r).state = "VERIFYING"
  BY DEF StartTask, BeginVerifying
<1>2. /\ \A o : DOMAIN CloseAttempt(r, t, o) = DOMAIN r /\ CloseAttempt(r, t, o).state = r.state
      /\ DOMAIN OpenAttempt(r, t) = DOMAIN r /\ OpenAttempt(r, t).state = r.state
      /\ DOMAIN Checkpoint(r) = DOMAIN r /\ Checkpoint(r).state = r.state
      /\ DOMAIN ClearClaims(r) = DOMAIN r /\ ClearClaims(r).state = r.state
      /\ DOMAIN OpenCheck(r, t) = DOMAIN r /\ OpenCheck(r, t).state = r.state
      /\ DOMAIN CloseCheck(r, t, outcome) = DOMAIN r /\ CloseCheck(r, t, outcome).state = r.state
      /\ DOMAIN AddClaim(r, t, outcome) = DOMAIN r /\ AddClaim(r, t, outcome).state = r.state
  BY DEF CloseAttempt, OpenAttempt, Checkpoint, ClearClaims, OpenCheck, CloseCheck, AddClaim
<1>3. /\ DOMAIN CompleteTask(r, t, meets, taken) = DOMAIN r
      /\ CompleteTask(r, t, meets, taken).state = r.state
  BY <1>2 DEF CompleteTask
<1>4. /\ DOMAIN FailRun(r) = DOMAIN r /\ FailRun(r).state = "FAILED"
      /\ DOMAIN FailTask(r, t) = DOMAIN r /\ FailTask(r, t).state = "FAILED"
      /\ DOMAIN BlockCheck(r) = DOMAIN r /\ BlockCheck(r).state = "BLOCKED"
  BY <1>2 DEF FailRun, FailTask, BlockCheck
<1>5. DOMAIN BlockTask(r, t) = DOMAIN r /\ BlockTask(r, t).state = "BLOCKED"
  BY <1>2 DEF BlockTask
<1>6. DOMAIN Finish(r) = DOMAIN r /\ Finish(r).state \in Over
  BY DEF Finish, Over
<1>. QED
  BY <1>1, <1>2, <1>3, <1>4, <1>5, <1>6 DEF Open, Settled

\* An executor that is underway, or is about to write and go on, has an open copy.
LEMMA OpenCopy ==
  ASSUME SInv, NEW e \in Executors, pc[e] \in Underway
  PROVE  Open(mem[e]) /\ "state" \in DOMAIN mem[e]
BY DEF SInv, StateAt, At, Underway

\* An executor goes on from where it is underway.
LEMMA OnStates ==
  ASSUME SInv, NEW e \in Executors, pc[e] \in Underway, NEW p \in Underway, Goto(e, p),
         UNCHANGED <<mem, run, finished, handlers>>
  PROVE  SInv'
<1>1. StateAt(p, then[e], mem[e]) /\ p \in Labels
  BY OpenCopy DEF StateAt, Underway, At
<1>. QED
  BY <1>1, GotoStates

\* A call that begins, ends or is refused.
LEMMA EndKept ==
  ASSUME SInv, NEW e \in Executors,
         NEW p \in {"idle", "acquire", "load", "reload", "release", "memory"}, Goto(e, p),
         UNCHANGED <<mem, run, handlers>>, finished => finished'
  PROVE  SInv'
BY EndStates, GotoStates

LEMMA WriteStates ==
  ASSUME SInv, NEW e \in Executors, CheckCancelled(e) \/ UpdateOwned(e) \/ AppendEvent(e)
  PROVE  SInv'
<1>0. /\ then[e] \in Labels \ Writing /\ StateAt(pc[e], then[e], mem[e])
      /\ pc[e] \in Writing
  BY DEF SInv, CheckCancelled, UpdateOwned, AppendEvent, Writing
<1>1. \A p \in Writing : p \in Labels /\ StateAt(p, then[e], mem[e])
  BY <1>0 DEF StateAt, At, Labels, Working
<1>2. CASE CheckCancelled(e)
  <2>1. UNCHANGED <<mem, run, finished, handlers>>
    BY <1>2 DEF CheckCancelled, store, local
  <2>2. Goto(e, "release") \/ Goto(e, "update")
    BY <1>2 DEF CheckCancelled
  <2>. QED
    BY <1>1, <2>1, <2>2, EndKept, GotoStates DEF Writing
<1>3. CASE UpdateOwned(e)
  <2>1. UNCHANGED <<mem, handlers>>
    BY <1>3 DEF UpdateOwned, local
  <2>2. CASE Goto(e, "release") /\ UNCHANGED store
    BY <2>1, <2>2, EndKept DEF store
  <2>3. CASE run' = mem[e] /\ then[e] = "memory" /\ finished' = TRUE /\ Goto(e, "memory")
    <3>1. StateAt("memory", then[e], mem[e]) /\ "memory" \in Labels
      BY <1>0 DEF StateAt, At, Underway, Writing, Labels, Working
    <3>2. /\ pc' = [pc EXCEPT ![e] = "memory"] /\ then' = then
      BY <2>3 DEF Goto
    <3>3. ASSUME NEW d \in Executors PROVE StateAt(pc'[d], then'[d], mem'[d])
      BY <2>1, <3>1, <3>2 DEF SInv
    <3>. QED
      BY <1>0, <2>1, <2>3, <3>1, <3>2, <3>3
      DEF SInv, StateAt, Published, FinishedPublished, handlers
  <2>4. CASE /\ run' = mem[e]
             /\ then[e] # "memory" \/ e \in Overlapping
             /\ UNCHANGED finished /\ Goto(e, "event")
    <3>1. StateAt("event", then[e], mem[e]) /\ "event" \in Labels
      BY <1>1 DEF Writing
    <3>2. /\ pc' = [pc EXCEPT ![e] = "event"] /\ then' = then
      BY <2>4 DEF Goto
    <3>3. ASSUME NEW d \in Executors PROVE StateAt(pc'[d], then'[d], mem'[d])
      BY <2>1, <3>1, <3>2 DEF SInv
    <3>4. OnePublisher => mem[e].state \notin Over
      BY <1>0, <2>4 DEF StateAt, At, Open, Settled, Over, OnePublisher
    <3>5. OnePublisher => Published'
      BY <2>1, <2>4, <3>4 DEF SInv, Published, FinishedPublished, handlers, Over
    <3>. QED
      BY <1>0, <2>1, <2>4, <3>1, <3>2, <3>3, <3>5 DEF SInv, StateAt, handlers
  <2>. QED
    BY <1>3, <2>2, <2>3, <2>4 DEF UpdateOwned
<1>4. CASE AppendEvent(e)
  <2>1. UNCHANGED <<mem, run, finished, handlers>>
    BY <1>4 DEF AppendEvent, store, local
  <2>2. StateAt(then[e], then[e], mem[e])
    BY <1>0 DEF StateAt, At
  <2>3. Goto(e, "release") \/ Goto(e, then[e])
    BY <1>4 DEF AppendEvent
  <2>. QED
    BY <1>0, <2>1, <2>2, <2>3, EndKept, GotoStates
<1>. QED
  BY <1>2, <1>3, <1>4

\* What an executor goes on to store, where it is underway.
LEMMA StoreStates ==
  ASSUME SInv, NEW e \in Executors, NEW label \in Labels, NEW r, Persist(e, r, label),
         UNCHANGED <<run, finished, handlers>>, "state" \in DOMAIN r,
         \/ label \in Underway /\ Open(r)
         \/ label = "release" /\ r.state \in {"FAILED", "BLOCKED"}
         \/ label = "memory" /\ r.state \in Over
  PROVE  SInv'
<1>1. label \notin Writing
  BY DEF Underway, Writing
<1>2. StateAt("check", label, r)
  BY <1>1 DEF StateAt, At, Underway, Writing
<1>. QED
  BY <1>1, <1>2, PersistStates

LEMMA LoadStates ==
  ASSUME SInv, NEW e \in Executors, LoadForChecks(e) \/ Load(e)
  PROVE  SInv'
<1>0. UNCHANGED <<run, finished, handlers>> /\ "state" \in DOMAIN run
  BY DEF LoadForChecks, Load, store, SInv
<1>1. CASE LoadForChecks(e)
  <2>1. CASE Persist(e, BlockCheck(run), "release")
    BY <1>0, <2>1, NewStates, StoreStates DEF Labels
  <2>2. CASE Goto(e, "reload") /\ UNCHANGED mem
    BY <1>0, <2>2, EndKept
  <2>. QED
    BY <1>1, <2>1, <2>2 DEF LoadForChecks
<1>2. CASE Load(e)
  <2>1. CASE Goto(e, "release") /\ UNCHANGED mem
    BY <1>0, <2>1, EndKept
  <2>2. ASSUME NEW t, Persist(e, BlockTask(run, t), "release") PROVE SInv'
    BY <1>0, <2>2, NewStates, StoreStates DEF Labels
  <2>3. ASSUME NEW p \in {"resume", "next"}, run.state \notin Settled, Holds(e, run), Goto(e, p)
        PROVE  SInv'
    <3>1. /\ pc' = [pc EXCEPT ![e] = p] /\ then' = [then EXCEPT ![e] = then[e]]
          /\ mem' = [mem EXCEPT ![e] = run] /\ then[e] \in Labels \ Writing
      BY <2>3 DEF SInv, Goto, Holds
    <3>2. StateAt(p, then[e], run) /\ p \in Labels
      BY <1>0, <2>3 DEF StateAt, At, Open, Writing, Labels, Working, Guarded
    <3>. QED
      BY <1>0, <3>1, <3>2, StatesKept
  <2>. QED
    BY <1>2, <2>1, <2>2, <2>3 DEF Load
<1>. QED
  BY <1>1, <1>2

\* Steps of the task loop.
LEMMA LoopStates ==
  ASSUME SInv, NEW e \in Executors,
         \/ Resume(e) \/ NextLayer(e) \/ NextTask(e) \/ OpenReceipt(e) \/ CallProvider(e)
         \/ CollectSucceeds(e) \/ CollectFails(e) \/ SaveCheckpoint(e) \/ AfterTask(e)
  PROVE  SInv'
<1>0. /\ UNCHANGED <<run, finished, handlers>>
      /\ pc[e] \in {"resume", "next", "open", "call", "answer", "ckpt", "more"}
  BY DEF Resume, NextLayer, NextTask, OpenReceipt, CallProvider, CollectSucceeds, CollectFails,
         SaveCheckpoint, AfterTask, store, local
<1>1. {"resume", "next", "open", "call", "answer", "ckpt", "more"} \subseteq Underway
  BY DEF Underway, Labels, Working, Guarded, Writing
<1>2. Open(mem[e]) /\ "state" \in DOMAIN mem[e] /\ pc[e] \in Underway
  BY <1>0, <1>1, OpenCopy
<1>3. "release" \in Labels /\ Underway \subseteq Labels
  BY DEF Labels, Underway
<1>4. CASE Resume(e) \/ CallProvider(e) \/ AfterTask(e)
  <2>1. UNCHANGED mem
    BY <1>4 DEF Resume, CallProvider, AfterTask, local
  <2>2. PICK p \in {"next", "answer", "release"} : Goto(e, p)
    BY <1>4 DEF Resume, CallProvider, AfterTask
  <2>. QED
    BY <1>0, <1>1, <1>2, <2>1, <2>2, OnStates, EndKept
<1>5. CASE NextLayer(e)
  <2>1. CASE Persist(e, FailRun(mem[e]), "release")
    BY <1>0, <1>2, <1>3, <2>1, NewStates, StoreStates
  <2>2. CASE UNCHANGED <<pc, then, mem>>
    BY <1>0, <2>2 DEF SInv, Published, FinishedPublished, handlers
  <2>. QED
    BY <1>5, <2>1, <2>2 DEF NextLayer
<1>6. CASE NextTask(e)
  <2>1. PICK t : Persist(e, StartTask(mem[e], t), "open")
    BY <1>6 DEF NextTask
  <2>. QED
    BY <1>0, <1>1, <1>2, <1>3, <2>1, NewStates, StoreStates
<1>7. CASE OpenReceipt(e)
  <2>1. Persist(e, OpenAttempt(mem[e], cur[e]), "call")
    BY <1>7 DEF OpenReceipt
  <2>. QED
    BY <1>0, <1>1, <1>2, <1>3, <2>1, NewStates, StoreStates
<1>8. CASE CollectSucceeds(e)
  <2>1. PICK meets \in BOOLEAN, taken \in MayTake(mem[e], cur[e]) :
          Persist(e, CompleteTask(mem[e], cur[e], meets, taken), "ckpt")
    BY <1>8 DEF CollectSucceeds
  <2>. QED
    BY <1>0, <1>1, <1>2, <1>3, <2>1, NewStates, StoreStates
<1>9. CASE CollectFails(e)
  <2>1. Persist(e, FailTask(mem[e], cur[e]), "release")
    BY <1>9 DEF CollectFails
  <2>. QED
    BY <1>0, <1>1, <1>2, <1>3, <2>1, NewStates, StoreStates
<1>10. CASE SaveCheckpoint(e)
  <2>1. CASE Persist(e, Checkpoint(mem[e]), "more")
    BY <1>0, <1>1, <1>2, <1>3, <2>1, NewStates, StoreStates
  <2>2. CASE Goto(e, "release") /\ UNCHANGED mem
    BY <1>0, <2>2, EndKept
  <2>. QED
    BY <1>10, <2>1, <2>2 DEF SaveCheckpoint
<1>. QED
  BY <1>4, <1>5, <1>6, <1>7, <1>8, <1>9, <1>10

\* Steps of the synthesis.
LEMMA SynthesisStates ==
  ASSUME SInv, NEW e \in Executors,
         \/ StartVerifying(e) \/ Synthesize(e) \/ SettleClaim(e) \/ RefuseClaim(e)
         \/ StartCheck(e) \/ CallVerifier(e) \/ CheckAnswered(e) \/ CheckedClaim(e)
         \/ SynthesisFails(e) \/ ClaimsDone(e) \/ FinishRun(e)
  PROVE  SInv'
<1> DEFINE Here == {"next", "synth", "claim", "vcall", "vanswer", "vdone", "vfail", "finish"}
<1>0. UNCHANGED <<run, finished, handlers>> /\ pc[e] \in Here
  BY DEF StartVerifying, Synthesize, SettleClaim, RefuseClaim, StartCheck, CallVerifier,
         CheckAnswered, CheckedClaim, SynthesisFails, ClaimsDone, FinishRun, store, local
<1>1. Here \subseteq Underway
  BY DEF Underway, Labels, Working, Guarded, Writing
<1>2. Open(mem[e]) /\ "state" \in DOMAIN mem[e] /\ pc[e] \in Underway
  BY <1>0, <1>1, OpenCopy
<1>3. {"release", "memory"} \subseteq Labels /\ Underway \subseteq Labels
  BY DEF Labels, Working, Underway
<1>4. CASE RefuseClaim(e) \/ CallVerifier(e) \/ ClaimsDone(e)
  <2>1. UNCHANGED mem
    BY <1>4 DEF RefuseClaim, CallVerifier, ClaimsDone, local
  <2>2. PICK p \in Here : Goto(e, p)
    BY <1>4 DEF RefuseClaim, CallVerifier, ClaimsDone
  <2>. QED
    BY <1>0, <1>1, <1>2, <2>1, <2>2, OnStates
<1>5. ASSUME NEW r, "state" \in DOMAIN r, Open(r), Holds(e, r), NEW p \in Here, Goto(e, p)
      PROVE  SInv'
  <2>1. /\ pc' = [pc EXCEPT ![e] = p] /\ then' = [then EXCEPT ![e] = then[e]]
        /\ mem' = [mem EXCEPT ![e] = r] /\ then[e] \in Labels \ Writing
    BY <1>5 DEF SInv, Goto, Holds
  <2>2. StateAt(p, then[e], r) /\ p \in Labels
    BY <1>1, <1>3, <1>5 DEF StateAt, Underway
  <2>. QED
    BY <1>0, <2>1, <2>2, StatesKept
<1>6. CASE Synthesize(e)
  <2>1. CASE Holds(e, ClearClaims(mem[e])) /\ Goto(e, "claim")
    BY <1>2, <1>5, <2>1, NewStates
  <2>2. CASE Goto(e, "vfail") /\ UNCHANGED mem
    BY <1>0, <1>1, <1>2, <2>2, OnStates
  <2>. QED
    BY <1>6, <2>1, <2>2 DEF Synthesize
<1>7. CASE SettleClaim(e)
  <2>1. PICK t, status : Holds(e, AddClaim(mem[e], t, status))
    BY <1>7 DEF SettleClaim
  <2>2. Goto(e, "claim")
    BY <1>7 DEF SettleClaim, Goto, SInv
  <2>. QED
    BY <1>2, <1>5, <2>1, <2>2, NewStates
<1>8. CASE CheckedClaim(e)
  <2>1. PICK status : Holds(e, AddClaim(mem[e], cur[e], status)) /\ Goto(e, "claim")
    BY <1>8 DEF CheckedClaim
  <2>. QED
    BY <1>2, <1>5, <2>1, NewStates
<1>9. CASE StartCheck(e)
  <2>1. PICK t : \/ Goto(e, "release") /\ UNCHANGED mem
                 \/ Persist(e, OpenCheck(mem[e], t), "vcall")
    BY <1>9 DEF StartCheck
  <2>2. CASE Goto(e, "release") /\ UNCHANGED mem
    BY <1>0, <2>2, EndKept
  <2>3. CASE Persist(e, OpenCheck(mem[e], t), "vcall")
    BY <1>0, <1>1, <1>2, <1>3, <2>3, NewStates, StoreStates
  <2>. QED
    BY <2>1, <2>2, <2>3
<1>10. CASE CheckAnswered(e)
  <2>1. ASSUME NEW verdict, NEW label \in {"vdone", "vfail"},
               Persist(e, CloseCheck(mem[e], cur[e], verdict), label)
        PROVE  SInv'
    BY <1>0, <1>1, <1>2, <1>3, <2>1, NewStates, StoreStates
  <2>. QED
    BY <1>10, <2>1 DEF CheckAnswered
<1>11. CASE StartVerifying(e)
  <2>1. Persist(e, BeginVerifying(mem[e]), "synth")
    BY <1>11 DEF StartVerifying
  <2>. QED
    BY <1>0, <1>1, <1>2, <1>3, <2>1, NewStates, StoreStates
<1>12. CASE SynthesisFails(e)
  <2>1. Persist(e, FailRun(mem[e]), "release")
    BY <1>12 DEF SynthesisFails
  <2>. QED
    BY <1>0, <1>2, <1>3, <2>1, NewStates, StoreStates
<1>13. CASE FinishRun(e)
  <2>1. Persist(e, Finish(mem[e]), "memory")
    BY <1>13 DEF FinishRun
  <2>. QED
    BY <1>0, <1>2, <1>3, <2>1, NewStates, StoreStates
<1>. QED
  BY <1>4, <1>6, <1>7, <1>8, <1>9, <1>10, <1>11, <1>12, <1>13

\* A handler takes a state that is not over, or leaves it as the run has it.
LEMMA TakeStates ==
  ASSUME SInv, NEW h \in Handlers, NEW r, Take(h, r), "state" \in DOMAIN r,
         r.state = run.state \/ r.state \notin Over
  PROVE  SInv'
<1>1. /\ UNCHANGED <<run, finished, pc, then, mem>> /\ hmem' = [hmem EXCEPT ![h] = r]
      /\ hpc' \in [Handlers -> {"idle", "write"}]
  BY DEF Take, store, local, SInv
<1>2. OnePublisher => Published'
  BY <1>1 DEF SInv, Published, FinishedPublished, Over
<1>. QED
  BY <1>1, <1>2 DEF SInv

\* What the handlers make of the run's state.
LEMMA HandlerStates ==
  ASSUME NEW r, "state" \in DOMAIN r, NEW t, NEW k, NEW reset
  PROVE  /\ \A q \in {Cancel(r), RetryAttempt(r, t, k), RejectAttempt(r, t, k),
                      RetryCheck(r, t, k), RejectCheck(r, t, k), Replan(r, reset)} :
               "state" \in DOMAIN q /\ q.state \notin Over
         /\ Cancel(r).state = "CANCELLED"
         /\ "state" \in DOMAIN RecordArtifact(r) /\ RecordArtifact(r).state = r.state
<1>1. DOMAIN ClearClaims(r) = DOMAIN r
  BY DEF ClearClaims
<1>2. /\ "state" \in DOMAIN RetryCheck(r, t, k) /\ RetryCheck(r, t, k).state = "CREATED"
      /\ "state" \in DOMAIN Replan(r, reset) /\ Replan(r, reset).state = "CREATED"
  BY <1>1 DEF RetryCheck, Replan
<1>3. /\ "state" \in DOMAIN Cancel(r) /\ Cancel(r).state = "CANCELLED"
      /\ "state" \in DOMAIN RetryAttempt(r, t, k) /\ RetryAttempt(r, t, k).state = "CREATED"
      /\ "state" \in DOMAIN RejectAttempt(r, t, k) /\ RejectAttempt(r, t, k).state = "FAILED"
      /\ "state" \in DOMAIN RejectCheck(r, t, k) /\ RejectCheck(r, t, k).state = "FAILED"
      /\ "state" \in DOMAIN RecordArtifact(r) /\ RecordArtifact(r).state = r.state
  BY DEF Cancel, RetryAttempt, RejectAttempt, RejectCheck, RecordArtifact
<1>. QED
  BY <1>2, <1>3 DEF Over

LEMMA HandleStates ==
  ASSUME SInv, NEW h \in Handlers, Handle(h)
  PROVE  SInv'
<1>0. "state" \in DOMAIN run
  BY DEF SInv
<1>1. CASE ReadToCancel(h)
  BY <1>0, <1>1, HandlerStates, TakeStates DEF ReadToCancel
<1>2. CASE ReadToRetry(h)
  <2>1. PICK t, k : Take(h, RetryAttempt(run, t, k)) \/ Take(h, RetryCheck(run, t, k))
    BY <1>2 DEF ReadToRetry
  <2>. QED
    BY <1>0, <2>1, HandlerStates, TakeStates
<1>3. CASE ReadToReject(h)
  <2>1. PICK t, k : Take(h, RejectAttempt(run, t, k)) \/ Take(h, RejectCheck(run, t, k))
    BY <1>3 DEF ReadToReject
  <2>. QED
    BY <1>0, <2>1, HandlerStates, TakeStates
<1>4. CASE ReadToRecord(h)
  BY <1>0, <1>4, HandlerStates, TakeStates DEF ReadToRecord
<1>5. CASE ReadToReplan(h)
  <2>1. PICK reset : Take(h, Replan(run, reset))
    BY <1>5 DEF ReadToReplan
  <2>. QED
    BY <1>0, <2>1, HandlerStates, TakeStates
<1>6. CASE WriteBack(h)
  <2>1. /\ run' = hmem[h] /\ hmem' = [hmem EXCEPT ![h] = Blank]
        /\ finished' = (finished /\ hmem[h].state \in Over)
        /\ UNCHANGED <<pc, then, mem>> /\ hpc' \in [Handlers -> {"idle", "write"}]
    BY <1>6 DEF WriteBack, local, SInv, Over
  <2>2. "state" \in DOMAIN Blank /\ Blank.state \notin Over
    BY DEF Blank, Over
  <2>3. OnePublisher => Published'
    BY <2>1, <2>2 DEF SInv, OnePublisher, Published, FinishedPublished, Over
  <2>. QED
    BY <2>1, <2>2, <2>3 DEF SInv
<1>. QED
  BY <1>1, <1>2, <1>3, <1>4, <1>5, <1>6 DEF Handle

LEMMA StepStates == SInv /\ [Next]_vars => SInv'
<1>. SUFFICES ASSUME SInv, [Next]_vars PROVE SInv'
  OBVIOUS
<1>1. ASSUME UNCHANGED <<run, finished, pc, then, mem, handlers>> PROVE SInv'
  BY <1>1 DEF SInv, Published, FinishedPublished, handlers
<1>2. CASE UNCHANGED vars \/ Enqueue \/ Expire \/ ExpireOrphan
  BY <1>1, <1>2 DEF vars, Enqueue, Expire, ExpireOrphan, store, local
<1>3. ASSUME NEW e \in Executors, NEW n, Execute(e, n) PROVE SInv'
  BY <1>3, EndKept DEF Execute, store
<1>4. ASSUME NEW e \in Executors, NoticeLoss(e) \/ HeartbeatError(e) PROVE SInv'
  BY <1>1, <1>4 DEF NoticeLoss, HeartbeatError, store, local
<1>5. ASSUME NEW e \in Executors, Raise(e) \/ LoseLease(e) \/ SaveMemory(e) PROVE SInv'
  <2>1. UNCHANGED <<mem, run, handlers>> /\ Goto(e, "release")
    BY <1>5 DEF Raise, LoseLease, SaveMemory, store, local
  <2>2. finished => finished'
    BY <1>5 DEF Raise, LoseLease, SaveMemory, store
  <2>. QED
    BY <2>1, <2>2, EndKept
<1>6. ASSUME NEW e \in Executors, AcquireLease(e) PROVE SInv'
  BY <1>6, EndKept DEF AcquireLease, store, local
<1>7. ASSUME NEW e \in Executors, Crash(e) \/ ReleaseLease(e) PROVE SInv'
  <2>1. /\ pc' = [pc EXCEPT ![e] = "idle"] /\ then' = [then EXCEPT ![e] = "idle"]
        /\ mem' = [mem EXCEPT ![e] = Blank] /\ UNCHANGED <<run, finished, handlers>>
    BY <1>7 DEF Crash, ReleaseLease, store
  <2>2. StateAt("idle", "idle", Blank) /\ "idle" \in Labels \ Writing
    BY DEF StateAt, At, Blank, Underway, Writing, Labels
  <2>. QED
    BY <2>1, <2>2, StatesKept
<1>8. ASSUME NEW e \in Executors, Step(e) PROVE SInv'
  BY <1>5, <1>6, <1>7, <1>8, WriteStates, LoadStates, LoopStates, SynthesisStates DEF Step
<1>. QED
  BY <1>2, <1>3, <1>4, <1>5, <1>7, <1>8, HandleStates, ExecutorsAssumption
  DEF Next, Poll, Disturb

LEMMA InitStates == Init => SInv
<1>. SUFFICES ASSUME Init PROVE SInv
  OBVIOUS
<1>1. /\ "state" \in DOMAIN Blank /\ Blank.state = "CREATED"
      /\ "state" \in DOMAIN NewRun /\ NewRun.state = "CREATED"
  BY DEF Blank, NewRun
<1>2. StateAt("idle", "idle", Blank) /\ "idle" \in Labels \ Writing
  BY <1>1 DEF StateAt, At, Underway, Writing, Labels
<1>. QED
  BY <1>1, <1>2 DEF Init, SInv, Published, FinishedPublished, Over

\* Where no engine is shared and one handler is served at a time, a run that reads
\* COMPLETED or PARTIAL has the event and the memory entry of the thesis it stands
\* with, after every replan anew, whatever the handler serves.
THEOREM Publication ==
  ASSUME OnePublisher
  PROVE  Spec => []FinishedPublished
<1>1. SInv => FinishedPublished
  BY DEF SInv, Published
<1>. QED
  BY <1>1, InitStates, StepStates, PTL DEF Spec

\* Nobody who begins to write after a cancellation takes it back.
LEMMA StillCancelled == SInv /\ [Next]_vars => (CancelledForGood => CancelledForGood')
<1>. SUFFICES ASSUME SInv, [Next]_vars, CancelledForGood PROVE CancelledForGood'
  OBVIOUS
<1>1. run.state = "CANCELLED" /\ "state" \in DOMAIN run
  BY DEF CancelledForGood, SInv
<1>2. ASSUME UNCHANGED <<run, handlers>>, \A e \in Executors : pc'[e] # "update"
      PROVE  CancelledForGood'
  BY <1>2 DEF CancelledForGood, handlers
<1>3. ASSUME UNCHANGED <<run, handlers>>, NEW e \in Executors, NEW p, p # "update",
             pc' = [pc EXCEPT ![e] = p] \/ pc' = pc
      PROVE  CancelledForGood'
  BY <1>2, <1>3 DEF CancelledForGood, SInv
<1>4. ASSUME UNCHANGED <<run, pc, handlers>> PROVE CancelledForGood'
  BY <1>4 DEF CancelledForGood, handlers
<1>5. ASSUME NEW e \in Executors, CheckCancelled(e) PROVE CancelledForGood'
  <2>1. mem[e].state # "CANCELLED"
    BY <1>5 DEF CheckCancelled, SInv, StateAt, At, Writing, Open, Settled, Over
  <2>. QED
    BY <1>1, <1>3, <1>5, <2>1 DEF CheckCancelled, Goto, store
<1>6. ASSUME NEW e \in Executors, UpdateOwned(e) PROVE CancelledForGood'
  BY <1>6 DEF UpdateOwned, CancelledForGood
<1>7. ASSUME NEW e \in Executors, AppendEvent(e) PROVE CancelledForGood'
  <2>1. then[e] # "update"
    BY DEF SInv, Writing
  <2>. QED
    BY <1>3, <1>7, <2>1 DEF AppendEvent, Goto, store
<1>8. ASSUME NEW e \in Executors,
             \/ AcquireLease(e) \/ ReleaseLease(e) \/ Resume(e) \/ SaveMemory(e) \/ LoseLease(e)
             \/ Raise(e) \/ Crash(e) \/ CallProvider(e) \/ AfterTask(e) \/ Synthesize(e)
             \/ SettleClaim(e) \/ RefuseClaim(e) \/ CallVerifier(e) \/ CheckedClaim(e)
             \/ ClaimsDone(e) \/ LoadForChecks(e) \/ Load(e)
      PROVE  CancelledForGood'
  <2>1. UNCHANGED <<run, handlers>>
    BY <1>8 DEF AcquireLease, ReleaseLease, Resume, SaveMemory, LoseLease, Raise, Crash,
       CallProvider, AfterTask, Synthesize, SettleClaim, RefuseClaim, CallVerifier, CheckedClaim,
       ClaimsDone, LoadForChecks, Load, store
  <2>2. \E p : p # "update" /\ (pc' = [pc EXCEPT ![e] = p] \/ pc' = pc)
    BY <1>8 DEF AcquireLease, ReleaseLease, Resume, SaveMemory, LoseLease, Raise, Crash,
       CallProvider, AfterTask, Synthesize, SettleClaim, RefuseClaim, CallVerifier, CheckedClaim,
       ClaimsDone, LoadForChecks, Load, Goto, Persist
  <2>. QED
    BY <1>3, <2>1, <2>2
<1>9. ASSUME NEW e \in Executors,
             \/ NextLayer(e) \/ NextTask(e) \/ OpenReceipt(e) \/ CollectSucceeds(e)
             \/ CollectFails(e) \/ SaveCheckpoint(e) \/ StartVerifying(e) \/ StartCheck(e)
             \/ CheckAnswered(e) \/ SynthesisFails(e) \/ FinishRun(e)
      PROVE  CancelledForGood'
  <2>1. UNCHANGED <<run, handlers>>
    BY <1>9 DEF NextLayer, NextTask, OpenReceipt, CollectSucceeds, CollectFails, SaveCheckpoint,
       StartVerifying, StartCheck, CheckAnswered, SynthesisFails, FinishRun, store
  <2>2. \E p : p # "update" /\ (pc' = [pc EXCEPT ![e] = p] \/ pc' = pc)
    BY <1>9 DEF NextLayer, NextTask, OpenReceipt, CollectSucceeds, CollectFails, SaveCheckpoint,
       StartVerifying, StartCheck, CheckAnswered, SynthesisFails, FinishRun, Goto, Persist
  <2>. QED
    BY <1>3, <2>1, <2>2
<1>10. ASSUME NEW e \in Executors, NEW n, Execute(e, n) PROVE CancelledForGood'
  BY <1>3, <1>10 DEF Execute, Goto, store
<1>11. ASSUME UNCHANGED vars \/ Enqueue \/ Expire \/ ExpireOrphan
              \/ \E e \in Executors : NoticeLoss(e) \/ HeartbeatError(e)
       PROVE  CancelledForGood'
  BY <1>4, <1>11 DEF vars, Enqueue, Expire, ExpireOrphan, NoticeLoss, HeartbeatError, store
<1>12. ASSUME NEW h \in Handlers, NEW r, Take(h, r), r.state = "CANCELLED" PROVE CancelledForGood'
  <2>1. /\ UNCHANGED <<run, pc>> /\ hpc' = [hpc EXCEPT ![h] = "write"]
        /\ hmem' = [hmem EXCEPT ![h] = r]
    BY <1>12 DEF Take, store
  <2>. QED
    BY <1>12, <2>1 DEF CancelledForGood, SInv
<1>13. ASSUME NEW h \in Handlers, Handle(h) PROVE CancelledForGood'
  <2>1. ~(ReadToCancel(h) \/ ReadToRetry(h) \/ ReadToReject(h) \/ ReadToReplan(h))
    BY <1>1 DEF ReadToCancel, ReadToRetry, ReadToReject, ReadToReplan, Settled
  <2>2. CASE ReadToRecord(h)
    BY <1>1, <1>12, <2>2, HandlerStates DEF ReadToRecord
  <2>3. CASE WriteBack(h)
    BY <2>3 DEF WriteBack, CancelledForGood, SInv
  <2>. QED
    BY <1>13, <2>1, <2>2, <2>3 DEF Handle
<1>. QED
  BY <1>5, <1>6, <1>7, <1>8, <1>9, <1>10, <1>11, <1>13, ExecutorsAssumption
  DEF Next, Step, Poll, Disturb

\* Once a cancellation is stored and every write that began before it is over,
\* it stands, whatever is executed, resolved, recorded or replanned afterwards.
THEOREM Cancellation == Spec => CancelledStands
<1>1. SInv /\ [Next]_vars => [CancelledForGood => CancelledForGood']_vars
  BY StillCancelled
<1>. QED
  BY <1>1, InitStates, StepStates, PTL DEF Spec, CancelledStands
=============================================================================
