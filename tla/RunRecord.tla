----------------------------- MODULE RunRecord -----------------------------
(***************************************************************************)
(* The payload of one research run (ResearchRun in domain/models.py) and   *)
(* the changes the engine makes to a copy of it before it writes the whole *)
(* payload back.  The module has no behaviour: RunExecution applies these  *)
(* operators to the copies that executors and API handlers hold, and       *)
(* ResearchRun applies them to the stored run directly.                    *)
(*                                                                         *)
(* Data abstraction.  A task is a number (tasks are started in the order   *)
(* of their ids); its evidence is the answer to one question, "do distinct *)
(* QUALIFIED records meet every requirement?"; a receipt (ToolExecution)   *)
(* is its outcome; claims and their verification are one entry per task,   *)
(* because the synthesizer must return exactly one claim for every task.   *)
(***************************************************************************)
EXTENDS Integers, Sequences

CONSTANTS
  Tasks,        \* ids of the tasks of the run's plan
  DependsOn,    \* the plan's DAG: task -> the tasks it depends on
  Planned,      \* the states in which the accepted plan has its tasks
  Verifiable    \* tasks whose provider has a verify_claim method

ASSUME TasksAssumption == Tasks \subseteq Nat \ {0}
ASSUME DependsOnAssumption == DependsOn \in [Tasks -> SUBSET Tasks]
ASSUME VerifiableAssumption == Verifiable \subseteq Tasks

TaskStates == {"PENDING", "RUNNING", "COMPLETED", "FAILED", "UNKNOWN_EFFECT"}

ASSUME PlannedAssumption == Planned \in [Tasks -> TaskStates]

\* The plans of the deterministic planner, and those of a model that leaves the
\* state of a task at its default.
AllPending == Planned = [t \in Tasks |-> "PENDING"]

RunStates == {"CREATED", "RUNNING", "VERIFYING", "COMPLETED", "PARTIAL",
              "FAILED", "CANCELLED", "BLOCKED"}

\* States in which execute and cancel return at once.
Settled == {"COMPLETED", "PARTIAL", "FAILED", "CANCELLED", "BLOCKED"}

\* OPEN is status UNKNOWN_EFFECT without completed_at.  A resolved receipt
\* keeps that status, so it is named here by its resolution.
AttemptStates == {"OPEN", "SUCCEEDED", "FAILED", "RETRY_AUTHORIZED", "MARKED_FAILED"}

\* CLAIM_VERIFICATION receipts, by verdict once the provider answered.
CheckStates == {"OPEN", "SUPPORTED", "UNSUPPORTED", "FAILED",
                "RETRY_AUTHORIZED", "MARKED_FAILED"}

ClaimStates == {"NONE", "QUALIFIED", "NEEDS_REVIEW"}

Run == [state: RunStates,
        task: [Tasks -> TaskStates],
        attempts: [Tasks -> Seq(AttemptStates)],
        qualified: SUBSET Tasks,
        checkpoint: SUBSET Tasks,
        claim: [Tasks -> ClaimStates],
        checks: [Tasks -> Seq(CheckStates)],
        thesis: BOOLEAN,
        artifact: BOOLEAN]

NoClaims == [t \in Tasks |-> "NONE"]

\* What a thread without a copy of the run holds.
Blank == [state |-> "CREATED",
          task |-> [t \in Tasks |-> "PENDING"],
          attempts |-> [t \in Tasks |-> << >>],
          qualified |-> {},
          checkpoint |-> {},
          claim |-> NoClaims,
          checks |-> [t \in Tasks |-> << >>],
          thesis |-> FALSE,
          artifact |-> FALSE]

\* create_run keeps the tasks of the plan as they are.
NewRun == [Blank EXCEPT !.task = Planned]

Completed(r) == {t \in Tasks : r.task[t] = "COMPLETED"}
Abandoned(r) == {t \in Tasks : r.task[t] = "RUNNING"}
Ready(r) == {t \in Tasks : r.task[t] = "PENDING" /\ DependsOn[t] \subseteq Completed(r)}
OpenAttempts(r, t) == {k \in 1..Len(r.attempts[t]) : r.attempts[t][k] = "OPEN"}
OpenChecks(r, t) == {k \in 1..Len(r.checks[t]) : r.checks[t][k] = "OPEN"}
Unverified(r) == {t \in Tasks : OpenChecks(r, t) # {}}

-----------------------------------------------------------------------------
(* Changes an executor makes to its copy.                                  *)

StartTask(r, t) == [r EXCEPT !.task[t] = "RUNNING", !.state = "RUNNING"]

OpenAttempt(r, t) == [r EXCEPT !.attempts[t] = Append(@, "OPEN")]

\* The executor still holds the receipt it appended: it is the task's last one.
CloseAttempt(r, t, outcome) ==
  [r EXCEPT !.attempts[t] = [@ EXCEPT ![Len(r.attempts[t])] = outcome]]

\* A record of the answer that another task has with another qualification takes
\* its place and is t's from then on: the tasks in taken no longer meet theirs.
CompleteTask(r, t, meets, taken) ==
  [CloseAttempt(r, t, "SUCCEEDED") EXCEPT
     !.task[t] = "COMPLETED",
     !.qualified = (IF meets THEN @ \cup {t} ELSE @) \ taken]

\* The tasks whose records the answer for t may take.
MayTake(r, t) == SUBSET (r.qualified \ {t})

FailRun(r) == [r EXCEPT !.state = "FAILED"]

FailTask(r, t) == FailRun([CloseAttempt(r, t, "FAILED") EXCEPT !.task[t] = "FAILED"])

Checkpoint(r) == [r EXCEPT !.checkpoint = Completed(r)]

\* Mutant: the take-over trusts that a receipt was written.
BlockTaskWithoutReceipt(r, t) ==
  [r EXCEPT !.task[t] = "UNKNOWN_EFFECT", !.state = "BLOCKED"]

\* Take-over of a task found RUNNING: its open receipt is kept, or a
\* legacy-recovery receipt stands in for the one that was never written.
BlockTask(r, t) ==
  LET receipted == IF OpenAttempts(r, t) # {} \/ t \in Unverified(r)
                   THEN r ELSE OpenAttempt(r, t)
  IN  [receipted EXCEPT !.task[t] = "UNKNOWN_EFFECT", !.state = "BLOCKED"]

BlockCheck(r) == [r EXCEPT !.state = "BLOCKED"]

BeginVerifying(r) == [r EXCEPT !.state = "VERIFYING"]

ClearClaims(r) == [r EXCEPT !.claim = NoClaims]

OpenCheck(r, t) == [r EXCEPT !.checks[t] = Append(@, "OPEN")]

CloseCheck(r, t, verdict) ==
  [r EXCEPT !.checks[t] = [@ EXCEPT ![Len(r.checks[t])] = verdict]]

Verdict(r, t) == r.checks[t][Len(r.checks[t])]

AddClaim(r, t, status) == [r EXCEPT !.claim[t] = status]

AllQualified(r) == /\ r.qualified = Tasks
                   /\ \A t \in Tasks : r.claim[t] = "QUALIFIED"

Finish(r) == [r EXCEPT !.thesis = TRUE,
                       !.state = IF AllQualified(r) THEN "COMPLETED" ELSE "PARTIAL"]

-----------------------------------------------------------------------------
(* Changes an API handler makes to its copy.                               *)

Cancel(r) == [r EXCEPT !.state = "CANCELLED"]

RetryAttempt(r, t, k) ==
  [r EXCEPT !.task[t] = "PENDING", !.state = "CREATED",
            !.attempts[t] = [@ EXCEPT ![k] = "RETRY_AUTHORIZED"]]

RejectAttempt(r, t, k) ==
  [r EXCEPT !.task[t] = "FAILED", !.state = "FAILED",
            !.attempts[t] = [@ EXCEPT ![k] = "MARKED_FAILED"]]

\* Mutant: the retry authorizes a new check and forgets the old one.
RetryCheckForgotten(r, t, k) ==
  [ClearClaims(r) EXCEPT !.state = "CREATED", !.thesis = FALSE]

RetryCheck(r, t, k) ==
  [ClearClaims(r) EXCEPT !.state = "CREATED", !.thesis = FALSE,
                         !.checks[t] = [@ EXCEPT ![k] = "RETRY_AUTHORIZED"]]

RejectCheck(r, t, k) ==
  [r EXCEPT !.state = "FAILED", !.checks[t] = [@ EXCEPT ![k] = "MARKED_FAILED"]]

RecordArtifact(r) == [r EXCEPT !.artifact = TRUE]

\* The tasks a replan resets: those with unmet requirements, those the new plan
\* changes, and whatever depends on them.  The plan keeps its tasks and its DAG.
MustReset(r) == {reset \in SUBSET Tasks :
                   /\ Tasks \ r.qualified \subseteq reset
                   /\ \A t \in Tasks : DependsOn[t] \cap reset # {} => t \in reset}

\* Mutant: tasks that depend on a reset task keep their results.
ReplanUnqualifiedOnly(r, reset) ==
  LET redo == Tasks \ r.qualified
  IN  [ClearClaims(r) EXCEPT
         !.state = "CREATED", !.thesis = FALSE, !.checkpoint = {},
         !.task = [t \in Tasks |-> IF t \in redo THEN "PENDING" ELSE @[t]],
         !.attempts = [t \in Tasks |-> IF t \in redo THEN << >> ELSE @[t]],
         !.checks = [t \in Tasks |-> IF t \in redo THEN << >> ELSE @[t]]]

\* Evidence and receipts of reset tasks are removed.
Replan(r, reset) ==
  [ClearClaims(r) EXCEPT
     !.state = "CREATED", !.thesis = FALSE, !.checkpoint = {},
     !.task = [t \in Tasks |-> IF t \in reset THEN "PENDING" ELSE @[t]],
     !.attempts = [t \in Tasks |-> IF t \in reset THEN << >> ELSE @[t]],
     !.checks = [t \in Tasks |-> IF t \in reset THEN << >> ELSE @[t]],
     !.qualified = @ \ reset]

-----------------------------------------------------------------------------
(* What every payload satisfies, whoever holds it.                         *)

\* A task leaves PENDING only over completed dependencies.
DependenciesFirst(r) ==
  \A t \in Tasks : r.task[t] # "PENDING" => DependsOn[t] \subseteq Completed(r)

\* Every receipt of a task but the last was closed by an operator's RETRY, and
\* the task's state tells how its last receipt stands: the run never starts a
\* second attempt on its own.
Accounted(receipts, taskState) ==
  LET n == Len(receipts)
  IN  /\ \A k \in 1..(n - 1) : receipts[k] = "RETRY_AUTHORIZED"
      /\ n = 0 => taskState \in {"PENDING", "RUNNING"}
      /\ n > 0 => \/ taskState = "PENDING" /\ receipts[n] = "RETRY_AUTHORIZED"
                  \/ taskState = "RUNNING" /\ receipts[n] \in {"OPEN", "RETRY_AUTHORIZED"}
                  \/ taskState = "COMPLETED" /\ receipts[n] = "SUCCEEDED"
                  \/ taskState = "FAILED" /\ receipts[n] \in {"FAILED", "MARKED_FAILED"}
                  \/ taskState = "UNKNOWN_EFFECT" /\ receipts[n] = "OPEN"

AttemptsAccounted(r) == \A t \in Tasks : Accounted(r.attempts[t], r.task[t])

\* A collection in flight is one of one task of a run that is going on or was
\* cancelled; an effect nobody knows holds the run BLOCKED, and a BLOCKED run
\* has such an effect for an operator to resolve.
UnknownEffectBlocks(r) ==
  /\ \A t, u \in Tasks : {r.task[t], r.task[u]} \subseteq {"RUNNING", "UNKNOWN_EFFECT"} => t = u
  /\ \A t \in Tasks : r.task[t] = "RUNNING" => r.state \in {"RUNNING", "CANCELLED"}
  /\ \A t \in Tasks : r.task[t] = "UNKNOWN_EFFECT" => r.state = "BLOCKED"
  /\ \A t \in Tasks : r.task[t] = "FAILED" => r.state = "FAILED"
  /\ r.state = "BLOCKED" => \/ \E t \in Tasks : r.task[t] = "UNKNOWN_EFFECT"
                            \/ Unverified(r) # {}

\* Claims are checked, and a thesis stands, only over a plan that is wholly
\* executed; COMPLETED means that every requirement is met and every claim that
\* can be verified got the verdict SUPPORTED last.
ThesisGrounded(r) ==
  /\ r.state \in {"VERIFYING", "COMPLETED", "PARTIAL"} \/ Unverified(r) # {}
       => Completed(r) = Tasks
  /\ r.thesis <=> r.state \in {"COMPLETED", "PARTIAL"}
  /\ r.state = "COMPLETED" => AllQualified(r)
  /\ \A t \in Verifiable : r.claim[t] = "QUALIFIED" =>
       r.checks[t] # << >> /\ Verdict(r, t) = "SUPPORTED"
  /\ r.checkpoint \subseteq Completed(r)
  /\ r.qualified \subseteq Completed(r)

Consistent(r) ==
  /\ DependenciesFirst(r)
  /\ AttemptsAccounted(r)
  /\ UnknownEffectBlocks(r)
  /\ ThesisGrounded(r)

\* A claim check in flight is the only one; while its outcome is unknown the run
\* is VERIFYING, BLOCKED or cancelled, never finished.
UnknownCheckBlocks(r) ==
  /\ Unverified(r) # {} => r.state \in {"VERIFYING", "BLOCKED", "CANCELLED"}
  /\ \A t, u \in Unverified(r) : t = u /\ \A k \in OpenChecks(r, t) : k = Len(r.checks[t])
=============================================================================
