------------------------------ MODULE RunSteps ------------------------------
(***************************************************************************)
(* What one write may make of a stored run, when one executor works on it  *)
(* and every write takes effect at once: r is the payload before the       *)
(* write, q the payload after it.  ResearchRun is the behaviour made of     *)
(* these steps.                                                             *)
(***************************************************************************)
EXTENDS RunRecord

Running(r) == r.state \in {"CREATED", "RUNNING"}

\* Claims are stored with whatever is written next; a claim that is to be
\* checked is QUALIFIED only after the verdict SUPPORTED.
Claimed(r) ==
  {[r EXCEPT !.claim = claims] : claims \in
     {c \in [Tasks -> ClaimStates] : \A t \in Verifiable : c[t] = "QUALIFIED" =>
        r.checks[t] # << >> /\ Verdict(r, t) = "SUPPORTED"}}

\* Tasks start over completed dependencies, one at a time.
Started(r, q) ==
  /\ Running(r)
  /\ Abandoned(r) = {}
  /\ \E t \in Ready(r) : q = StartTask(r, t)

\* No task is left that could start.
Stuck(r, q) ==
  /\ Running(r)
  /\ Abandoned(r) = {} /\ Ready(r) = {} /\ Completed(r) # Tasks
  /\ q = FailRun(r)

\* Only one receipt is open, and it is written before the provider is called.
Receipted(r, q) ==
  /\ Running(r)
  /\ \E t \in Abandoned(r) : OpenAttempts(r, t) = {} /\ q = OpenAttempt(r, t)

Collected(r, q) ==
  /\ Running(r)
  /\ \E t \in Abandoned(r) :
       /\ OpenAttempts(r, t) # {}
       /\ \/ \E meets \in BOOLEAN, taken \in MayTake(r, t) : q = CompleteTask(r, t, meets, taken)
          \/ q = FailTask(r, t)

Checkpointed(r, q) == Running(r) /\ q = Checkpoint(r)

Blocked(r, q) ==
  \/ Running(r) /\ \E t \in Abandoned(r) : q = BlockTask(r, t)
  \/ r.state = "VERIFYING" /\ Unverified(r) # {} /\ q = BlockCheck(r)

\* Verification starts, or starts again, over a wholly executed plan.
Verifying(r, q) ==
  /\ r.state \notin Settled
  /\ Completed(r) = Tasks /\ Unverified(r) = {}
  /\ q = BeginVerifying(r)

\* One claim is checked at a time, before it is settled.
Checked(r, q) ==
  /\ r.state = "VERIFYING"
  /\ \/ /\ Unverified(r) = {}
        /\ \E c \in Claimed(r), t \in Tasks : c.claim[t] = "NONE" /\ q = OpenCheck(c, t)
     \/ \E t \in Unverified(r), verdict \in {"SUPPORTED", "UNSUPPORTED", "FAILED"} :
          q = CloseCheck(r, t, verdict)

SynthesisFailed(r, q) ==
  /\ r.state = "VERIFYING" /\ Unverified(r) = {}
  /\ \E c \in Claimed(r) : q = FailRun(c)

Finished(r, q) ==
  /\ r.state = "VERIFYING" /\ Unverified(r) = {}
  /\ \E c \in Claimed(r) : (\A t \in Tasks : c.claim[t] # "NONE") /\ q = Finish(c)

\* Only an operator lets a BLOCKED run go on, or ends it.
Resolved(r, q) ==
  /\ r.state = "BLOCKED"
  /\ \/ \E t \in Tasks : \E k \in OpenAttempts(r, t) :
          q \in {RetryAttempt(r, t, k), RejectAttempt(r, t, k)}
     \/ \E t \in Tasks : \E k \in OpenChecks(r, t) :
          q \in {RetryCheck(r, t, k), RejectCheck(r, t, k)}

\* An analyst takes up a PARTIAL run again.
Replanned(r, q) ==
  /\ r.state = "PARTIAL"
  /\ \E reset \in MustReset(r) : q = Replan(r, reset)

\* What the engine writes on its own.
Advanced(r, q) ==
  \/ Started(r, q) \/ Stuck(r, q) \/ Receipted(r, q) \/ Collected(r, q)
  \/ Checkpointed(r, q) \/ Blocked(r, q) \/ Verifying(r, q) \/ Checked(r, q)
  \/ SynthesisFailed(r, q) \/ Finished(r, q)

\* One write.
Evolves(r, q) == Advanced(r, q) \/ Resolved(r, q) \/ Replanned(r, q)
=============================================================================
