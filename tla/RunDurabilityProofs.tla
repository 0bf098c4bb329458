------------------------ MODULE RunDurabilityProofs ------------------------
(***************************************************************************)
(* While the API is called for resolutions and replans alone, one at a     *)
(* time, and the plan's tasks were PENDING, RunExecution implements        *)
(* ResearchRun: executors may be started, stall, lose their lease or die   *)
(* at any point, and the stored run still evolves as if one executor       *)
(* worked on it.                                                           *)
(*                                                                         *)
(* Two facts carry the refinement.  The executor that owns the lease is in *)
(* step with the stored run: its copy is the stored one up to the claims   *)
(* it is settling, and while a write is under way the copy is what one     *)
(* step makes of the stored run.  And the run stands still while a handler *)
(* has a copy of it, because a run that can be resolved or replanned has   *)
(* no executor at work.  Nothing is known of an executor without the       *)
(* lease, and nothing has to be: the UPDATE refuses its copy.              *)
(*                                                                         *)
(* The last section is about provider calls: an executor that lost its     *)
(* lease may still make the one it was about to, under a receipt that is   *)
(* its own.                                                                *)
(***************************************************************************)
EXTENDS RunExecutionProofs

\* One operator, who resolves blocked runs and replans partial ones.
OneOperator ==
  /\ HandlerOps \subseteq {"retry", "reject", "replan"}
  /\ \A g, h \in Handlers : g = h

Collecting == {"resume", "next", "open", "call", "answer", "ckpt", "more"}
Synthesizing == {"synth", "claim", "vcall", "vanswer", "vdone", "vfail", "finish"}

\* What the owner of the lease knows at this label of the stored run r, its copy
\* m, its task t and the ready tasks l of its layer.
Knows(label, r, m, t, l) ==
  /\ label \in {"claim", "vfail", "finish"} => m \in Claimed(r)
  /\ label \in (Collecting \cup Synthesizing) \ {"claim", "vfail", "finish"} => m = r
  /\ label \in Collecting => Open(r) /\ l \subseteq Ready(r)
  /\ label \in Collecting \ {"open", "call", "answer"} => Abandoned(r) = {} /\ Unverified(r) = {}
  /\ label \in {"open", "call", "answer", "ckpt"} => Running(r)
  /\ label = "open" => t \in Abandoned(r) /\ OpenAttempts(r, t) = {}
  /\ label \in {"call", "answer"} => t \in Abandoned(r) /\ OpenAttempts(r, t) # {}
  /\ label \in Synthesizing => r.state = "VERIFYING"
  /\ label \in {"vcall", "vanswer"} => t \in Unverified(r)
  /\ label \in Synthesizing \ {"vcall", "vanswer"} => Unverified(r) = {}
  /\ label = "vdone" => t \in Tasks /\ r.checks[t] # << >>
  /\ label = "finish" => \A u \in Tasks : m.claim[u] # "NONE"
  /\ label = "reload" /\ r.state = "VERIFYING" => Unverified(r) = {}

\* Before the UPDATE the copy is what one step makes of the stored run; in any
\* case the executor knows where it stands once its write has taken effect.
StepAt(p, th, r, m, t, l) ==
  /\ p \in {"check", "update"} => Advanced(r, m)
  /\ Knows(At(p, th), IF p \in {"check", "update"} THEN m ELSE r, m, t, l)

InStep(e) == Owns(e) => StepAt(pc[e], then[e], run, mem[e], cur[e], layer[e])

\* What the operator writes, and what anybody writes.
Operated(r, q) ==
  \/ Resolved(r, q)
  \/ "replan" \in HandlerOps /\ Replanned(r, q)

Written(r, q) == Advanced(r, q) \/ Operated(r, q)

\* A handler's copy is still one step away from the stored run.
Pending(h) == hpc[h] = "write" => Operated(run, hmem[h])

\* The inductive invariant, next to SInv.
DInv ==
  /\ cur = [e \in Executors |-> cur[e]] /\ layer = [e \in Executors |-> layer[e]]
  /\ Good(run)
  /\ \A e \in Executors : InStep(e)
  /\ \A h \in Handlers : Pending(h)

-----------------------------------------------------------------------------
(* What each step of the engine leaves its owner with.                     *)

\* A run at work is one that nobody resolves or replans.
LEMMA AtWork ==
  ASSUME NEW r, NEW q, Advanced(r, q)
  PROVE  Open(r)
BY DEF Advanced, Started, Stuck, Receipted, Collected, Checkpointed, Blocked, Verifying,
       Checked, SynthesisFailed, Finished, Running, Open, Settled

\* A run with tasks left to execute is not VERIFYING.
LEMMA StillRunning ==
  ASSUME NEW r, Good(r), Open(r), Completed(r) # Tasks, Unverified(r) = {}
  PROVE  Running(r)
<1>1. r.state \in RunStates
  BY Fields DEF Good, Sound
<1>2. r.state # "VERIFYING"
  BY DEF Good, Sound, Consistent, ThesisGrounded
<1>. QED
  BY <1>1, <1>2 DEF Open, Settled, RunStates, Running

\* The next task of the layer.
LEMMA StartTaskAdvances ==
  ASSUME NEW r, Good(r), Open(r), Abandoned(r) = {}, Unverified(r) = {},
         NEW l, l \subseteq Ready(r), NEW t \in l
  PROVE  LET q == StartTask(r, t) IN Advanced(r, q) /\ Knows("open", q, q, t, l \ {t})
<1> DEFINE q == StartTask(r, t)
<1>1. t \in Ready(r) /\ t \in Tasks /\ t \notin Completed(r)
  BY DEF Ready, Completed
<1>2. Running(r)
  BY <1>1, StillRunning
<1>3. Advanced(r, q)
  BY <1>1, <1>2 DEF Started, Advanced
<1>4. /\ q.state = "RUNNING" /\ q.task[t] = "RUNNING" /\ OpenAttempts(q, t) = {}
      /\ Ready(r) \ {t} \subseteq Ready(q)
  BY <1>1, StartTaskFacts DEF Good
<1> HIDE DEF q
<1>5. Knows("open", q, q, t, l \ {t})
  BY <1>1, <1>4 DEF Knows, Collecting, Synthesizing, Open, Settled, Running, Abandoned
<1>. QED
  BY <1>3, <1>5 DEF q

\* The receipt.
LEMMA OpenAttemptAdvances ==
  ASSUME NEW r, Good(r), NEW t, NEW l, Knows("open", r, r, t, l)
  PROVE  LET q == OpenAttempt(r, t) IN Advanced(r, q) /\ Knows("call", q, q, t, l)
<1> DEFINE q == OpenAttempt(r, t)
<1>1. /\ Running(r) /\ t \in Abandoned(r) /\ OpenAttempts(r, t) = {} /\ l \subseteq Ready(r)
      /\ t \in Tasks /\ r.task[t] = "RUNNING" /\ r \in Run
  BY DEF Knows, Collecting, Abandoned, Good, Sound
<1>2. Advanced(r, q)
  BY <1>1 DEF Receipted, Advanced
<1>3. Sound(q) /\ InFlight(q, t) /\ q.state = r.state
  BY <1>1, OpenAttemptSound DEF Good
<1>4. Ready(q) = Ready(r) /\ Abandoned(q) = Abandoned(r)
  BY <1>1, SameTasks
<1> HIDE DEF q
<1>5. q.attempts[t] \in Seq(AttemptStates)
  BY <1>1, <1>3, Fields DEF Sound
<1>6. Len(q.attempts[t]) \in 1..Len(q.attempts[t])
  BY <1>3, <1>5, EmptySeq DEF InFlight
<1>7. OpenAttempts(q, t) # {}
  BY <1>3, <1>6 DEF InFlight, OpenAttempts
<1>8. Knows("call", q, q, t, l)
  BY <1>1, <1>3, <1>4, <1>7 DEF Knows, Collecting, Synthesizing, Open, Settled, Running
<1>. QED
  BY <1>2, <1>8 DEF q

\* The answer of the provider.
LEMMA CollectAdvances ==
  ASSUME NEW r, Good(r), NEW t, NEW l, Knows("answer", r, r, t, l), NEW meets \in BOOLEAN,
         NEW taken \in MayTake(r, t)
  PROVE  LET q == CompleteTask(r, t, meets, taken)
         IN  /\ Advanced(r, q) /\ Advanced(r, FailTask(r, t))
             /\ Knows("ckpt", q, q, t, l)
<1> DEFINE q == CompleteTask(r, t, meets, taken)
<1>1. /\ Running(r) /\ t \in Abandoned(r) /\ OpenAttempts(r, t) # {} /\ l \subseteq Ready(r)
      /\ t \in Tasks /\ r.task[t] = "RUNNING" /\ r \in Run /\ Sound(r)
  BY DEF Knows, Collecting, Abandoned, Good, Sound
<1>2. Collected(r, q) /\ Collected(r, FailTask(r, t))
  BY <1>1 DEF Collected
<1>3. InFlight(r, t)
  BY <1>1, OpenInFlight DEF InFlight
<1>4. Abandoned(q) = {} /\ q.state = r.state
  BY <1>1, <1>3, CompleteTaskSound
<1>5. Ready(r) \subseteq Ready(q)
  BY <1>1, <1>3, CompleteTaskReady
<1>6. Unverified(q) = {}
  <2>1. q.checks = r.checks
    BY <1>1, TaskChecks
  <2>. QED
    BY <1>1, <2>1, RunningUnverified, SameChecks
<1> HIDE DEF q
<1>7. Knows("ckpt", q, q, t, l)
  BY <1>1, <1>4, <1>5, <1>6 DEF Knows, Collecting, Synthesizing, Open, Settled, Running
<1>. QED
  BY <1>2, <1>7 DEF q, Advanced

\* The checkpoint.
LEMMA CheckpointAdvances ==
  ASSUME NEW r, Good(r), NEW t, NEW l, Knows("ckpt", r, r, t, l)
  PROVE  LET q == Checkpoint(r) IN Advanced(r, q) /\ Knows("more", q, q, t, l)
<1> DEFINE q == Checkpoint(r)
<1>1. /\ Running(r) /\ Abandoned(r) = {} /\ Unverified(r) = {} /\ l \subseteq Ready(r) /\ r \in Run
  BY DEF Knows, Collecting, Good, Sound
<1>2. Advanced(r, q)
  BY <1>1 DEF Checkpointed, Advanced
<1>3. q.task = r.task /\ q.state = r.state /\ q.checks = r.checks
  BY <1>1 DEF Checkpoint, Run
<1> HIDE DEF q
<1>4. Ready(q) = Ready(r) /\ Abandoned(q) = {} /\ Unverified(q) = {}
  BY <1>1, <1>3, SameChecks DEF Ready, Completed, Abandoned
<1>5. Knows("more", q, q, t, l)
  BY <1>1, <1>3, <1>4 DEF Knows, Collecting, Synthesizing, Open, Settled, Running
<1>. QED
  BY <1>2, <1>5 DEF q

\* The start of the verification.
LEMMA VerifyingAdvances ==
  ASSUME NEW r, Good(r), Open(r), Unverified(r) = {}, Completed(r) = Tasks, NEW t, NEW l
  PROVE  LET q == BeginVerifying(r) IN Advanced(r, q) /\ Knows("synth", q, q, t, l)
<1> DEFINE q == BeginVerifying(r)
<1>1. Advanced(r, q)
  BY DEF Verifying, Advanced, Open
<1>2. q.state = "VERIFYING" /\ q.checks = r.checks
  BY DEF BeginVerifying, Run, Good, Sound
<1>3. Unverified(q) = {}
  BY <1>2, SameChecks
<1> HIDE DEF q
<1>4. Knows("synth", q, q, t, l)
  BY <1>2, <1>3 DEF Knows, Collecting, Synthesizing
<1>. QED
  BY <1>1, <1>4 DEF q

\* Claims may be dropped, and settled as the code does.
LEMMA ClaimsKnown ==
  ASSUME NEW r, Good(r), r.state = "VERIFYING", NEW c \in Claimed(r)
  PROVE  /\ ClearClaims(c) \in Claimed(r)
         /\ \A t \in Tasks, status \in ClaimStates :
              (t \in Verifiable /\ status = "QUALIFIED" => r.checks[t] # << >> /\ Verdict(r, t) = "SUPPORTED")
              => AddClaim(c, t, status) \in Claimed(r)
<1>1. r \in Run
  BY DEF Good, Sound
<1>2. PICK claims \in [Tasks -> ClaimStates] :
        /\ c = [r EXCEPT !.claim = claims]
        /\ \A t \in Verifiable : claims[t] = "QUALIFIED" =>
             r.checks[t] # << >> /\ Verdict(r, t) = "SUPPORTED"
  BY DEF Claimed
<1>3. ASSUME NEW new \in [Tasks -> ClaimStates],
             \A t \in Verifiable : new[t] = "QUALIFIED" =>
               r.checks[t] # << >> /\ Verdict(r, t) = "SUPPORTED"
      PROVE  [c EXCEPT !.claim = new] \in Claimed(r)
  <2>1. [c EXCEPT !.claim = new] = [r EXCEPT !.claim = new]
    BY <1>1, <1>2 DEF Run
  <2>. QED
    BY <1>3, <2>1 DEF Claimed
<1>4. ClearClaims(c) \in Claimed(r)
  <2>1. NoClaims \in [Tasks -> ClaimStates] /\ \A t \in Tasks : NoClaims[t] = "NONE"
    BY DEF NoClaims, ClaimStates
  <2>. QED
    BY <1>3, <2>1, VerifiableAssumption DEF ClearClaims
<1>5. ASSUME NEW t \in Tasks, NEW status \in ClaimStates,
             t \in Verifiable /\ status = "QUALIFIED" => r.checks[t] # << >> /\ Verdict(r, t) = "SUPPORTED"
      PROVE  AddClaim(c, t, status) \in Claimed(r)
  <2>1. c.claim = claims
    BY <1>1, <1>2 DEF Run
  <2>2. AddClaim(c, t, status) = [c EXCEPT !.claim = [claims EXCEPT ![t] = status]]
    BY <2>1 DEF AddClaim
  <2>3. [claims EXCEPT ![t] = status] \in [Tasks -> ClaimStates]
    OBVIOUS
  <2>4. ASSUME NEW u \in Verifiable, [claims EXCEPT ![t] = status][u] = "QUALIFIED"
        PROVE  r.checks[u] # << >> /\ Verdict(r, u) = "SUPPORTED"
    BY <1>2, <1>5, <2>4, VerifiableAssumption
  <2>. QED
    BY <1>3, <2>2, <2>3, <2>4
<1>. QED
  BY <1>4, <1>5

\* The stored run is a copy of itself.
LEMMA SelfClaimed ==
  ASSUME NEW r, Good(r), Open(r)
  PROVE  r \in Claimed(r)
<1>1. r \in Run /\ ThesisGrounded(r)
  BY DEF Good, Sound, Consistent
<1>2. r = [r EXCEPT !.claim = r.claim] /\ r.claim \in [Tasks -> ClaimStates]
  BY <1>1 DEF Run
<1>. QED
  BY <1>1, <1>2 DEF Claimed, ThesisGrounded

\* The receipt of a check.
LEMMA OpenCheckAdvances ==
  ASSUME NEW r, Good(r), NEW c, NEW u, NEW l, Knows("claim", r, c, u, l),
         NEW t \in Tasks, c.claim[t] = "NONE"
  PROVE  LET q == OpenCheck(c, t) IN Advanced(r, q) /\ Knows("vcall", q, q, t, l)
<1> DEFINE q == OpenCheck(c, t)
<1>1. r.state = "VERIFYING" /\ Unverified(r) = {} /\ c \in Claimed(r)
  BY DEF Knows, Collecting, Synthesizing
<1>2. Advanced(r, q)
  BY <1>1 DEF Checked, Advanced
<1>3. Sound(c) /\ c.state = "VERIFYING" /\ Unverified(c) = {}
  BY <1>1, ClaimedSound, SameChecks DEF Good
<1>4. q.state = "VERIFYING" /\ t \in Unverified(q)
  BY <1>3, OpenedCheckGood
<1> HIDE DEF q
<1>5. Knows("vcall", q, q, t, l)
  BY <1>4 DEF Knows, Collecting, Synthesizing
<1>. QED
  BY <1>2, <1>5 DEF q

\* The verdict.
LEMMA CloseCheckAdvances ==
  ASSUME NEW r, Good(r), NEW t, NEW l, Knows("vanswer", r, r, t, l),
         NEW verdict \in {"SUPPORTED", "UNSUPPORTED", "FAILED"}
  PROVE  LET q == CloseCheck(r, t, verdict)
         IN  Advanced(r, q) /\ Knows("vdone", q, q, t, l) /\ Knows("vfail", q, q, t, l)
<1> DEFINE q == CloseCheck(r, t, verdict)
<1>1. r.state = "VERIFYING" /\ t \in Unverified(r) /\ t \in Tasks /\ r \in Run
  BY DEF Knows, Collecting, Synthesizing, Unverified, Good, Sound
<1>2. Advanced(r, q)
  BY <1>1 DEF Checked, Advanced
<1>3. q.state = "VERIFYING" /\ q.checks = ChecksClosed(r, t, verdict)
  BY <1>1 DEF CloseCheck, ChecksClosed, Run
<1>4. Good(q)
  BY <1>2, EvolvesGood DEF Evolves
<1> HIDE DEF q
<1>5. Unverified(q) = {} /\ q.checks[t] # << >>
  BY <1>1, <1>3, ClosedCheck DEF CheckStates
<1>6. q \in Claimed(q)
  BY <1>3, <1>4, SelfClaimed DEF Open, Settled
<1>7. Knows("vdone", q, q, t, l) /\ Knows("vfail", q, q, t, l)
  BY <1>1, <1>3, <1>5, <1>6 DEF Knows, Collecting, Synthesizing
<1>. QED
  BY <1>2, <1>7 DEF q

\* Steps the owner's call ends with.
LEMMA LastAdvances ==
  ASSUME NEW r, Good(r), NEW m, NEW t, NEW l
  PROVE  /\ Knows("next", r, m, t, l) /\ Ready(r) = {} /\ Completed(r) # Tasks => Advanced(r, FailRun(m))
         /\ Knows("vfail", r, m, t, l) => Advanced(r, FailRun(m))
         /\ Knows("finish", r, m, t, l) => Advanced(r, Finish(m))
<1>1. ASSUME Knows("next", r, m, t, l), Ready(r) = {}, Completed(r) # Tasks
      PROVE  Advanced(r, FailRun(m))
  BY <1>1, StillRunning DEF Knows, Collecting, Synthesizing, Stuck, Advanced
<1>2. ASSUME Knows("vfail", r, m, t, l) PROVE Advanced(r, FailRun(m))
  BY <1>2 DEF Knows, Synthesizing, SynthesisFailed, Advanced
<1>3. ASSUME Knows("finish", r, m, t, l) PROVE Advanced(r, Finish(m))
  BY <1>3 DEF Knows, Synthesizing, Finished, Advanced
<1>. QED
  BY <1>1, <1>2, <1>3

-----------------------------------------------------------------------------
(* What keeps executors in step.                                           *)

\* What an owner knows outside a write, and of the write it is in.
LEMMA OwnerKnows ==
  ASSUME DInv, NEW e \in Executors, Owns(e)
  PROVE  /\ Good(run)
         /\ pc[e] \notin Writing => Knows(pc[e], run, mem[e], cur[e], layer[e])
         /\ pc[e] \in {"check", "update"} =>
              Advanced(run, mem[e]) /\ Knows(then[e], mem[e], mem[e], cur[e], layer[e])
         /\ pc[e] = "event" => Knows(then[e], run, mem[e], cur[e], layer[e])
BY DEF DInv, InStep, StepAt, At, Writing

\* Nothing has to be known where a call begins or ends.
LEMMA NothingKnown ==
  ASSUME NEW label \in {"idle", "acquire", "load", "release", "memory"}, NEW r, NEW m, NEW t, NEW l
  PROVE  Knows(label, r, m, t, l)
BY DEF Knows, Collecting, Synthesizing

\* One executor moves, and stores nothing.
LEMMA MoveInStep ==
  ASSUME SInv, DInv, NEW e \in Executors, NEW p, NEW th, NEW m, NEW t, NEW l,
         Moves(e, p, th, m, t, l), run' = run,
         \A d \in Executors : Owns(d)' => d = e \/ Owns(d),
         Owns(e)' => StepAt(p, th, run, m, t, l)
  PROVE  DInv'
<1>1. ASSUME NEW d \in Executors PROVE InStep(d)'
  <2>1. CASE d = e
    <3>1. pc'[e] = p /\ then'[e] = th /\ mem'[e] = m /\ cur'[e] = t /\ layer'[e] = l /\ run' = run
      BY DEF SInv, DInv, Moves
    <3>. QED
      BY <2>1, <3>1 DEF InStep
  <2>2. CASE d # e
    <3>1. /\ pc'[d] = pc[d] /\ then'[d] = then[d] /\ mem'[d] = mem[d]
          /\ cur'[d] = cur[d] /\ layer'[d] = layer[d] /\ run' = run
      BY <2>2 DEF SInv, DInv, Moves
    <3>2. Owns(d)' => Owns(d)
      BY <2>2
    <3>. QED
      BY <3>1, <3>2 DEF InStep, DInv
  <2>. QED
    BY <2>1, <2>2
<1>2. ASSUME NEW h \in Handlers PROVE Pending(h)'
  BY DEF DInv, Pending, Moves, handlers
<1>3. cur' = [d \in Executors |-> cur'[d]] /\ layer' = [d \in Executors |-> layer'[d]]
  BY DEF DInv, Moves
<1>. QED
  BY <1>1, <1>2, <1>3 DEF DInv

\* ... and only goes on.
LEMMA GotoInStep ==
  ASSUME SInv, DInv, NEW e \in Executors, NEW p, Goto(e, p),
         UNCHANGED <<mem, cur, layer, run, handlers, lease>>,
         Owns(e) => StepAt(p, then[e], run, mem[e], cur[e], layer[e])
  PROVE  DInv'
<1>1. Moves(e, p, then[e], mem[e], cur[e], layer[e])
  BY DEF Moves, Goto, SInv, DInv
<1>2. \A d \in Executors : Owns(d)' => d = e \/ Owns(d)
  BY DEF Owns, lease
<1>3. Owns(e)' => StepAt(p, then[e], run, mem[e], cur[e], layer[e])
  BY DEF Owns, lease
<1>. QED
  BY <1>1, <1>2, <1>3, MoveInStep

\* ... outside a write.
LEMMA OnInStep ==
  ASSUME SInv, DInv, NEW e \in Executors, NEW p, p \notin Writing, Goto(e, p),
         UNCHANGED <<mem, cur, layer, run, handlers, lease>>,
         Owns(e) => Knows(p, run, mem[e], cur[e], layer[e])
  PROVE  DInv'
BY GotoInStep DEF StepAt, At, Writing

\* ... and leaves.
LEMMA LeaveInStep ==
  ASSUME SInv, DInv, NEW e \in Executors, NEW p \in {"idle", "acquire", "load", "release", "memory"},
         Goto(e, p), UNCHANGED <<mem, cur, layer, run, handlers, lease>>
  PROVE  DInv'
BY OnInStep, NothingKnown DEF Writing

\* ... or goes on to write what one step makes of the stored run.
LEMMA PersistInStep ==
  ASSUME SInv, DInv, NEW e \in Executors, NEW label, label \notin Writing, NEW q, Persist(e, q, label),
         NEW t, cur' = [cur EXCEPT ![e] = t], NEW l, layer' = [layer EXCEPT ![e] = l],
         UNCHANGED <<run, handlers, lease>>,
         Owns(e) => Advanced(run, q) /\ Knows(label, q, q, t, l)
  PROVE  DInv'
<1>1. Moves(e, "check", label, q, t, l)
  BY DEF Persist, Holds, Moves
<1>2. \A d \in Executors : Owns(d)' => d = e \/ Owns(d)
  BY DEF Owns, lease
<1>3. Owns(e)' => StepAt("check", label, run, q, t, l)
  BY DEF StepAt, At, Writing, Owns, lease
<1>. QED
  BY <1>1, <1>2, <1>3, MoveInStep

\* The task and the layer may stay as they are.
LEMMA SameInStep ==
  ASSUME DInv, NEW e \in Executors
  PROVE  cur = [cur EXCEPT ![e] = cur[e]] /\ layer = [layer EXCEPT ![e] = layer[e]]
BY DEF DInv

-----------------------------------------------------------------------------
(* Calls begin and end, and write.                                         *)

\* Whoever takes the lease knows nothing of the run yet.
LEMMA EntryInStep ==
  ASSUME SInv, DInv, NEW e \in Executors,
         (\E n : Execute(e, n)) \/ AcquireLease(e) \/ ReleaseLease(e)
  PROVE  DInv'
<1>1. ASSUME NEW n, Execute(e, n) PROVE DInv'
  BY <1>1, LeaveInStep DEF Execute, store
<1>2. CASE AcquireLease(e)
  <2>1. UNCHANGED <<mem, cur, layer, run, handlers>>
    BY <1>2 DEF AcquireLease, store, local
  <2>2. CASE Goto(e, "idle") /\ UNCHANGED lease
    BY <2>1, <2>2, LeaveInStep
  <2>3. CASE Goto(e, "load") /\ holder' = e /\ live' = TRUE
    <3>1. Moves(e, "load", then[e], mem[e], cur[e], layer[e])
      BY <2>1, <2>3 DEF Moves, Goto, SInv, DInv
    <3>2. \A d \in Executors : Owns(d)' => d = e \/ Owns(d)
      BY <2>3 DEF Owns
    <3>3. Owns(e)' => StepAt("load", then[e], run, mem[e], cur[e], layer[e])
      BY NothingKnown DEF StepAt, At, Writing
    <3>. QED
      BY <2>1, <3>1, <3>2, <3>3, MoveInStep
  <2>. QED
    BY <1>2, <2>2, <2>3 DEF AcquireLease
<1>3. CASE ReleaseLease(e)
  <2>1. Moves(e, "idle", "idle", Blank, NoTask, {}) /\ run' = run
    BY <1>3 DEF ReleaseLease, Moves, store
  <2>2. \A d \in Executors : Owns(d)' => d = e \/ Owns(d)
    BY <1>3 DEF ReleaseLease, Owns, lease
  <2>3. StepAt("idle", "idle", run, Blank, NoTask, {})
    BY NothingKnown DEF StepAt, At, Writing
  <2>. QED
    BY <2>1, <2>2, <2>3, MoveInStep
<1>. QED
  BY <1>1, <1>2, <1>3

\* The SELECT and the event leave the owner where it is.
LEMMA AroundUpdateInStep ==
  ASSUME SInv, DInv, NEW e \in Executors, CheckCancelled(e) \/ AppendEvent(e)
  PROVE  DInv'
<1>0. UNCHANGED <<mem, cur, layer, run, handlers, lease>> /\ then[e] \notin Writing
  BY DEF CheckCancelled, AppendEvent, store, local, SInv
<1>1. CASE Goto(e, "release")
  BY <1>0, <1>1, LeaveInStep
<1>2. CASE pc[e] = "check" /\ Goto(e, "update")
  <2>1. Owns(e) => StepAt("update", then[e], run, mem[e], cur[e], layer[e])
    BY <1>2, OwnerKnows DEF StepAt, At, Writing
  <2>. QED
    BY <1>0, <1>2, <2>1, GotoInStep
<1>3. CASE pc[e] = "event" /\ Goto(e, then[e])
  BY <1>0, <1>3, OwnerKnows, OnInStep
<1>. QED
  BY <1>1, <1>2, <1>3 DEF CheckCancelled, AppendEvent

\* The UPDATE makes one step of the stored run; no handler holds a copy of it.
LEMMA UpdateInStep ==
  ASSUME SInv, DInv, NEW e \in Executors, UpdateOwned(e)
  PROVE  DInv' /\ (run' = run \/ Advanced(run, run'))
<1>0. UNCHANGED <<mem, cur, layer, handlers, lease>> /\ pc[e] = "update" /\ then[e] \notin Writing
  BY DEF UpdateOwned, local, SInv
<1>1. CASE ~Owns(e)
  BY <1>0, <1>1, LeaveInStep DEF UpdateOwned, store
<1>2. CASE Owns(e)
  <2>1. /\ Good(run) /\ Advanced(run, mem[e])
        /\ Knows(then[e], mem[e], mem[e], cur[e], layer[e])
    BY <1>0, <1>2, OwnerKnows
  <2>2. run' = mem[e] /\ \/ then[e] = "memory" /\ Goto(e, "memory")
                         \/ Goto(e, "event")
    BY <1>2 DEF UpdateOwned
  <2>3. Advanced(run, run') /\ Good(run')
    BY <2>1, <2>2, EvolvesGood DEF Evolves
  <2>4. \A d \in Executors : Owns(d)' => d = e
    BY <1>0, <1>2 DEF Owns, lease
  <2>5. PICK p : /\ pc' = [pc EXCEPT ![e] = p] /\ then' = then
                 /\ p \notin {"check", "update"} /\ (p = "event" \/ p = then[e])
    BY <2>2 DEF Goto
  <2>6. StepAt(p, then[e], mem[e], mem[e], cur[e], layer[e])
    BY <2>1, <2>5 DEF StepAt, At, Writing
  <2>7. pc'[e] = p
    BY <2>5 DEF SInv
  <2>8. ASSUME NEW d \in Executors PROVE InStep(d)'
    BY <1>0, <2>2, <2>4, <2>5, <2>6, <2>7 DEF InStep
  <2>9. ASSUME NEW h \in Handlers PROVE Pending(h)'
    <3>1. Open(run)
      BY <2>1, AtWork
    <3>2. hpc[h] # "write"
      BY <3>1 DEF DInv, Pending, Operated, Resolved, Replanned, Open, Settled
    <3>. QED
      BY <1>0, <3>2 DEF Pending, handlers
  <2>10. cur' = [d \in Executors |-> cur'[d]] /\ layer' = [d \in Executors |-> layer'[d]]
    BY <1>0 DEF DInv
  <2>. QED
    BY <2>3, <2>8, <2>9, <2>10 DEF DInv
<1>. QED
  BY <1>1, <1>2 DEF UpdateOwned, store

-----------------------------------------------------------------------------
(* A call that has not read the run has no layer.                          *)

Beginning == {"idle", "acquire", "load", "reload"}

Fresh ==
  /\ layer = [e \in Executors |-> layer[e]]
  /\ \A e \in Executors : At(pc[e], then[e]) \in Beginning => layer[e] = {}

LEMMA FreshMove ==
  ASSUME SInv, Fresh, NEW e \in Executors, NEW p, NEW th,
         pc' = [pc EXCEPT ![e] = p] \/ (pc' = pc /\ p = pc[e]),
         then' = [then EXCEPT ![e] = th] \/ (then' = then /\ th = then[e]),
         NEW l, layer' = [layer EXCEPT ![e] = l] \/ (layer' = layer /\ l = layer[e]),
         At(p, th) \in Beginning => l = {} \/ (l = layer[e] /\ At(pc[e], then[e]) \in Beginning)
  PROVE  Fresh'
<1>1. pc'[e] = p /\ then'[e] = th /\ layer'[e] = l
  BY DEF SInv, Fresh
<1>2. \A d \in Executors \ {e} : pc'[d] = pc[d] /\ then'[d] = then[d] /\ layer'[d] = layer[d]
  BY DEF SInv, Fresh
<1>3. layer' = [d \in Executors |-> layer'[d]]
  BY DEF Fresh
<1>4. ASSUME NEW d \in Executors, At(pc'[d], then'[d]) \in Beginning PROVE layer'[d] = {}
  BY <1>1, <1>2, <1>4 DEF Fresh
<1>. QED
  BY <1>3, <1>4 DEF Fresh, At

LEMMA FreshKept == SInv /\ Fresh /\ [Next]_vars => Fresh'
<1>. SUFFICES ASSUME SInv, Fresh, [Next]_vars PROVE Fresh'
  OBVIOUS
<1>1. ASSUME NEW e \in Executors, NEW p, p \notin Beginning \cup Writing, UNCHANGED layer,
             \/ Goto(e, p)
             \/ \E r : Persist(e, r, p)
      PROVE  Fresh'
  BY <1>1, FreshMove DEF Goto, Persist, At, Beginning, Writing
<1>2. CASE UNCHANGED <<pc, then, layer>>
  BY <1>2 DEF Fresh, At
<1>3. ASSUME NEW e \in Executors, AcquireLease(e) \/ \E n : Execute(e, n) PROVE Fresh'
  <2>1. UNCHANGED <<layer, then>> /\ pc[e] \in Beginning
    BY <1>3 DEF AcquireLease, Execute, Goto, local, Beginning
  <2>2. \E p : pc' = [pc EXCEPT ![e] = p]
    BY <1>3 DEF AcquireLease, Execute, Goto
  <2>. QED
    BY <2>1, <2>2, FreshMove DEF At, Beginning, Writing
<1>4. ASSUME NEW e \in Executors, ReleaseLease(e) \/ Crash(e) PROVE Fresh'
  <2>1. /\ pc' = [pc EXCEPT ![e] = "idle"] /\ then' = [then EXCEPT ![e] = "idle"]
        /\ layer' = [layer EXCEPT ![e] = {}]
    BY <1>4 DEF ReleaseLease, Crash
  <2>. QED
    BY <2>1, FreshMove
<1>5. ASSUME NEW e \in Executors, CheckCancelled(e) \/ UpdateOwned(e) \/ AppendEvent(e) PROVE Fresh'
  <2>1. UNCHANGED <<layer, then>> /\ pc[e] \in Writing /\ then[e] \notin Writing
    BY <1>5 DEF CheckCancelled, UpdateOwned, AppendEvent, local, Writing, SInv, Goto
  <2>2. PICK p \in Writing \cup {then[e], "release", "memory"} : Goto(e, p)
    BY <1>5 DEF CheckCancelled, UpdateOwned, AppendEvent, Writing
  <2>3. At(p, then[e]) \in {then[e], "release", "memory"} /\ At(pc[e], then[e]) = then[e]
    BY <2>1, <2>2 DEF At
  <2>. QED
    BY <2>1, <2>2, <2>3, FreshMove DEF Beginning, Goto
<1>6. ASSUME NEW e \in Executors, LoadForChecks(e) PROVE Fresh'
  <2>1. UNCHANGED layer /\ pc[e] = "load"
    BY <1>6 DEF LoadForChecks
  <2>2. CASE Goto(e, "reload")
    BY <2>1, <2>2, FreshMove DEF Goto, At, Beginning, Writing
  <2>3. CASE Persist(e, BlockCheck(run), "release")
    BY <1>1, <2>1, <2>3 DEF Beginning, Writing
  <2>. QED
    BY <1>6, <2>2, <2>3 DEF LoadForChecks
<1>7. ASSUME NEW e \in Executors, Load(e) PROVE Fresh'
  <2>1. PICK p \in {"release", "resume", "next"} : Goto(e, p) \/ \E r : Persist(e, r, p)
    BY <1>7 DEF Load
  <2>. QED
    BY <1>1, <1>7, <2>1 DEF Load, Beginning, Writing
<1>8. ASSUME NEW e \in Executors,
             \/ Resume(e) \/ CallProvider(e) \/ SaveCheckpoint(e) \/ AfterTask(e)
             \/ OpenReceipt(e) \/ CollectSucceeds(e) \/ CollectFails(e)
      PROVE  Fresh'
  <2>1. PICK p \in {"release", "next", "answer", "more", "call", "ckpt"} : Goto(e, p) \/ \E r : Persist(e, r, p)
    BY <1>8 DEF Resume, CallProvider, SaveCheckpoint, AfterTask, OpenReceipt, CollectSucceeds, CollectFails
  <2>2. UNCHANGED layer
    BY <1>8 DEF Resume, CallProvider, SaveCheckpoint, AfterTask, OpenReceipt, CollectSucceeds,
       CollectFails, local
  <2>. QED
    BY <1>1, <2>1, <2>2 DEF Beginning, Writing
<1>9. ASSUME NEW e \in Executors, NextLayer(e) \/ NextTask(e) PROVE Fresh'
  <2>1. PICK l : layer' = [layer EXCEPT ![e] = l] \/ (layer' = layer /\ l = layer[e])
    BY <1>9 DEF NextLayer, NextTask
  <2>2. pc[e] = "next"
    BY <1>9 DEF NextLayer, NextTask
  <2>3. CASE UNCHANGED <<pc, then>>
    BY <2>1, <2>2, <2>3, FreshMove DEF At, Beginning, Writing
  <2>4. ASSUME NEW p \in {"release", "open"}, NEW r, Persist(e, r, p) PROVE Fresh'
    BY <2>1, <2>4, FreshMove DEF Persist, At, Beginning, Writing
  <2>. QED
    BY <1>9, <2>3, <2>4 DEF NextLayer, NextTask
<1>10. ASSUME NEW e \in Executors,
              \/ StartVerifying(e) \/ Synthesize(e) \/ RefuseClaim(e) \/ StartCheck(e)
              \/ CallVerifier(e) \/ CheckAnswered(e) \/ CheckedClaim(e) \/ SynthesisFails(e)
              \/ ClaimsDone(e) \/ FinishRun(e) \/ SaveMemory(e) \/ LoseLease(e) \/ Raise(e)
       PROVE  Fresh'
  <2>1. PICK p \in {"synth", "claim", "vfail", "release", "vcall", "vanswer", "vdone", "finish", "memory"} :
          Goto(e, p) \/ \E r : Persist(e, r, p)
    BY <1>10 DEF StartVerifying, Synthesize, RefuseClaim, StartCheck, CallVerifier, CheckAnswered,
       CheckedClaim, SynthesisFails, ClaimsDone, FinishRun, SaveMemory, LoseLease, Raise
  <2>2. UNCHANGED layer
    BY <1>10 DEF StartVerifying, Synthesize, RefuseClaim, StartCheck, CallVerifier, CheckAnswered,
       CheckedClaim, SynthesisFails, ClaimsDone, FinishRun, SaveMemory, LoseLease, Raise, local
  <2>. QED
    BY <1>1, <2>1, <2>2 DEF Beginning, Writing
<1>11. ASSUME UNCHANGED vars \/ Enqueue \/ Expire \/ ExpireOrphan
              \/ (\E e \in Executors : NoticeLoss(e) \/ HeartbeatError(e) \/ SettleClaim(e))
              \/ \E h \in Handlers : Handle(h)
       PROVE  Fresh'
  BY <1>2, <1>11 DEF vars, Enqueue, Expire, ExpireOrphan, NoticeLoss, HeartbeatError, SettleClaim,
     Handle, ReadToCancel, ReadToRetry, ReadToReject, ReadToRecord, ReadToReplan, Take, WriteBack,
     local
<1>. QED
  BY <1>3, <1>4, <1>5, <1>6, <1>7, <1>8, <1>9, <1>10, <1>11, ExecutorsAssumption
  DEF Next, Step, Poll, Disturb

-----------------------------------------------------------------------------
(* Recovery.                                                               *)

\* The take-over of a run with a check of unknown outcome.
LEMMA LoadForChecksInStep ==
  ASSUME SInv, DInv, NEW e \in Executors, LoadForChecks(e)
  PROVE  DInv'
<1>0. UNCHANGED <<cur, layer, run, handlers, lease>>
  BY DEF LoadForChecks, store
<1>1. CASE run.state = "VERIFYING" /\ Unverified(run) # {}
  <2>1. Persist(e, BlockCheck(run), "release")
    BY <1>1 DEF LoadForChecks
  <2>2. Advanced(run, BlockCheck(run))
    BY <1>1 DEF Blocked, Advanced
  <2>3. Knows("release", BlockCheck(run), BlockCheck(run), cur[e], layer[e]) /\ "release" \notin Writing
    BY NothingKnown DEF Writing
  <2>. QED
    BY <1>0, <2>1, <2>2, <2>3, SameInStep, PersistInStep
<1>2. CASE ~(run.state = "VERIFYING" /\ Unverified(run) # {})
  <2>1. Goto(e, "reload") /\ UNCHANGED mem
    BY <1>2 DEF LoadForChecks
  <2>2. Knows("reload", run, mem[e], cur[e], layer[e]) /\ "reload" \notin Writing
    BY <1>2 DEF Knows, Collecting, Synthesizing, Writing
  <2>. QED
    BY <1>0, <2>1, <2>2, OnInStep
<1>. QED
  BY <1>1, <1>2

\* The take-over of a task in flight, or of a run that nobody works on.
LEMMA LoadInStep ==
  ASSUME SInv, DInv, Fresh, NEW e \in Executors, Load(e)
  PROVE  DInv'
<1>0. UNCHANGED <<cur, layer, run, handlers, lease>> /\ pc[e] = "reload" /\ Good(run)
  BY DEF Load, store, DInv
<1>10. layer[e] = {}
  BY <1>0 DEF Fresh, At, Beginning, Writing
<1>1. CASE Goto(e, "release") /\ UNCHANGED mem
  BY <1>0, <1>1, LeaveInStep
<1>2. ASSUME run.state \notin Settled, NEW t \in Abandoned(run), Persist(e, BlockTask(run, t), "release")
      PROVE  DInv'
  <2>1. t \in Tasks /\ run.task[t] = "RUNNING" /\ Sound(run)
    BY <1>0 DEF Abandoned, Good
  <2>2. run.state \in {"RUNNING", "CANCELLED"}
    BY <2>1, OnlyOne
  <2>3. Advanced(run, BlockTask(run, t))
    BY <1>2, <2>2 DEF Settled, Running, Blocked, Advanced
  <2>4. Knows("release", BlockTask(run, t), BlockTask(run, t), cur[e], layer[e]) /\ "release" \notin Writing
    BY NothingKnown DEF Writing
  <2>. QED
    BY <1>0, <1>2, <2>3, <2>4, SameInStep, PersistInStep
<1>3. ASSUME run.state \notin Settled, Abandoned(run) = {}, Holds(e, run),
             NEW p \in {"resume", "next"}, Goto(e, p)
      PROVE  DInv'
  <2>1. Moves(e, p, then[e], run, cur[e], layer[e])
    BY <1>0, <1>3 DEF Moves, Goto, Holds, SInv, DInv
  <2>2. \A d \in Executors : Owns(d)' => d = e \/ Owns(d)
    BY <1>0 DEF Owns, lease
  <2>3. Owns(e)' => Owns(e)
    BY <1>0 DEF Owns, lease
  <2>4. ASSUME Owns(e) PROVE StepAt(p, then[e], run, run, cur[e], layer[e])
    <3>1. Knows("reload", run, mem[e], cur[e], layer[e])
      BY <1>0, <2>4, OwnerKnows DEF Writing
    <3>2. Unverified(run) = {}
      BY <1>0, <1>3, <3>1, Fields DEF Knows, Good, Sound, UnknownCheckBlocks, Settled
    <3>3. Knows(p, run, run, cur[e], layer[e])
      BY <1>3, <1>10, <3>2 DEF Knows, Collecting, Synthesizing, Open
    <3>. QED
      BY <3>3 DEF StepAt, At, Writing
  <2>. QED
    BY <1>0, <2>1, <2>2, <2>3, <2>4, MoveInStep
<1>. QED
  BY <1>1, <1>2, <1>3 DEF Load

-----------------------------------------------------------------------------
(* The task loop.                                                          *)

\* Steps of the loop that write nothing.
LEMMA LoopInStep ==
  ASSUME SInv, DInv, NEW e \in Executors, Resume(e) \/ CallProvider(e) \/ AfterTask(e)
  PROVE  DInv'
<1>1. CASE Resume(e)
  <2>1. UNCHANGED <<mem, cur, layer, run, handlers, lease>> /\ pc[e] = "resume"
    BY <1>1 DEF Resume, store, local
  <2>2. Owns(e) => Knows("next", run, mem[e], cur[e], layer[e])
    BY <2>1, OwnerKnows DEF Knows, Collecting, Synthesizing, Writing
  <2>. QED
    BY <1>1, <2>1, <2>2, OnInStep, LeaveInStep DEF Resume, Writing
<1>2. CASE CallProvider(e)
  <2>1. UNCHANGED <<mem, cur, layer, run, handlers, lease>> /\ pc[e] = "call" /\ Goto(e, "answer")
    BY <1>2 DEF CallProvider, store, local
  <2>2. Owns(e) => Knows("answer", run, mem[e], cur[e], layer[e])
    BY <2>1, OwnerKnows DEF Knows, Collecting, Synthesizing, Writing
  <2>. QED
    BY <2>1, <2>2, OnInStep DEF Writing
<1>3. CASE AfterTask(e)
  <2>1. UNCHANGED <<mem, layer, run, handlers, lease>> /\ pc[e] = "more"
        /\ cur' = [cur EXCEPT ![e] = NoTask]
    BY <1>3 DEF AfterTask, store
  <2>2. PICK p \in {"release", "next"} : Goto(e, p)
    BY <1>3 DEF AfterTask
  <2>3. Moves(e, p, then[e], mem[e], NoTask, layer[e])
    BY <2>1, <2>2 DEF Moves, Goto, SInv, DInv
  <2>4. \A d \in Executors : Owns(d)' => d = e \/ Owns(d)
    BY <2>1 DEF Owns, lease
  <2>5. Owns(e)' => Owns(e)
    BY <2>1 DEF Owns, lease
  <2>6. ASSUME Owns(e) PROVE StepAt(p, then[e], run, mem[e], NoTask, layer[e])
    <3>1. Knows("more", run, mem[e], cur[e], layer[e])
      BY <2>1, <2>6, OwnerKnows DEF Writing
    <3>2. Knows(p, run, mem[e], NoTask, layer[e])
      BY <2>2, <3>1 DEF Knows, Collecting, Synthesizing
    <3>. QED
      BY <2>2, <3>2 DEF StepAt, At, Writing
  <2>. QED
    BY <2>1, <2>3, <2>4, <2>5, <2>6, MoveInStep
<1>. QED
  BY <1>1, <1>2, <1>3

\* The next layer, or the failure of a plan that is stuck.
LEMMA NextLayerInStep ==
  ASSUME SInv, DInv, NEW e \in Executors, NextLayer(e)
  PROVE  DInv'
<1>0. UNCHANGED <<cur, run, handlers, lease>> /\ pc[e] = "next" /\ Completed(mem[e]) # Tasks
  BY DEF NextLayer, store
<1>1. Owns(e) => /\ Knows("next", run, mem[e], cur[e], layer[e]) /\ mem[e] = run /\ Good(run)
  BY <1>0, OwnerKnows DEF Knows, Collecting, Synthesizing, Writing
<1>2. CASE Ready(mem[e]) = {}
  <2>1. Persist(e, FailRun(mem[e]), "release") /\ UNCHANGED layer
    BY <1>2 DEF NextLayer
  <2>2. Owns(e) => Advanced(run, FailRun(mem[e]))
    BY <1>0, <1>1, <1>2, LastAdvances
  <2>3. Knows("release", FailRun(mem[e]), FailRun(mem[e]), cur[e], layer[e]) /\ "release" \notin Writing
    BY NothingKnown DEF Writing
  <2>. QED
    BY <1>0, <2>1, <2>2, <2>3, SameInStep, PersistInStep
<1>3. CASE Ready(mem[e]) # {}
  <2>1. layer' = [layer EXCEPT ![e] = Ready(mem[e])] /\ UNCHANGED <<pc, then, mem>>
    BY <1>3 DEF NextLayer
  <2>2. Moves(e, "next", then[e], mem[e], cur[e], Ready(mem[e]))
    BY <1>0, <2>1 DEF Moves, SInv, DInv
  <2>3. \A d \in Executors : Owns(d)' => d = e \/ Owns(d)
    BY <1>0 DEF Owns, lease
  <2>4. Owns(e)' => Owns(e)
    BY <1>0 DEF Owns, lease
  <2>5. Owns(e) => Knows("next", run, mem[e], cur[e], Ready(mem[e]))
    BY <1>1 DEF Knows, Collecting, Synthesizing
  <2>6. Owns(e)' => StepAt("next", then[e], run, mem[e], cur[e], Ready(mem[e]))
    BY <2>4, <2>5 DEF StepAt, At, Writing
  <2>. QED
    BY <1>0, <2>2, <2>3, <2>6, MoveInStep
<1>. QED
  BY <1>2, <1>3

\* A task starts.
LEMMA NextTaskInStep ==
  ASSUME SInv, DInv, NEW e \in Executors, NextTask(e)
  PROVE  DInv'
<1>0. UNCHANGED <<run, handlers, lease>> /\ pc[e] = "next"
  BY DEF NextTask, store
<1>1. PICK t \in layer[e] : /\ layer' = [layer EXCEPT ![e] = layer[e] \ {t}]
                            /\ cur' = [cur EXCEPT ![e] = t]
                            /\ Persist(e, StartTask(mem[e], t), "open")
  BY DEF NextTask, DInv
<1>2. ASSUME Owns(e)
      PROVE  LET q == StartTask(mem[e], t) IN Advanced(run, q) /\ Knows("open", q, q, t, layer[e] \ {t})
  <2>1. /\ Good(run) /\ mem[e] = run /\ Open(run) /\ layer[e] \subseteq Ready(run)
        /\ Abandoned(run) = {} /\ Unverified(run) = {}
    BY <1>0, <1>2, OwnerKnows DEF Knows, Collecting, Synthesizing, Writing
  <2>. QED
    BY <2>1, StartTaskAdvances
<1>3. "open" \notin Writing
  BY DEF Writing
<1>. QED
  BY <1>0, <1>1, <1>2, <1>3, PersistInStep

\* Receipt, answer and checkpoint.
LEMMA CollectInStep ==
  ASSUME SInv, DInv, NEW e \in Executors,
         OpenReceipt(e) \/ CollectSucceeds(e) \/ CollectFails(e) \/ SaveCheckpoint(e)
  PROVE  DInv'
<1>0. UNCHANGED <<cur, layer, run, handlers, lease>>
  BY DEF OpenReceipt, CollectSucceeds, CollectFails, SaveCheckpoint, store
<1>1. ASSUME NEW label \in {"open", "answer", "ckpt"}, pc[e] = label, Owns(e)
      PROVE  Good(run) /\ mem[e] = run /\ Knows(label, run, run, cur[e], layer[e])
  BY <1>1, OwnerKnows DEF Knows, Collecting, Synthesizing, Writing
<1>2. CASE OpenReceipt(e)
  <2>1. pc[e] = "open" /\ Persist(e, OpenAttempt(mem[e], cur[e]), "call") /\ "call" \notin Writing
    BY <1>2 DEF OpenReceipt, Writing
  <2>2. Owns(e) => LET q == OpenAttempt(mem[e], cur[e])
                   IN  Advanced(run, q) /\ Knows("call", q, q, cur[e], layer[e])
    BY <1>1, <2>1, OpenAttemptAdvances
  <2>. QED
    BY <1>0, <2>1, <2>2, SameInStep, PersistInStep
<1>3. CASE CollectSucceeds(e)
  <2>1. PICK meets \in BOOLEAN, taken \in MayTake(mem[e], cur[e]) :
          Persist(e, CompleteTask(mem[e], cur[e], meets, taken), "ckpt")
    BY <1>3 DEF CollectSucceeds
  <2>2. pc[e] = "answer" /\ "ckpt" \notin Writing
    BY <1>3 DEF CollectSucceeds, Writing
  <2>3. Owns(e) => LET q == CompleteTask(mem[e], cur[e], meets, taken)
                   IN  Advanced(run, q) /\ Knows("ckpt", q, q, cur[e], layer[e])
    BY <1>1, <2>2, CollectAdvances
  <2>. QED
    BY <1>0, <2>1, <2>2, <2>3, SameInStep, PersistInStep
<1>4. CASE CollectFails(e)
  <2>1. Persist(e, FailTask(mem[e], cur[e]), "release") /\ pc[e] = "answer" /\ "release" \notin Writing
    BY <1>4 DEF CollectFails, Writing
  <2>2. Owns(e) => Advanced(run, FailTask(mem[e], cur[e]))
    <3>1. {} \in MayTake(mem[e], cur[e])
      BY DEF MayTake
    <3>. QED
      BY <1>1, <2>1, <3>1, CollectAdvances
  <2>3. Knows("release", FailTask(mem[e], cur[e]), FailTask(mem[e], cur[e]), cur[e], layer[e])
    BY NothingKnown
  <2>. QED
    BY <1>0, <2>1, <2>2, <2>3, SameInStep, PersistInStep
<1>5. CASE SaveCheckpoint(e)
  <2>1. pc[e] = "ckpt" /\ "more" \notin Writing
    BY <1>5 DEF SaveCheckpoint, Writing
  <2>2. CASE Persist(e, Checkpoint(mem[e]), "more")
    <3>1. Owns(e) => LET q == Checkpoint(mem[e])
                     IN  Advanced(run, q) /\ Knows("more", q, q, cur[e], layer[e])
      BY <1>1, <2>1, CheckpointAdvances
    <3>. QED
      BY <1>0, <2>1, <2>2, <3>1, SameInStep, PersistInStep
  <2>3. CASE Goto(e, "release") /\ UNCHANGED mem
    BY <1>0, <2>3, LeaveInStep
  <2>. QED
    BY <1>5, <2>2, <2>3 DEF SaveCheckpoint
<1>. QED
  BY <1>2, <1>3, <1>4, <1>5

-----------------------------------------------------------------------------
(* Synthesis and claim verification.                                       *)

\* One executor moves to a label outside a write.
LEMMA ArriveInStep ==
  ASSUME SInv, DInv, NEW e \in Executors, NEW p, p \notin Writing, NEW m, NEW t,
         Moves(e, p, then[e], m, t, layer[e]), UNCHANGED <<run, lease>>,
         Owns(e) => Knows(p, run, m, t, layer[e])
  PROVE  DInv'
<1>1. \A d \in Executors : Owns(d)' => Owns(d)
  BY DEF Owns, lease
<1>2. Owns(e)' => StepAt(p, then[e], run, m, t, layer[e])
  BY <1>1 DEF StepAt, At, Writing
<1>. QED
  BY <1>1, <1>2, MoveInStep

\* A wholly executed plan goes on to its verification.
LEMMA StartVerifyingInStep ==
  ASSUME SInv, DInv, NEW e \in Executors, StartVerifying(e)
  PROVE  DInv'
<1>0. /\ UNCHANGED <<cur, layer, run, handlers, lease>> /\ pc[e] = "next"
      /\ Completed(mem[e]) = Tasks /\ Persist(e, BeginVerifying(mem[e]), "synth")
      /\ "synth" \notin Writing
  BY DEF StartVerifying, store, Writing
<1>1. ASSUME Owns(e)
      PROVE  LET q == BeginVerifying(mem[e]) IN Advanced(run, q) /\ Knows("synth", q, q, cur[e], layer[e])
  <2>1. Good(run) /\ mem[e] = run /\ Open(run) /\ Unverified(run) = {}
    BY <1>0, <1>1, OwnerKnows DEF Knows, Collecting, Synthesizing, Writing
  <2>. QED
    BY <1>0, <2>1, VerifyingAdvances
<1>. QED
  BY <1>0, <1>1, SameInStep, PersistInStep

\* The claims of an answer are dropped, settled, or refused.
LEMMA ClaimsInStep ==
  ASSUME SInv, DInv, NEW e \in Executors,
         Synthesize(e) \/ SettleClaim(e) \/ RefuseClaim(e) \/ ClaimsDone(e) \/ CheckedClaim(e)
  PROVE  DInv'
<1>0. UNCHANGED <<layer, run, handlers, lease>>
  BY DEF Synthesize, SettleClaim, RefuseClaim, ClaimsDone, CheckedClaim, store, local
<1>1. ASSUME NEW label \in Synthesizing, pc[e] = label, Owns(e)
      PROVE  /\ Good(run) /\ Knows(label, run, mem[e], cur[e], layer[e])
             /\ run.state = "VERIFYING" /\ mem[e] \in Claimed(run)
             /\ label \notin {"vcall", "vanswer"} => Unverified(run) = {}
             /\ label # "claim" /\ label # "vfail" /\ label # "finish" => mem[e] = run
  <2>1. Good(run) /\ Knows(label, run, mem[e], cur[e], layer[e])
    BY <1>1, OwnerKnows DEF Writing, Synthesizing
  <2>2. run.state = "VERIFYING"
    BY <2>1 DEF Knows
  <2>3. run \in Claimed(run)
    BY <2>1, <2>2, SelfClaimed DEF Open, Settled
  <2>4. label \notin {"vcall", "vanswer"} => Unverified(run) = {}
    BY <2>1 DEF Knows
  <2>5. label # "claim" /\ label # "vfail" /\ label # "finish" => mem[e] = run
    BY <2>1 DEF Knows
  <2>6. mem[e] \in Claimed(run)
    BY <2>1, <2>3, <2>5 DEF Knows
  <2>. QED
    BY <2>1, <2>2, <2>4, <2>5, <2>6
<1>2. ASSUME NEW m, m \in Claimed(run), run.state = "VERIFYING", Unverified(run) = {},
             NEW t, NEW p \in {"claim", "vfail"}
      PROVE  Knows(p, run, m, t, layer[e])
  BY <1>2 DEF Knows, Collecting, Synthesizing
<1>3. CASE Synthesize(e)
  <2>1. pc[e] = "synth" /\ "synth" \in Synthesizing /\ cur' = cur
    BY <1>3 DEF Synthesize, Synthesizing
  <2>2. CASE Holds(e, ClearClaims(mem[e])) /\ Goto(e, "claim")
    <3>1. Moves(e, "claim", then[e], ClearClaims(mem[e]), cur[e], layer[e])
      BY <1>0, <2>1, <2>2 DEF Moves, Goto, Holds, SInv, DInv
    <3>2. Owns(e) => ClearClaims(mem[e]) \in Claimed(run)
      BY <1>1, <2>1, ClaimsKnown
    <3>3. Owns(e) => Knows("claim", run, ClearClaims(mem[e]), cur[e], layer[e])
      BY <1>1, <1>2, <2>1, <3>2
    <3>. QED
      BY <1>0, <3>1, <3>3, ArriveInStep DEF Writing
  <2>3. CASE Goto(e, "vfail") /\ UNCHANGED mem
    <3>1. Owns(e) => Knows("vfail", run, mem[e], cur[e], layer[e])
      BY <1>1, <1>2, <2>1
    <3>. QED
      BY <1>0, <2>1, <2>3, <3>1, OnInStep DEF Writing
  <2>. QED
    BY <1>3, <2>2, <2>3 DEF Synthesize
<1>4. CASE SettleClaim(e)
  <2>1. PICK t \in Tasks, status \in ClaimStates :
          /\ Holds(e, AddClaim(mem[e], t, status))
          /\ ~(t \in Verifiable /\ status = "QUALIFIED")
    BY <1>4 DEF SettleClaim, ClaimStates
  <2>2. pc[e] = "claim" /\ "claim" \in Synthesizing /\ UNCHANGED <<pc, then, cur>>
    BY <1>4 DEF SettleClaim, Synthesizing
  <2> DEFINE m == AddClaim(mem[e], t, status)
  <2>3. Moves(e, "claim", then[e], m, cur[e], layer[e])
    BY <1>0, <2>1, <2>2 DEF Moves, Holds, SInv, DInv
  <2>4. Owns(e) => m \in Claimed(run)
    BY <1>1, <2>1, <2>2, ClaimsKnown
  <2> HIDE DEF m
  <2>5. Owns(e) => Knows("claim", run, m, cur[e], layer[e])
    BY <1>1, <1>2, <2>2, <2>4
  <2>. QED
    BY <1>0, <2>3, <2>5, ArriveInStep DEF Writing
<1>5. CASE RefuseClaim(e)
  <2>1. pc[e] = "claim" /\ "claim" \in Synthesizing /\ UNCHANGED <<mem, cur>> /\ Goto(e, "vfail")
    BY <1>5 DEF RefuseClaim, Synthesizing, local
  <2>2. Owns(e) => Knows("vfail", run, mem[e], cur[e], layer[e])
    BY <1>1, <1>2, <2>1
  <2>. QED
    BY <1>0, <2>1, <2>2, OnInStep DEF Writing
<1>6. CASE ClaimsDone(e)
  <2>1. /\ pc[e] = "claim" /\ "claim" \in Synthesizing /\ UNCHANGED <<mem, cur>> /\ Goto(e, "finish")
        /\ \A t \in Tasks : mem[e].claim[t] # "NONE"
    BY <1>6 DEF ClaimsDone, Synthesizing, local
  <2>2. Owns(e) => Knows("finish", run, mem[e], cur[e], layer[e])
    BY <1>1, <2>1 DEF Knows, Collecting, Synthesizing
  <2>. QED
    BY <1>0, <2>1, <2>2, OnInStep DEF Writing
<1>7. CASE CheckedClaim(e)
  <2> DEFINE status == IF Verdict(mem[e], cur[e]) = "SUPPORTED" THEN "QUALIFIED" ELSE "NEEDS_REVIEW"
             m == AddClaim(mem[e], cur[e], status)
  <2>1. /\ pc[e] = "vdone" /\ "vdone" \in Synthesizing /\ Goto(e, "claim")
        /\ cur' = [cur EXCEPT ![e] = NoTask] /\ Holds(e, m)
    BY <1>7 DEF CheckedClaim, Synthesizing
  <2>2. Moves(e, "claim", then[e], m, NoTask, layer[e])
    BY <1>0, <2>1 DEF Moves, Goto, Holds, SInv, DInv
  <2>3. ASSUME Owns(e) PROVE m \in Claimed(run)
    <3>1. mem[e] = run /\ Good(run) /\ run \in Claimed(run) /\ run.state = "VERIFYING"
      BY <1>1, <2>1, <2>3
    <3>2. cur[e] \in Tasks /\ run.checks[cur[e]] # << >>
      BY <1>1, <2>1, <2>3 DEF Knows
    <3>3. status \in ClaimStates /\ (status = "QUALIFIED" => Verdict(run, cur[e]) = "SUPPORTED")
      BY <3>1 DEF ClaimStates
    <3>. HIDE DEF status
    <3>. QED
      BY <3>1, <3>2, <3>3, ClaimsKnown
  <2> HIDE DEF m
  <2>4. Owns(e) => Knows("claim", run, m, NoTask, layer[e])
    BY <1>1, <1>2, <2>1, <2>3
  <2>. QED
    BY <1>0, <2>2, <2>4, ArriveInStep DEF Writing
<1>. QED
  BY <1>3, <1>4, <1>5, <1>6, <1>7

\* A check of a claim, and its answer.
LEMMA CheckInStep ==
  ASSUME SInv, DInv, NEW e \in Executors,
         StartCheck(e) \/ CallVerifier(e) \/ CheckAnswered(e)
  PROVE  DInv'
<1>0. UNCHANGED <<layer, run, handlers, lease>>
  BY DEF StartCheck, CallVerifier, CheckAnswered, store, local
<1>1. CASE StartCheck(e)
  <2>1. PICK t \in Verifiable :
          /\ mem[e].claim[t] = "NONE" /\ cur' = [cur EXCEPT ![e] = t]
          /\ \/ Goto(e, "release") /\ UNCHANGED mem
             \/ Persist(e, OpenCheck(mem[e], t), "vcall")
    BY <1>1 DEF StartCheck
  <2>2. pc[e] = "claim" /\ "vcall" \notin Writing /\ t \in Tasks
    BY <1>1, VerifiableAssumption DEF StartCheck, Writing
  <2>3. CASE Goto(e, "release") /\ UNCHANGED mem
    <3>1. Moves(e, "release", then[e], mem[e], t, layer[e])
      BY <1>0, <2>1, <2>3 DEF Moves, Goto, SInv, DInv
    <3>. QED
      BY <1>0, <3>1, NothingKnown, ArriveInStep DEF Writing
  <2>4. CASE Persist(e, OpenCheck(mem[e], t), "vcall")
    <3>1. Owns(e) => LET q == OpenCheck(mem[e], t)
                     IN  Advanced(run, q) /\ Knows("vcall", q, q, t, layer[e])
      BY <2>1, <2>2, OwnerKnows, OpenCheckAdvances DEF Writing
    <3>. QED
      BY <1>0, <2>1, <2>2, <2>4, <3>1, SameInStep, PersistInStep
  <2>. QED
    BY <2>1, <2>3, <2>4
<1>2. CASE CallVerifier(e)
  <2>1. UNCHANGED <<mem, cur>> /\ pc[e] = "vcall" /\ Goto(e, "vanswer")
    BY <1>2 DEF CallVerifier, local
  <2>2. Owns(e) => Knows("vanswer", run, mem[e], cur[e], layer[e])
    BY <2>1, OwnerKnows DEF Knows, Collecting, Synthesizing, Writing
  <2>. QED
    BY <1>0, <2>1, <2>2, OnInStep DEF Writing
<1>3. CASE CheckAnswered(e)
  <2>1. PICK verdict \in {"SUPPORTED", "UNSUPPORTED", "FAILED"}, label \in {"vdone", "vfail"} :
          Persist(e, CloseCheck(mem[e], cur[e], verdict), label)
    BY <1>3 DEF CheckAnswered
  <2>2. UNCHANGED cur /\ pc[e] = "vanswer" /\ label \notin Writing
    BY <1>3 DEF CheckAnswered, Writing
  <2>3. Owns(e) => mem[e] = run /\ Good(run) /\ Knows("vanswer", run, run, cur[e], layer[e])
    BY <2>2, OwnerKnows DEF Knows, Collecting, Synthesizing, Writing
  <2>4. Owns(e) => LET q == CloseCheck(mem[e], cur[e], verdict)
                   IN  Advanced(run, q) /\ Knows(label, q, q, cur[e], layer[e])
    BY <2>3, CloseCheckAdvances
  <2>. QED
    BY <1>0, <2>1, <2>2, <2>4, SameInStep, PersistInStep
<1>. QED
  BY <1>1, <1>2, <1>3

\* The last write of a call.
LEMMA FinishInStep ==
  ASSUME SInv, DInv, NEW e \in Executors, SynthesisFails(e) \/ FinishRun(e)
  PROVE  DInv'
<1>0. UNCHANGED <<cur, layer, run, handlers, lease>>
  BY DEF SynthesisFails, FinishRun, store
<1>1. CASE SynthesisFails(e)
  <2>1. Persist(e, FailRun(mem[e]), "release") /\ pc[e] = "vfail" /\ "release" \notin Writing
    BY <1>1 DEF SynthesisFails, Writing
  <2>2. Owns(e) => Advanced(run, FailRun(mem[e]))
    BY <2>1, OwnerKnows, LastAdvances DEF Writing
  <2>3. Knows("release", FailRun(mem[e]), FailRun(mem[e]), cur[e], layer[e])
    BY NothingKnown
  <2>. QED
    BY <1>0, <2>1, <2>2, <2>3, SameInStep, PersistInStep
<1>2. CASE FinishRun(e)
  <2>1. Persist(e, Finish(mem[e]), "memory") /\ pc[e] = "finish" /\ "memory" \notin Writing
    BY <1>2 DEF FinishRun, Writing
  <2>2. Owns(e) => Advanced(run, Finish(mem[e]))
    BY <2>1, OwnerKnows, LastAdvances DEF Writing
  <2>3. Knows("memory", Finish(mem[e]), Finish(mem[e]), cur[e], layer[e])
    BY NothingKnown
  <2>. QED
    BY <1>0, <2>1, <2>2, <2>3, SameInStep, PersistInStep
<1>. QED
  BY <1>1, <1>2

-----------------------------------------------------------------------------
(* Faults, the lease and the queue.                                        *)

\* A dead executor's lease is nobody's.
LEMMA CrashInStep ==
  ASSUME SInv, DInv, NEW e \in Executors, Crash(e)
  PROVE  DInv'
<1>1. Moves(e, "idle", "idle", Blank, NoTask, {}) /\ run' = run
  BY DEF Crash, Moves, store
<1>2. \A d \in Executors : Owns(d)' => d = e \/ Owns(d)
  BY ExecutorsAssumption DEF Crash, Owns
<1>3. StepAt("idle", "idle", run, Blank, NoTask, {})
  BY NothingKnown DEF StepAt, At, Writing
<1>. QED
  BY <1>1, <1>2, <1>3, MoveInStep

\* Nobody moves, and nobody gains the lease.
LEMMA StillInStep ==
  ASSUME DInv, UNCHANGED <<run, pc, then, mem, cur, layer, handlers>>,
         \A d \in Executors : Owns(d)' => Owns(d)
  PROVE  DInv'
<1>1. ASSUME NEW d \in Executors PROVE InStep(d)'
  BY DEF DInv, InStep
<1>2. ASSUME NEW h \in Handlers PROVE Pending(h)'
  BY DEF DInv, Pending, handlers
<1>. QED
  BY <1>1, <1>2 DEF DInv

LEMMA FaultsInStep ==
  ASSUME SInv, DInv,
         \/ UNCHANGED vars \/ Enqueue \/ Expire \/ ExpireOrphan
         \/ \E e \in Executors : \/ NoticeLoss(e) \/ HeartbeatError(e)
                                 \/ Raise(e) \/ LoseLease(e) \/ SaveMemory(e)
  PROVE  DInv'
<1>1. CASE UNCHANGED vars \/ Enqueue \/ Expire \/ ExpireOrphan
           \/ \E e \in Executors : NoticeLoss(e) \/ HeartbeatError(e)
  <2>1. UNCHANGED <<run, pc, then, mem, cur, layer, handlers>>
    BY <1>1 DEF vars, Enqueue, Expire, ExpireOrphan, NoticeLoss, HeartbeatError, store, local
  <2>2. \A d \in Executors : Owns(d)' => Owns(d)
    BY <1>1 DEF vars, Enqueue, Expire, ExpireOrphan, NoticeLoss, HeartbeatError, lease, Owns
  <2>. QED
    BY <2>1, <2>2, StillInStep
<1>2. ASSUME NEW e \in Executors, Raise(e) \/ LoseLease(e) \/ SaveMemory(e) PROVE DInv'
  <2>1. Goto(e, "release") /\ UNCHANGED <<mem, cur, layer, run, handlers, lease>>
    BY <1>2 DEF Raise, LoseLease, SaveMemory, store, local
  <2>. QED
    BY <2>1, LeaveInStep
<1>. QED
  BY <1>1, <1>2

-----------------------------------------------------------------------------
(* Handlers.                                                               *)

\* The operator's copy is one step away from the stored run.
LEMMA ReadInStep ==
  ASSUME OneOperator, SInv, DInv, NEW h \in Handlers,
         ReadToCancel(h) \/ ReadToRetry(h) \/ ReadToReject(h) \/ ReadToRecord(h) \/ ReadToReplan(h)
  PROVE  DInv'
<1>0. ~ReadToCancel(h) /\ ~ReadToRecord(h)
  BY DEF OneOperator, ReadToCancel, ReadToRecord
<1>1. PICK q : /\ Take(h, q)
               /\ Resolved(run, q) \/ ("replan" \in HandlerOps /\ Replanned(run, q))
  <2>1. CASE ReadToRetry(h)
    BY <2>1 DEF ReadToRetry, Resolved
  <2>2. CASE ReadToReject(h)
    BY <2>2 DEF ReadToReject, Resolved
  <2>3. CASE ReadToReplan(h)
    BY <2>3 DEF ReadToReplan, Replanned
  <2>. QED
    BY <1>0, <2>1, <2>2, <2>3
<1>2. /\ UNCHANGED <<run, lease, pc, then, mem, cur, layer>>
      /\ hmem' = [hmem EXCEPT ![h] = q]
  BY <1>1 DEF Take, store, local
<1>3. ASSUME NEW g \in Handlers PROVE Pending(g)'
  <2>1. g = h
    BY DEF OneOperator
  <2>2. hmem'[h] = q
    BY <1>2 DEF SInv
  <2>. QED
    BY <1>1, <1>2, <2>1, <2>2 DEF Pending, Operated
<1>4. ASSUME NEW d \in Executors PROVE InStep(d)'
  BY <1>2 DEF DInv, InStep, Owns, lease
<1>. QED
  BY <1>2, <1>3, <1>4 DEF DInv

\* Its write is that step: nobody was at work on the run since it was read.
LEMMA WriteBackInStep ==
  ASSUME OneOperator, SInv, DInv, NEW h \in Handlers, WriteBack(h)
  PROVE  DInv' /\ Operated(run, run')
<1>0. /\ UNCHANGED <<lease, pc, then, mem, cur, layer>> /\ hpc[h] = "write"
      /\ run' = hmem[h] /\ hpc' = [hpc EXCEPT ![h] = "idle"]
  BY DEF WriteBack, local
<1>1. Good(run) /\ Operated(run, run')
  BY <1>0 DEF DInv, Pending
<1>2. Good(run') /\ run'.state # "VERIFYING"
  BY <1>1, ResolvedGood, ReplannedGood DEF Operated
<1>3. ~Open(run) /\ run.state # "VERIFYING"
  BY <1>1 DEF Operated, Resolved, Replanned, Open, Settled
<1>4. ASSUME NEW d \in Executors, Owns(d)'
      PROVE  StepAt(pc[d], then[d], run', mem[d], cur[d], layer[d])
  <2>1. Owns(d)
    BY <1>0, <1>4 DEF Owns, lease
  <2>2. pc[d] \notin {"check", "update"}
    BY <1>3, <2>1, OwnerKnows, AtWork
  <2>3. Knows(At(pc[d], then[d]), run, mem[d], cur[d], layer[d])
    BY <2>1, <2>2 DEF DInv, InStep, StepAt
  <2>4. At(pc[d], then[d]) \notin Collecting \cup Synthesizing
    BY <1>3, <2>3 DEF Knows
  <2>5. Knows(At(pc[d], then[d]), run', mem[d], cur[d], layer[d])
    BY <1>2, <2>4 DEF Knows, Collecting, Synthesizing
  <2>. QED
    BY <2>2, <2>5 DEF StepAt
<1>5. ASSUME NEW d \in Executors PROVE InStep(d)'
  BY <1>0, <1>4 DEF InStep
<1>6. ASSUME NEW g \in Handlers PROVE Pending(g)'
  <2>1. g = h
    BY DEF OneOperator
  <2>2. hpc'[h] # "write"
    BY <1>0 DEF SInv
  <2>. QED
    BY <2>1, <2>2 DEF Pending
<1>. QED
  BY <1>0, <1>1, <1>2, <1>5, <1>6 DEF DInv

-----------------------------------------------------------------------------
(* The refinement.                                                         *)

LEMMA InitDInv == AllPending /\ Init => DInv /\ Fresh
<1>. SUFFICES ASSUME AllPending, Init PROVE DInv /\ Fresh
  OBVIOUS
<1>1. /\ cur = [e \in Executors |-> cur[e]] /\ layer = [e \in Executors |-> layer[e]]
      /\ \A e \in Executors : layer[e] = {}
  BY DEF Init
<1>2. Good(run)
  BY BlankGood, NewIsBlank DEF Init
<1>3. ASSUME NEW e \in Executors PROVE InStep(e)
  BY ExecutorsAssumption DEF Init, InStep, Owns
<1>4. ASSUME NEW h \in Handlers PROVE Pending(h)
  BY DEF Init, Pending
<1>. QED
  BY <1>1, <1>2, <1>3, <1>4 DEF DInv, Fresh

\* Every step of executors and operator is one of the stored run, or leaves it.
LEMMA StepDInv ==
  ASSUME OneOperator
  PROVE  SInv /\ DInv /\ Fresh /\ [Next]_vars => DInv' /\ (run' = run \/ Written(run, run'))
<1>. SUFFICES ASSUME SInv, DInv, Fresh, [Next]_vars
              PROVE  DInv' /\ (run' = run \/ Written(run, run'))
  OBVIOUS
<1>1. CASE \/ UNCHANGED vars \/ Enqueue \/ Expire \/ ExpireOrphan
           \/ \E e \in Executors : \/ NoticeLoss(e) \/ HeartbeatError(e)
                                   \/ Raise(e) \/ LoseLease(e) \/ SaveMemory(e)
  BY <1>1, FaultsInStep DEF vars, Enqueue, Expire, ExpireOrphan, NoticeLoss, HeartbeatError,
     Raise, LoseLease, SaveMemory, store
<1>2. ASSUME NEW e \in Executors, Crash(e) PROVE DInv' /\ run' = run
  BY <1>2, CrashInStep DEF Crash, store
<1>3. ASSUME NEW e \in Executors, NEW n, Execute(e, n) PROVE DInv' /\ run' = run
  BY <1>3, EntryInStep DEF Execute, store
<1>4. ASSUME NEW e \in Executors,
             \/ AcquireLease(e) \/ ReleaseLease(e) \/ CheckCancelled(e) \/ AppendEvent(e)
             \/ LoadForChecks(e) \/ Load(e)
      PROVE  DInv' /\ run' = run
  <2>1. run' = run
    BY <1>4 DEF AcquireLease, ReleaseLease, CheckCancelled, AppendEvent, LoadForChecks, Load, store
  <2>. QED
    BY <1>4, <2>1, EntryInStep, AroundUpdateInStep, LoadForChecksInStep, LoadInStep
<1>5. ASSUME NEW e \in Executors, UpdateOwned(e) PROVE DInv' /\ (run' = run \/ Written(run, run'))
  BY <1>5, UpdateInStep DEF Written
<1>6. ASSUME NEW e \in Executors,
             \/ Resume(e) \/ NextLayer(e) \/ NextTask(e) \/ OpenReceipt(e) \/ CallProvider(e)
             \/ CollectSucceeds(e) \/ CollectFails(e) \/ SaveCheckpoint(e) \/ AfterTask(e)
      PROVE  DInv' /\ run' = run
  <2>1. run' = run
    BY <1>6 DEF Resume, NextLayer, NextTask, OpenReceipt, CallProvider, CollectSucceeds,
       CollectFails, SaveCheckpoint, AfterTask, store
  <2>. QED
    BY <1>6, <2>1, LoopInStep, NextLayerInStep, NextTaskInStep, CollectInStep
<1>7. ASSUME NEW e \in Executors,
             \/ StartVerifying(e) \/ Synthesize(e) \/ SettleClaim(e) \/ RefuseClaim(e)
             \/ StartCheck(e) \/ CallVerifier(e) \/ CheckAnswered(e) \/ CheckedClaim(e)
             \/ SynthesisFails(e) \/ ClaimsDone(e) \/ FinishRun(e)
      PROVE  DInv' /\ run' = run
  <2>1. run' = run
    BY <1>7 DEF StartVerifying, Synthesize, SettleClaim, RefuseClaim, StartCheck, CallVerifier,
       CheckAnswered, CheckedClaim, SynthesisFails, ClaimsDone, FinishRun, store
  <2>. QED
    BY <1>7, <2>1, StartVerifyingInStep, ClaimsInStep, CheckInStep, FinishInStep
<1>8. ASSUME NEW h \in Handlers, Handle(h) PROVE DInv' /\ (run' = run \/ Written(run, run'))
  <2>1. CASE WriteBack(h)
    BY <2>1, WriteBackInStep DEF Written
  <2>2. CASE ~WriteBack(h)
    <3>1. ReadToCancel(h) \/ ReadToRetry(h) \/ ReadToReject(h) \/ ReadToRecord(h) \/ ReadToReplan(h)
      BY <1>8, <2>2 DEF Handle
    <3>2. run' = run
      BY <3>1 DEF ReadToCancel, ReadToRetry, ReadToReject, ReadToRecord, ReadToReplan, Take, store
    <3>. QED
      BY <3>1, <3>2, ReadInStep
  <2>. QED
    BY <2>1, <2>2
<1>9. ASSUME NEW e \in Executors, Step(e) PROVE DInv' /\ (run' = run \/ Written(run, run'))
  <2>1. ASSUME SaveMemory(e) \/ LoseLease(e) PROVE DInv' /\ run' = run
    BY <2>1, FaultsInStep DEF SaveMemory, LoseLease, store
  <2>. QED
    BY <1>4, <1>5, <1>6, <1>7, <1>9, <2>1 DEF Step
<1>. QED
  BY <1>1, <1>2, <1>3, <1>8, <1>9, ExecutorsAssumption DEF Next, Poll, Disturb

\* The operators that ResearchRun is built from are those of the engine.
LEMMA SameSets ==
  /\ Durable!NewRun = NewRun
  /\ Durable!Settled = Settled
  /\ \A r : /\ Durable!Completed(r) = Completed(r) /\ Durable!Abandoned(r) = Abandoned(r)
            /\ Durable!Ready(r) = Ready(r) /\ Durable!Unverified(r) = Unverified(r)
            /\ Durable!MustReset(r) = MustReset(r) /\ Durable!Running(r) = Running(r)
            /\ \A t : Durable!MayTake(r, t) = MayTake(r, t)
            /\ \A t : /\ Durable!OpenAttempts(r, t) = OpenAttempts(r, t)
                      /\ Durable!OpenChecks(r, t) = OpenChecks(r, t)
                      /\ Durable!Verdict(r, t) = Verdict(r, t)
<1>1. Durable!NewRun = NewRun
  BY DEF Durable!NewRun, Durable!Blank, Durable!NoClaims, NewRun, Blank, NoClaims
<1>2. Durable!Settled = Settled
  BY DEF Durable!Settled, Settled
<1>3. \A r : Durable!Completed(r) = Completed(r)
  BY DEF Durable!Completed, Completed
<1>4. \A r : Durable!Abandoned(r) = Abandoned(r)
  BY DEF Durable!Abandoned, Abandoned
<1>5. \A r : Durable!Ready(r) = Ready(r)
  BY DEF Durable!Ready, Durable!Completed, Ready, Completed
<1>6. \A r, t : Durable!OpenAttempts(r, t) = OpenAttempts(r, t)
  BY DEF Durable!OpenAttempts, OpenAttempts
<1>7. \A r, t : Durable!OpenChecks(r, t) = OpenChecks(r, t)
  BY DEF Durable!OpenChecks, OpenChecks
<1>8. \A r : Durable!Unverified(r) = Unverified(r)
  BY <1>7 DEF Durable!Unverified, Unverified
<1>9. \A r : Durable!MustReset(r) = MustReset(r)
  BY DEF Durable!MustReset, MustReset
<1>10. \A r : Durable!Running(r) = Running(r)
  BY DEF Durable!Running, Running
<1>11. \A r, t : Durable!Verdict(r, t) = Verdict(r, t)
  BY DEF Durable!Verdict, Verdict
<1>12. \A r, t : Durable!MayTake(r, t) = MayTake(r, t)
  BY DEF Durable!MayTake, MayTake
<1>. QED
  BY <1>1, <1>2, <1>3, <1>4, <1>5, <1>6, <1>7, <1>8, <1>9, <1>10, <1>11, <1>12

LEMMA SameChanges ==
  \A r, t, k, outcome :
    /\ Durable!StartTask(r, t) = StartTask(r, t) /\ Durable!OpenAttempt(r, t) = OpenAttempt(r, t)
    /\ Durable!CompleteTask(r, t, outcome, k) = CompleteTask(r, t, outcome, k)
    /\ Durable!FailTask(r, t) = FailTask(r, t) /\ Durable!FailRun(r) = FailRun(r)
    /\ Durable!Checkpoint(r) = Checkpoint(r) /\ Durable!BlockTask(r, t) = BlockTask(r, t)
    /\ Durable!BlockCheck(r) = BlockCheck(r) /\ Durable!BeginVerifying(r) = BeginVerifying(r)
    /\ Durable!OpenCheck(r, t) = OpenCheck(r, t) /\ Durable!Finish(r) = Finish(r)
    /\ Durable!CloseCheck(r, t, outcome) = CloseCheck(r, t, outcome)
    /\ Durable!RetryAttempt(r, t, k) = RetryAttempt(r, t, k)
    /\ Durable!RejectAttempt(r, t, k) = RejectAttempt(r, t, k)
    /\ Durable!RetryCheck(r, t, k) = RetryCheck(r, t, k)
    /\ Durable!RejectCheck(r, t, k) = RejectCheck(r, t, k)
    /\ Durable!Replan(r, k) = Replan(r, k)
<1>. TAKE r, t, k, outcome
<1>1. Durable!StartTask(r, t) = StartTask(r, t)
  BY DEF Durable!StartTask, StartTask
<1>2. \A u : Durable!OpenAttempt(r, u) = OpenAttempt(r, u)
  BY DEF Durable!OpenAttempt, OpenAttempt
<1>3. \A o : Durable!CloseAttempt(r, t, o) = CloseAttempt(r, t, o)
  BY DEF Durable!CloseAttempt, CloseAttempt
<1>4. Durable!CompleteTask(r, t, outcome, k) = CompleteTask(r, t, outcome, k)
  BY <1>3 DEF Durable!CompleteTask, CompleteTask
<1>5. \A q : Durable!FailRun(q) = FailRun(q)
  BY DEF Durable!FailRun, FailRun
<1>6. Durable!FailTask(r, t) = FailTask(r, t)
  BY <1>3, <1>5 DEF Durable!FailTask, FailTask
<1>7. Durable!Checkpoint(r) = Checkpoint(r)
  BY SameSets DEF Durable!Checkpoint, Checkpoint
<1>8. Durable!BlockTask(r, t) = BlockTask(r, t)
  BY <1>2, SameSets DEF Durable!BlockTask, BlockTask
<1>9. Durable!BlockCheck(r) = BlockCheck(r) /\ Durable!BeginVerifying(r) = BeginVerifying(r)
  BY DEF Durable!BlockCheck, Durable!BeginVerifying, BlockCheck, BeginVerifying
<1>10. Durable!OpenCheck(r, t) = OpenCheck(r, t)
  BY DEF Durable!OpenCheck, OpenCheck
<1>11. Durable!CloseCheck(r, t, outcome) = CloseCheck(r, t, outcome)
  BY DEF Durable!CloseCheck, CloseCheck
<1>12. Durable!Finish(r) = Finish(r)
  BY DEF Durable!Finish, Durable!AllQualified, Finish, AllQualified
<1>13. Durable!ClearClaims(r) = ClearClaims(r)
  BY DEF Durable!ClearClaims, Durable!NoClaims, ClearClaims, NoClaims
<1>14. Durable!RetryAttempt(r, t, k) = RetryAttempt(r, t, k)
  BY DEF Durable!RetryAttempt, RetryAttempt
<1>15. Durable!RejectAttempt(r, t, k) = RejectAttempt(r, t, k)
  BY DEF Durable!RejectAttempt, RejectAttempt
<1>16. Durable!RetryCheck(r, t, k) = RetryCheck(r, t, k)
  BY <1>13 DEF Durable!RetryCheck, RetryCheck
<1>17. Durable!RejectCheck(r, t, k) = RejectCheck(r, t, k)
  BY DEF Durable!RejectCheck, RejectCheck
<1>18. Durable!Replan(r, k) = Replan(r, k)
  BY <1>13 DEF Durable!Replan, Replan
<1>. QED
  BY <1>1, <1>2, <1>4, <1>5, <1>6, <1>7, <1>8, <1>9, <1>10, <1>11, <1>12, <1>14, <1>15, <1>16,
     <1>17, <1>18

\* So are its steps.
LEMMA SameSteps ==
  \A r, q : Evolves(r, q) => Durable!Evolves(r, q)
<1>. TAKE r, q
<1>1. Started(r, q) => Durable!Started(r, q)
  BY SameSets, SameChanges DEF Durable!Started, Started
<1>2. Stuck(r, q) => Durable!Stuck(r, q)
  BY SameSets, SameChanges DEF Durable!Stuck, Stuck
<1>3. Receipted(r, q) => Durable!Receipted(r, q)
  BY SameSets, SameChanges DEF Durable!Receipted, Receipted
<1>4. Collected(r, q) => Durable!Collected(r, q)
  BY SameSets, SameChanges DEF Durable!Collected, Collected
<1>5. Checkpointed(r, q) => Durable!Checkpointed(r, q)
  BY SameSets, SameChanges DEF Durable!Checkpointed, Checkpointed
<1>6. Blocked(r, q) => Durable!Blocked(r, q)
  BY SameSets, SameChanges DEF Durable!Blocked, Blocked
<1>7. Verifying(r, q) => Durable!Verifying(r, q)
  BY SameSets, SameChanges DEF Durable!Verifying, Verifying
<1>8. Durable!Claimed(r) = Claimed(r)
  BY SameSets DEF Durable!Claimed, Durable!ClaimStates, Claimed, ClaimStates
<1>9. Checked(r, q) => Durable!Checked(r, q)
  BY <1>8, SameSets, SameChanges DEF Durable!Checked, Checked
<1>10. SynthesisFailed(r, q) => Durable!SynthesisFailed(r, q)
  BY <1>8, SameSets, SameChanges DEF Durable!SynthesisFailed, SynthesisFailed
<1>11. Finished(r, q) => Durable!Finished(r, q)
  BY <1>8, SameSets, SameChanges DEF Durable!Finished, Finished
<1>12. Resolved(r, q) => Durable!Resolved(r, q)
  BY SameSets, SameChanges DEF Durable!Resolved, Resolved
<1>13. Replanned(r, q) => Durable!Replanned(r, q)
  BY SameSets, SameChanges DEF Durable!Replanned, Replanned
<1>. QED
  BY <1>1, <1>2, <1>3, <1>4, <1>5, <1>6, <1>7, <1>9, <1>10, <1>11, <1>12, <1>13
  DEF Durable!Evolves, Durable!Advanced, Evolves, Advanced

\* What is inductive, over all steps.
LEMMA InductiveDInv ==
  ASSUME AllPending, OneOperator
  PROVE  Spec => [](SInv /\ DInv /\ Fresh)
BY InitStates, StepStates, InitDInv, StepDInv, FreshKept, PTL DEF Spec

\* With one operator, the stored run evolves as if a single executor worked on
\* it and every write took effect at once, whatever executors stall, lose their
\* lease or die.
THEOREM Durability ==
  ASSUME AllPending, OneOperator
  PROVE  Spec => DurableRun
<1>1. Init => Durable!Init
  BY SameSets DEF Init, Durable!Init
<1>2. SInv /\ DInv /\ Fresh /\ [Next]_vars => [Durable!Next]_run
  BY StepDInv, SameSteps DEF Durable!Next, Written, Operated, Evolves
<1>. QED
  BY <1>1, <1>2, InductiveDInv, PTL DEF Spec, DurableRun, Durable!Spec

\* With one operator, a run is not failed, finished or restarted over a check
\* whose outcome is unknown.
THEOREM Checking ==
  ASSUME AllPending, OneOperator
  PROVE  Spec => []ChecksConsistent
<1>1. DInv => ChecksConsistent
  BY DEF DInv, Good, ChecksConsistent
<1>. QED
  BY <1>1, InductiveDInv, PTL

\* With one operator, the stored payload is one the engine could have built
\* alone, replans included.
THEOREM ConsistencyReplanned ==
  ASSUME AllPending, OneOperator
  PROVE  Spec => []RunConsistent
<1>1. DInv => RunConsistent
  BY DEF DInv, Good, Sound, RunConsistent
<1>. QED
  BY <1>1, InductiveDInv, PTL

-----------------------------------------------------------------------------
(* Receipts and calls.  Where nobody replans, receipts are never removed:   *)
(* a replan drops them, and counts anew.                                   *)

\* Most changes leave the receipts of all tasks alone.
LEMMA SameReceipts ==
  ASSUME NEW r, "attempts" \in DOMAIN r, NEW t, NEW outcome
  PROVE  /\ StartTask(r, t).attempts = r.attempts /\ FailRun(r).attempts = r.attempts
         /\ Checkpoint(r).attempts = r.attempts /\ BlockCheck(r).attempts = r.attempts
         /\ BeginVerifying(r).attempts = r.attempts /\ OpenCheck(r, t).attempts = r.attempts
         /\ CloseCheck(r, t, outcome).attempts = r.attempts /\ Finish(r).attempts = r.attempts
BY DEF StartTask, FailRun, Checkpoint, BlockCheck, BeginVerifying, OpenCheck, CloseCheck, Finish

LEMMA ReceiptsKept ==
  ASSUME NEW r \in Run, NEW q, Advanced(r, q) \/ Resolved(r, q)
  PROVE  \A t \in Tasks : DOMAIN r.attempts[t] \subseteq DOMAIN q.attempts[t]
<1> DEFINE Kept(p) == \A t \in Tasks : DOMAIN r.attempts[t] \subseteq DOMAIN p.attempts[t]
<1>. SUFFICES Kept(q)
  OBVIOUS
<1>0. "attempts" \in DOMAIN r /\ r.attempts \in [Tasks -> Seq(AttemptStates)]
  BY DEF Run
<1>1. ASSUME NEW p, p.attempts = r.attempts PROVE Kept(p)
  BY <1>1
<1>2. ASSUME NEW c \in Claimed(r) PROVE "attempts" \in DOMAIN c /\ c.attempts = r.attempts
  BY <1>0 DEF Claimed, Run
<1>3. ASSUME NEW t \in Tasks PROVE Kept(OpenAttempt(r, t)) /\ DOMAIN OpenAttempt(r, t) = DOMAIN r
  <2>1. /\ OpenAttempt(r, t).attempts = [r.attempts EXCEPT ![t] = Append(@, "OPEN")]
        /\ DOMAIN OpenAttempt(r, t) = DOMAIN r
    BY DEF OpenAttempt, Run
  <2>2. /\ DOMAIN r.attempts[t] = 1..Len(r.attempts[t]) /\ Len(r.attempts[t]) \in Nat
        /\ DOMAIN Append(r.attempts[t], "OPEN") = 1..(Len(r.attempts[t]) + 1)
    BY <1>0, AppendProperties DEF AttemptStates
  <2>. QED
    BY <1>0, <2>1, <2>2
<1>4. ASSUME NEW t \in Tasks, NEW k, NEW o,
             q.attempts = [r.attempts EXCEPT ![t] = [@ EXCEPT ![k] = o]]
      PROVE  Kept(q)
  BY <1>0, <1>4
<1>5. ASSUME NEW t \in Tasks, NEW o
      PROVE  /\ CloseAttempt(r, t, o).attempts =
                  [r.attempts EXCEPT ![t] = [@ EXCEPT ![Len(r.attempts[t])] = o]]
             /\ DOMAIN CloseAttempt(r, t, o) = DOMAIN r
  BY DEF CloseAttempt, Run
<1> HIDE DEF Kept
<1>6. CASE Started(r, q)
  BY <1>0, <1>1, <1>6, SameReceipts DEF Started
<1>7. CASE Stuck(r, q) \/ Checkpointed(r, q) \/ Verifying(r, q)
  BY <1>0, <1>1, <1>7, SameReceipts DEF Stuck, Checkpointed, Verifying
<1>8. CASE Receipted(r, q)
  BY <1>3, <1>8 DEF Receipted, Abandoned
<1>9. CASE Collected(r, q)
  <2>1. PICK t \in Tasks, meets \in BOOLEAN, taken \in SUBSET r.qualified :
          q \in {CompleteTask(r, t, meets, taken), FailTask(r, t)}
    BY <1>9 DEF Collected, Abandoned, MayTake
  <2>2. CASE q = CompleteTask(r, t, meets, taken)
    <3>1. q.attempts = CloseAttempt(r, t, "SUCCEEDED").attempts
      BY <2>2 DEF CompleteTask
    <3>2. q.attempts = [r.attempts EXCEPT ![t] = [@ EXCEPT ![Len(r.attempts[t])] = "SUCCEEDED"]]
      BY <1>5, <3>1
    <3>. QED
      BY <1>4, <3>2
  <2>3. CASE q = FailTask(r, t)
    <3>1. q.attempts = CloseAttempt(r, t, "FAILED").attempts
      BY <2>3 DEF FailTask, FailRun
    <3>2. q.attempts = [r.attempts EXCEPT ![t] = [@ EXCEPT ![Len(r.attempts[t])] = "FAILED"]]
      BY <1>5, <3>1
    <3>. QED
      BY <1>4, <3>2
  <2>. QED
    BY <2>1, <2>2, <2>3
<1>10. CASE Blocked(r, q)
  <2>1. ASSUME NEW t \in Tasks, q = BlockTask(r, t) PROVE Kept(q)
    <3>1. q.attempts = r.attempts \/ q.attempts = OpenAttempt(r, t).attempts
      BY <2>1 DEF BlockTask
    <3>. QED
      BY <1>1, <1>3, <3>1 DEF Kept
  <2>2. CASE q = BlockCheck(r)
    BY <1>0, <1>1, <2>2, SameReceipts
  <2>. QED
    BY <1>10, <2>1, <2>2 DEF Blocked, Abandoned
<1>11. CASE Checked(r, q) \/ SynthesisFailed(r, q) \/ Finished(r, q)
  <2>1. ASSUME NEW c, "attempts" \in DOMAIN c, c.attempts = r.attempts, NEW t, NEW verdict,
               q \in {OpenCheck(c, t), FailRun(c), Finish(c), CloseCheck(c, t, verdict)}
        PROVE  Kept(q)
    BY <1>1, <2>1, SameReceipts
  <2>2. CASE Checked(r, q)
    <3>1. ASSUME NEW c \in Claimed(r), NEW t, q = OpenCheck(c, t) PROVE Kept(q)
      BY <1>2, <2>1, <3>1
    <3>2. ASSUME NEW t, NEW verdict, q = CloseCheck(r, t, verdict) PROVE Kept(q)
      BY <1>0, <2>1, <3>2
    <3>. QED
      BY <2>2, <3>1, <3>2 DEF Checked
  <2>3. CASE SynthesisFailed(r, q) \/ Finished(r, q)
    BY <1>2, <2>1, <2>3 DEF SynthesisFailed, Finished
  <2>. QED
    BY <1>11, <2>2, <2>3
<1>12. CASE Resolved(r, q)
  <2>1. ASSUME NEW t \in Tasks, NEW k, q \in {RetryAttempt(r, t, k), RejectAttempt(r, t, k)}
        PROVE  Kept(q)
    <3>1. \E o : q.attempts = [r.attempts EXCEPT ![t] = [@ EXCEPT ![k] = o]]
      BY <2>1 DEF RetryAttempt, RejectAttempt, Run
    <3>. QED
      BY <1>4, <3>1
  <2>2. ASSUME NEW t \in Tasks, NEW k, q \in {RetryCheck(r, t, k), RejectCheck(r, t, k)}
        PROVE  Kept(q)
    <3>1. ClearClaims(r).attempts = r.attempts /\ "attempts" \in DOMAIN ClearClaims(r)
      BY DEF ClearClaims, Run
    <3>2. RetryCheck(r, t, k).attempts = r.attempts /\ RejectCheck(r, t, k).attempts = r.attempts
      BY <3>1 DEF RetryCheck, RejectCheck, Run
    <3>. QED
      BY <1>1, <2>2, <3>2
  <2>3. PICK t, k : /\ t \in Tasks
                    /\ q \in {RetryAttempt(r, t, k), RejectAttempt(r, t, k),
                              RetryCheck(r, t, k), RejectCheck(r, t, k)}
    BY <1>12 DEF Resolved
  <2>. QED
    BY <2>1, <2>2, <2>3
<1>. QED
  BY <1>6, <1>7, <1>8, <1>9, <1>10, <1>11, <1>12 DEF Advanced

\* e has stored a receipt to call the provider under ...
Receipt(e) == pc[e] = "call" \/ (pc[e] = "event" /\ then[e] = "call")

\* ... or is about to store one.
Opening(e) == pc[e] \in {"check", "update"} /\ then[e] = "call"

\* Calls are made under stored receipts; a receipt that waits for its call is
\* one executor's, and was not called under; the owner adds the next one.
CInv ==
  /\ calls = [t \in Tasks |-> calls[t]]
  /\ \A t \in Tasks : calls[t] \subseteq DOMAIN run.attempts[t]
  /\ \A e \in Executors : Receipt(e) =>
       /\ cur[e] \in Tasks
       /\ AttemptNumber(e) \in DOMAIN run.attempts[cur[e]] \ calls[cur[e]]
  /\ \A d, e \in Executors : Receipt(d) /\ Receipt(e) /\ d # e =>
       cur[d] # cur[e] \/ AttemptNumber(d) # AttemptNumber(e)
  /\ \A e \in Executors : Owns(e) /\ Opening(e) =>
       cur[e] \in Tasks /\ AttemptNumber(e) = Len(run.attempts[cur[e]]) + 1

\* The others stay where they are, and gain no lease.
Elsewhere(e) ==
  \A d \in Executors \ {e} :
    /\ pc'[d] = pc[d] /\ then'[d] = then[d] /\ mem'[d] = mem[d] /\ cur'[d] = cur[d]
    /\ Owns(d)' => Owns(d)

\* One executor moves, and neither stores nor calls.
LEMMA CallsMove ==
  ASSUME CInv, NEW e \in Executors, Elsewhere(e), UNCHANGED <<run, calls>>,
         Receipt(e)' => Receipt(e) /\ mem'[e] = mem[e] /\ cur'[e] = cur[e],
         Owns(e)' /\ Opening(e)' =>
           cur'[e] \in Tasks /\ AttemptNumber(e)' = Len(run.attempts[cur'[e]]) + 1
  PROVE  CInv'
<1>1. ASSUME NEW d \in Executors, Receipt(d)'
      PROVE  Receipt(d) /\ cur'[d] = cur[d] /\ AttemptNumber(d)' = AttemptNumber(d)
  <2>1. CASE d = e
    BY <1>1, <2>1 DEF AttemptNumber
  <2>2. CASE d # e
    BY <1>1, <2>2 DEF Elsewhere, Receipt, AttemptNumber
  <2>. QED
    BY <2>1, <2>2
<1>2. ASSUME NEW d \in Executors, Owns(d)', Opening(d)'
      PROVE  cur'[d] \in Tasks /\ AttemptNumber(d)' = Len(run'.attempts[cur'[d]]) + 1
  <2>1. CASE d = e
    BY <1>2, <2>1
  <2>2. CASE d # e
    <3>1. Owns(d) /\ Opening(d) /\ cur'[d] = cur[d] /\ AttemptNumber(d)' = AttemptNumber(d)
      BY <1>2, <2>2 DEF Elsewhere, Opening, AttemptNumber
    <3>. QED
      BY <3>1 DEF CInv
  <2>. QED
    BY <2>1, <2>2
<1>3. \A d \in Executors : Receipt(d)' =>
        cur'[d] \in Tasks /\ AttemptNumber(d)' \in DOMAIN run'.attempts[cur'[d]] \ calls'[cur'[d]]
  BY <1>1 DEF CInv
<1>4. \A c, d \in Executors : Receipt(c)' /\ Receipt(d)' /\ c # d =>
        cur'[c] # cur'[d] \/ AttemptNumber(c)' # AttemptNumber(d)'
  BY <1>1 DEF CInv
<1>. QED
  BY <1>2, <1>3, <1>4 DEF CInv

\* ... to a label that is not a call.
LEMMA QuietMove ==
  ASSUME SInv, CInv, NEW e \in Executors, NEW p, p \notin Writing \cup {"call"},
         Goto(e, p) \/ \E r : Persist(e, r, p),
         \A d \in Executors \ {e} : mem'[d] = mem[d] /\ cur'[d] = cur[d] /\ (Owns(d)' => Owns(d)),
         UNCHANGED <<run, calls>>
  PROVE  CInv'
<1>1. /\ \A d \in Executors \ {e} : pc'[d] = pc[d] /\ then'[d] = then[d]
      /\ pc'[e] = p \/ (pc'[e] = "check" /\ then'[e] = p)
  BY DEF Goto, Persist, SInv
<1>2. ~Receipt(e)' /\ ~Opening(e)'
  BY <1>1 DEF Receipt, Opening, Writing
<1>3. Elsewhere(e)
  BY <1>1 DEF Elsewhere
<1>. QED
  BY <1>2, <1>3, CallsMove

\* Nobody moves.
LEMMA NobodyCalls ==
  ASSUME CInv, UNCHANGED <<run, calls, pc, then, mem, cur>>, \A d \in Executors : Owns(d)' => Owns(d)
  PROVE  CInv'
BY DEF CInv, Receipt, Opening, AttemptNumber

\* Most steps of an executor.
LEMMA QuietSteps ==
  ASSUME SInv, DInv, CInv, NEW e \in Executors,
         \/ Resume(e) \/ SaveCheckpoint(e) \/ AfterTask(e) \/ CollectSucceeds(e) \/ CollectFails(e)
         \/ NextLayer(e) \/ NextTask(e) \/ LoadForChecks(e) \/ Load(e)
         \/ StartVerifying(e) \/ Synthesize(e) \/ SettleClaim(e) \/ RefuseClaim(e) \/ StartCheck(e)
         \/ CallVerifier(e) \/ CheckAnswered(e) \/ CheckedClaim(e) \/ SynthesisFails(e)
         \/ ClaimsDone(e) \/ FinishRun(e) \/ SaveMemory(e) \/ LoseLease(e) \/ Raise(e)
  PROVE  CInv'
<1>0. mem = [d \in Executors |-> mem[d]] /\ cur = [d \in Executors |-> cur[d]]
  BY DEF SInv, DInv
<1>1. ASSUME Resume(e) \/ SaveCheckpoint(e) \/ AfterTask(e) \/ CollectSucceeds(e) \/ CollectFails(e)
             \/ LoadForChecks(e) \/ Load(e)
      PROVE  CInv'
  <2>1. PICK p : p \notin Writing \cup {"call"} /\ (Goto(e, p) \/ \E r : Persist(e, r, p))
    BY <1>1 DEF Resume, SaveCheckpoint, AfterTask, CollectSucceeds, CollectFails, LoadForChecks, Load,
       Writing
  <2>2. \A d \in Executors \ {e} : mem'[d] = mem[d] /\ cur'[d] = cur[d]
    BY <1>0, <1>1 DEF Resume, SaveCheckpoint, AfterTask, CollectSucceeds, CollectFails,
       LoadForChecks, Load, Persist, Holds, local
  <2>3. UNCHANGED <<run, lease, calls>>
    BY <1>1 DEF Resume, SaveCheckpoint, AfterTask, CollectSucceeds, CollectFails, LoadForChecks, Load,
       store
  <2>. QED
    BY <2>1, <2>2, <2>3, QuietMove DEF Owns, lease
<1>2. ASSUME StartVerifying(e) \/ Synthesize(e) \/ RefuseClaim(e) \/ StartCheck(e)
             \/ CallVerifier(e) \/ CheckAnswered(e) \/ CheckedClaim(e) \/ SynthesisFails(e)
             \/ ClaimsDone(e) \/ FinishRun(e) \/ SaveMemory(e) \/ LoseLease(e) \/ Raise(e)
      PROVE  CInv'
  <2>1. PICK p : p \notin Writing \cup {"call"} /\ (Goto(e, p) \/ \E r : Persist(e, r, p))
    BY <1>2 DEF StartVerifying, Synthesize, RefuseClaim, StartCheck, CallVerifier, CheckAnswered,
       CheckedClaim, SynthesisFails, ClaimsDone, FinishRun, SaveMemory, LoseLease, Raise, Writing
  <2>2. \A d \in Executors \ {e} : mem'[d] = mem[d] /\ cur'[d] = cur[d]
    BY <1>0, <1>2 DEF StartVerifying, Synthesize, RefuseClaim, StartCheck, CallVerifier, CheckAnswered,
       CheckedClaim, SynthesisFails, ClaimsDone, FinishRun, SaveMemory, LoseLease, Raise, Persist,
       Holds, local
  <2>3. UNCHANGED <<run, lease, calls>>
    BY <1>2 DEF StartVerifying, Synthesize, RefuseClaim, StartCheck, CallVerifier, CheckAnswered,
       CheckedClaim, SynthesisFails, ClaimsDone, FinishRun, SaveMemory, LoseLease, Raise, store
  <2>. QED
    BY <2>1, <2>2, <2>3, QuietMove DEF Owns, lease
<1>3. ASSUME NextLayer(e) \/ NextTask(e) \/ SettleClaim(e) PROVE CInv'
  <2>1. \A d \in Executors \ {e} : mem'[d] = mem[d] /\ cur'[d] = cur[d]
    BY <1>0, <1>3 DEF NextLayer, NextTask, SettleClaim, Persist, Holds
  <2>2. UNCHANGED <<run, lease, calls>>
    BY <1>3 DEF NextLayer, NextTask, SettleClaim, store
  <2>3. ASSUME NEW r, NEW p \in {"release", "open"}, Persist(e, r, p) PROVE CInv'
    BY <2>1, <2>2, <2>3, QuietMove DEF Writing, Owns, lease
  <2>4. CASE UNCHANGED <<pc, then>>
    <3>1. pc[e] \in {"next", "claim"}
      BY <1>3 DEF NextLayer, NextTask, SettleClaim
    <3>2. ~Receipt(e)' /\ ~Opening(e)'
      BY <2>4, <3>1 DEF Receipt, Opening
    <3>3. Elsewhere(e)
      BY <2>1, <2>2, <2>4 DEF Elsewhere, Owns, lease
    <3>. QED
      BY <2>2, <3>2, <3>3, CallsMove
  <2>. QED
    BY <1>3, <2>3, <2>4 DEF NextLayer, NextTask, SettleClaim
<1>. QED
  BY <1>1, <1>2, <1>3

\* A call begins, ends, or dies.
LEMMA EntryCalls ==
  ASSUME SInv, DInv, CInv, NEW e \in Executors,
         (\E n : Execute(e, n)) \/ AcquireLease(e) \/ ReleaseLease(e) \/ Crash(e)
  PROVE  CInv'
<1>1. UNCHANGED <<run, calls>>
  BY DEF Execute, AcquireLease, ReleaseLease, Crash, store
<1>2. PICK p \in {"idle", "acquire", "load"} : pc' = [pc EXCEPT ![e] = p]
  BY DEF Execute, AcquireLease, ReleaseLease, Crash, Goto
<1>3. ~Receipt(e)' /\ ~Opening(e)'
  BY <1>2 DEF Receipt, Opening, SInv
<1>4. \A d \in Executors \ {e} : mem'[d] = mem[d] /\ cur'[d] = cur[d] /\ then'[d] = then[d]
  BY DEF SInv, DInv, Execute, AcquireLease, ReleaseLease, Crash, Goto, local
<1>5. \A d \in Executors \ {e} : Owns(d)' => Owns(d)
  BY ExecutorsAssumption DEF Execute, AcquireLease, ReleaseLease, Crash, Owns, lease
<1>6. Elsewhere(e)
  BY <1>2, <1>4, <1>5 DEF Elsewhere, SInv
<1>. QED
  BY <1>1, <1>3, <1>6, CallsMove

\* The owner adds the receipt, looks for a cancellation, appends the event.
LEMMA ReceiptCalls ==
  ASSUME SInv, DInv, CInv, NEW e \in Executors, OpenReceipt(e) \/ CheckCancelled(e) \/ AppendEvent(e)
  PROVE  CInv'
<1>0. UNCHANGED <<run, calls, cur, lease>>
  BY DEF OpenReceipt, CheckCancelled, AppendEvent, store, local
<1>1. \A d \in Executors \ {e} : pc'[d] = pc[d] /\ then'[d] = then[d] /\ mem'[d] = mem[d]
  BY DEF OpenReceipt, CheckCancelled, AppendEvent, Persist, Goto, Holds, local, SInv
<1>2. Elsewhere(e)
  BY <1>0, <1>1 DEF Elsewhere, Owns, lease
<1>3. CASE OpenReceipt(e)
  <2>1. /\ pc[e] = "open" /\ pc'[e] = "check" /\ mem'[e] = OpenAttempt(mem[e], cur[e])
    BY <1>3 DEF OpenReceipt, Persist, Holds, SInv
  <2>2. ASSUME Owns(e)
        PROVE  cur[e] \in Tasks /\ AttemptNumber(e)' = Len(run.attempts[cur[e]]) + 1
    <3>1. Good(run) /\ mem[e] = run /\ cur[e] \in Abandoned(run)
      BY <2>1, <2>2, OwnerKnows DEF Knows, Collecting, Synthesizing, Writing
    <3>2. run \in Run /\ cur[e] \in Tasks
      BY <3>1 DEF Good, Sound, Abandoned
    <3>3. mem'[e].attempts[cur[e]] = Append(run.attempts[cur[e]], "OPEN")
      BY <2>1, <3>1, <3>2 DEF OpenAttempt, Run
    <3>4. Len(Append(run.attempts[cur[e]], "OPEN")) = Len(run.attempts[cur[e]]) + 1
      BY <3>2, Fields, AppendProperties DEF AttemptStates
    <3>. QED
      BY <1>0, <3>2, <3>3, <3>4 DEF AttemptNumber
  <2>3. ~Receipt(e)' /\ (Owns(e)' => Owns(e))
    BY <1>0, <2>1 DEF Receipt, Owns, lease
  <2>. QED
    BY <1>0, <1>2, <2>2, <2>3, CallsMove
<1>4. CASE CheckCancelled(e)
  <2>1. /\ pc[e] = "check" /\ pc'[e] \in {"release", "update"} /\ then'[e] = then[e]
        /\ mem'[e] = mem[e]
    BY <1>4 DEF CheckCancelled, Goto, local, SInv
  <2>2. ~Receipt(e)' /\ (Owns(e)' /\ Opening(e)' => Owns(e) /\ Opening(e))
    BY <1>0, <2>1 DEF Receipt, Opening, Owns, lease
  <2>3. Owns(e)' /\ Opening(e)' =>
          cur'[e] \in Tasks /\ AttemptNumber(e)' = Len(run.attempts[cur'[e]]) + 1
    BY <1>0, <2>1, <2>2 DEF CInv, AttemptNumber
  <2>. QED
    BY <1>0, <1>2, <2>2, <2>3, CallsMove
<1>5. CASE AppendEvent(e)
  <2>1. /\ pc[e] = "event" /\ pc'[e] \in {"release", then[e]} /\ then'[e] = then[e]
        /\ mem'[e] = mem[e] /\ then[e] \notin Writing
    BY <1>5 DEF AppendEvent, Goto, local, SInv
  <2>2. ~Opening(e)' /\ (Receipt(e)' => Receipt(e))
    BY <2>1 DEF Receipt, Opening, Writing
  <2>. QED
    BY <1>0, <1>2, <2>1, <2>2, CallsMove
<1>. QED
  BY <1>3, <1>4, <1>5

\* Where receipts are kept, a write that is not the owner's keeps the rest.
LEMMA StoredCalls ==
  ASSUME CInv, NEW e \in Executors, Elsewhere(e), UNCHANGED <<calls, cur, mem>>,
         \A t \in Tasks : DOMAIN run.attempts[t] \subseteq DOMAIN run'.attempts[t],
         \A d \in Executors : Owns(d)' => ~Opening(d)',
         Receipt(e)' => /\ cur[e] \in Tasks
                        /\ AttemptNumber(e) \in DOMAIN run'.attempts[cur[e]]
                        /\ AttemptNumber(e) \notin DOMAIN run.attempts[cur[e]]
  PROVE  CInv'
<1>1. ASSUME NEW d \in Executors \ {e}, Receipt(d)' PROVE Receipt(d)
  BY <1>1 DEF Elsewhere, Receipt
<1>2. \A d \in Executors : AttemptNumber(d)' = AttemptNumber(d)
  BY DEF AttemptNumber
<1>3. \A t \in Tasks : calls'[t] \subseteq DOMAIN run.attempts[t]
  BY DEF CInv
<1>4. ASSUME NEW d \in Executors, Receipt(d)'
      PROVE  /\ cur[d] \in Tasks /\ AttemptNumber(d) \in DOMAIN run'.attempts[cur[d]]
             /\ AttemptNumber(d) \notin calls[cur[d]]
             /\ d # e => AttemptNumber(d) \in DOMAIN run.attempts[cur[d]]
  BY <1>1, <1>3, <1>4 DEF CInv
<1>5. \A d \in Executors : Receipt(d)' =>
        cur'[d] \in Tasks /\ AttemptNumber(d)' \in DOMAIN run'.attempts[cur'[d]] \ calls'[cur'[d]]
  BY <1>2, <1>4
<1>6. ASSUME NEW c \in Executors, NEW d \in Executors, Receipt(c)', Receipt(d)', c # d
      PROVE  cur'[c] # cur'[d] \/ AttemptNumber(c)' # AttemptNumber(d)'
  <2>1. CASE c # e /\ d # e
    BY <1>1, <1>2, <1>6, <2>1 DEF CInv
  <2>2. CASE c = e \/ d = e
    BY <1>2, <1>4, <1>6, <2>2
  <2>. QED
    BY <2>1, <2>2
<1>. QED
  BY <1>3, <1>5, <1>6 DEF CInv

\* The UPDATE stores the next receipt, or none.
LEMMA UpdateCalls ==
  ASSUME "replan" \notin HandlerOps, SInv, DInv, CInv, NEW e \in Executors, UpdateOwned(e)
  PROVE  CInv'
<1>0. /\ UNCHANGED <<calls, cur, mem, lease>> /\ pc[e] = "update"
      /\ \A d \in Executors \ {e} : pc'[d] = pc[d] /\ then'[d] = then[d]
      /\ then'[e] = then[e] /\ pc'[e] \in {"release", "memory", "event"}
  BY DEF UpdateOwned, local, Goto, SInv
<1>1. Elsewhere(e)
  BY <1>0 DEF Elsewhere, Owns, lease
<1>2. CASE ~Owns(e)
  <2>1. run' = run /\ pc'[e] = "release"
    BY <1>2 DEF UpdateOwned, store, Goto, SInv
  <2>2. ~Receipt(e)' /\ ~Opening(e)'
    BY <2>1 DEF Receipt, Opening
  <2>. QED
    BY <1>0, <1>1, <2>1, <2>2, CallsMove
<1>3. CASE Owns(e)
  <2>1. Good(run) /\ Advanced(run, run') /\ run' = mem[e]
    BY <1>0, <1>3, OwnerKnows DEF UpdateOwned
  <2>2. \A t \in Tasks : DOMAIN run.attempts[t] \subseteq DOMAIN run'.attempts[t]
    BY <2>1, ReceiptsKept DEF Good, Sound
  <2>3. \A d \in Executors : Owns(d)' => ~Opening(d)'
    BY <1>0, <1>3 DEF Owns, lease, Opening
  <2>4. ASSUME Receipt(e)'
        PROVE  /\ cur[e] \in Tasks /\ AttemptNumber(e) \in DOMAIN run'.attempts[cur[e]]
               /\ AttemptNumber(e) \notin DOMAIN run.attempts[cur[e]]
    <3>1. cur[e] \in Tasks /\ AttemptNumber(e) = Len(run.attempts[cur[e]]) + 1
      BY <1>0, <1>3, <2>4 DEF CInv, Opening, Receipt
    <3>2. Good(run')
      BY <2>1, EvolvesGood DEF Evolves
    <3>3. /\ run.attempts[cur[e]] \in Seq(AttemptStates)
          /\ run'.attempts[cur[e]] \in Seq(AttemptStates)
      BY <2>1, <3>1, <3>2, Fields DEF Good, Sound
    <3>4. AttemptNumber(e) = Len(run'.attempts[cur[e]])
      BY <2>1 DEF AttemptNumber
    <3>. QED
      BY <3>1, <3>3, <3>4
  <2>. QED
    BY <1>0, <1>1, <2>2, <2>3, <2>4, StoredCalls
<1>. QED
  BY <1>2, <1>3

\* The call uses up its receipt.
LEMMA ProviderCalled ==
  ASSUME SInv, CInv, NEW e \in Executors, CallProvider(e)
  PROVE  CInv'
<1>1. /\ UNCHANGED <<run, mem, cur, then, lease>> /\ pc[e] = "call" /\ pc'[e] = "answer"
      /\ calls' = [calls EXCEPT ![cur[e]] = @ \cup {AttemptNumber(e)}]
      /\ \A d \in Executors \ {e} : pc'[d] = pc[d]
  BY DEF CallProvider, store, local, Goto, SInv
<1>2. Receipt(e) /\ \A d \in Executors : /\ Receipt(d)' => Receipt(d) /\ d # e
                                         /\ Opening(d)' => Opening(d)
                                         /\ Owns(d)' => Owns(d)
                                         /\ AttemptNumber(d)' = AttemptNumber(d)
  BY <1>1 DEF Receipt, Opening, AttemptNumber, Owns, lease
<1>3. cur[e] \in Tasks /\ AttemptNumber(e) \in DOMAIN run.attempts[cur[e]]
  BY <1>2 DEF CInv
<1>4. \A t \in Tasks : calls'[t] = IF t = cur[e] THEN calls[t] \cup {AttemptNumber(e)} ELSE calls[t]
  BY <1>1 DEF CInv
<1>5. calls' = [t \in Tasks |-> calls'[t]] /\ \A t \in Tasks : calls'[t] \subseteq DOMAIN run'.attempts[t]
  BY <1>1, <1>3, <1>4 DEF CInv
<1>6. ASSUME NEW d \in Executors, Receipt(d)'
      PROVE  cur'[d] \in Tasks /\ AttemptNumber(d)' \in DOMAIN run'.attempts[cur'[d]] \ calls'[cur'[d]]
  BY <1>1, <1>2, <1>4, <1>6 DEF CInv
<1>7. \A c, d \in Executors : Receipt(c)' /\ Receipt(d)' /\ c # d =>
        cur'[c] # cur'[d] \/ AttemptNumber(c)' # AttemptNumber(d)'
  BY <1>1, <1>2 DEF CInv
<1>8. \A d \in Executors : Owns(d)' /\ Opening(d)' =>
        cur'[d] \in Tasks /\ AttemptNumber(d)' = Len(run'.attempts[cur'[d]]) + 1
  BY <1>1, <1>2 DEF CInv
<1>. QED
  BY <1>5, <1>6, <1>7, <1>8 DEF CInv

\* The operator's write finds no owner about to write.
LEMMA WriteBackCalls ==
  ASSUME "replan" \notin HandlerOps, SInv, DInv, CInv, NEW h \in Handlers, WriteBack(h)
  PROVE  CInv'
<1>1. /\ UNCHANGED <<calls, pc, then, mem, cur, lease>> /\ run' = hmem[h] /\ hpc[h] = "write"
  BY DEF WriteBack, local
<1>2. Good(run) /\ Resolved(run, run')
  BY <1>1 DEF DInv, Pending, Operated
<1>3. \A t \in Tasks : DOMAIN run.attempts[t] \subseteq DOMAIN run'.attempts[t]
  BY <1>2, ReceiptsKept DEF Good, Sound
<1>4. \A d \in Executors : Owns(d)' => ~Opening(d)'
  <2>1. ~Open(run)
    BY <1>2 DEF Resolved, Open, Settled
  <2>. QED
    BY <1>1, <2>1, OwnerKnows, AtWork DEF Owns, lease, Opening
<1>5. \A d \in Executors : Receipt(d)' => Receipt(d)
  BY <1>1 DEF Receipt
<1>6. \A d \in Executors : AttemptNumber(d)' = AttemptNumber(d)
  BY <1>1 DEF AttemptNumber
<1>. QED
  BY <1>1, <1>3, <1>4, <1>5, <1>6 DEF CInv

LEMMA StepCInv ==
  ASSUME "replan" \notin HandlerOps
  PROVE  SInv /\ DInv /\ CInv /\ [Next]_vars => CInv'
<1>. SUFFICES ASSUME SInv, DInv, CInv, [Next]_vars PROVE CInv'
  OBVIOUS
<1>1. CASE UNCHANGED vars \/ Enqueue \/ Expire \/ ExpireOrphan
           \/ \E e \in Executors : NoticeLoss(e) \/ HeartbeatError(e)
  <2>1. UNCHANGED <<run, calls, pc, then, mem, cur>>
    BY <1>1 DEF vars, Enqueue, Expire, ExpireOrphan, NoticeLoss, HeartbeatError, store, local
  <2>2. \A d \in Executors : Owns(d)' => Owns(d)
    BY <1>1 DEF vars, Enqueue, Expire, ExpireOrphan, NoticeLoss, HeartbeatError, lease, Owns
  <2>. QED
    BY <2>1, <2>2, NobodyCalls
<1>2. ASSUME NEW e \in Executors, Step(e) \/ Raise(e) \/ Crash(e) \/ \E n : Execute(e, n) PROVE CInv'
  BY <1>2, QuietSteps, EntryCalls, ReceiptCalls, UpdateCalls, ProviderCalled DEF Step
<1>3. ASSUME NEW h \in Handlers, Handle(h) PROVE CInv'
  <2>1. CASE WriteBack(h)
    BY <2>1, WriteBackCalls
  <2>2. CASE ~WriteBack(h)
    <3>1. UNCHANGED <<run, calls, pc, then, mem, cur, lease>>
      BY <1>3, <2>2 DEF Handle, ReadToCancel, ReadToRetry, ReadToReject, ReadToRecord, ReadToReplan,
         Take, store, local
    <3>. QED
      BY <3>1, NobodyCalls DEF Owns, lease
  <2>. QED
    BY <2>1, <2>2
<1>. QED
  BY <1>1, <1>2, <1>3, ExecutorsAssumption DEF Next, Poll, Disturb

LEMMA InitCInv == Init => CInv
BY ExecutorsAssumption DEF Init, CInv, Receipt, Opening, Owns

\* With one operator who resolves but never replans, and nobody who cancels or
\* records an artifact, the evidence provider is called once under each receipt,
\* and only under receipts that are stored.
THEOREM Receipts ==
  ASSUME AllPending, OneOperator, "replan" \notin HandlerOps
  PROVE  Spec => []OneCallPerReceipt
<1>1. CInv => OneCallPerReceipt
  BY DEF CInv, OneCallPerReceipt, NoAutomaticRetry, Receipt
<1>2. SInv /\ DInv /\ Fresh /\ CInv /\ [Next]_vars => CInv'
  BY StepCInv
<1>. QED
  BY <1>1, <1>2, InductiveDInv, InitCInv, PTL DEF Spec
=============================================================================
