--------------------------- MODULE ReviewWorkflow ---------------------------
(***************************************************************************)
(* What analysts add to an executed run: financial artifacts, red-team and *)
(* committee reviews and decisions, one by one or all of them by the       *)
(* workflow behind mvp-complete.  Every record_* reads the stored run,     *)
(* judges and changes its copy and saves the whole payload, without lease  *)
(* or version; the workflow decides what is already recorded from the run  *)
(* it read at its start.                                                   *)
(*                                                                         *)
(* A thesis is a number, 0 for none, and comes and goes with the memo.     *)
(* The steps of an execution and of a replan are in RunExecution: here an  *)
(* execution is its read, the write of RUNNING and its last write.         *)
(***************************************************************************)
EXTENDS Naturals, FiniteSets, SequencesExt

CONSTANTS
  Calls,      \* API calls; a retry is another call
  Evidence,   \* evidence ids,
  Counter,    \* those with a COUNTER or CONFLICTING stance,
  Qualified,  \* and those that qualify
  Roles,      \* MVP_IC_ROLES, as a sequence
  Hashes,     \* content hashes of artifacts
  Bodies,     \* what is sent: an endpoint and a request
  Harvests,   \* sets of evidence that an execution adds or a replan keeps
  MaxTheses,  \* bound on completed executions
  Racing,     \* bound on calls in a behaviour where some are in flight at once
  None

Artifacts == [hash: Hashes, evidence: SUBSET Evidence]
DecisionActions == {"APPROVE_THESIS", "REJECT_THESIS", "REQUEST_RESEARCH"}
RequestBodies ==
  [fin: Artifacts, val: Artifacts, red: SUBSET Evidence, outcome: STRING,
   ic: SUBSET Evidence, action: DecisionActions]
Endpoints == {"workflow", "fin", "val", "red", "decide"} \cup Range(Roles)

ASSUME EvidenceAssumption ==
  IsFiniteSet(Evidence) /\ Counter \subseteq Evidence /\ Qualified \subseteq Evidence
ASSUME HarvestAssumption == Harvests \subseteq SUBSET Evidence
ASSUME BodyAssumption ==
  /\ None \in Hashes /\ Bodies \subseteq Endpoints \X RequestBodies
  /\ \A body \in Bodies : body[2].fin.hash # None /\ body[2].val.hash # None
ASSUME RoleAssumption ==
  /\ Roles \in Seq(STRING)
  /\ Range(Roles) \cap {"none", "workflow", "begin", "fin", "val", "red", "decide", "evaluate"} = {}
ASSUME BoundAssumption == MaxTheses \in Nat
ASSUME CallAssumption == None \notin Calls

VARIABLES
  run,        \* the stored payload
  listed,     \* decision ids in the target's memory entry
  cut,        \* those whose call was cut off between the entry and the run
  theses,     \* how many theses were synthesized
  job,        \* the execution or replan in flight
  call,       \* per API call
  overlapped  \* two calls, or a call and a job, were in flight at once

vars == <<run, listed, cut, theses, job, call, overlapped>>

NoArtifact == [hash |-> None, evidence |-> {}]
NoMemo == [status |-> "NONE", fin |-> None, val |-> None, red |-> << >>, ic |-> << >>]

NewRun ==
  [state |-> "CREATED", thesis |-> 0, review |-> "NONE", memo |-> NoMemo,
   evidence |-> {}, fin |-> NoArtifact, val |-> NoArtifact,
   red |-> << >>, ic |-> << >>, decisions |-> << >>]

Ids(s) == {s[i].id : i \in DOMAIN s}
Entries(s) == {s[i] : i \in DOMAIN s}
Good(r) == r.evidence \cap Qualified

-----------------------------------------------------------------------------
(* The record_* methods: when they refuse, and what they save.             *)

\* Thesis and memo are up for review again.
Reopened(r) ==
  [r EXCEPT !.review = "NEEDS_REVIEW",
            !.memo.status = IF r.state = "COMPLETED" THEN "READY_FOR_REVIEW" ELSE "DRAFT"]

RefusesArtifact(r, a) == ~(a.evidence \subseteq Good(r))

WithFinancial(r, a) ==
  [r EXCEPT !.fin = a, !.memo.fin = IF r.thesis # 0 THEN a.hash ELSE @]

WithValuation(r, a) ==
  [r EXCEPT !.val = a, !.memo.val = IF r.thesis # 0 THEN a.hash ELSE @]

\* Mutant: the thesis of the review is not compared.
RefusesRedOfAny(r, v) ==
  \/ r.thesis = 0
  \/ ~(v.evidence \subseteq r.evidence \cap Counter)
  \/ v.id \in Ids(r.red)

RefusesRed(r, v) ==
  \/ r.thesis = 0 \/ v.thesis # r.thesis
  \/ ~(v.evidence \subseteq r.evidence \cap Counter)
  \/ v.id \in Ids(r.red)

WithRed(r, v) ==
  LET s == [r EXCEPT !.red = Append(@, v), !.memo.red = Append(@, v.id)]
  IN IF v.outcome = "REQUIRES_RESEARCH" THEN Reopened(s) ELSE s

RefusesIc(r, v) ==
  \/ r.thesis = 0 \/ v.thesis # r.thesis
  \/ ~(v.evidence \subseteq r.evidence)
  \/ v.id \in Ids(r.ic)

WithIc(r, v) == [r EXCEPT !.ic = Append(@, v), !.memo.ic = Append(@, v.id)]

RefusesDecision(r, d) ==
  \/ r.thesis # 0 /\ d.target # r.thesis
  \/ ~(d.reviews \subseteq Ids(r.ic))
  \/ r.thesis # 0 /\ \E v \in Entries(r.ic) : v.id \in d.reviews /\ v.thesis # r.thesis
  \/ d.action = "APPROVE_THESIS" /\ (r.thesis = 0 \/ r.state # "COMPLETED")

\* Mutant: the action is taken for the status that it leads to.
WithDecisionByAction(r, d) ==
  [r EXCEPT !.decisions = Append(@, d), !.review = d.action, !.memo.status = d.action]

WithDecision(r, d) ==
  LET s == [r EXCEPT !.decisions = Append(@, d)]
  IN CASE d.action = "APPROVE_THESIS" ->
            [s EXCEPT !.review = "APPROVED", !.memo.status = "APPROVED"]
       [] d.action = "REJECT_THESIS" /\ r.thesis # 0 -> Reopened(s)
       [] OTHER -> s

-----------------------------------------------------------------------------
(* score_run with the case of the workflow: the checks that fail.  The     *)
(* checks of claims and memo sections are in ResearchFlow.                 *)

BadRed(r) == {v \in Entries(r.red) : v.thesis # r.thesis}
BadRedEvidence(r) ==
  (UNION {v.evidence : v \in Entries(r.red)}) \ (r.evidence \cap Counter)

CitedReviews(r) == UNION {d.reviews : d \in Entries(r.decisions)}
Referenced(r) == Range(r.memo.ic) \cup CitedReviews(r)

\* Mutant: every review must be of the current thesis, cited or not.
AllReviewsLink(r) ==
  /\ Referenced(r) \subseteq Ids(r.ic)
  /\ \A v \in Entries(r.ic) : v.thesis = r.thesis

ReviewsLink(r) ==
  /\ Referenced(r) \subseteq Ids(r.ic)
  /\ \A v \in Entries(r.ic) : v.id \in Referenced(r) => v.thesis = r.thesis

Failures(r, minimum) ==
  {n \in {"terminal_state", "qualified_evidence", "financial_artifact_links",
          "financial_artifact_presence", "valuation_artifact_links",
          "valuation_artifact_presence", "red_team_links", "red_team_coverage",
          "ic_review_links", "ic_review_coverage"} :
     CASE n = "terminal_state" -> r.state # "COMPLETED"
       [] n = "qualified_evidence" -> Cardinality(Good(r)) < minimum
       [] n = "financial_artifact_links" -> ~(r.fin.evidence \subseteq Good(r))
       [] n = "financial_artifact_presence" -> r.fin = NoArtifact
       [] n = "valuation_artifact_links" -> ~(r.val.evidence \subseteq Good(r))
       [] n = "valuation_artifact_presence" -> r.val = NoArtifact
       [] n = "red_team_links" -> BadRed(r) # {} \/ BadRedEvidence(r) # {}
       [] n = "red_team_coverage" ->
            \A v \in Entries(r.red) \ BadRed(r) : v.evidence \cap BadRedEvidence(r) # {}
       [] n = "ic_review_links" -> ~ReviewsLink(r)
       [] n = "ic_review_coverage" ->
            ~(Range(Roles) \subseteq {v.role : v \in {w \in Entries(r.ic) : w.thesis = r.thesis}})}

-----------------------------------------------------------------------------
(* Calls.                                                                  *)

Route(op) ==
  CASE op = "workflow" -> <<"begin", "fin", "val", "red">> \o Roles \o <<"decide", "evaluate">>
    [] op \in {"red"} \cup Range(Roles) -> <<"begin", op>>
    [] OTHER -> <<op>>

Idle(answer) ==
  [op |-> "none", request |-> None, target |-> 0, seen |-> {}, first |-> NewRun,
   copy |-> NewRun, step |-> 1, phase |-> "read", answer |-> answer]

NoJob == [kind |-> "none", by |-> None, copy |-> NewRun]

InFlight == {c \in Calls : call[c].op # "none"}
At(c) == Route(call[c].op)[call[c].step]
Workflow(c) == call[c].op = "workflow"
End(c, answer) == call' = [call EXCEPT ![c] = Idle(answer)]

\* On to a phase of this step, or to the next step.
Goto(c, phase) == call' = [call EXCEPT ![c].phase = phase, ![c].copy = NewRun]
Advance(c) ==
  LET route == Route(call[c].op)
      step == call[c].step + 1
  IN IF step > Len(route) THEN End(c, "done")
     ELSE call' = [call EXCEPT ![c].step = step, ![c].copy = NewRun,
                     ![c].phase = IF Workflow(c) /\ route[step] \in {"red"} \cup Range(Roles)
                                  THEN "check" ELSE "read"]

\* The workflow's records have the run's id in theirs, all others a fresh one.
Id(c, what) == <<IF Workflow(c) THEN None ELSE c, what>>

\* What the call asks to record in its step.
Cited(c) ==
  IF At(c) = "red" THEN call[c].request.red ELSE call[c].request.ic
Item(c) ==
  LET q == call[c].request
      s == At(c)
  IN CASE s = "fin" -> q.fin
       [] s = "val" -> q.val
       [] s = "red" -> [id |-> Id(c, "red"), thesis |-> call[c].first.thesis,
                        evidence |-> q.red, outcome |-> q.outcome]
       [] s = "decide" -> [id |-> Id(c, "decide"), target |-> call[c].target, action |-> q.action,
                           reviews |-> IF Workflow(c) THEN {Id(c, i) : i \in Range(Roles)}
                                                      ELSE call[c].seen]
       [] OTHER -> [id |-> Id(c, s), thesis |-> call[c].first.thesis, role |-> s,
                    evidence |-> q.ic]

Refuses(r, c) ==
  CASE At(c) \in {"fin", "val"} -> RefusesArtifact(r, Item(c))
    [] At(c) = "red" -> RefusesRed(r, Item(c))
    [] At(c) = "decide" -> RefusesDecision(r, Item(c))
    [] OTHER -> RefusesIc(r, Item(c))

With(r, c) ==
  CASE At(c) = "fin" -> WithFinancial(r, Item(c))
    [] At(c) = "val" -> WithValuation(r, Item(c))
    [] At(c) = "red" -> WithRed(r, Item(c))
    [] At(c) = "decide" -> WithDecision(r, Item(c))
    [] OTHER -> WithIc(r, Item(c))

\* Mutant: the workflow records its decision whatever it found.
ExistsButDecision(c) ==
  LET r == call[c].first
  IN CASE At(c) = "fin" -> r.fin # NoArtifact
       [] At(c) = "val" -> r.val # NoArtifact
       [] At(c) = "red" -> Id(c, "red") \in Ids(r.red)
       [] At(c) = "decide" -> FALSE
       [] OTHER -> Id(c, At(c)) \in Ids(r.ic)

\* What the workflow found recorded when it began.
Exists(c) ==
  LET r == call[c].first
  IN CASE At(c) = "fin" -> r.fin # NoArtifact
       [] At(c) = "val" -> r.val # NoArtifact
       [] At(c) = "red" -> Id(c, "red") \in Ids(r.red)
       [] At(c) = "decide" -> Id(c, "decide") \in Ids(r.decisions)
       [] OTHER -> Id(c, At(c)) \in Ids(r.ic)

Differs(c) ==
  \/ At(c) = "fin" /\ call[c].first.fin.hash # Item(c).hash
  \/ At(c) = "val" /\ call[c].first.val.hash # Item(c).hash

Recorded(c) == IF Workflow(c) /\ At(c) \in {"fin", "val"} THEN Goto(c, "get") ELSE Advance(c)

-----------------------------------------------------------------------------
Init ==
  /\ run = NewRun
  /\ listed = {}
  /\ cut = {}
  /\ theses = 0
  /\ job = NoJob
  /\ call = [c \in Calls |-> Idle("none")]
  /\ overlapped = FALSE

\* A client calls; it knows thesis and reviews from what the page shows.
Submit(c) ==
  /\ call[c] = Idle("none")
  /\ \E body \in Bodies :
       call' = [call EXCEPT ![c].op = body[1], ![c].request = body[2],
                            ![c].target = run.thesis, ![c].seen = Ids(run.ic)]
  /\ overlapped' = (overlapped \/ InFlight # {} \/ job # NoJob)
  /\ overlapped' => Cardinality({d \in Calls : call[d] # Idle("none")}) < Racing
  /\ UNCHANGED <<run, listed, cut, theses, job>>

\* The first read: the workflow goes on with a COMPLETED run, has a CREATED or
\* PARTIAL one executed and refuses any other; a review needs a thesis.
Begin(c) ==
  /\ c \in InFlight /\ At(c) = "begin" /\ call[c].phase = "read"
  /\ CASE Workflow(c) /\ run.state \in {"CREATED", "PARTIAL"} -> Goto(c, "execute")
       [] IF Workflow(c) THEN run.state = "COMPLETED" ELSE run.thesis # 0 ->
            call' = [call EXCEPT ![c].first = run, ![c].step = 2]
       [] OTHER -> End(c, "refused")
  /\ UNCHANGED <<run, listed, cut, theses, job, overlapped>>

\* _require_qualified_evidence, a read of its own.
Check(c) ==
  /\ c \in InFlight /\ call[c].phase = "check"
  /\ IF Cited(c) \subseteq Good(run) THEN Goto(c, "read") ELSE End(c, "refused")
  /\ UNCHANGED <<run, listed, cut, theses, job, overlapped>>

\* The workflow leaves what it found at its start, or refuses other contents.
Skip(c) ==
  /\ c \in InFlight /\ At(c) \notin {"begin", "evaluate"} /\ call[c].phase = "read"
  /\ Workflow(c) /\ Exists(c)
  /\ IF Differs(c) THEN End(c, "refused") ELSE Recorded(c)
  /\ UNCHANGED <<run, listed, cut, theses, job, overlapped>>

Read(c) ==
  /\ c \in InFlight /\ At(c) # "begin" /\ call[c].phase = "read"
  /\ ~(Workflow(c) /\ At(c) # "evaluate" /\ Exists(c))
  /\ call' = [call EXCEPT ![c].copy = run, ![c].phase = "write"]
  /\ UNCHANGED <<run, listed, cut, theses, job, overlapped>>

\* Mutant: the decision is listed before it is validated.
WriteListedFirst(c) ==
  /\ c \in InFlight /\ At(c) # "evaluate" /\ call[c].phase = "write"
  /\ listed' = IF At(c) = "decide" /\ theses > 0 THEN listed \cup {Item(c).id} ELSE listed
  /\ CASE Refuses(call[c].copy, c) -> End(c, "refused") /\ UNCHANGED run
       [] At(c) = "decide" /\ ~Refuses(call[c].copy, c) ->
            call' = [call EXCEPT ![c].phase = "save"] /\ UNCHANGED run
       [] OTHER -> run' = With(call[c].copy, c) /\ Recorded(c)
  /\ UNCHANGED <<cut, theses, job, overlapped>>

\* The whole copy is saved; a decision is listed in the memory first, if the
\* target has an entry.
Write(c) ==
  /\ c \in InFlight /\ At(c) # "evaluate" /\ call[c].phase = "write"
  /\ CASE Refuses(call[c].copy, c) -> End(c, "refused") /\ UNCHANGED <<run, listed>>
       [] At(c) = "decide" /\ ~Refuses(call[c].copy, c) ->
            /\ listed' = IF theses > 0 THEN listed \cup {Item(c).id} ELSE listed
            /\ call' = [call EXCEPT ![c].phase = "save"]
            /\ UNCHANGED run
       [] OTHER -> run' = With(call[c].copy, c) /\ Recorded(c) /\ UNCHANGED listed
  /\ UNCHANGED <<cut, theses, job, overlapped>>

\* Mutant: record_decision lists the decision and does not save the run.
SaveNothing(c) ==
  /\ c \in InFlight /\ call[c].phase = "save"
  /\ Advance(c)
  /\ UNCHANGED <<run, listed, cut, theses, job, overlapped>>

Save(c) ==
  /\ c \in InFlight /\ call[c].phase = "save"
  /\ run' = With(call[c].copy, c)
  /\ cut' = cut \ {Item(c).id}
  /\ Advance(c)
  /\ UNCHANGED <<listed, theses, job, overlapped>>

\* get_financial_analysis and get_valuation_scenarios after the recording.
Get(c) ==
  /\ c \in InFlight /\ call[c].phase = "get"
  /\ IF (IF At(c) = "fin" THEN run.fin ELSE run.val) = NoArtifact
     THEN End(c, "refused") ELSE Advance(c)
  /\ UNCHANGED <<run, listed, cut, theses, job, overlapped>>

\* evaluate_run reads the run again; the case has the count of the first read.
Evaluate(c) ==
  /\ c \in InFlight /\ At(c) = "evaluate" /\ call[c].phase = "write"
  /\ LET failures == Failures(run, Cardinality(Good(call[c].copy)))
     IN End(c, IF failures = {} THEN "passed" ELSE "failed")
  /\ UNCHANGED <<run, listed, cut, theses, job, overlapped>>

\* The process dies, or a store call raises.
Lose(c) ==
  /\ c \in InFlight
  /\ End(c, "lost")
  /\ job' = IF job.by = c THEN NoJob ELSE job
  /\ cut' = IF call[c].phase = "save" THEN cut \cup {Item(c).id} ELSE cut
  /\ UNCHANGED <<run, listed, theses, overlapped>>

-----------------------------------------------------------------------------
(* Executions and replans.                                                 *)

StartExecution(by) ==
  /\ job = NoJob /\ theses < MaxTheses
  /\ LET copy == [run EXCEPT !.state = "RUNNING"]
     IN job' = [kind |-> "execute", by |-> by, copy |-> copy] /\ run' = copy

\* A worker, or a call of execute.
Execute ==
  /\ run.state \in {"CREATED", "RUNNING"}
  /\ StartExecution(None)
  /\ overlapped' = (overlapped \/ InFlight # {})
  /\ UNCHANGED <<listed, cut, theses, call>>

\* The workflow's own; the lease refuses a second one.
ExecuteFor(c) ==
  /\ c \in InFlight /\ call[c].phase = "execute" /\ job.by # c
  /\ \/ /\ run.state \in {"CREATED", "RUNNING"}
        /\ StartExecution(c)
        /\ UNCHANGED call
     \/ /\ \/ job.kind = "execute" /\ run.state # "COMPLETED"
           \/ run.state \notin {"CREATED", "RUNNING", "COMPLETED"}
        /\ End(c, "refused")
        /\ UNCHANGED <<run, job>>
     \/ /\ run.state = "COMPLETED"
        /\ call' = [call EXCEPT ![c].first = run, ![c].step = 2, ![c].phase = "read"]
        /\ UNCHANGED <<run, job>>
  /\ UNCHANGED <<listed, cut, theses, overlapped>>

Synthesized(r, state, review, collected, thesis) ==
  [r EXCEPT !.state = state, !.review = review, !.evidence = @ \cup collected,
            !.thesis = thesis,
            !.memo = [NoMemo EXCEPT !.status =
                        IF state = "COMPLETED" THEN "READY_FOR_REVIEW" ELSE "DRAFT"]]

FinishExecution ==
  /\ job.kind = "execute"
  /\ \/ /\ theses' = theses + 1
        /\ \E collected \in Harvests :
             \E s \in {<<"COMPLETED", "PENDING_REVIEW">>, <<"PARTIAL", "PENDING_REVIEW">>,
                       <<"PARTIAL", "NEEDS_REVIEW">>} :
                run' = Synthesized(job.copy, s[1], s[2], collected, theses + 1)
     \/ /\ \E collected \in Harvests :
             run' = [job.copy EXCEPT !.state = "FAILED", !.evidence = @ \cup collected]
        /\ UNCHANGED theses
  /\ job' = NoJob
  /\ call' = [c \in Calls |->
                IF c # job.by THEN call[c]
                ELSE IF run'.state = "COMPLETED"
                THEN [call[c] EXCEPT !.first = run', !.step = 2, !.phase = "read"]
                ELSE Idle("refused")]
  /\ UNCHANGED <<listed, cut, overlapped>>

ReadForReplan ==
  /\ job = NoJob /\ run.state = "PARTIAL" /\ theses < MaxTheses
  /\ job' = [kind |-> "replan", by |-> None, copy |-> run]
  /\ overlapped' = (overlapped \/ InFlight # {})
  /\ UNCHANGED <<run, listed, cut, theses, call>>

\* Claims, thesis and memo go with the evidence of the tasks that are reset;
\* artifacts, reviews and decisions stay.
Replanned(r, kept) ==
  [r EXCEPT !.state = "CREATED", !.evidence = kept, !.thesis = 0, !.review = "NONE",
            !.memo = NoMemo]

Replan ==
  /\ job.kind = "replan"
  /\ \E kept \in Harvests : run' = Replanned(job.copy, kept \cap job.copy.evidence)
  /\ job' = NoJob
  /\ UNCHANGED <<listed, cut, theses, call, overlapped>>

\* The process dies.
LoseJob ==
  /\ job # NoJob /\ job.by = None
  /\ job' = NoJob
  /\ UNCHANGED <<run, listed, cut, theses, call, overlapped>>

-----------------------------------------------------------------------------
Next ==
  \/ \E c \in Calls :
       \/ Submit(c) \/ Begin(c) \/ Check(c) \/ Skip(c) \/ Read(c) \/ Write(c) \/ Save(c)
       \/ Get(c) \/ Evaluate(c) \/ Lose(c) \/ ExecuteFor(c)
  \/ Execute \/ FinishExecution \/ ReadForReplan \/ Replan \/ LoseJob

Spec == Init /\ [][Next]_vars

-----------------------------------------------------------------------------
(* Properties.                                                             *)

ReviewIds == (Calls \cup {None}) \X (Range(Roles) \cup {"red", "decide"})
RedReviews == [id: ReviewIds, thesis: Nat, evidence: SUBSET Evidence, outcome: STRING]
IcReviews == [id: ReviewIds, thesis: Nat, role: Range(Roles), evidence: SUBSET Evidence]
DecisionRecords == [id: ReviewIds, target: Nat, action: DecisionActions, reviews: SUBSET ReviewIds]

Payload ==
  [state: {"CREATED", "RUNNING", "COMPLETED", "PARTIAL", "FAILED"}, thesis: Nat,
   review: {"NONE", "PENDING_REVIEW", "NEEDS_REVIEW", "APPROVED"},
   memo: [status: {"NONE", "DRAFT", "READY_FOR_REVIEW", "APPROVED"}, fin: Hashes, val: Hashes,
          red: Seq(ReviewIds), ic: Seq(ReviewIds)],
   evidence: SUBSET Evidence, fin: Artifacts, val: Artifacts,
   red: Seq(RedReviews), ic: Seq(IcReviews), decisions: Seq(DecisionRecords)]

CallRecords ==
  [op: Endpoints \cup {"none"}, request: {b[2] : b \in Bodies} \cup {None}, target: Nat,
   seen: SUBSET ReviewIds, first: Payload, copy: Payload, step: Nat,
   phase: {"read", "write", "save", "get", "check", "execute"},
   answer: {"none", "done", "refused", "lost", "passed", "failed"}]

\* The type of the stored run, of every copy of it, and of the rest.
TypeOK ==
  /\ run \in Payload
  /\ listed \cup cut \subseteq ReviewIds
  /\ theses \in 0 .. MaxTheses
  /\ job \in [kind: {"none", "execute", "replan"}, by: Calls \cup {None}, copy: Payload]
  /\ call \in [Calls -> CallRecords]
  /\ overlapped \in BOOLEAN

\* Thesis and memo appear, are approved and disappear together.  The memo lists
\* the reviews of its thesis: none of an earlier thesis, and none is missing.
MemoCurrent(r) ==
  /\ r.thesis = 0 <=> r.memo.status = "NONE"
  /\ r.thesis # 0 => r.state \in {"COMPLETED", "PARTIAL"}
  /\ r.review = "APPROVED" <=> r.memo.status = "APPROVED"
  /\ r.thesis # 0 =>
       /\ Range(r.memo.red) = {v.id : v \in {w \in Entries(r.red) : w.thesis = r.thesis}}
       /\ Range(r.memo.ic) = {v.id : v \in {w \in Entries(r.ic) : w.thesis = r.thesis}}

\* No review is in a payload twice.
ReviewsOnce(r) ==
  /\ \A i, j \in DOMAIN r.red : r.red[i].id = r.red[j].id => i = j
  /\ \A i, j \in DOMAIN r.ic : r.ic[i].id = r.ic[j].id => i = j

\* A decision cites reviews of the payload, an approval only those of the thesis
\* it approves; an APPROVED thesis is a completed run's and has its approval.
DecisionsGrounded(r) ==
  /\ \A d \in Entries(r.decisions) :
       /\ d.reviews \subseteq Ids(r.ic)
       /\ d.action = "APPROVE_THESIS" =>
            \A v \in Entries(r.ic) : v.id \in d.reviews => v.thesis = d.target
  /\ r.review = "APPROVED" =>
       /\ r.state = "COMPLETED"
       /\ \E d \in Entries(r.decisions) : d.action = "APPROVE_THESIS" /\ d.target = r.thesis

\* Whatever calls, executions and replans overlap, are cut off or overwrite each
\* other, the stored payload is one that they could have left one by one.
PayloadConsistent == MemoCurrent(run) /\ ReviewsOnce(run) /\ DecisionsGrounded(run)

-----------------------------------------------------------------------------
(* While no two calls were in flight at once, and calls that were cut off  *)
(* are made again at most.                                                 *)

\* The workflow records its decision once, however often it is called.
DecidedOnce ==
  ~overlapped => \A i, j \in DOMAIN run.decisions :
                    run.decisions[i].id = run.decisions[j].id => i = j

\* A decision that only the memory lists is about to be saved by its own call, or
\* that call was cut off between its two writes and no other has saved it since:
\* a decision that was refused, or one of another call, is never among them.
ListedOrCut ==
  ~overlapped =>
    \A id \in listed \ Ids(run.decisions) :
      id \in cut \/ \E c \in Calls : call[c].phase = "save" /\ Item(c).id = id

\* What a run holds when a workflow call comes back with a receipt.
MvpIds(kinds) == {<<None, k>> : k \in kinds}
StoredParts(r) ==
  {k \in Endpoints : CASE k = "workflow" -> FALSE
                      [] k = "fin" -> r.fin # NoArtifact
                      [] k = "val" -> r.val # NoArtifact
                      [] k = "red" -> <<None, k>> \in Ids(r.red)
                      [] k = "decide" -> <<None, k>> \in Ids(r.decisions)
                      [] OTHER -> <<None, k>> \in Ids(r.ic)}
Receipts == {c \in Calls : call[c].answer \in {"passed", "failed"}}

\* What an evaluation may meet that was recorded before a replan: a review of an
\* earlier thesis, a decision that cites one, or an artifact whose evidence is
\* gone.
Leftovers(r) ==
  \/ \E v \in Entries(r.red) : v.thesis # r.thesis
  \/ \E v \in Entries(r.ic) : v.thesis # r.thesis /\ v.id \in CitedReviews(r)
  \/ ~(r.fin.evidence \cup r.val.evidence \subseteq r.evidence)

\* The evaluation of a receipt fails over what a replan left, and over nothing
\* else: not over what the workflow itself, or the calls before it, recorded.
VerdictExplained ==
  [][\A c \in Calls : Evaluate(c) /\ ~overlapped =>
       (call'[c].answer = "failed" <=> Leftovers(run))]_vars

\* mvp-complete for a run without thesis has it executed and goes on to its
\* receipt: the decision is not refused for want of a thesis to name.
CreatedRunServed ==
  [][\A c \in Calls :
       Workflow(c) /\ call[c].target = 0 /\ At(c) = "decide" /\ ~overlapped'
         => call'[c].answer # "refused"]_vars

\* The chain of artifacts grows one by one to the receipt, and nothing of it is
\* lost again; a receipt means that all of it is stored.
Chain == INSTANCE ArtifactChain
           WITH Roles <- Range(Roles), stored <- StoredParts(run), receipts <- Receipts

ChainGrows == [][overlapped' \/ Chain!Next]_<<StoredParts(run), Receipts>>
=============================================================================
