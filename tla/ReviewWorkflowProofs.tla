------------------------ MODULE ReviewWorkflowProofs ------------------------
(***************************************************************************)
(* Whatever analysts, workflows, executions and replans do at once, the    *)
(* stored payload stays consistent.  Writes go over each other; but every  *)
(* copy is sound by itself, and no copy knows a thesis that is yet to be.  *)
(*                                                                         *)
(* While they come one after the other, more holds: the one call in flight *)
(* knows the run as it is stored, the workflow finds what it and others    *)
(* recorded before, its decision is recorded once, its parts are stored    *)
(* one at a time, and it comes to its receipt with all of them.            *)
(***************************************************************************)
EXTENDS ReviewWorkflow, FiniteSetTheorems, SequenceTheorems, TLAPS

\* Thesis and reviews are of the first n theses.
Bounded(r, n) ==
  /\ r.thesis <= n
  /\ \A v \in Entries(r.red) : v.thesis <= n
  /\ \A v \in Entries(r.ic) : v.thesis <= n

Sound(r, n) ==
  /\ r \in Payload
  /\ MemoCurrent(r)
  /\ ReviewsOnce(r)
  /\ DecisionsGrounded(r)
  /\ Bounded(r, n)

Steps == {"begin", "fin", "val", "red", "decide", "evaluate"} \cup Range(Roles)

\* What a call has to decide.
Decision(c) ==
  [id |-> <<IF call[c].op = "workflow" THEN None ELSE c, "decide">>, target |-> call[c].target,
   action |-> call[c].request.action,
   reviews |-> IF call[c].op = "workflow" THEN {<<None, i>> : i \in Range(Roles)}
                                           ELSE call[c].seen]

\* A call in flight is at a step of its route.  The first of it writes nothing; a
\* decision that waits for its second write was judged by the copy.
Underway(c) ==
  /\ call[c].request \in RequestBodies
  /\ call[c].step \in DOMAIN Route(call[c].op)
  /\ At(c) = "begin" => call[c].phase \in {"read", "execute"}
  /\ call[c].phase = "execute" => call[c].op = "workflow"
  /\ call[c].phase = "save" =>
       At(c) = "decide" /\ ~RefusesDecision(call[c].copy, Decision(c))

CallsOK ==
  /\ call \in [Calls -> CallRecords]
  /\ \A c \in Calls : Sound(call[c].copy, theses)
  /\ \A c \in Calls : call[c].op # "none" => Underway(c)

JobOK ==
  /\ job \in [kind: {"none", "execute", "replan"}, by: Calls \cup {None}, copy: Payload]
  /\ Sound(job.copy, theses)
  /\ job.kind = "execute" => job.copy.state = "RUNNING"
  /\ job.kind # "none" => theses < MaxTheses
  /\ job.by \in Calls => call[job.by].op = "workflow" /\ call[job.by].phase = "execute"

RInv ==
  /\ Sound(run, theses)
  /\ listed \cup cut \subseteq ReviewIds
  /\ theses \in 0 .. MaxTheses
  /\ JobOK
  /\ CallsOK
  /\ overlapped \in BOOLEAN

-----------------------------------------------------------------------------
(* Sequences of records.                                                   *)

\* What a list with one more record holds.
LEMMA AppendHolds ==
  ASSUME NEW S, NEW s \in Seq(S), NEW e \in S
  PROVE  /\ Append(s, e) \in Seq(S)
         /\ Entries(Append(s, e)) = Entries(s) \cup {e}
         /\ Ids(Append(s, e)) = Ids(s) \cup {e.id}
         /\ Range(Append(s, e)) = Range(s) \cup {e}
<1>1. /\ Append(s, e) \in Seq(S)
      /\ DOMAIN Append(s, e) = DOMAIN s \cup {Len(s) + 1}
      /\ \A i \in DOMAIN s : Append(s, e)[i] = s[i]
      /\ Append(s, e)[Len(s) + 1] = e
  BY AppendProperties, LenProperties
<1>. QED
  BY <1>1 DEF Entries, Ids, Range

\* A record with a new id leaves all ids different.
LEMMA AppendOnce ==
  ASSUME NEW S, NEW s \in Seq(S), NEW e \in S, e.id \notin Ids(s),
         \A i, j \in DOMAIN s : s[i].id = s[j].id => i = j
  PROVE  \A i, j \in DOMAIN Append(s, e) :
           Append(s, e)[i].id = Append(s, e)[j].id => i = j
<1>1. /\ DOMAIN Append(s, e) = DOMAIN s \cup {Len(s) + 1}
      /\ \A i \in DOMAIN s : Append(s, e)[i] = s[i]
      /\ Append(s, e)[Len(s) + 1] = e
  BY AppendProperties, LenProperties
<1>2. \A i \in DOMAIN s : s[i].id # e.id
  BY DEF Ids
<1>. QED
  BY <1>1, <1>2

LEMMA EmptyHolds ==
  Entries(<< >>) = {} /\ Ids(<< >>) = {} /\ Range(<< >>) = {}
BY DEF Entries, Ids, Range

\* A record of a list has its id among the list's.
LEMMA EntryId == \A s : \A v \in Entries(s) : v.id \in Ids(s)
BY DEF Entries, Ids

LEMMA EntryType == \A S : \A s \in Seq(S) : Entries(s) \subseteq S
BY ElementOfSeq, LenProperties DEF Entries

-----------------------------------------------------------------------------
(* What the record_* methods save is sound, if what they read was.         *)

LEMMA NewRunSound == \A n \in Nat : Sound(NewRun, n)
<1>. SUFFICES ASSUME NEW n \in Nat PROVE Sound(NewRun, n)
  OBVIOUS
<1>1. NewRun \in Payload
  BY BodyAssumption, EmptySeq DEF NewRun, NoMemo, NoArtifact, Payload, Artifacts
<1>. QED
  BY <1>1, EmptyHolds
  DEF NewRun, NoMemo, Sound, MemoCurrent, ReviewsOnce, DecisionsGrounded, Bounded

\* An artifact changes no review, no decision and no status.
LEMMA ArtifactSound ==
  ASSUME NEW n \in Nat, NEW r, Sound(r, n), NEW a \in Artifacts
  PROVE  Sound(WithFinancial(r, a), n) /\ Sound(WithValuation(r, a), n)
<1>1. r \in Payload /\ a.hash \in Hashes
  BY DEF Sound, Artifacts
<1>2. Sound(WithFinancial(r, a), n)
  <2>. DEFINE t == WithFinancial(r, a)
  <2>1. t \in Payload
    BY <1>1 DEF WithFinancial, Payload
  <2>2. /\ t.state = r.state /\ t.thesis = r.thesis /\ t.review = r.review
        /\ t.memo.status = r.memo.status /\ t.memo.red = r.memo.red /\ t.memo.ic = r.memo.ic
        /\ t.red = r.red /\ t.ic = r.ic /\ t.decisions = r.decisions
    BY <1>1 DEF WithFinancial, Payload
  <2>. QED
    BY <2>1, <2>2 DEF Sound, MemoCurrent, ReviewsOnce, DecisionsGrounded, Bounded
<1>3. Sound(WithValuation(r, a), n)
  <2>. DEFINE t == WithValuation(r, a)
  <2>1. t \in Payload
    BY <1>1 DEF WithValuation, Payload
  <2>2. /\ t.state = r.state /\ t.thesis = r.thesis /\ t.review = r.review
        /\ t.memo.status = r.memo.status /\ t.memo.red = r.memo.red /\ t.memo.ic = r.memo.ic
        /\ t.red = r.red /\ t.ic = r.ic /\ t.decisions = r.decisions
    BY <1>1 DEF WithValuation, Payload
  <2>. QED
    BY <2>1, <2>2 DEF Sound, MemoCurrent, ReviewsOnce, DecisionsGrounded, Bounded
<1>. QED
  BY <1>2, <1>3

\* Reopening a thesis takes its approval back, from thesis and memo alike.
LEMMA ReopenedSound ==
  ASSUME NEW n \in Nat, NEW r, Sound(r, n), r.thesis # 0
  PROVE  Sound(Reopened(r), n)
<1>. DEFINE t == Reopened(r)
<1>1. r \in Payload
  BY DEF Sound
<1>2. t \in Payload
  BY <1>1 DEF Reopened, Payload
<1>3. /\ t.state = r.state /\ t.thesis = r.thesis /\ t.review = "NEEDS_REVIEW"
      /\ t.memo.status \in {"READY_FOR_REVIEW", "DRAFT"}
      /\ t.memo.red = r.memo.red /\ t.memo.ic = r.memo.ic
      /\ t.red = r.red /\ t.ic = r.ic /\ t.decisions = r.decisions
  BY <1>1 DEF Reopened, Payload
<1>. HIDE DEF t
<1>. QED
  BY <1>2, <1>3 DEF t, Sound, MemoCurrent, ReviewsOnce, DecisionsGrounded, Bounded

\* A red-team review of the current thesis is listed in its memo.
LEMMA RedSound ==
  ASSUME NEW n \in Nat, NEW r, Sound(r, n), NEW v \in RedReviews, ~RefusesRed(r, v)
  PROVE  Sound(WithRed(r, v), n)
<1>. DEFINE t == [r EXCEPT !.red = Append(@, v), !.memo.red = Append(@, v.id)]
<1>1. /\ r \in Payload /\ r.red \in Seq(RedReviews) /\ r.memo.red \in Seq(ReviewIds)
      /\ v.id \in ReviewIds
  BY DEF Sound, Payload, RedReviews
<1>2. r.thesis # 0 /\ v.thesis = r.thesis /\ v.id \notin Ids(r.red)
  BY DEF RefusesRed
<1>3. /\ t.state = r.state /\ t.thesis = r.thesis /\ t.review = r.review
      /\ t.memo.status = r.memo.status
      /\ t.memo.red = Append(r.memo.red, v.id) /\ t.memo.ic = r.memo.ic
      /\ t.red = Append(r.red, v) /\ t.ic = r.ic /\ t.decisions = r.decisions
  BY <1>1 DEF Payload
<1>4. t \in Payload
  BY <1>1, AppendHolds DEF Payload
<1>. HIDE DEF t
<1>5. /\ Entries(t.red) = Entries(r.red) \cup {v}
      /\ Range(t.memo.red) = Range(r.memo.red) \cup {v.id}
  BY <1>1, <1>3, AppendHolds
<1>6. MemoCurrent(t)
  BY <1>2, <1>3, <1>5 DEF Sound, MemoCurrent
<1>7. ReviewsOnce(t)
  <2>1. ReviewsOnce(r)
    BY DEF Sound
  <2>2. \A i, j \in DOMAIN r.red : r.red[i].id = r.red[j].id => i = j
    BY <2>1 DEF ReviewsOnce
  <2>3. \A i, j \in DOMAIN Append(r.red, v) :
          Append(r.red, v)[i].id = Append(r.red, v)[j].id => i = j
    BY <1>1, <1>2, <2>2, AppendOnce
  <2>. QED
    BY <1>3, <2>1, <2>3 DEF ReviewsOnce
<1>8. DecisionsGrounded(t) /\ Bounded(t, n)
  BY <1>2, <1>3, <1>5 DEF Sound, DecisionsGrounded, Bounded
<1>9. Sound(t, n)
  BY <1>4, <1>6, <1>7, <1>8 DEF Sound
<1>10. WithRed(r, v) = IF v.outcome = "REQUIRES_RESEARCH" THEN Reopened(t) ELSE t
  BY DEF WithRed, t
<1>. QED
  BY <1>2, <1>3, <1>9, <1>10, ReopenedSound

\* A committee review of the current thesis is cited by no decision yet.
LEMMA IcSound ==
  ASSUME NEW n \in Nat, NEW r, Sound(r, n), NEW v \in IcReviews, ~RefusesIc(r, v)
  PROVE  Sound(WithIc(r, v), n)
<1>. DEFINE t == WithIc(r, v)
<1>1. /\ r \in Payload /\ r.ic \in Seq(IcReviews) /\ r.memo.ic \in Seq(ReviewIds)
      /\ v.id \in ReviewIds
  BY DEF Sound, Payload, IcReviews
<1>2. r.thesis # 0 /\ v.thesis = r.thesis /\ v.id \notin Ids(r.ic)
  BY DEF RefusesIc
<1>3. /\ t.state = r.state /\ t.thesis = r.thesis /\ t.review = r.review
      /\ t.memo.status = r.memo.status
      /\ t.memo.ic = Append(r.memo.ic, v.id) /\ t.memo.red = r.memo.red
      /\ t.ic = Append(r.ic, v) /\ t.red = r.red /\ t.decisions = r.decisions
  BY <1>1 DEF WithIc, Payload
<1>4. t \in Payload
  BY <1>1, AppendHolds DEF WithIc, Payload
<1>. HIDE DEF t
<1>5. /\ Entries(t.ic) = Entries(r.ic) \cup {v}
      /\ Ids(t.ic) = Ids(r.ic) \cup {v.id}
      /\ Range(t.memo.ic) = Range(r.memo.ic) \cup {v.id}
  BY <1>1, <1>3, AppendHolds
<1>6. MemoCurrent(t)
  BY <1>2, <1>3, <1>5 DEF Sound, MemoCurrent
<1>7. ReviewsOnce(t)
  <2>1. ReviewsOnce(r)
    BY DEF Sound
  <2>2. \A i, j \in DOMAIN r.ic : r.ic[i].id = r.ic[j].id => i = j
    BY <2>1 DEF ReviewsOnce
  <2>3. \A i, j \in DOMAIN Append(r.ic, v) :
          Append(r.ic, v)[i].id = Append(r.ic, v)[j].id => i = j
    BY <1>1, <1>2, <2>2, AppendOnce
  <2>. QED
    BY <1>3, <2>1, <2>3 DEF ReviewsOnce
<1>8. DecisionsGrounded(t)
  BY <1>2, <1>3, <1>5 DEF Sound, DecisionsGrounded
<1>9. Bounded(t, n)
  BY <1>2, <1>3, <1>5 DEF Sound, Bounded
<1>. QED
  BY <1>4, <1>6, <1>7, <1>8, <1>9 DEF Sound, t

\* A decision that was not refused cites reviews of its target; an approval is
\* of the thesis of a completed run.
LEMMA DecisionSound ==
  ASSUME NEW n \in Nat, NEW r, Sound(r, n), NEW d \in DecisionRecords, ~RefusesDecision(r, d)
  PROVE  Sound(WithDecision(r, d), n)
<1>. DEFINE t == [r EXCEPT !.decisions = Append(@, d)]
<1>1. r \in Payload /\ r.decisions \in Seq(DecisionRecords)
  BY DEF Sound, Payload
<1>2. /\ t.state = r.state /\ t.thesis = r.thesis /\ t.review = r.review
      /\ t.memo = r.memo /\ t.ic = r.ic /\ t.red = r.red
      /\ t.decisions = Append(r.decisions, d)
  BY <1>1 DEF Payload
<1>3. t \in Payload
  BY <1>1, AppendHolds DEF Payload
<1>. HIDE DEF t
<1>4. Entries(t.decisions) = Entries(r.decisions) \cup {d}
  BY <1>1, <1>2, AppendHolds
<1>5. /\ d.reviews \subseteq Ids(r.ic)
      /\ d.action = "APPROVE_THESIS" =>
           /\ r.thesis # 0 /\ d.target = r.thesis /\ r.state = "COMPLETED"
           /\ \A v \in Entries(r.ic) : v.id \in d.reviews => v.thesis = d.target
  BY DEF RefusesDecision
<1>6. MemoCurrent(t) /\ ReviewsOnce(t) /\ Bounded(t, n)
  BY <1>2 DEF Sound, MemoCurrent, ReviewsOnce, Bounded
<1>7. DecisionsGrounded(t)
  BY <1>2, <1>4, <1>5 DEF Sound, DecisionsGrounded
<1>8. Sound(t, n)
  BY <1>3, <1>6, <1>7 DEF Sound
<1>9. CASE d.action = "APPROVE_THESIS"
  <2>. DEFINE u == [t EXCEPT !.review = "APPROVED", !.memo.status = "APPROVED"]
  <2>1. u \in Payload
    BY <1>3 DEF Payload
  <2>2. /\ u.state = r.state /\ u.thesis = r.thesis /\ u.review = "APPROVED"
        /\ u.memo.status = "APPROVED" /\ u.memo.red = t.memo.red /\ u.memo.ic = t.memo.ic
        /\ u.ic = t.ic /\ u.red = t.red /\ u.decisions = t.decisions
    BY <1>2, <1>3 DEF Payload
  <2>3. WithDecision(r, d) = u
    BY <1>9 DEF WithDecision, t
  <2>. HIDE DEF u
  <2>4. MemoCurrent(u) /\ ReviewsOnce(u) /\ Bounded(u, n)
    BY <1>2, <1>5, <1>6, <1>9, <2>2 DEF MemoCurrent, ReviewsOnce, Bounded
  <2>5. DecisionsGrounded(u)
    BY <1>2, <1>4, <1>5, <1>7, <1>9, <2>2 DEF DecisionsGrounded
  <2>. QED
    BY <2>1, <2>3, <2>4, <2>5 DEF Sound
<1>10. CASE d.action = "REJECT_THESIS" /\ r.thesis # 0
  <2>1. WithDecision(r, d) = Reopened(t)
    BY <1>2, <1>10 DEF WithDecision, Reopened, t
  <2>. QED
    BY <1>2, <1>8, <1>10, <2>1, ReopenedSound
<1>11. CASE d.action # "APPROVE_THESIS" /\ ~(d.action = "REJECT_THESIS" /\ r.thesis # 0)
  <2>1. WithDecision(r, d) = t
    BY <1>11 DEF WithDecision, t
  <2>. QED
    BY <1>8, <2>1
<1>. QED
  BY <1>9, <1>10, <1>11

-----------------------------------------------------------------------------
(* What executions and replans save is sound, too.                         *)

\* Reviews are of numbered theses.
LEMMA ReviewThesis ==
  ASSUME NEW r \in Payload
  PROVE  /\ \A v \in Entries(r.red) : v.thesis \in Nat
         /\ \A v \in Entries(r.ic) : v.thesis \in Nat
<1>1. r.red \in Seq(RedReviews) /\ r.ic \in Seq(IcReviews)
  BY DEF Payload
<1>2. Entries(r.red) \subseteq RedReviews /\ Entries(r.ic) \subseteq IcReviews
  BY <1>1, EntryType
<1>. QED
  BY <1>2 DEF RedReviews, IcReviews

\* More theses are known to a copy than it needs.
LEMMA SoundLater ==
  ASSUME NEW n \in Nat, NEW m \in Nat, n <= m, NEW r, Sound(r, n)
  PROVE  Sound(r, m)
<1>1. /\ r.thesis \in Nat
      /\ \A v \in Entries(r.red) : v.thesis \in Nat
      /\ \A v \in Entries(r.ic) : v.thesis \in Nat
  BY ReviewThesis DEF Sound, Payload
<1>. QED
  BY <1>1 DEF Sound, Bounded

LEMMA RunningSound ==
  ASSUME NEW n \in Nat, NEW r, Sound(r, n), r.state \in {"CREATED", "RUNNING"}
  PROVE  Sound([r EXCEPT !.state = "RUNNING"], n)
<1>. DEFINE t == [r EXCEPT !.state = "RUNNING"]
<1>1. r \in Payload
  BY DEF Sound
<1>2. t \in Payload
  BY <1>1 DEF Payload
<1>3. /\ t.thesis = r.thesis /\ t.review = r.review /\ t.memo = r.memo
      /\ t.red = r.red /\ t.ic = r.ic /\ t.decisions = r.decisions
  BY <1>1 DEF Payload
<1>4. r.thesis = 0 /\ r.review # "APPROVED"
  BY <1>1 DEF Sound, MemoCurrent, DecisionsGrounded
<1>. HIDE DEF t
<1>. QED
  BY <1>2, <1>3, <1>4 DEF t, Sound, MemoCurrent, ReviewsOnce, DecisionsGrounded, Bounded

\* The next thesis has an empty memo and no reviews.
LEMMA SynthesizedSound ==
  ASSUME NEW n \in Nat, NEW r, Sound(r, n), NEW collected \in SUBSET Evidence,
         NEW state \in {"COMPLETED", "PARTIAL"}, NEW review \in {"PENDING_REVIEW", "NEEDS_REVIEW"}
  PROVE  Sound(Synthesized(r, state, review, collected, n + 1), n + 1)
<1>. DEFINE t == Synthesized(r, state, review, collected, n + 1)
<1>1. r \in Payload
  BY DEF Sound
<1>2. NoMemo \in [status: {"NONE"}, fin: Hashes, val: Hashes,
                  red: Seq(ReviewIds), ic: Seq(ReviewIds)]
  BY BodyAssumption, EmptySeq DEF NoMemo
<1>3. t \in Payload
  <2>. DEFINE m == [NoMemo EXCEPT !.status = IF state = "COMPLETED" THEN "READY_FOR_REVIEW" ELSE "DRAFT"]
  <2>1. m \in [status: {"NONE", "DRAFT", "READY_FOR_REVIEW", "APPROVED"}, fin: Hashes, val: Hashes,
               red: Seq(ReviewIds), ic: Seq(ReviewIds)]
    BY <1>2
  <2>2. t = [r EXCEPT !.state = state, !.review = review, !.evidence = @ \cup collected,
                      !.thesis = n + 1, !.memo = m]
    BY DEF Synthesized
  <2>3. /\ r.evidence \cup collected \in SUBSET Evidence /\ n + 1 \in Nat
        /\ r.fin \in Artifacts /\ r.val \in Artifacts /\ r.red \in Seq(RedReviews)
        /\ r.ic \in Seq(IcReviews) /\ r.decisions \in Seq(DecisionRecords)
    BY <1>1 DEF Payload
  <2>4. t = [state |-> state, thesis |-> n + 1, review |-> review, memo |-> m,
             evidence |-> r.evidence \cup collected, fin |-> r.fin, val |-> r.val,
             red |-> r.red, ic |-> r.ic, decisions |-> r.decisions]
    BY <1>1, <2>2 DEF Payload
  <2>. HIDE DEF m, t
  <2>. QED
    BY <2>1, <2>3, <2>4 DEF Payload
<1>4. /\ t.state \in {"COMPLETED", "PARTIAL"} /\ t.thesis = n + 1
      /\ t.review \in {"PENDING_REVIEW", "NEEDS_REVIEW"}
      /\ t.memo.status \in {"READY_FOR_REVIEW", "DRAFT"}
      /\ t.memo.red = << >> /\ t.memo.ic = << >>
      /\ t.red = r.red /\ t.ic = r.ic /\ t.decisions = r.decisions
  BY <1>1 DEF Synthesized, NoMemo, Payload
<1>5. /\ \A v \in Entries(r.red) : v.thesis \in Nat /\ v.thesis <= n
      /\ \A v \in Entries(r.ic) : v.thesis \in Nat /\ v.thesis <= n
  BY <1>1, ReviewThesis DEF Sound, Bounded
<1>. HIDE DEF t
<1>6. MemoCurrent(t)
  BY <1>4, <1>5, EmptyHolds DEF MemoCurrent
<1>7. ReviewsOnce(t) /\ DecisionsGrounded(t) /\ Bounded(t, n + 1)
  BY <1>4, <1>5 DEF Sound, ReviewsOnce, DecisionsGrounded, Bounded
<1>. QED
  BY <1>3, <1>6, <1>7 DEF Sound, t

\* A failed execution has no thesis, as it began without one.
LEMMA FailedSound ==
  ASSUME NEW n \in Nat, NEW r, Sound(r, n), r.state = "RUNNING", NEW collected \in SUBSET Evidence
  PROVE  Sound([r EXCEPT !.state = "FAILED", !.evidence = @ \cup collected], n)
<1>. DEFINE t == [r EXCEPT !.state = "FAILED", !.evidence = @ \cup collected]
<1>1. r \in Payload
  BY DEF Sound
<1>2. t \in Payload
  BY <1>1 DEF Payload
<1>3. /\ t.thesis = r.thesis /\ t.review = r.review /\ t.memo = r.memo
      /\ t.red = r.red /\ t.ic = r.ic /\ t.decisions = r.decisions
  BY <1>1 DEF Payload
<1>4. r.thesis = 0 /\ r.review # "APPROVED"
  BY <1>1 DEF Sound, MemoCurrent, DecisionsGrounded
<1>. HIDE DEF t
<1>. QED
  BY <1>2, <1>3, <1>4 DEF t, Sound, MemoCurrent, ReviewsOnce, DecisionsGrounded, Bounded

LEMMA ReplannedSound ==
  ASSUME NEW n \in Nat, NEW r, Sound(r, n), NEW kept \in SUBSET Evidence
  PROVE  Sound(Replanned(r, kept), n)
<1>. DEFINE t == Replanned(r, kept)
<1>1. r \in Payload /\ NoMemo \in [status: {"NONE"}, fin: Hashes, val: Hashes,
                                    red: Seq(ReviewIds), ic: Seq(ReviewIds)]
  BY BodyAssumption, EmptySeq DEF NoMemo, Sound
<1>2. t \in Payload
  BY <1>1 DEF Replanned, Payload
<1>3. /\ t.thesis = 0 /\ t.review = "NONE" /\ t.memo.status = "NONE"
      /\ t.red = r.red /\ t.ic = r.ic /\ t.decisions = r.decisions
  BY <1>1 DEF Replanned, NoMemo, Payload
<1>. HIDE DEF t
<1>. QED
  BY <1>2, <1>3 DEF t, Sound, MemoCurrent, ReviewsOnce, DecisionsGrounded, Bounded

-----------------------------------------------------------------------------
(* Calls and their steps.                                                  *)

LEMMA RolesApart ==
  \A role \in Range(Roles) :
    role \notin {"none", "workflow", "begin", "fin", "val", "red", "decide", "evaluate"}
BY RoleAssumption

LEMMA RouteSteps ==
  ASSUME NEW op \in Endpoints
  PROVE  /\ Route(op) \in Seq(Steps)
         /\ 1 \in DOMAIN Route(op)
         /\ \A i \in DOMAIN Route(op) : Route(op)[i] = "begin" => 2 \in DOMAIN Route(op)
         /\ op = "workflow" => 2 \in DOMAIN Route(op)
<1>1. Roles \in Seq(Range(Roles))
  BY RoleAssumption, LenProperties, IsASeq DEF Range
<1>2. Roles \in Seq(Steps)
  BY <1>1, LenProperties, IsASeq DEF Steps
<1>3. CASE op = "workflow"
  <2>. DEFINE a == <<"begin", "fin", "val", "red">>
              z == <<"decide", "evaluate">>
  <2>1. Route(op) = (a \o Roles) \o z
    BY <1>3, RolesApart DEF Route
  <2>2. a \in Seq(Steps) /\ z \in Seq(Steps) /\ Len(a) = 4 /\ Len(z) = 2
    BY DEF Steps
  <2>. HIDE DEF a, z
  <2>3. a \o Roles \in Seq(Steps) /\ Len(a \o Roles) = Len(a) + Len(Roles)
    BY <1>2, <2>2, ConcatProperties, Zenon
  <2>4. /\ (a \o Roles) \o z \in Seq(Steps)
        /\ Len((a \o Roles) \o z) = Len(a \o Roles) + Len(z)
    BY <2>2, <2>3, ConcatProperties, Zenon
  <2>5. Len(Roles) \in Nat
    BY <1>2, LenProperties
  <2>. QED
    BY <2>1, <2>2, <2>3, <2>4, <2>5, LenProperties
<1>4. CASE op \in {"red"} \cup Range(Roles)
  <2>1. Route(op) = <<"begin", op>>
    BY <1>4, RolesApart DEF Route
  <2>. QED
    BY <1>4, <2>1 DEF Steps
<1>5. CASE op \in {"fin", "val", "decide"}
  <2>1. Route(op) = <<op>>
    BY <1>5, RolesApart DEF Route
  <2>. QED
    BY <1>5, <2>1 DEF Steps
<1>. QED
  BY <1>3, <1>4, <1>5 DEF Endpoints

LEMMA AtStep ==
  ASSUME CallsOK, NEW c \in InFlight
  PROVE  /\ c \in Calls /\ Underway(c)
         /\ call[c] \in CallRecords /\ call[c].op \in Endpoints
         /\ At(c) \in Steps
<1>1. c \in Calls /\ call[c].op # "none" /\ Underway(c) /\ call[c] \in CallRecords
  BY DEF InFlight, CallsOK
<1>2. call[c].op \in Endpoints
  BY <1>1 DEF CallRecords
<1>3. At(c) \in Steps
  BY <1>1, <1>2, RouteSteps, ElementOfSeq, LenProperties DEF At, Underway
<1>. QED
  BY <1>1, <1>2, <1>3

LEMMA IdType ==
  ASSUME NEW c \in Calls, NEW what \in Range(Roles) \cup {"red", "decide"}
  PROVE  Id(c, what) \in ReviewIds
BY DEF Id, ReviewIds

\* What a call is to record is of its type.
LEMMA ItemType ==
  ASSUME CallsOK, NEW c \in InFlight
  PROVE  /\ At(c) \in {"fin", "val"} => Item(c) \in Artifacts
         /\ At(c) = "red" => Item(c) \in RedReviews
         /\ At(c) = "decide" => Item(c) = Decision(c) /\ Item(c) \in DecisionRecords
         /\ At(c) \in Range(Roles) => Item(c) \in IcReviews
<1>. DEFINE q == call[c].request
            s == At(c)
<1>1. /\ c \in Calls /\ call[c] \in CallRecords /\ q \in RequestBodies
  BY AtStep DEF Underway
<1>2. /\ q.fin \in Artifacts /\ q.val \in Artifacts /\ q.red \in SUBSET Evidence
      /\ q.ic \in SUBSET Evidence /\ q.outcome \in STRING /\ q.action \in DecisionActions
  BY <1>1 DEF RequestBodies
<1>3. call[c].first.thesis \in Nat /\ call[c].target \in Nat /\ call[c].seen \subseteq ReviewIds
  BY <1>1 DEF CallRecords, Payload
<1>4. ASSUME s \in {"fin", "val"} PROVE Item(c) \in Artifacts
  BY <1>2, <1>4 DEF Item
<1>5. ASSUME s = "red" PROVE Item(c) \in RedReviews
  <2>1. Item(c) = [id |-> Id(c, "red"), thesis |-> call[c].first.thesis,
                   evidence |-> q.red, outcome |-> q.outcome]
    BY <1>5 DEF Item
  <2>. QED
    BY <1>1, <1>2, <1>3, <2>1, IdType DEF RedReviews
<1>6. ASSUME s = "decide" PROVE Item(c) = Decision(c) /\ Item(c) \in DecisionRecords
  <2>1. Item(c) = Decision(c)
    BY <1>6 DEF Item, Decision, Id, Workflow
  <2>2. /\ <<IF call[c].op = "workflow" THEN None ELSE c, "decide">> \in ReviewIds
        /\ {<<None, i>> : i \in Range(Roles)} \subseteq ReviewIds
    BY <1>1 DEF ReviewIds
  <2>3. Decision(c) \in DecisionRecords
    BY <1>2, <1>3, <2>2 DEF Decision, DecisionRecords
  <2>. QED
    BY <2>1, <2>3
<1>7. ASSUME s \in Range(Roles) PROVE Item(c) \in IcReviews
  <2>1. Item(c) = [id |-> Id(c, s), thesis |-> call[c].first.thesis, role |-> s,
                   evidence |-> q.ic]
    BY <1>7, RolesApart DEF Item
  <2>. QED
    BY <1>1, <1>2, <1>3, <1>7, <2>1, IdType DEF IcReviews
<1>. QED
  BY <1>4, <1>5, <1>6, <1>7

\* What a call saves is sound.
LEMMA WithSound ==
  ASSUME CallsOK, theses \in Nat, NEW c \in InFlight, At(c) \notin {"begin", "evaluate"},
         ~Refuses(call[c].copy, c)
  PROVE  Sound(With(call[c].copy, c), theses)
<1>. DEFINE r == call[c].copy
<1>1. Sound(r, theses)
  BY AtStep DEF CallsOK
<1>2. CASE At(c) = "fin"
  <2>1. With(r, c) = WithFinancial(r, Item(c))
    BY <1>2 DEF With
  <2>. QED
    BY <1>1, <1>2, <2>1, ItemType, ArtifactSound
<1>3. CASE At(c) = "val"
  <2>1. With(r, c) = WithValuation(r, Item(c))
    BY <1>3 DEF With
  <2>. QED
    BY <1>1, <1>3, <2>1, ItemType, ArtifactSound
<1>4. CASE At(c) = "red"
  <2>1. With(r, c) = WithRed(r, Item(c)) /\ ~RefusesRed(r, Item(c))
    BY <1>4 DEF With, Refuses
  <2>. QED
    BY <1>1, <1>4, <2>1, ItemType, RedSound
<1>5. CASE At(c) = "decide"
  <2>1. With(r, c) = WithDecision(r, Item(c)) /\ ~RefusesDecision(r, Item(c))
    BY <1>5 DEF With, Refuses
  <2>. QED
    BY <1>1, <1>5, <2>1, ItemType, DecisionSound
<1>6. CASE At(c) \in Range(Roles)
  <2>1. With(r, c) = WithIc(r, Item(c)) /\ ~RefusesIc(r, Item(c))
    BY <1>6, RolesApart DEF With, Refuses
  <2>. QED
    BY <1>1, <1>6, <2>1, ItemType, IcSound
<1>. QED
  BY <1>2, <1>3, <1>4, <1>5, <1>6, AtStep DEF Steps

-----------------------------------------------------------------------------
(* Steps of calls.                                                         *)

LEMMA IdleType ==
  ASSUME NEW answer \in {"none", "done", "refused", "lost", "passed", "failed"}
  PROVE  Idle(answer) \in CallRecords
<1>1. NewRun \in Payload
  BY NewRunSound DEF Sound
<1>. QED
  BY <1>1 DEF Idle, CallRecords

LEMMA IdsType == \A r \in Payload : Ids(r.ic) \subseteq ReviewIds
<1>. SUFFICES ASSUME NEW r \in Payload PROVE Ids(r.ic) \subseteq ReviewIds
  OBVIOUS
<1>1. r.ic \in Seq(IcReviews)
  BY DEF Payload
<1>2. Entries(r.ic) \subseteq IcReviews
  BY <1>1, EntryType
<1>. QED
  BY <1>2 DEF Ids, Entries, IcReviews

\* A call is where it was if its record is.
LEMMA Untouched ==
  ASSUME NEW d \in Calls, call'[d] = call[d], Underway(d)
  PROVE  Underway(d)'
BY DEF Underway, At, Decision

LEMMA CallsKept ==
  ASSUME CallsOK, theses \in Nat, theses' \in Nat, theses <= theses',
         NEW c \in Calls, NEW k \in CallRecords, call' = [call EXCEPT ![c] = k],
         Sound(k.copy, theses'), k.op # "none" => Underway(c)'
  PROVE  CallsOK'
<1>1. call' \in [Calls -> CallRecords]
  BY DEF CallsOK
<1>2. ASSUME NEW d \in Calls PROVE Sound(call'[d].copy, theses')
  <2>1. CASE d = c
    BY <2>1 DEF CallsOK
  <2>2. CASE d # c
    BY <2>2, SoundLater DEF CallsOK
  <2>. QED
    BY <2>1, <2>2
<1>3. ASSUME NEW d \in Calls, call'[d].op # "none" PROVE Underway(d)'
  <2>1. CASE d = c
    BY <1>3, <2>1 DEF CallsOK
  <2>2. CASE d # c
    BY <1>3, <2>2, Untouched DEF CallsOK
  <2>. QED
    BY <2>1, <2>2
<1>. QED
  BY <1>1, <1>2, <1>3 DEF CallsOK

LEMMA EndKept ==
  ASSUME CallsOK, theses \in Nat, UNCHANGED theses, NEW c \in Calls,
         NEW answer \in {"none", "done", "refused", "lost", "passed", "failed"}, End(c, answer)
  PROVE  CallsOK'
<1>. DEFINE k == Idle(answer)
<1>1. k.op = "none" /\ Sound(k.copy, theses') /\ k \in CallRecords
  BY NewRunSound, IdleType DEF Idle
<1>2. theses' \in Nat /\ theses <= theses' /\ call' = [call EXCEPT ![c] = k]
  BY DEF End
<1>. HIDE DEF k
<1>. QED
  BY <1>1, <1>2, CallsKept

LEMMA GotoKept ==
  ASSUME CallsOK, theses \in Nat, UNCHANGED theses, NEW c \in InFlight,
         NEW phase \in {"read", "get", "execute"}, Goto(c, phase),
         At(c) = "begin" => phase \in {"read", "execute"},
         phase = "execute" => Workflow(c)
  PROVE  CallsOK'
<1>. DEFINE k == [call[c] EXCEPT !.phase = phase, !.copy = NewRun]
<1>1. c \in Calls /\ Underway(c) /\ call[c] \in CallRecords /\ NewRun \in Payload
  BY AtStep, NewRunSound DEF Sound
<1>2. /\ k \in CallRecords
      /\ k.op = call[c].op /\ k.request = call[c].request /\ k.step = call[c].step
      /\ k.phase = phase /\ k.copy = NewRun
  BY <1>1 DEF CallRecords
<1>3. call' = [call EXCEPT ![c] = k] /\ call'[c] = k
  BY <1>1 DEF Goto, CallsOK
<1>. HIDE DEF k
<1>4. Underway(c)'
  BY <1>1, <1>2, <1>3 DEF Underway, At, Workflow
<1>5. Sound(k.copy, theses') /\ theses' \in Nat /\ theses <= theses'
  BY <1>2, NewRunSound
<1>. QED
  BY <1>1, <1>2, <1>3, <1>4, <1>5, CallsKept

LEMMA AdvanceKept ==
  ASSUME CallsOK, theses \in Nat, UNCHANGED theses, NEW c \in InFlight, Advance(c)
  PROVE  CallsOK'
<1>. DEFINE route == Route(call[c].op)
            step == call[c].step + 1
<1>1. /\ c \in Calls /\ Underway(c) /\ call[c] \in CallRecords /\ NewRun \in Payload
      /\ call[c].op \in Endpoints
  BY AtStep, NewRunSound DEF Sound
<1>2. CASE step > Len(route)
  BY <1>1, <1>2, EndKept DEF Advance
<1>3. CASE ~(step > Len(route))
  <2>. DEFINE check == Workflow(c) /\ route[step] \in {"red"} \cup Range(Roles)
              phase == IF check THEN "check" ELSE "read"
              k == [call[c] EXCEPT !.step = step, !.copy = NewRun, !.phase = phase]
  <2>1. call' = [call EXCEPT ![c] = k] /\ call'[c] = k
    BY <1>1, <1>3 DEF Advance, CallsOK
  <2>2. phase \in {"check", "read"} /\ (route[step] = "begin" => phase = "read")
    BY RolesApart
  <2>3. route \in Seq(Steps) /\ step \in DOMAIN route
    BY <1>1, <1>3, RouteSteps, LenProperties DEF CallRecords, Underway
  <2>4. step \in Nat
    BY <1>1 DEF CallRecords
  <2>. HIDE DEF phase
  <2>5. /\ k \in CallRecords
        /\ k.op = call[c].op /\ k.request = call[c].request /\ k.step = step
        /\ k.phase = phase /\ k.copy = NewRun
    BY <1>1, <2>2, <2>4 DEF CallRecords
  <2>. HIDE DEF k, step
  <2>6. Underway(c)'
    BY <1>1, <2>1, <2>2, <2>3, <2>5 DEF Underway, At
  <2>7. Sound(k.copy, theses') /\ theses' \in Nat /\ theses <= theses'
    BY <2>5, NewRunSound
  <2>. QED
    BY <1>1, <2>1, <2>5, <2>6, <2>7, CallsKept
<1>. QED
  BY <1>2, <1>3

LEMMA OneMoves ==
  ASSUME CallsOK, NEW c \in Calls,
         (\E answer : End(c, answer)) \/ (\E phase : Goto(c, phase)) \/ Advance(c)
  PROVE  \A d \in Calls : d # c => call'[d] = call[d]
BY DEF End, Goto, Advance, CallsOK

\* The job's call has not moved.
LEMMA JobKept ==
  ASSUME JobOK, UNCHANGED <<job, theses>>, NEW c \in Calls, job.by # c,
         \A d \in Calls : d # c => call'[d] = call[d]
  PROVE  JobOK'
BY DEF JobOK

\* A call that is not being executed is not the job's.
LEMMA NotTheJob ==
  ASSUME JobOK, NEW c \in Calls, call[c].phase # "execute"
  PROVE  job.by # c
BY DEF JobOK

\* The run stays: it is the calls' business.
LEMMA RunStays ==
  ASSUME RInv, CallsOK', JobOK', UNCHANGED <<run, listed, cut, theses>>, overlapped' \in BOOLEAN
  PROVE  RInv'
BY DEF RInv

LEMMA SubmitKept == ASSUME RInv, NEW c \in Calls, Submit(c) PROVE RInv'
<1>1. PICK body \in Bodies :
        call' = [call EXCEPT ![c].op = body[1], ![c].request = body[2],
                             ![c].target = run.thesis, ![c].seen = Ids(run.ic)]
  BY DEF Submit
<1>. DEFINE k == [call[c] EXCEPT !.op = body[1], !.request = body[2],
                                 !.target = run.thesis, !.seen = Ids(run.ic)]
<1>2. /\ body[1] \in Endpoints /\ body[2] \in RequestBodies /\ body[2] \in {b[2] : b \in Bodies}
      /\ run.thesis \in Nat /\ Ids(run.ic) \subseteq ReviewIds
  BY BodyAssumption, IdsType DEF RInv, Sound, Payload
<1>3. /\ call[c] \in CallRecords /\ call[c].step = 1 /\ call[c].phase = "read"
      /\ call[c].copy = NewRun
  <2>1. call[c] \in CallRecords /\ call[c] = Idle("none")
    BY DEF Submit, RInv, CallsOK
  <2>. QED
    BY <2>1 DEF Idle
<1>4. call' = [call EXCEPT ![c] = k] /\ call'[c] = k
  BY <1>1 DEF RInv, CallsOK
<1>5. /\ k \in CallRecords
      /\ k.op = body[1] /\ k.request = body[2] /\ k.step = 1 /\ k.phase = "read" /\ k.copy = NewRun
  BY <1>2, <1>3 DEF CallRecords
<1>. HIDE DEF k
<1>6. Underway(c)'
  BY <1>2, <1>4, <1>5, RouteSteps DEF Underway, At
<1>7. /\ theses \in Nat /\ theses' = theses /\ Sound(k.copy, theses')
      /\ theses' \in Nat /\ theses <= theses'
  BY <1>5, BoundAssumption, NewRunSound DEF Submit, RInv
<1>8. CallsOK'
  BY <1>4, <1>5, <1>6, <1>7, CallsKept DEF RInv
<1>9. JobOK'
  BY <1>3, <1>4, JobKept, NotTheJob DEF Submit, RInv, CallsOK
<1>. QED
  BY <1>8, <1>9, RunStays DEF Submit, RInv

\* Steps that read only, and end the call or send it on.
LEMMA ReadingKept ==
  ASSUME RInv, NEW c \in InFlight, call[c].phase # "execute",
         UNCHANGED <<run, listed, cut, theses, job, overlapped>>,
         \/ \E answer \in {"done", "refused", "lost", "passed", "failed"} : End(c, answer)
         \/ \E phase \in {"read", "get"} :
              Goto(c, phase) /\ (At(c) = "begin" => phase = "read")
         \/ Goto(c, "execute") /\ Workflow(c)
         \/ Advance(c)
  PROVE  RInv'
<1>1. c \in Calls /\ theses \in Nat
  BY BoundAssumption DEF RInv, InFlight
<1>2. CallsOK'
  BY <1>1, EndKept, GotoKept, AdvanceKept DEF RInv
<1>3. JobOK'
  BY <1>1, OneMoves, JobKept, NotTheJob DEF RInv
<1>. QED
  BY <1>2, <1>3, RunStays DEF RInv

LEMMA BeginKept == ASSUME RInv, NEW c \in Calls, Begin(c) PROVE RInv'
<1>1. /\ c \in InFlight /\ At(c) = "begin" /\ call[c].phase = "read"
      /\ UNCHANGED <<run, listed, cut, theses, job, overlapped>>
  BY DEF Begin
<1>2. \/ Goto(c, "execute") /\ Workflow(c)
      \/ call' = [call EXCEPT ![c].first = run, ![c].step = 2]
      \/ End(c, "refused")
  BY DEF Begin
<1>3. CASE (Goto(c, "execute") /\ Workflow(c)) \/ End(c, "refused")
  BY <1>1, <1>3, ReadingKept
<1>4. CASE call' = [call EXCEPT ![c].first = run, ![c].step = 2]
  <2>. DEFINE k == [call[c] EXCEPT !.first = run, !.step = 2]
  <2>1. /\ Underway(c) /\ call[c] \in CallRecords /\ call[c].op \in Endpoints
        /\ run \in Payload /\ Sound(call[c].copy, theses) /\ theses \in Nat
    BY <1>1, AtStep, BoundAssumption DEF RInv, CallsOK, Sound
  <2>2. call' = [call EXCEPT ![c] = k] /\ call'[c] = k
    BY <1>4 DEF RInv, CallsOK
  <2>3. /\ k \in CallRecords
        /\ k.op = call[c].op /\ k.request = call[c].request /\ k.step = 2 /\ k.phase = "read"
        /\ k.copy = call[c].copy
    BY <1>1, <2>1 DEF CallRecords
  <2>. HIDE DEF k
  <2>4. 2 \in DOMAIN Route(call[c].op)
    BY <1>1, <2>1, RouteSteps DEF At, Underway
  <2>5. Underway(c)'
    BY <2>1, <2>2, <2>3, <2>4 DEF Underway, At
  <2>6. Sound(k.copy, theses') /\ theses' \in Nat /\ theses <= theses'
    BY <1>1, <2>1, <2>3
  <2>7. CallsOK'
    BY <2>1, <2>2, <2>3, <2>5, <2>6, CallsKept DEF RInv
  <2>8. JobOK'
    BY <1>1, <2>2, JobKept, NotTheJob DEF RInv, CallsOK
  <2>. QED
    BY <1>1, <2>7, <2>8, RunStays DEF RInv
<1>. QED
  BY <1>2, <1>3, <1>4

LEMMA CheckKept == ASSUME RInv, NEW c \in Calls, Check(c) PROVE RInv'
BY ReadingKept DEF Check

LEMMA SkipKept == ASSUME RInv, NEW c \in Calls, Skip(c) PROVE RInv'
BY ReadingKept DEF Skip, Recorded

LEMMA GetKept == ASSUME RInv, NEW c \in Calls, Get(c) PROVE RInv'
BY ReadingKept DEF Get

LEMMA EvaluateKept == ASSUME RInv, NEW c \in Calls, Evaluate(c) PROVE RInv'
<1>1. \E answer \in {"done", "refused", "lost", "passed", "failed"} : End(c, answer)
  BY DEF Evaluate
<1>. QED
  BY <1>1, ReadingKept DEF Evaluate

LEMMA ReadKept == ASSUME RInv, NEW c \in Calls, Read(c) PROVE RInv'
<1>. DEFINE k == [call[c] EXCEPT !.copy = run, !.phase = "write"]
<1>1. /\ c \in InFlight /\ At(c) # "begin" /\ call[c].phase = "read"
      /\ UNCHANGED <<run, listed, cut, theses, job, overlapped>>
      /\ call' = [call EXCEPT ![c].copy = run, ![c].phase = "write"]
  BY DEF Read
<1>2. /\ Underway(c) /\ call[c] \in CallRecords /\ Sound(run, theses) /\ run \in Payload
      /\ theses \in Nat
  BY <1>1, AtStep, BoundAssumption DEF RInv, Sound
<1>3. call' = [call EXCEPT ![c] = k] /\ call'[c] = k
  BY <1>1 DEF RInv, CallsOK
<1>4. /\ k \in CallRecords
      /\ k.op = call[c].op /\ k.request = call[c].request /\ k.step = call[c].step
      /\ k.phase = "write" /\ k.copy = run
  BY <1>2 DEF CallRecords
<1>. HIDE DEF k
<1>5. Underway(c)'
  BY <1>1, <1>2, <1>3, <1>4 DEF Underway, At
<1>6. Sound(k.copy, theses') /\ theses' \in Nat /\ theses <= theses'
  BY <1>1, <1>2, <1>4
<1>7. CallsOK'
  BY <1>2, <1>3, <1>4, <1>5, <1>6, CallsKept DEF RInv
<1>8. JobOK'
  BY <1>1, <1>3, JobKept, NotTheJob DEF RInv, CallsOK
<1>. QED
  BY <1>1, <1>7, <1>8, RunStays DEF RInv

\* A write puts what a sound copy became in place of the run.
LEMMA WriteKept == ASSUME RInv, NEW c \in Calls, Write(c) PROVE RInv'
<1>1. /\ c \in InFlight /\ At(c) # "evaluate" /\ call[c].phase = "write"
      /\ UNCHANGED <<cut, theses, job, overlapped>>
  BY DEF Write
<1>2. /\ Underway(c) /\ call[c] \in CallRecords /\ theses \in Nat /\ At(c) # "begin"
      /\ CallsOK /\ JobOK /\ job.by # c
  BY <1>1, AtStep, NotTheJob, BoundAssumption DEF RInv, Underway
<1>3. CASE Refuses(call[c].copy, c)
  <2>1. End(c, "refused") /\ UNCHANGED <<run, listed>>
    BY <1>3 DEF Write
  <2>. QED
    BY <1>1, <2>1, ReadingKept
<1>4. CASE ~Refuses(call[c].copy, c) /\ At(c) = "decide"
  <2>. DEFINE k == [call[c] EXCEPT !.phase = "save"]
  <2>1. /\ call' = [call EXCEPT ![c].phase = "save"] /\ UNCHANGED run
        /\ listed' = IF theses > 0 THEN listed \cup {Item(c).id} ELSE listed
    BY <1>4 DEF Write
  <2>2. Item(c) = Decision(c) /\ Item(c).id \in ReviewIds
    BY <1>1, <1>2, <1>4, ItemType DEF DecisionRecords
  <2>3. ~RefusesDecision(call[c].copy, Decision(c))
    BY <1>4, <2>2 DEF Refuses
  <2>4. call' = [call EXCEPT ![c] = k] /\ call'[c] = k
    BY <2>1 DEF RInv, CallsOK
  <2>5. /\ k \in CallRecords
        /\ k.op = call[c].op /\ k.request = call[c].request /\ k.step = call[c].step
        /\ k.target = call[c].target /\ k.seen = call[c].seen
        /\ k.phase = "save" /\ k.copy = call[c].copy
    BY <1>2 DEF CallRecords
  <2>. HIDE DEF k
  <2>6. Underway(c)'
    BY <1>2, <1>4, <2>3, <2>4, <2>5 DEF Underway, At, Decision
  <2>7. Sound(k.copy, theses') /\ theses' \in Nat /\ theses <= theses'
    BY <1>1, <1>2, <2>5 DEF CallsOK
  <2>8. CallsOK'
    BY <1>2, <2>4, <2>5, <2>6, <2>7, CallsKept
  <2>9. JobOK'
    BY <1>1, <1>2, <2>4, JobKept DEF CallsOK
  <2>. QED
    BY <1>1, <2>1, <2>2, <2>8, <2>9 DEF RInv
<1>5. CASE ~Refuses(call[c].copy, c) /\ At(c) # "decide"
  <2>1. run' = With(call[c].copy, c) /\ Recorded(c) /\ UNCHANGED listed
    BY <1>5 DEF Write
  <2>2. Sound(run', theses')
    BY <1>1, <1>2, <1>5, <2>1, WithSound
  <2>3. Goto(c, "get") \/ Advance(c)
    BY <2>1 DEF Recorded
  <2>4. CallsOK'
    BY <1>1, <1>2, <2>3, GotoKept, AdvanceKept
  <2>5. JobOK'
    BY <1>1, <1>2, <2>3, OneMoves, JobKept
  <2>. QED
    BY <1>1, <2>1, <2>2, <2>4, <2>5 DEF RInv
<1>. QED
  BY <1>3, <1>4, <1>5

LEMMA SaveKept == ASSUME RInv, NEW c \in Calls, Save(c) PROVE RInv'
<1>1. /\ c \in InFlight /\ call[c].phase = "save" /\ Advance(c)
      /\ run' = With(call[c].copy, c) /\ UNCHANGED <<listed, theses, job, overlapped>>
      /\ cut' \subseteq cut
  BY DEF Save
<1>2. /\ CallsOK /\ JobOK /\ Underway(c) /\ theses \in Nat /\ job.by # c
  BY <1>1, AtStep, NotTheJob, BoundAssumption DEF RInv
<1>3. At(c) = "decide" /\ ~Refuses(call[c].copy, c)
  BY <1>1, <1>2, ItemType DEF Underway, Refuses
<1>4. Sound(run', theses')
  BY <1>1, <1>2, <1>3, WithSound
<1>5. CallsOK' /\ JobOK'
  BY <1>1, <1>2, AdvanceKept, OneMoves, JobKept
<1>. QED
  BY <1>1, <1>4, <1>5 DEF RInv

-----------------------------------------------------------------------------
(* Lost calls, executions and replans.                                     *)

LEMMA NoJobOK ==
  ASSUME theses \in Nat, job' = NoJob, UNCHANGED theses
  PROVE  JobOK'
<1>1. Sound(NewRun, theses') /\ NewRun \in Payload
  BY NewRunSound DEF Sound
<1>. QED
  BY <1>1, CallAssumption DEF JobOK, NoJob

\* A decision's id is its call's.
LEMMA DecideId ==
  ASSUME NEW c \in Calls, At(c) = "decide"
  PROVE  Item(c).id = Id(c, "decide") /\ Item(c).id \in ReviewIds
BY DEF Item, Id, ReviewIds

LEMMA LoseKept == ASSUME RInv, NEW c \in Calls, Lose(c) PROVE RInv'
<1>1. /\ End(c, "lost") /\ theses \in Nat /\ UNCHANGED <<run, listed, theses, overlapped>>
      /\ job' = IF job.by = c THEN NoJob ELSE job
  BY BoundAssumption DEF Lose, RInv
<1>4. cut' \subseteq ReviewIds
  <2>1. CASE call[c].phase = "save"
    <3>1. At(c) = "decide" /\ call[c].op \in Endpoints
      BY <2>1, AtStep DEF Lose, RInv, Underway
    <3>2. Item(c).id \in ReviewIds
      BY <3>1, DecideId
    <3>. QED
      BY <2>1, <3>2 DEF Lose, RInv
  <2>2. CASE call[c].phase # "save"
    BY <2>2 DEF Lose, RInv
  <2>. QED
    BY <2>1, <2>2
<1>2. CallsOK'
  BY <1>1, EndKept DEF RInv
<1>3. JobOK'
  <2>1. CASE job.by = c
    BY <1>1, <2>1, NoJobOK
  <2>2. CASE job.by # c
    BY <1>1, <2>2, OneMoves, JobKept DEF RInv
  <2>. QED
    BY <2>1, <2>2
<1>. QED
  BY <1>1, <1>2, <1>3, <1>4 DEF RInv

\* Nothing moves but the run and its job.
LEMMA CallsStay ==
  ASSUME CallsOK, theses \in Nat, theses' \in Nat, theses <= theses', UNCHANGED call
  PROVE  CallsOK'
<1>1. \A c \in Calls : Underway(c) => Underway(c)'
  BY Untouched
<1>. QED
  BY <1>1, SoundLater DEF CallsOK

LEMMA StartKept ==
  ASSUME RInv, NEW by \in Calls \cup {None}, StartExecution(by), run.state \in {"CREATED", "RUNNING"},
         UNCHANGED <<listed, cut, theses, call>>, overlapped' \in BOOLEAN,
         by \in Calls => call[by].op = "workflow" /\ call[by].phase = "execute"
  PROVE  RInv'
<1>. DEFINE copy == [run EXCEPT !.state = "RUNNING"]
<1>1. job' = [kind |-> "execute", by |-> by, copy |-> copy] /\ run' = copy /\ theses < MaxTheses
  BY DEF StartExecution
<1>2. Sound(copy, theses) /\ theses \in Nat
  BY RunningSound, BoundAssumption DEF RInv
<1>3. copy \in Payload /\ copy.state = "RUNNING"
  BY <1>2 DEF Sound, RInv, Payload
<1>. HIDE DEF copy
<1>4. JobOK'
  BY <1>1, <1>2, <1>3 DEF JobOK
<1>5. CallsOK'
  BY <1>2, CallsStay DEF RInv
<1>. QED
  BY <1>1, <1>2, <1>4, <1>5 DEF RInv

LEMMA ExecuteForKept == ASSUME RInv, NEW c \in Calls, ExecuteFor(c) PROVE RInv'
<1>1. /\ c \in InFlight /\ call[c].phase = "execute" /\ job.by # c
      /\ UNCHANGED <<listed, cut, theses, overlapped>>
  BY DEF ExecuteFor
<1>2. /\ Underway(c) /\ call[c] \in CallRecords /\ call[c].op = "workflow"
      /\ Sound(call[c].copy, theses) /\ theses \in Nat /\ run \in Payload
  BY <1>1, AtStep, BoundAssumption DEF RInv, CallsOK, Underway, Sound
<1>3. CASE run.state \in {"CREATED", "RUNNING"} /\ StartExecution(c) /\ UNCHANGED call
  BY <1>1, <1>2, <1>3, StartKept DEF RInv
<1>4. CASE End(c, "refused") /\ UNCHANGED <<run, job>>
  <2>1. CallsOK' /\ JobOK'
    BY <1>1, <1>2, <1>4, EndKept, OneMoves, JobKept DEF RInv
  <2>. QED
    BY <1>1, <1>4, <2>1, RunStays DEF RInv
<1>5. CASE /\ call' = [call EXCEPT ![c].first = run, ![c].step = 2, ![c].phase = "read"]
           /\ UNCHANGED <<run, job>>
  <2>. DEFINE k == [call[c] EXCEPT !.first = run, !.step = 2, !.phase = "read"]
  <2>1. call' = [call EXCEPT ![c] = k] /\ call'[c] = k
    BY <1>5 DEF RInv, CallsOK
  <2>2. /\ k \in CallRecords
        /\ k.op = "workflow" /\ k.request = call[c].request /\ k.step = 2 /\ k.phase = "read"
        /\ k.copy = call[c].copy
    BY <1>2 DEF CallRecords
  <2>. HIDE DEF k
  <2>3. Underway(c)'
    BY <1>2, <2>1, <2>2, RouteSteps DEF Underway, At, Endpoints
  <2>4. Sound(k.copy, theses') /\ theses' \in Nat /\ theses <= theses'
    BY <1>1, <1>2, <2>2
  <2>5. CallsOK'
    BY <1>2, <2>1, <2>2, <2>3, <2>4, CallsKept DEF RInv
  <2>6. JobOK'
    BY <1>1, <1>5, <2>1, JobKept DEF RInv, CallsOK
  <2>. QED
    BY <1>1, <1>5, <2>5, <2>6, RunStays DEF RInv
<1>. QED
  BY <1>3, <1>4, <1>5 DEF ExecuteFor

LEMMA ExecuteKept == ASSUME RInv, Execute PROVE RInv'
<1>1. overlapped' \in BOOLEAN
  BY DEF Execute, RInv
<1>. QED
  BY <1>1, StartKept, CallAssumption DEF Execute

\* The last write of an execution; the workflow it ran for goes on with it.
LEMMA FinishExecutionKept == ASSUME RInv, FinishExecution PROVE RInv'
<1>1. /\ job.kind = "execute" /\ job' = NoJob /\ UNCHANGED <<listed, cut, overlapped>>
      /\ Sound(job.copy, theses) /\ job.copy.state = "RUNNING" /\ theses < MaxTheses
      /\ theses \in Nat
  <2>1. job.kind = "execute" /\ job' = NoJob /\ UNCHANGED <<listed, cut, overlapped>>
    BY DEF FinishExecution
  <2>2. JobOK /\ theses \in Nat
    BY BoundAssumption DEF RInv
  <2>. QED
    BY <2>1, <2>2 DEF JobOK
<1>2. Sound(run', theses') /\ theses' \in 0 .. MaxTheses /\ theses <= theses'
  <2>1. CASE /\ theses' = theses + 1
             /\ \E collected \in Harvests :
                  \E s \in {<<"COMPLETED", "PENDING_REVIEW">>, <<"PARTIAL", "PENDING_REVIEW">>,
                            <<"PARTIAL", "NEEDS_REVIEW">>} :
                     run' = Synthesized(job.copy, s[1], s[2], collected, theses + 1)
    <3>1. PICK collected \in Harvests, state \in {"COMPLETED", "PARTIAL"},
               review \in {"PENDING_REVIEW", "NEEDS_REVIEW"} :
            run' = Synthesized(job.copy, state, review, collected, theses + 1)
      BY <2>1
    <3>. QED
      BY <1>1, <2>1, <3>1, HarvestAssumption, BoundAssumption, SynthesizedSound
  <2>2. CASE /\ \E collected \in Harvests :
                  run' = [job.copy EXCEPT !.state = "FAILED", !.evidence = @ \cup collected]
             /\ UNCHANGED theses
    <3>1. PICK collected \in Harvests :
            run' = [job.copy EXCEPT !.state = "FAILED", !.evidence = @ \cup collected]
      BY <2>2
    <3>2. collected \in SUBSET Evidence
      BY HarvestAssumption
    <3>3. Sound(run', theses)
      BY <1>1, <3>1, <3>2, FailedSound
    <3>4. theses' = theses /\ theses \in 0 .. MaxTheses
      BY <2>2 DEF RInv
    <3>. QED
      BY <1>1, <3>3, <3>4
  <2>. QED
    BY <2>1, <2>2 DEF FinishExecution
<1>3. theses' \in Nat /\ run' \in Payload
  BY <1>2, BoundAssumption DEF Sound
<1>4. JobOK'
  <2>1. Sound(NewRun, theses') /\ NewRun \in Payload
    BY <1>3, NewRunSound DEF Sound
  <2>. QED
    BY <1>1, <2>1, CallAssumption DEF JobOK, NoJob
<1>5. CallsOK'
  <2>1. CASE job.by \notin Calls
    <3>1. call' = call
      BY <2>1 DEF FinishExecution, RInv, CallsOK
    <3>. QED
      BY <1>1, <1>2, <1>3, <3>1, CallsStay DEF RInv
  <2>2. CASE job.by \in Calls
    <3>0. PICK c \in Calls : c = job.by
      BY <2>2
    <3>. DEFINE k == IF run'.state = "COMPLETED"
                     THEN [call[c] EXCEPT !.first = run', !.step = 2, !.phase = "read"]
                     ELSE Idle("refused")
    <3>1. call' = [call EXCEPT ![c] = k] /\ call'[c] = k
      BY <3>0 DEF FinishExecution, RInv, CallsOK
    <3>2. c \in InFlight /\ call[c].op = "workflow"
      BY <3>0 DEF RInv, JobOK, InFlight
    <3>3. Underway(c) /\ call[c] \in CallRecords /\ Sound(call[c].copy, theses)
      BY <3>2, AtStep DEF RInv, CallsOK
    <3>4. k \in CallRecords
      BY <1>3, <3>3, IdleType DEF CallRecords
    <3>5. Sound(k.copy, theses')
      <4>1. CASE run'.state = "COMPLETED"
        BY <1>1, <1>2, <1>3, <3>3, <4>1, SoundLater DEF CallRecords
      <4>2. CASE run'.state # "COMPLETED"
        BY <1>3, <4>2, NewRunSound DEF Idle
      <4>. QED
        BY <4>1, <4>2
    <3>6. ASSUME k.op # "none" PROVE Underway(c)'
      <4>1. run'.state = "COMPLETED"
        BY <3>6 DEF Idle
      <4>2. /\ k.op = "workflow" /\ k.request = call[c].request /\ k.step = 2
            /\ k.phase = "read"
        BY <3>2, <3>3, <4>1 DEF CallRecords
      <4>3. /\ call'[c].op = "workflow" /\ call'[c].request = call[c].request
            /\ call'[c].step = 2 /\ call'[c].phase = "read"
        BY <3>1, <4>2
      <4>4. 2 \in DOMAIN Route("workflow")
        BY RouteSteps DEF Endpoints
      <4>5. call[c].request \in RequestBodies
        BY <3>3 DEF Underway
      <4>. QED
        BY <4>3, <4>4, <4>5 DEF Underway, At
    <3>. HIDE DEF k
    <3>. QED
      BY <1>1, <1>2, <1>3, <3>1, <3>4, <3>5, <3>6, CallsKept DEF RInv
  <2>. QED
    BY <2>1, <2>2
<1>. QED
  BY <1>1, <1>2, <1>4, <1>5 DEF RInv

LEMMA ReadForReplanKept == ASSUME RInv, ReadForReplan PROVE RInv'
<1>1. /\ job' = [kind |-> "replan", by |-> None, copy |-> run] /\ theses < MaxTheses
      /\ UNCHANGED <<run, listed, cut, theses, call>>
      /\ overlapped' \in BOOLEAN /\ theses \in Nat
  BY BoundAssumption DEF ReadForReplan, RInv
<1>2. JobOK'
  BY <1>1, CallAssumption DEF JobOK, RInv, Sound
<1>3. CallsOK'
  BY <1>1, CallsStay DEF RInv
<1>. QED
  BY <1>1, <1>2, <1>3, RunStays

LEMMA ReplanKept == ASSUME RInv, Replan PROVE RInv'
<1>1. PICK kept \in Harvests : run' = Replanned(job.copy, kept \cap job.copy.evidence)
  BY DEF Replan
<1>2. /\ job' = NoJob /\ UNCHANGED <<listed, cut, theses, call, overlapped>> /\ theses \in Nat
      /\ Sound(job.copy, theses)
  BY BoundAssumption DEF Replan, RInv, JobOK
<1>3. kept \cap job.copy.evidence \in SUBSET Evidence
  BY HarvestAssumption
<1>4. Sound(run', theses')
  BY <1>1, <1>2, <1>3, ReplannedSound
<1>5. JobOK' /\ CallsOK'
  BY <1>2, NoJobOK, CallsStay DEF RInv
<1>. QED
  BY <1>2, <1>4, <1>5 DEF RInv

LEMMA LoseJobKept == ASSUME RInv, LoseJob PROVE RInv'
<1>1. /\ job' = NoJob /\ theses \in Nat /\ UNCHANGED <<run, listed, cut, theses, call, overlapped>>
  BY BoundAssumption DEF LoseJob, RInv
<1>2. JobOK' /\ CallsOK'
  BY <1>1, NoJobOK, CallsStay DEF RInv
<1>. QED
  BY <1>1, <1>2, RunStays DEF RInv

-----------------------------------------------------------------------------
LEMMA Initially == Init => RInv
<1>. SUFFICES ASSUME Init PROVE RInv
  OBVIOUS
<1>1. /\ Sound(NewRun, 0) /\ NewRun \in Payload
  BY NewRunSound DEF Sound
<1>2. JobOK
  BY <1>1, CallAssumption DEF Init, JobOK, NoJob
<1>3. Idle("none") \in CallRecords /\ Idle("none").op = "none" /\ Idle("none").copy = NewRun
  BY IdleType DEF Idle
<1>4. CallsOK
  BY <1>1, <1>3 DEF Init, CallsOK
<1>5. run = NewRun /\ theses = 0 /\ listed = {} /\ cut = {} /\ overlapped = FALSE
  BY DEF Init
<1>6. Sound(run, theses) /\ theses \in 0 .. MaxTheses
  BY <1>1, <1>5, BoundAssumption
<1>. QED
  BY <1>2, <1>4, <1>5, <1>6 DEF RInv

LEMMA Step == RInv /\ [Next]_vars => RInv'
<1>. SUFFICES ASSUME RInv, [Next]_vars PROVE RInv'
  OBVIOUS
<1>1. ASSUME NEW c \in Calls,
             \/ Submit(c) \/ Begin(c) \/ Check(c) \/ Skip(c) \/ Read(c) \/ Write(c) \/ Save(c)
             \/ Get(c) \/ Evaluate(c) \/ Lose(c) \/ ExecuteFor(c)
      PROVE  RInv'
  BY <1>1, SubmitKept, BeginKept, CheckKept, SkipKept, ReadKept, WriteKept, SaveKept, GetKept,
     EvaluateKept, LoseKept, ExecuteForKept
<1>2. CASE Execute \/ FinishExecution \/ ReadForReplan \/ Replan \/ LoseJob
  BY <1>2, ExecuteKept, FinishExecutionKept, ReadForReplanKept, ReplanKept, LoseJobKept
<1>3. CASE UNCHANGED vars
  <2>1. theses \in Nat
    BY BoundAssumption DEF RInv
  <2>2. CallsOK'
    BY <1>3, <2>1, CallsStay DEF RInv, vars
  <2>3. JobOK'
    BY <1>3 DEF RInv, JobOK, vars
  <2>. QED
    BY <1>3, <2>2, <2>3, RunStays DEF RInv, vars
<1>. QED
  BY <1>1, <1>2, <1>3 DEF Next

-----------------------------------------------------------------------------
\* The inductive invariant: the run and every copy of it are sound, and calls
\* are on their routes.
THEOREM Invariance == Spec => []RInv
BY Initially, Step, PTL DEF Spec

\* All variables keep their types.
THEOREM TypeCorrect == Spec => []TypeOK
<1>1. RInv => TypeOK
  BY DEF RInv, CallsOK, JobOK, Sound, TypeOK
<1>. QED
  BY <1>1, Invariance, PTL

\* The record_* methods, executions and replans leave a consistent payload,
\* whichever of them overlap and however often they overwrite each other.
THEOREM Consistency == Spec => []PayloadConsistent
<1>1. RInv => PayloadConsistent
  BY DEF RInv, Sound, PayloadConsistent
<1>. QED
  BY <1>1, Invariance, PTL

-----------------------------------------------------------------------------
(* Calls one after the other.                                              *)

\* The parts that a call has behind it.
Past(c) == {Route(call[c].op)[j] : j \in 2 .. call[c].step - 1}

MvpReviews == {<<None, i>> : i \in Range(Roles)}

DecisionsOnce(r) ==
  \A i, j \in DOMAIN r.decisions : r.decisions[i].id = r.decisions[j].id => i = j

\* Records of a run as their authors leave them: artifacts and the reviews of
\* the current thesis rest on evidence that is there, and the workflow's
\* decision cites all of its reviews.
Linked(r) ==
  /\ r.fin.evidence \cup r.val.evidence \subseteq Qualified
  /\ \A v \in Entries(r.red) :
       v.thesis # 0 /\ (v.thesis = r.thesis => v.evidence \subseteq r.evidence \cap Counter)
  /\ \A v \in Entries(r.ic) : v.id[2] = v.role
  /\ \A d \in Entries(r.decisions) : d.id = <<None, "decide">> => d.reviews = MvpReviews

\* A workflow that goes on with its run: what it found, and what it recorded
\* since, is stored, and nobody else decided meanwhile.
Following(c) ==
  /\ run.state = "COMPLETED"
  /\ StoredParts(call[c].first) \cup Past(c) \subseteq StoredParts(run)
  /\ call[c].phase = "get" => At(c) \in StoredParts(run)
  /\ At(c) # "evaluate" => run.decisions = call[c].first.decisions
  /\ At(c) = "decide" /\ call[c].phase # "read" => <<None, "decide">> \notin Ids(run.decisions)

\* What the one call in flight knows of the run.
InTouch(c) ==
  /\ call[c].answer = "none"
  /\ \E body \in Bodies : call[c].request = body[2]
  /\ call[c].phase \in {"write", "save"} => call[c].copy = run
  /\ Workflow(c) /\ At(c) # "begin" => Following(c)
  /\ job.kind # "none" => job.kind = "execute" /\ job.by = c

\* The decisions whose second write is to come.
Saving == {Id(c, "decide") : c \in {d \in InFlight : call[d].phase = "save"}}

Sequential ==
  /\ \A c, d \in InFlight : c = d
  /\ \A c \in InFlight : InTouch(c)
  /\ job.kind # "none" => job.copy = run
  /\ Linked(run) /\ DecisionsOnce(run)
  /\ \A c \in Calls : call[c].answer = "none" => <<c, "decide">> \notin Ids(run.decisions)
  /\ listed \subseteq Ids(run.decisions) \cup Saving \cup cut

OneByOne == ~overlapped => Sequential

\* The workflow decides after its reviews, and evaluates after its decision.
LEMMA WorkflowRoute ==
  ASSUME NEW i \in DOMAIN Route("workflow")
  PROVE  LET route == Route("workflow")
             before == {route[j] : j \in 2 .. i - 1}
         IN /\ route[i] = "decide" =>
                 /\ {"fin", "val", "red"} \cup Range(Roles) \subseteq before
                 /\ i + 1 \in DOMAIN route /\ route[i + 1] = "evaluate"
            /\ route[i] = "evaluate" => {"fin", "val", "red", "decide"} \cup Range(Roles) \subseteq before
<1>. DEFINE a == <<"begin", "fin", "val", "red">>
            z == <<"decide", "evaluate">>
            n == Len(Roles)
            route == Route("workflow")
<1>1. route = (a \o Roles) \o z
  BY RolesApart DEF Route
<1>2. Roles \in Seq(Steps) /\ n \in Nat /\ DOMAIN Roles = 1 .. n
  <2>1. Roles \in Seq(Range(Roles))
    BY RoleAssumption, LenProperties, IsASeq DEF Range
  <2>. QED
    BY <2>1, LenProperties, IsASeq DEF Steps
<1>3. /\ a \in Seq(Steps) /\ z \in Seq(Steps)
      /\ Len(a) = 4 /\ a[1] = "begin" /\ a[2] = "fin" /\ a[3] = "val" /\ a[4] = "red"
      /\ Len(z) = 2 /\ z[1] = "decide" /\ z[2] = "evaluate"
  <2>1. a \in Seq(Steps) /\ z \in Seq(Steps)
    BY DEF Steps
  <2>2. Len(a) = 4 /\ a[1] = "begin" /\ a[2] = "fin" /\ a[3] = "val" /\ a[4] = "red"
    OBVIOUS
  <2>3. Len(z) = 2 /\ z[1] = "decide" /\ z[2] = "evaluate"
    OBVIOUS
  <2>. QED
    BY <2>1, <2>2, <2>3
<1>. HIDE DEF a, z
<1>4. /\ a \o Roles \in Seq(Steps) /\ Len(a \o Roles) = 4 + n
      /\ \A j \in 1 .. 4 + n : (a \o Roles)[j] = IF j <= 4 THEN a[j] ELSE Roles[j - 4]
  <2>1. /\ a \o Roles \in Seq(Steps) /\ Len(a \o Roles) = Len(a) + Len(Roles)
        /\ \A j \in 1 .. Len(a) + Len(Roles) :
             (a \o Roles)[j] = IF j <= Len(a) THEN a[j] ELSE Roles[j - Len(a)]
    BY <1>2, <1>3, ConcatProperties, Zenon
  <2>. QED
    BY <1>3, <2>1, Zenon
<1>5. /\ route \in Seq(Steps) /\ Len(route) = 6 + n
      /\ \A j \in 1 .. 6 + n : route[j] = IF j <= 4 + n THEN (a \o Roles)[j] ELSE z[j - (4 + n)]
  <2>. DEFINE b == a \o Roles
  <2>1. b \in Seq(Steps) /\ Len(b) = 4 + n
    BY <1>4
  <2>2. route = b \o z
    BY <1>1
  <2>3. (4 + n) + 2 = 6 + n
    BY <1>2
  <2>. HIDE DEF b, route, n
  <2>4. /\ b \o z \in Seq(Steps) /\ Len(b \o z) = Len(b) + Len(z)
        /\ \A j \in 1 .. Len(b) + Len(z) : (b \o z)[j] = IF j <= Len(b) THEN b[j] ELSE z[j - Len(b)]
    BY <1>3, <2>1, ConcatProperties, Zenon
  <2>5. /\ route \in Seq(Steps) /\ Len(route) = 6 + n
        /\ \A j \in 1 .. 6 + n : route[j] = IF j <= 4 + n THEN b[j] ELSE z[j - (4 + n)]
    BY <1>3, <2>1, <2>2, <2>3, <2>4, Zenon
  <2>. QED
    BY <2>5, Zenon DEF b
<1>. HIDE DEF route, n
<1>6. /\ DOMAIN route = 1 .. 6 + n
      /\ route[1] = "begin" /\ route[2] = "fin" /\ route[3] = "val" /\ route[4] = "red"
      /\ route[n + 5] = "decide" /\ route[n + 6] = "evaluate"
  <2>1. DOMAIN route = 1 .. 6 + n
    BY <1>5, LenProperties
  <2>2. \A j \in 1 .. 4 : j <= 4 + n /\ j \in 1 .. 4 + n /\ j \in 1 .. 6 + n /\ j <= 4
    BY <1>2
  <2>3. ASSUME NEW j \in 1 .. 4 PROVE route[j] = a[j]
    <3>1. route[j] = (a \o Roles)[j]
      BY <1>5, <2>2, Zenon
    <3>2. (a \o Roles)[j] = a[j]
      BY <1>4, <2>2, Zenon
    <3>. QED
      BY <3>1, <3>2
  <2>4. /\ n + 5 \in 1 .. 6 + n /\ ~(n + 5 <= 4 + n) /\ (n + 5) - (4 + n) = 1
        /\ n + 6 \in 1 .. 6 + n /\ ~(n + 6 <= 4 + n) /\ (n + 6) - (4 + n) = 2
    BY <1>2
  <2>5. route[n + 5] = z[1] /\ route[n + 6] = z[2]
    BY <1>5, <2>4
  <2>. QED
    BY <1>3, <2>1, <2>3, <2>5
<1>7. \A k \in 1 .. n : route[k + 4] = Roles[k]
  <2>. SUFFICES ASSUME NEW k \in 1 .. n PROVE route[k + 4] = Roles[k]
    OBVIOUS
  <2>1. /\ k + 4 \in 1 .. 4 + n /\ k + 4 \in 1 .. 6 + n
        /\ k + 4 <= 4 + n /\ ~(k + 4 <= 4) /\ (k + 4) - 4 = k
    BY <1>2
  <2>. QED
    BY <1>4, <1>5, <2>1
<1>8. \A role \in Range(Roles) : \E k \in 1 .. n : role = Roles[k]
  BY <1>2 DEF Range
<1>9. \A k \in 1 .. n : Roles[k] \in Range(Roles)
  BY <1>2 DEF Range
<1>10. \A j \in 5 .. n + 4 : route[j] \in Range(Roles)
  <2>. SUFFICES ASSUME NEW j \in 5 .. n + 4 PROVE route[j] \in Range(Roles)
    OBVIOUS
  <2>1. j - 4 \in 1 .. n /\ (j - 4) + 4 = j
    BY <1>2
  <2>. QED
    BY <1>7, <1>9, <2>1
<1>11. ASSUME route[i] \in {"decide", "evaluate"} PROVE i \in {n + 5, n + 6}
  <2>1. i \in 1 .. 6 + n /\ n \in Nat
    BY <1>2, <1>6 DEF route
  <2>2. i \notin 5 .. n + 4
    BY <1>10, <1>11, RolesApart
  <2>3. i \notin 1 .. 4
    <3>1. i = 1 \/ i = 2 \/ i = 3 \/ i = 4 \/ i > 4
      BY <2>1
    <3>. QED
      BY <1>6, <1>11, <3>1
  <2>. QED
    BY <2>1, <2>2, <2>3
<1>12. ASSUME NEW m \in {n + 5, n + 6}
       PROVE {"fin", "val", "red"} \cup Range(Roles) \subseteq {route[j] : j \in 2 .. m - 1}
  <2>1. n \in Nat
    BY <1>2
  <2>2. /\ 2 \in 2 .. m - 1 /\ 3 \in 2 .. m - 1 /\ 4 \in 2 .. m - 1
        /\ \A k \in 1 .. n : k + 4 \in 2 .. m - 1
    BY <2>1
  <2>. QED
    BY <1>6, <1>7, <1>8, <2>2
<1>13. CASE i = n + 5
  <2>1. route[i] = "decide" /\ i + 1 \in DOMAIN route /\ route[i + 1] = "evaluate"
    <3>1. n \in Nat
      BY <1>2
    <3>2. i + 1 = n + 6 /\ n + 6 \in 1 .. 6 + n
      BY <1>13, <3>1
    <3>. QED
      BY <1>6, <1>13, <3>2
  <2>. QED
    BY <1>12, <1>13, <2>1 DEF route
<1>14. CASE i = n + 6
  <2>1. n \in Nat
    BY <1>2
  <2>2. n + 5 \in 2 .. i - 1 /\ route[n + 5] = "decide" /\ route[i] = "evaluate"
    BY <1>6, <1>14, <2>1
  <2>. QED
    BY <1>12, <1>14, <2>2 DEF route
<1>. QED
  BY <1>11, <1>13, <1>14 DEF route

\* Only the workflow evaluates.
LEMMA OnlyWorkflowEvaluates ==
  ASSUME NEW op \in Endpoints, NEW i \in DOMAIN Route(op), Route(op)[i] = "evaluate"
  PROVE  op = "workflow"
<1>1. CASE op \in {"red"} \cup Range(Roles)
  <2>1. Route(op) = <<"begin", op>>
    BY <1>1, RolesApart DEF Route
  <2>. QED
    BY <1>1, <2>1, RolesApart
<1>2. CASE op \in {"fin", "val", "decide"}
  <2>1. Route(op) = <<op>>
    BY <1>2, RolesApart DEF Route
  <2>. QED
    BY <1>2, <2>1
<1>. QED
  BY <1>1, <1>2 DEF Endpoints

-----------------------------------------------------------------------------
(* What a record makes of the run.                                         *)

Parts == {"fin", "val", "red", "decide"} \cup Range(Roles)

LEMMA PartsOf ==
  ASSUME NEW r
  PROVE  /\ StoredParts(r) \subseteq Parts
         /\ "fin" \in StoredParts(r) <=> r.fin # NoArtifact
         /\ "val" \in StoredParts(r) <=> r.val # NoArtifact
         /\ "red" \in StoredParts(r) <=> <<None, "red">> \in Ids(r.red)
         /\ "decide" \in StoredParts(r) <=> <<None, "decide">> \in Ids(r.decisions)
         /\ \A role \in Range(Roles) : role \in StoredParts(r) <=> <<None, role>> \in Ids(r.ic)
<1>. DEFINE Stored(k) == CASE k = "workflow" -> FALSE
                           [] k = "fin" -> r.fin # NoArtifact
                           [] k = "val" -> r.val # NoArtifact
                           [] k = "red" -> <<None, k>> \in Ids(r.red)
                           [] k = "decide" -> <<None, k>> \in Ids(r.decisions)
                           [] OTHER -> <<None, k>> \in Ids(r.ic)
<1>1. \A k : k \in StoredParts(r) <=> k \in Endpoints /\ Stored(k)
  BY DEF StoredParts
<1>2. /\ Stored("workflow") <=> FALSE
      /\ Stored("fin") <=> r.fin # NoArtifact
      /\ Stored("val") <=> r.val # NoArtifact
      /\ Stored("red") <=> <<None, "red">> \in Ids(r.red)
      /\ Stored("decide") <=> <<None, "decide">> \in Ids(r.decisions)
  OBVIOUS
<1>3. \A role \in Range(Roles) : Stored(role) <=> <<None, role>> \in Ids(r.ic)
  BY RolesApart
<1>. HIDE DEF Stored
<1>. QED
  BY <1>1, <1>2, <1>3 DEF Endpoints, Parts

\* Two runs with the same records have the same parts.
LEMMA SameParts ==
  ASSUME NEW r, NEW q, q.fin = r.fin, q.val = r.val, q.red = r.red, q.ic = r.ic,
         q.decisions = r.decisions
  PROVE  StoredParts(q) = StoredParts(r)
BY DEF StoredParts

\* The run but for its records.
Body(r) == <<r.state, r.thesis, r.evidence>>

LEMMA ArtifactEffect ==
  ASSUME NEW r \in Payload, NEW a
  PROVE  /\ Body(WithFinancial(r, a)) = Body(r) /\ WithFinancial(r, a).red = r.red
         /\ WithFinancial(r, a).ic = r.ic /\ WithFinancial(r, a).decisions = r.decisions
         /\ WithFinancial(r, a).fin = a /\ WithFinancial(r, a).val = r.val
         /\ Body(WithValuation(r, a)) = Body(r) /\ WithValuation(r, a).red = r.red
         /\ WithValuation(r, a).ic = r.ic /\ WithValuation(r, a).decisions = r.decisions
         /\ WithValuation(r, a).fin = r.fin /\ WithValuation(r, a).val = a
BY DEF WithFinancial, WithValuation, Payload, Body

LEMMA ReopenedEffect ==
  ASSUME NEW r \in Payload
  PROVE  /\ Body(Reopened(r)) = Body(r) /\ Reopened(r).fin = r.fin /\ Reopened(r).val = r.val
         /\ Reopened(r).red = r.red /\ Reopened(r).ic = r.ic
         /\ Reopened(r).decisions = r.decisions
BY DEF Reopened, Payload, Body

LEMMA RedEffect ==
  ASSUME NEW r \in Payload, NEW v \in RedReviews
  PROVE  /\ Body(WithRed(r, v)) = Body(r)
         /\ WithRed(r, v).fin = r.fin /\ WithRed(r, v).val = r.val
         /\ WithRed(r, v).red = Append(r.red, v) /\ WithRed(r, v).ic = r.ic
         /\ WithRed(r, v).decisions = r.decisions
<1>. DEFINE t == [r EXCEPT !.red = Append(@, v), !.memo.red = Append(@, v.id)]
<1>1. /\ Body(t) = Body(r) /\ t.fin = r.fin /\ t.val = r.val
      /\ t.red = Append(r.red, v) /\ t.ic = r.ic /\ t.decisions = r.decisions
  BY DEF Payload, Body
<1>2. t \in Payload
  BY AppendHolds DEF Payload, RedReviews
<1>3. WithRed(r, v) = IF v.outcome = "REQUIRES_RESEARCH" THEN Reopened(t) ELSE t
  BY DEF WithRed
<1>. HIDE DEF t
<1>. QED
  BY <1>1, <1>2, <1>3, ReopenedEffect

LEMMA IcEffect ==
  ASSUME NEW r \in Payload, NEW v
  PROVE  /\ Body(WithIc(r, v)) = Body(r)
         /\ WithIc(r, v).fin = r.fin /\ WithIc(r, v).val = r.val
         /\ WithIc(r, v).ic = Append(r.ic, v) /\ WithIc(r, v).red = r.red
         /\ WithIc(r, v).decisions = r.decisions
BY DEF WithIc, Payload, Body

LEMMA DecisionEffect ==
  ASSUME NEW r \in Payload, NEW d \in DecisionRecords
  PROVE  /\ Body(WithDecision(r, d)) = Body(r)
         /\ WithDecision(r, d).fin = r.fin /\ WithDecision(r, d).val = r.val
         /\ WithDecision(r, d).red = r.red /\ WithDecision(r, d).ic = r.ic
         /\ WithDecision(r, d).decisions = Append(r.decisions, d)
<1>. DEFINE t == [r EXCEPT !.decisions = Append(@, d)]
            u == [t EXCEPT !.review = "APPROVED", !.memo.status = "APPROVED"]
<1>1. /\ Body(t) = Body(r) /\ t.fin = r.fin /\ t.val = r.val
      /\ t.decisions = Append(r.decisions, d) /\ t.red = r.red /\ t.ic = r.ic
  BY DEF Payload, Body
<1>2. t \in Payload
  BY AppendHolds DEF Payload
<1>3. WithDecision(r, d) \in {t, u, Reopened(t)}
  <2>1. CASE d.action = "APPROVE_THESIS"
    BY <2>1 DEF WithDecision
  <2>2. CASE d.action = "REJECT_THESIS" /\ r.thesis # 0
    <3>1. WithDecision(r, d) = Reopened(t)
      BY <2>2 DEF WithDecision, Reopened, Payload
    <3>. QED
      BY <3>1
  <2>3. CASE d.action # "APPROVE_THESIS" /\ ~(d.action = "REJECT_THESIS" /\ r.thesis # 0)
    BY <2>3 DEF WithDecision
  <2>. QED
    BY <2>1, <2>2, <2>3
<1>. HIDE DEF t
<1>4. /\ Body(u) = Body(t) /\ u.fin = t.fin /\ u.val = t.val
      /\ u.decisions = t.decisions /\ u.red = t.red /\ u.ic = t.ic
  BY <1>2 DEF Payload, Body
<1>. HIDE DEF u
<1>. QED
  BY <1>1, <1>2, <1>3, <1>4, ReopenedEffect

\* A decision with a new id leaves every decision once.
LEMMA DecidedAnew ==
  ASSUME NEW r, NEW q, NEW d \in DecisionRecords, r.decisions \in Seq(DecisionRecords),
         DecisionsOnce(r), d.id \notin Ids(r.decisions), q.decisions = Append(r.decisions, d)
  PROVE  DecisionsOnce(q)
<1>. DEFINE s == r.decisions
<1>1. s \in Seq(DecisionRecords) /\ d.id \notin Ids(s) /\ q.decisions = Append(s, d)
  OBVIOUS
<1>2. \A i, j \in DOMAIN s : s[i].id = s[j].id => i = j
  BY DEF DecisionsOnce
<1>. HIDE DEF s
<1>3. \A i, j \in DOMAIN Append(s, d) : Append(s, d)[i].id = Append(s, d)[j].id => i = j
  BY <1>1, <1>2, AppendOnce
<1>. QED
  BY <1>1, <1>3 DEF DecisionsOnce

\* Only the workflow uses the run's own ids.
LEMMA IdOf ==
  ASSUME NEW c \in Calls, NEW what
  PROVE  /\ Id(c, what) = <<None, what>> <=> Workflow(c)
         /\ \A w : \A d \in Calls : Id(c, what) = <<d, w>> => d = c /\ ~Workflow(c)
BY CallAssumption DEF Id

\* The parts that a call may add.
Added(c) == IF At(c) \in {"fin", "val"} \/ Workflow(c) THEN {At(c)} ELSE {}

\* The records of a run stay linked, whatever is added to them.
LEMMA WithRecords ==
  ASSUME NEW r \in Payload, CallsOK, NEW c \in InFlight, At(c) \notin {"begin", "evaluate"},
         ~Refuses(r, c), Linked(r), DecisionsOnce(r),
         \E body \in Bodies : call[c].request = body[2],
         At(c) = "decide" => Id(c, "decide") \notin Ids(r.decisions)
  PROVE  /\ Linked(With(r, c)) /\ DecisionsOnce(With(r, c)) /\ Body(With(r, c)) = Body(r)
         /\ At(c) # "decide" => With(r, c).decisions = r.decisions
         /\ At(c) = "decide" =>
              Ids(With(r, c).decisions) = Ids(r.decisions) \cup {Id(c, "decide")}
         /\ StoredParts(With(r, c)) = StoredParts(r) \cup Added(c)
<1>. DEFINE q == With(r, c)
<1>1. c \in Calls /\ call[c].op \in Endpoints /\ At(c) \in Steps
  BY AtStep
<1>2. /\ r.red \in Seq(RedReviews) /\ r.ic \in Seq(IcReviews) /\ r.decisions \in Seq(DecisionRecords)
  BY DEF Payload
<1>3. Id(c, At(c)) = <<None, At(c)>> <=> Workflow(c)
  BY <1>1, IdOf
<1>4. CASE At(c) \in {"fin", "val"}
  <2>1. ~RefusesArtifact(r, Item(c)) /\ Item(c).hash # None
    <3>1. PICK body \in Bodies : call[c].request = body[2]
      OBVIOUS
    <3>. QED
      BY <1>4, <3>1, BodyAssumption DEF Refuses, Item
  <2>2. Item(c) # NoArtifact /\ Item(c).evidence \subseteq Qualified
    BY <2>1 DEF NoArtifact, RefusesArtifact, Good
  <2>3. CASE At(c) = "fin"
    <3>1. /\ Body(q) = Body(r) /\ q.red = r.red /\ q.ic = r.ic /\ q.decisions = r.decisions
          /\ q.fin = Item(c) /\ q.val = r.val
      BY <2>3, ArtifactEffect DEF With
    <3>. HIDE DEF q
    <3>2. StoredParts(q) = StoredParts(r) \cup {"fin"}
      <4>1. \A k \in Parts : k \in StoredParts(q) <=> k \in StoredParts(r) \/ k = "fin"
        BY <2>2, <3>1, PartsOf, RolesApart DEF Parts
      <4>2. "fin" \in Parts
        BY DEF Parts
      <4>. QED
        BY <4>1, <4>2, PartsOf
    <3>3. Linked(q) /\ DecisionsOnce(q)
      BY <2>2, <3>1 DEF Linked, DecisionsOnce, Body
    <3>. QED
      BY <2>3, <3>1, <3>2, <3>3 DEF q, Added
  <2>4. CASE At(c) = "val"
    <3>1. /\ Body(q) = Body(r) /\ q.red = r.red /\ q.ic = r.ic /\ q.decisions = r.decisions
          /\ q.fin = r.fin /\ q.val = Item(c)
      BY <2>4, ArtifactEffect DEF With
    <3>. HIDE DEF q
    <3>2. StoredParts(q) = StoredParts(r) \cup {"val"}
      <4>1. \A k \in Parts : k \in StoredParts(q) <=> k \in StoredParts(r) \/ k = "val"
        BY <2>2, <3>1, PartsOf, RolesApart DEF Parts
      <4>2. "val" \in Parts
        BY DEF Parts
      <4>. QED
        BY <4>1, <4>2, PartsOf
    <3>3. Linked(q) /\ DecisionsOnce(q)
      BY <2>2, <3>1 DEF Linked, DecisionsOnce, Body
    <3>. QED
      BY <2>4, <3>1, <3>2, <3>3 DEF q, Added
  <2>. QED
    BY <1>4, <2>3, <2>4
<1>5. CASE At(c) = "red"
  <2>. DEFINE v == Item(c)
  <2>1. v \in RedReviews /\ ~RefusesRed(r, v)
    BY <1>5, ItemType DEF Refuses
  <2>2. /\ v.thesis # 0 /\ v.thesis = r.thesis /\ v.evidence \subseteq r.evidence \cap Counter
    BY <2>1 DEF RefusesRed
  <2>3. v.id = Id(c, "red")
    BY <1>5 DEF Item
  <2>4. /\ Body(q) = Body(r) /\ q.fin = r.fin /\ q.val = r.val
        /\ q.red = Append(r.red, v) /\ q.ic = r.ic /\ q.decisions = r.decisions
    BY <1>5, <2>1, RedEffect DEF With
  <2>. HIDE DEF q, v
  <2>5. Entries(q.red) = Entries(r.red) \cup {v} /\ Ids(q.red) = Ids(r.red) \cup {v.id}
    BY <1>2, <2>1, <2>4, AppendHolds
  <2>6. StoredParts(q) = StoredParts(r) \cup Added(c)
    <3>1. \A k \in Parts : k \in StoredParts(q) <=> k \in StoredParts(r) \/ (k = "red" /\ Workflow(c))
      BY <1>3, <1>5, <2>3, <2>4, <2>5, PartsOf, RolesApart DEF Parts
    <3>2. "red" \in Parts
      BY DEF Parts
    <3>. QED
      BY <1>5, <3>1, <3>2, PartsOf DEF Added
  <2>7. Linked(q) /\ DecisionsOnce(q)
    BY <2>2, <2>4, <2>5 DEF Linked, DecisionsOnce, Body
  <2>. QED
    BY <1>5, <2>4, <2>6, <2>7 DEF q
<1>6. CASE At(c) = "decide"
  <2>. DEFINE d == Item(c)
  <2>1. d \in DecisionRecords /\ d = Decision(c)
    BY <1>6, ItemType
  <2>2. d.id = Id(c, "decide") /\ (Workflow(c) => d.reviews = MvpReviews)
    BY <2>1 DEF Decision, Id, Workflow, MvpReviews
  <2>3. /\ Body(q) = Body(r) /\ q.fin = r.fin /\ q.val = r.val
        /\ q.red = r.red /\ q.ic = r.ic /\ q.decisions = Append(r.decisions, d)
    BY <1>6, <2>1, DecisionEffect DEF With
  <2>. HIDE DEF q, d
  <2>4. /\ Entries(q.decisions) = Entries(r.decisions) \cup {d}
        /\ Ids(q.decisions) = Ids(r.decisions) \cup {d.id}
    BY <1>2, <2>1, <2>3, AppendHolds
  <2>5. StoredParts(q) = StoredParts(r) \cup Added(c)
    <3>1. \A k \in Parts : k \in StoredParts(q) <=> k \in StoredParts(r) \/ (k = "decide" /\ Workflow(c))
      BY <1>3, <1>6, <2>2, <2>3, <2>4, PartsOf, RolesApart DEF Parts
    <3>2. "decide" \in Parts
      BY DEF Parts
    <3>. QED
      BY <1>6, <3>1, <3>2, PartsOf DEF Added
  <2>6. DecisionsOnce(q)
    <3>1. d.id \notin Ids(r.decisions)
      BY <1>6, <2>2
    <3>. QED
      BY <1>2, <2>1, <2>3, <3>1, DecidedAnew
  <2>7. Linked(q)
    BY <1>3, <1>6, <2>2, <2>3, <2>4 DEF Linked, Body
  <2>. QED
    BY <1>6, <2>2, <2>3, <2>4, <2>5, <2>6, <2>7 DEF q
<1>7. CASE At(c) \in Range(Roles)
  <2>. DEFINE v == Item(c)
              s == At(c)
  <2>1. v \in IcReviews
    BY <1>7, ItemType
  <2>2. v.id = Id(c, s) /\ v.role = s
    BY <1>7, RolesApart DEF Item
  <2>3. v.id[2] = v.role
    BY <2>2 DEF Id
  <2>4. /\ Body(q) = Body(r) /\ q.fin = r.fin /\ q.val = r.val
        /\ q.red = r.red /\ q.ic = Append(r.ic, v) /\ q.decisions = r.decisions
    BY <1>7, <2>1, RolesApart, IcEffect DEF With
  <2>5. s \in Range(Roles) /\ (Id(c, s) = <<None, s>> <=> Workflow(c))
    BY <1>3, <1>7
  <2>6. \A role : Id(c, s) = <<None, role>> => role = s
    BY DEF Id
  <2>. HIDE DEF q, v, s
  <2>7. Entries(q.ic) = Entries(r.ic) \cup {v} /\ Ids(q.ic) = Ids(r.ic) \cup {v.id}
    BY <1>2, <2>1, <2>4, AppendHolds
  <2>8. StoredParts(q) = StoredParts(r) \cup Added(c)
    <3>1. \A role \in Range(Roles) :
            role \in StoredParts(q) <=> role \in StoredParts(r) \/ (role = s /\ Workflow(c))
      BY <2>2, <2>5, <2>6, <2>7, PartsOf
    <3>2. \A k \in Parts : k \in StoredParts(q) <=> k \in StoredParts(r) \/ (k = s /\ Workflow(c))
      BY <2>4, <2>5, <3>1, PartsOf, RolesApart DEF Parts
    <3>3. s \in Parts /\ Added(c) = IF Workflow(c) THEN {s} ELSE {}
      BY <1>7, RolesApart DEF Parts, Added, s
    <3>. QED
      BY <3>2, <3>3, PartsOf
  <2>9. Linked(q) /\ DecisionsOnce(q)
    BY <2>3, <2>4, <2>7 DEF Linked, DecisionsOnce, Body
  <2>. QED
    BY <1>7, <2>4, <2>8, <2>9, RolesApart DEF q
<1>. QED
  BY <1>1, <1>4, <1>5, <1>6, <1>7 DEF Steps

-----------------------------------------------------------------------------
(* Steps of a call that is alone.                                          *)

Others(c) == \A d \in Calls : d # c => call'[d] = call[d]

LEMMA Ended ==
  ASSUME Sequential, NEW c \in InFlight, NEW answer, answer # "none",
         Others(c), call'[c] = Idle(answer),
         job'.kind # "none" => job'.copy = run', Linked(run'), DecisionsOnce(run'),
         \A d \in Calls : d # c /\ call[d].answer = "none" => <<d, "decide">> \notin Ids(run'.decisions),
         listed' \subseteq Ids(run'.decisions) \cup cut'
  PROVE  Sequential'
<1>1. c \in Calls /\ call'[c].op = "none" /\ call'[c].answer = answer /\ call[c].answer = "none"
  BY DEF InFlight, Idle, Sequential, InTouch
<1>2. InFlight' = {}
  BY <1>1 DEF InFlight, Sequential, Others
<1>3. \A d \in Calls : call'[d].answer = "none" => <<d, "decide">> \notin Ids(run'.decisions)
  BY <1>1 DEF Others
<1>. QED
  BY <1>2, <1>3 DEF Sequential

LEMMA Moved ==
  ASSUME Sequential, NEW c \in InFlight, Others(c), call'[c].op = call[c].op, InTouch(c)',
         job'.kind # "none" => job'.copy = run', Linked(run'), DecisionsOnce(run'),
         \A d \in Calls : call[d].answer = "none" => <<d, "decide">> \notin Ids(run'.decisions),
         listed' \subseteq Ids(run'.decisions) \cup cut'
                           \cup (IF call'[c].phase = "save" THEN {Id(c, "decide")} ELSE {})
  PROVE  Sequential'
<1>1. /\ c \in Calls /\ call[c].op # "none" /\ call[c].answer = "none" /\ call'[c].answer = "none"
  BY DEF InFlight, Sequential, InTouch
<1>2. \A d \in Calls : call'[d].op = call[d].op /\ call'[d].answer = call[d].answer
  BY <1>1 DEF Others
<1>3. InFlight' = {c}
  BY <1>1, <1>2 DEF InFlight, Sequential
<1>4. Id(c, "decide")' = Id(c, "decide")
  BY DEF Id, Workflow
<1>5. call'[c].phase = "save" => Id(c, "decide") \in Saving'
  BY <1>3, <1>4 DEF Saving
<1>. QED
  BY <1>2, <1>3, <1>5 DEF Sequential

\* A call that is not about to save a decision has nothing listed but what is
\* stored.
LEMMA NothingPending ==
  ASSUME Sequential, NEW c \in InFlight, call[c].phase # "save"
  PROVE  listed \subseteq Ids(run.decisions) \cup cut
<1>1. Saving = {}
  BY DEF Saving, Sequential
<1>. QED
  BY <1>1 DEF Sequential

LEMMA NobodyPending ==
  ASSUME Sequential, InFlight = {}
  PROVE  listed \subseteq Ids(run.decisions) \cup cut
<1>1. Saving = {}
  BY DEF Saving
<1>. QED
  BY <1>1 DEF Sequential

\* The call ends and leaves the run as it is.
LEMMA EndedQuietly ==
  ASSUME Sequential, NEW c \in InFlight, NEW answer, answer # "none",
         call[c].phase # "save",
         Others(c), call'[c] = Idle(answer), UNCHANGED <<run, listed, cut>>,
         job' = job \/ job' = NoJob
  PROVE  Sequential'
<1>1. /\ job'.kind # "none" => job'.copy = run' /\ run' = run /\ listed' = listed /\ cut' = cut
  BY DEF NoJob, Sequential
<1>2. listed \subseteq Ids(run.decisions) \cup cut
  BY NothingPending
<1>3. /\ Linked(run) /\ DecisionsOnce(run)
      /\ \A d \in Calls : call[d].answer = "none" => <<d, "decide">> \notin Ids(run.decisions)
  BY DEF Sequential
<1>. QED
  BY <1>1, <1>2, <1>3, Ended

\* The call goes on and leaves the run as it is.
LEMMA MovedQuietly ==
  ASSUME Sequential, NEW c \in InFlight, call[c].phase # "save",
         Others(c), call'[c].op = call[c].op, InTouch(c)', UNCHANGED <<run, listed, cut, job>>
  PROVE  Sequential'
<1>1. /\ job'.kind # "none" => job'.copy = run' /\ run' = run /\ listed' = listed /\ cut' = cut
  BY DEF Sequential
<1>2. listed \subseteq Ids(run.decisions) \cup cut
  BY NothingPending
<1>3. /\ Linked(run) /\ DecisionsOnce(run)
      /\ \A d \in Calls : call[d].answer = "none" => <<d, "decide">> \notin Ids(run.decisions)
  BY DEF Sequential
<1>. QED
  BY <1>1, <1>2, <1>3, Moved

\* End, Goto and Advance make of the call's record.
LEMMA EndRecord ==
  ASSUME CallsOK, NEW c \in Calls, NEW answer, End(c, answer)
  PROVE  Others(c) /\ call'[c] = Idle(answer)
BY DEF End, Others, CallsOK

LEMMA GotoRecord ==
  ASSUME CallsOK, NEW c \in InFlight, NEW phase, Goto(c, phase)
  PROVE  /\ Others(c) /\ call'[c].op = call[c].op /\ call'[c].request = call[c].request
         /\ call'[c].first = call[c].first /\ call'[c].answer = call[c].answer
         /\ call'[c].step = call[c].step /\ call'[c].phase = phase /\ call'[c].copy = NewRun
<1>1. c \in Calls /\ call[c] \in CallRecords
  BY AtStep
<1>. QED
  BY <1>1 DEF Goto, Others, CallsOK, CallRecords

\* Either the call is at its end, or it is at the next step.
LEMMA AdvanceRecord ==
  ASSUME CallsOK, NEW c \in InFlight, Advance(c)
  PROVE  /\ Others(c)
         /\ \/ call[c].step + 1 \notin DOMAIN Route(call[c].op) /\ call'[c] = Idle("done")
            \/ /\ call[c].step + 1 \in DOMAIN Route(call[c].op)
               /\ call'[c].op = call[c].op /\ call'[c].request = call[c].request
               /\ call'[c].first = call[c].first /\ call'[c].answer = call[c].answer
               /\ call'[c].step = call[c].step + 1
               /\ call'[c].phase = IF Workflow(c) /\ At(c)' \in {"red"} \cup Range(Roles)
                                   THEN "check" ELSE "read"
<1>. DEFINE route == Route(call[c].op)
            step == call[c].step + 1
            phase == IF Workflow(c) /\ route[step] \in {"red"} \cup Range(Roles)
                     THEN "check" ELSE "read"
<1>1. /\ c \in Calls /\ call[c] \in CallRecords /\ call[c].op \in Endpoints
      /\ call[c].step \in DOMAIN route
  BY AtStep DEF Underway
<1>2. route \in Seq(Steps) /\ step \in Nat /\ step > 0 /\ DOMAIN route = 1 .. Len(route) /\ Len(route) \in Nat
  BY <1>1, RouteSteps, LenProperties DEF CallRecords
<1>3. CASE step > Len(route)
  BY <1>1, <1>2, <1>3, EndRecord DEF Advance
<1>4. CASE ~(step > Len(route))
  <2>1. step \in DOMAIN route
    BY <1>2, <1>4
  <2>2. call' = [call EXCEPT ![c].step = step, ![c].copy = NewRun, ![c].phase = phase]
    BY <1>4 DEF Advance
  <2>. HIDE DEF route, step, phase
  <2>3. /\ Others(c) /\ call'[c].op = call[c].op /\ call'[c].request = call[c].request
        /\ call'[c].first = call[c].first /\ call'[c].answer = call[c].answer
        /\ call'[c].step = step /\ call'[c].phase = phase
    BY <1>1, <2>2 DEF Others, CallsOK, CallRecords
  <2>. QED
    BY <2>1, <2>3 DEF At, route, step, phase
<1>. QED
  BY <1>3, <1>4

\* A call that leaves the run as it is and reads on knows what it knew.
LEMMA StillInTouch ==
  ASSUME CallsOK, NEW c \in InFlight, InTouch(c), NEW phase \in {"read", "execute"}, Goto(c, phase),
         UNCHANGED <<run, job>>, At(c) = "decide" => phase = "read"
  PROVE  InTouch(c)'
<1>1. /\ call'[c].op = call[c].op /\ call'[c].request = call[c].request
      /\ call'[c].first = call[c].first /\ call'[c].answer = call[c].answer
      /\ call'[c].step = call[c].step /\ call'[c].phase = phase
  BY GotoRecord
<1>2. At(c)' = At(c) /\ Past(c)' = Past(c) /\ Workflow(c)' = Workflow(c)
  BY <1>1 DEF At, Past, Workflow
<1>3. Workflow(c) /\ At(c) # "begin" => Following(c)'
  BY <1>1, <1>2 DEF InTouch, Following
<1>. QED
  BY <1>1, <1>2, <1>3 DEF InTouch

\* A call that has its part stored goes on knowing that it is.
LEMMA GoesOn ==
  ASSUME CallsOK, NEW c \in InFlight, InTouch(c), At(c) \notin {"begin", "evaluate"},
         run'.state = run.state, StoredParts(run) \subseteq StoredParts(run'),
         Workflow(c) => At(c) \in StoredParts(run'),
         At(c) # "decide" => run'.decisions = run.decisions, UNCHANGED job,
         Recorded(c) \/ Advance(c)
  PROVE  /\ Others(c)
         /\ \/ call'[c] = Idle("done")
            \/ call'[c].op = call[c].op /\ InTouch(c)' /\ call'[c].phase # "save"
<1>1. /\ c \in Calls /\ call[c] \in CallRecords /\ call[c].op \in Endpoints
      /\ call[c].step \in DOMAIN Route(call[c].op) /\ call[c].step \in Nat
  BY AtStep DEF Underway, CallRecords
<1>2. CASE Goto(c, "get") /\ Workflow(c) /\ At(c) \in {"fin", "val"}
  <2>1. /\ Others(c) /\ call'[c].op = call[c].op /\ call'[c].request = call[c].request
        /\ call'[c].first = call[c].first /\ call'[c].answer = call[c].answer
        /\ call'[c].step = call[c].step /\ call'[c].phase = "get"
    BY <1>2, GotoRecord
  <2>2. At(c)' = At(c) /\ Past(c)' = Past(c)
    BY <2>1 DEF At, Past
  <2>3. Following(c)'
    BY <1>2, <2>1, <2>2 DEF InTouch, Following
  <2>. QED
    BY <2>1, <2>3 DEF InTouch
<1>3. CASE Advance(c)
  <2>. DEFINE step == call[c].step + 1
              route == Route(call[c].op)
  <2>1. CASE step \notin DOMAIN route /\ call'[c] = Idle("done")
    BY <1>3, <2>1, AdvanceRecord
  <2>2. CASE /\ step \in DOMAIN route
             /\ call'[c].op = call[c].op /\ call'[c].request = call[c].request
             /\ call'[c].first = call[c].first /\ call'[c].answer = call[c].answer
             /\ call'[c].step = step
             /\ call'[c].phase = IF Workflow(c) /\ At(c)' \in {"red"} \cup Range(Roles)
                                 THEN "check" ELSE "read"
    <3>1. call'[c].phase \in {"check", "read"} /\ (At(c)' = "decide" => call'[c].phase = "read")
      BY <2>2, RolesApart
    <3>2. ASSUME Workflow(c) PROVE Following(c)'
      <4>1. Following(c)
        BY <3>2 DEF InTouch
      <4>2. Past(c)' \subseteq Past(c) \cup {At(c)}
        <5>1. Past(c)' = {route[j] : j \in 2 .. step - 1}
          BY <2>2 DEF Past
        <5>2. \A j \in 2 .. step - 1 : j = call[c].step \/ j \in 2 .. call[c].step - 1
          BY <1>1
        <5>. QED
          BY <5>1, <5>2 DEF Past, At
      <4>3. At(c) = "decide" => At(c)' = "evaluate"
        <5>1. call[c].op = "workflow"
          BY <3>2 DEF Workflow
        <5>2. Route("workflow")[call[c].step] = "decide" => Route("workflow")[call[c].step + 1] = "evaluate"
          BY <1>1, <5>1, WorkflowRoute
        <5>. QED
          BY <2>2, <5>1, <5>2 DEF At
      <4>4. At(c)' # "evaluate" => run'.decisions = call'[c].first.decisions
        BY <2>2, <4>1, <4>3 DEF Following
      <4>5. StoredParts(call'[c].first) \cup Past(c)' \subseteq StoredParts(run')
        BY <2>2, <3>2, <4>1, <4>2 DEF Following
      <4>6. run'.state = "COMPLETED"
        BY <4>1 DEF Following
      <4>. QED
        BY <3>1, <4>4, <4>5, <4>6 DEF Following
    <3>3. InTouch(c)'
      BY <2>2, <3>1, <3>2 DEF InTouch, Workflow
    <3>. QED
      BY <1>3, <2>2, <3>1, <3>3, AdvanceRecord
  <2>. QED
    BY <1>3, <2>1, <2>2, AdvanceRecord
<1>. QED
  BY <1>2, <1>3 DEF Recorded

\* What a step that ends or goes on without a write needs of GoesOn.
LEMMA GoesOnQuietly ==
  ASSUME CallsOK, Sequential, NEW c \in InFlight, call[c].phase # "save",
         At(c) \notin {"begin", "evaluate"},
         Workflow(c) => At(c) \in StoredParts(run),
         UNCHANGED <<run, listed, cut, job>>, Recorded(c) \/ Advance(c)
  PROVE  Sequential'
<1>1. InTouch(c)
  BY DEF Sequential
<1>2. /\ Others(c)
      /\ \/ call'[c] = Idle("done")
         \/ call'[c].op = call[c].op /\ InTouch(c)' /\ call'[c].phase # "save"
  BY <1>1, GoesOn
<1>. QED
  BY <1>2, EndedQuietly, MovedQuietly

LEMMA EndsQuietly ==
  ASSUME CallsOK, Sequential, NEW c \in InFlight, NEW answer, answer # "none",
         call[c].phase # "save", End(c, answer),
         UNCHANGED <<run, listed, cut>>, job' = job \/ job' = NoJob
  PROVE  Sequential'
<1>1. Others(c) /\ call'[c] = Idle(answer)
  BY EndRecord DEF InFlight
<1>. QED
  BY <1>1, EndedQuietly

\* The workflow begins with the run that it has just read or finished.
LEMMA BeginsFollowing ==
  ASSUME NEW c \in InFlight, call'[c].op = call[c].op, call'[c].first = run', call'[c].step = 2,
         call'[c].phase = "read", run'.state = "COMPLETED"
  PROVE  Following(c)'
<1>1. Past(c)' = {}
  BY DEF Past
<1>. QED
  BY <1>1 DEF Following

LEMMA SubmitAlone == ASSUME RInv, Sequential, NEW c \in Calls, Submit(c), ~overlapped' PROVE Sequential'
<1>1. /\ InFlight = {} /\ job = NoJob /\ call[c] = Idle("none")
      /\ UNCHANGED <<run, listed, cut, job>>
  BY DEF Submit
<1>2. PICK body \in Bodies :
        call' = [call EXCEPT ![c].op = body[1], ![c].request = body[2],
                             ![c].target = run.thesis, ![c].seen = Ids(run.ic)]
  BY DEF Submit
<1>3. /\ Others(c) /\ call'[c].op = body[1] /\ call'[c].request = body[2]
      /\ call'[c].answer = "none" /\ call'[c].step = 1 /\ call'[c].phase = "read"
  BY <1>1, <1>2 DEF Others, Idle, RInv, CallsOK
<1>4. call[c].answer = "none"
  BY <1>1 DEF Idle
<1>5. \A d \in InFlight' : d = c
  BY <1>1, <1>3 DEF InFlight, Others
<1>6. Workflow(c)' => At(c)' = "begin"
  BY <1>3, RolesApart DEF Workflow, At, Route
<1>7. InTouch(c)'
  BY <1>1, <1>3, <1>6 DEF InTouch, NoJob
<1>8. \A d \in Calls : call'[d].answer = call[d].answer
  BY <1>3, <1>4 DEF Others
<1>9. listed \subseteq Ids(run.decisions) \cup cut
  BY <1>1, NobodyPending
<1>. QED
  BY <1>1, <1>5, <1>7, <1>8, <1>9 DEF Sequential

LEMMA BeginAlone == ASSUME RInv, Sequential, NEW c \in Calls, Begin(c) PROVE Sequential'
<1>1. /\ c \in InFlight /\ At(c) = "begin" /\ call[c].phase = "read"
      /\ UNCHANGED <<run, listed, cut, job>> /\ CallsOK /\ InTouch(c)
  BY DEF Begin, RInv, Sequential
<1>2. CASE Goto(c, "execute")
  BY <1>1, <1>2, StillInTouch, GotoRecord, MovedQuietly
<1>3. CASE /\ call' = [call EXCEPT ![c].first = run, ![c].step = 2]
           /\ Workflow(c) => run.state = "COMPLETED"
  <2>1. /\ Others(c) /\ call'[c].op = call[c].op /\ call'[c].request = call[c].request
        /\ call'[c].first = run /\ call'[c].answer = call[c].answer
        /\ call'[c].step = 2 /\ call'[c].phase = "read"
    BY <1>1, <1>3, AtStep DEF Others, CallsOK, CallRecords
  <2>2. Workflow(c) => Following(c)'
    BY <1>1, <1>3, <2>1, BeginsFollowing
  <2>3. InTouch(c)'
    BY <1>1, <2>1, <2>2 DEF InTouch, Workflow
  <2>. QED
    BY <1>1, <2>1, <2>3, MovedQuietly
<1>4. CASE End(c, "refused")
  BY <1>1, <1>4, EndsQuietly
<1>. QED
  BY <1>2, <1>3, <1>4 DEF Begin

LEMMA CheckAlone == ASSUME RInv, Sequential, NEW c \in Calls, Check(c) PROVE Sequential'
<1>1. /\ c \in InFlight /\ call[c].phase = "check"
      /\ UNCHANGED <<run, listed, cut, job>> /\ CallsOK /\ InTouch(c)
  BY DEF Check, RInv, Sequential
<1>2. CASE Goto(c, "read")
  BY <1>1, <1>2, StillInTouch, GotoRecord, MovedQuietly
<1>3. CASE End(c, "refused")
  BY <1>1, <1>3, EndsQuietly
<1>. QED
  BY <1>2, <1>3 DEF Check

\* What the workflow found is still there.
LEMMA FoundStored ==
  ASSUME CallsOK, NEW c \in InFlight, Workflow(c), At(c) \notin {"begin", "evaluate"}
  PROVE  Exists(c) <=> At(c) \in StoredParts(call[c].first)
<1>1. c \in Calls /\ At(c) \in Steps
  BY AtStep
<1>2. \A what : Id(c, what) = <<None, what>>
  BY DEF Id
<1>3. CASE At(c) \in {"fin", "val", "red", "decide"}
  BY <1>2, <1>3, PartsOf DEF Exists
<1>4. CASE At(c) \in Range(Roles)
  <2>1. Exists(c) <=> Id(c, At(c)) \in Ids(call[c].first.ic)
    BY <1>4, RolesApart DEF Exists
  <2>. QED
    BY <1>2, <1>4, <2>1, PartsOf
<1>. QED
  BY <1>1, <1>3, <1>4 DEF Steps

LEMMA SkipAlone == ASSUME RInv, Sequential, NEW c \in Calls, Skip(c) PROVE Sequential'
<1>1. /\ c \in InFlight /\ call[c].phase = "read" /\ At(c) \notin {"begin", "evaluate"}
      /\ Workflow(c) /\ Exists(c)
      /\ UNCHANGED <<run, listed, cut, job>> /\ CallsOK /\ InTouch(c)
  BY DEF Skip, RInv, Sequential
<1>2. At(c) \in StoredParts(run)
  BY <1>1, FoundStored DEF InTouch, Following
<1>3. CASE Recorded(c)
  BY <1>1, <1>2, <1>3, GoesOnQuietly
<1>4. CASE End(c, "refused")
  BY <1>1, <1>4, EndsQuietly
<1>. QED
  BY <1>3, <1>4 DEF Skip

LEMMA ReadAlone == ASSUME RInv, Sequential, NEW c \in Calls, Read(c) PROVE Sequential'
<1>1. /\ c \in InFlight /\ call[c].phase = "read" /\ At(c) # "begin"
      /\ ~(Workflow(c) /\ At(c) # "evaluate" /\ Exists(c))
      /\ call' = [call EXCEPT ![c].copy = run, ![c].phase = "write"]
      /\ UNCHANGED <<run, listed, cut, job>> /\ CallsOK /\ InTouch(c)
  BY DEF Read, RInv, Sequential
<1>2. /\ Others(c) /\ call'[c].op = call[c].op /\ call'[c].request = call[c].request
      /\ call'[c].first = call[c].first /\ call'[c].answer = call[c].answer
      /\ call'[c].step = call[c].step /\ call'[c].phase = "write" /\ call'[c].copy = run
  BY <1>1, AtStep DEF Others, CallsOK, CallRecords
<1>3. At(c)' = At(c) /\ Past(c)' = Past(c) /\ Workflow(c)' = Workflow(c)
  BY <1>2 DEF At, Past, Workflow
<1>4. ASSUME Workflow(c) PROVE Following(c)'
  <2>1. Following(c)
    BY <1>1, <1>4 DEF InTouch
  <2>2. At(c) = "decide" => <<None, "decide">> \notin Ids(run.decisions)
    <3>1. At(c) = "decide" => "decide" \notin StoredParts(call[c].first)
      BY <1>1, <1>4, FoundStored
    <3>. QED
      BY <2>1, <3>1, PartsOf DEF Following
  <2>. QED
    BY <1>1, <1>2, <1>3, <2>1, <2>2 DEF Following
<1>5. InTouch(c)'
  BY <1>1, <1>2, <1>3, <1>4 DEF InTouch
<1>. QED
  BY <1>1, <1>2, <1>5, MovedQuietly

\* A decision that is not written yet has an id of its own.
LEMMA UndecidedYet ==
  ASSUME CallsOK, Sequential, NEW c \in InFlight, At(c) = "decide", call[c].phase \in {"write", "save"}
  PROVE  Id(c, "decide") \notin Ids(run.decisions)
<1>1. c \in Calls /\ InTouch(c) /\ call[c].answer = "none"
  BY AtStep DEF Sequential, InTouch
<1>2. CASE Workflow(c)
  <2>1. Following(c) /\ Id(c, "decide") = <<None, "decide">>
    BY <1>1, <1>2 DEF InTouch, Id
  <2>. QED
    BY <2>1 DEF Following
<1>3. CASE ~Workflow(c)
  BY <1>1, <1>3 DEF Sequential, Id
<1>. QED
  BY <1>2, <1>3

\* While a call reads and writes nothing is executed.
LEMMA NoJobBeside ==
  ASSUME JobOK, Sequential, NEW c \in InFlight, call[c].phase # "execute"
  PROVE  job.kind = "none"
<1>1. c \in Calls
  BY DEF InFlight
<1>. QED
  BY <1>1 DEF JobOK, Sequential, InTouch

\* Of the calls that decide only the workflow has anything left to do.
LEMMA DecideLast ==
  ASSUME CallsOK, NEW c \in InFlight, At(c) = "decide", ~Workflow(c)
  PROVE  call[c].step + 1 \notin DOMAIN Route(call[c].op)
<1>1. /\ call[c].op \in Endpoints /\ call[c].step \in DOMAIN Route(call[c].op)
      /\ Route(call[c].op)[call[c].step] = "decide"
  BY AtStep DEF Underway, At
<1>2. call[c].op \notin {"red"} \cup Range(Roles)
  <2>. SUFFICES ASSUME call[c].op \in {"red"} \cup Range(Roles) PROVE FALSE
    OBVIOUS
  <2>1. Route(call[c].op) = <<"begin", call[c].op>>
    BY RolesApart DEF Route
  <2>. QED
    BY <1>1, <2>1, RolesApart
<1>3. Route(call[c].op) = <<call[c].op>>
  BY <1>1, <1>2, RolesApart DEF Route, Endpoints, Workflow
<1>. QED
  BY <1>1, <1>3

LEMMA WriteAlone == ASSUME RInv, Sequential, NEW c \in Calls, Write(c) PROVE Sequential'
<1>1. /\ c \in InFlight /\ call[c].phase = "write" /\ At(c) # "evaluate"
      /\ UNCHANGED <<cut, job>> /\ CallsOK /\ InTouch(c) /\ call[c].copy = run /\ run \in Payload
      /\ Linked(run) /\ DecisionsOnce(run)
  BY DEF Write, RInv, Sequential, InTouch, Sound
<1>2. job.kind = "none" /\ At(c) # "begin"
  BY <1>1, NoJobBeside, AtStep DEF RInv, Underway
<1>3. \A d \in Calls : call[d].answer = "none" => <<d, "decide">> \notin Ids(run.decisions)
  BY DEF Sequential
<1>4. listed \subseteq Ids(run.decisions) \cup cut
  BY <1>1, NothingPending
<1>5. CASE Refuses(run, c)
  <2>1. End(c, "refused") /\ UNCHANGED <<run, listed>>
    BY <1>1, <1>5 DEF Write
  <2>. QED
    BY <1>1, <2>1, EndsQuietly
<1>6. CASE ~Refuses(run, c) /\ At(c) = "decide"
  <2>1. /\ call' = [call EXCEPT ![c].phase = "save"] /\ UNCHANGED run
        /\ listed' = IF theses > 0 THEN listed \cup {Item(c).id} ELSE listed
    BY <1>1, <1>6 DEF Write
  <2>2. Item(c).id = Id(c, "decide")
    BY <1>6 DEF Item
  <2>3. /\ Others(c) /\ call'[c].op = call[c].op /\ call'[c].request = call[c].request
        /\ call'[c].first = call[c].first /\ call'[c].answer = call[c].answer
        /\ call'[c].step = call[c].step /\ call'[c].phase = "save" /\ call'[c].copy = run
    BY <1>1, <2>1, AtStep DEF Others, CallsOK, CallRecords
  <2>4. At(c)' = At(c) /\ Past(c)' = Past(c) /\ Workflow(c)' = Workflow(c)
    BY <2>3 DEF At, Past, Workflow
  <2>5. Workflow(c) => Following(c)'
    BY <1>1, <1>6, <2>1, <2>3, <2>4 DEF InTouch, Following
  <2>6. InTouch(c)'
    BY <1>1, <2>1, <2>3, <2>4, <2>5 DEF InTouch
  <2>. QED
    BY <1>1, <1>2, <1>3, <1>4, <2>1, <2>2, <2>3, <2>6, Moved
<1>7. CASE ~Refuses(run, c) /\ At(c) # "decide"
  <2>1. run' = With(run, c) /\ Recorded(c) /\ UNCHANGED listed
    BY <1>1, <1>7 DEF Write
  <2>2. /\ Linked(run') /\ DecisionsOnce(run') /\ Body(run') = Body(run)
        /\ run'.decisions = run.decisions
        /\ StoredParts(run') = StoredParts(run) \cup Added(c)
    BY <1>1, <1>2, <1>7, <2>1, WithRecords DEF InTouch
  <2>3. /\ run'.state = run.state /\ StoredParts(run) \subseteq StoredParts(run')
        /\ Workflow(c) => At(c) \in StoredParts(run')
    BY <2>2 DEF Body, Added
  <2>4. /\ Others(c)
        /\ \/ call'[c] = Idle("done")
           \/ call'[c].op = call[c].op /\ InTouch(c)' /\ call'[c].phase # "save"
    BY <1>1, <1>2, <2>1, <2>2, <2>3, GoesOn
  <2>5. CASE call'[c] = Idle("done")
    BY <1>1, <1>2, <1>3, <1>4, <2>1, <2>2, <2>4, <2>5, Ended
  <2>6. CASE call'[c].op = call[c].op /\ InTouch(c)'
    BY <1>1, <1>2, <1>3, <1>4, <2>1, <2>2, <2>4, <2>6, Moved
  <2>. QED
    BY <2>4, <2>5, <2>6
<1>. QED
  BY <1>5, <1>6, <1>7

LEMMA SaveAlone == ASSUME RInv, Sequential, NEW c \in Calls, Save(c) PROVE Sequential'
<1>1. /\ c \in InFlight /\ call[c].phase = "save" /\ Advance(c)
      /\ UNCHANGED <<listed, job>> /\ CallsOK /\ InTouch(c) /\ call[c].copy = run
      /\ run' = With(run, c) /\ run \in Payload /\ Linked(run) /\ DecisionsOnce(run)
  BY DEF Save, RInv, Sequential, InTouch, Sound
<1>2. job.kind = "none" /\ At(c) = "decide"
  BY <1>1, NoJobBeside, AtStep DEF RInv, Underway
<1>3. ~Refuses(run, c)
  <2>1. ~RefusesDecision(run, Decision(c)) /\ Item(c) = Decision(c)
    BY <1>1, <1>2, AtStep, ItemType DEF Underway
  <2>. QED
    BY <1>2, <2>1 DEF Refuses
<1>4. Id(c, "decide") \notin Ids(run.decisions)
  BY <1>1, <1>2, UndecidedYet
<1>5. /\ Linked(run') /\ DecisionsOnce(run') /\ Body(run') = Body(run)
      /\ Ids(run'.decisions) = Ids(run.decisions) \cup {Id(c, "decide")}
      /\ StoredParts(run') = StoredParts(run) \cup Added(c)
  BY <1>1, <1>2, <1>3, <1>4, WithRecords DEF InTouch
<1>6. /\ run'.state = run.state /\ StoredParts(run) \subseteq StoredParts(run')
      /\ Workflow(c) => At(c) \in StoredParts(run')
  BY <1>5 DEF Body, Added
<1>7. /\ Others(c)
      /\ \/ call'[c] = Idle("done")
         \/ call'[c].op = call[c].op /\ InTouch(c)' /\ call'[c].phase # "save"
  BY <1>1, <1>2, <1>6, GoesOn
<1>8. listed' \subseteq Ids(run'.decisions) \cup cut'
  <2>1. Saving \subseteq {Id(c, "decide")}
    BY <1>1 DEF Saving, Sequential
  <2>2. cut' = cut \ {Id(c, "decide")}
    BY <1>1, <1>2, DecideId DEF Save, InFlight
  <2>. QED
    BY <1>1, <1>5, <2>1, <2>2 DEF Sequential
<1>9. \A d \in Calls : call[d].answer = "none" /\ (d # c \/ Workflow(c)) =>
        <<d, "decide">> \notin Ids(run'.decisions)
  BY <1>1, <1>5, IdOf DEF Sequential
<1>10. CASE call'[c] = Idle("done")
  BY <1>1, <1>2, <1>5, <1>7, <1>8, <1>9, <1>10, Ended
<1>11. CASE call'[c] # Idle("done")
  <2>1. Workflow(c)
    BY <1>1, <1>2, <1>11, DecideLast, AdvanceRecord
  <2>. QED
    BY <1>1, <1>2, <1>5, <1>7, <1>8, <1>9, <1>11, <2>1, Moved
<1>. QED
  BY <1>10, <1>11

LEMMA GetAlone == ASSUME RInv, Sequential, NEW c \in Calls, Get(c) PROVE Sequential'
<1>1. /\ c \in InFlight /\ call[c].phase = "get"
      /\ UNCHANGED <<run, listed, cut, job>> /\ CallsOK /\ InTouch(c)
  BY DEF Get, RInv, Sequential
<1>2. /\ At(c) # "begin" /\ call[c].op \in Endpoints
      /\ call[c].step \in DOMAIN Route(call[c].op)
  BY <1>1, AtStep DEF Underway
<1>3. Workflow(c) => At(c) \in StoredParts(run)
  BY <1>1, <1>2 DEF InTouch, Following
<1>4. At(c) # "evaluate"
  <2>1. At(c) = "evaluate" => Workflow(c)
    BY <1>2, OnlyWorkflowEvaluates DEF At, Workflow
  <2>2. "evaluate" \notin Parts
    BY RolesApart DEF Parts
  <2>. QED
    BY <1>3, <2>1, <2>2, PartsOf
<1>5. CASE Advance(c)
  BY <1>1, <1>2, <1>3, <1>4, <1>5, GoesOnQuietly
<1>6. CASE End(c, "refused")
  BY <1>1, <1>6, EndsQuietly
<1>. QED
  BY <1>5, <1>6 DEF Get

LEMMA EvaluateAlone == ASSUME RInv, Sequential, NEW c \in Calls, Evaluate(c) PROVE Sequential'
<1>1. PICK answer \in {"passed", "failed"} : End(c, answer)
  BY DEF Evaluate
<1>2. /\ c \in InFlight /\ call[c].phase = "write" /\ UNCHANGED <<run, listed, cut, job>> /\ CallsOK
  BY DEF Evaluate, RInv
<1>. QED
  BY <1>1, <1>2, EndsQuietly

LEMMA LoseAlone == ASSUME RInv, Sequential, NEW c \in Calls, Lose(c) PROVE Sequential'
<1>1. /\ c \in InFlight /\ End(c, "lost") /\ UNCHANGED <<run, listed>> /\ CallsOK
      /\ job' = job \/ job' = NoJob
  BY DEF Lose, RInv
<1>2. CASE call[c].phase # "save"
  BY <1>1, <1>2, EndsQuietly DEF Lose
<1>3. CASE call[c].phase = "save"
  <2>1. cut' = cut \cup {Id(c, "decide")}
    BY <1>1, <1>3, AtStep, DecideId DEF Lose, RInv, Underway
  <2>2. Saving \subseteq {Id(c, "decide")}
    BY <1>1 DEF Saving, Sequential
  <2>3. listed' \subseteq Ids(run'.decisions) \cup cut'
    BY <1>1, <2>1, <2>2 DEF Sequential
  <2>4. Others(c) /\ call'[c] = Idle("lost")
    BY <1>1, EndRecord
  <2>5. /\ job'.kind # "none" => job'.copy = run'
        /\ Linked(run') /\ DecisionsOnce(run')
        /\ \A d \in Calls : call[d].answer = "none" => <<d, "decide">> \notin Ids(run'.decisions)
    BY <1>1 DEF Sequential, NoJob
  <2>. QED
    BY <1>1, <2>3, <2>4, <2>5, Ended
<1>. QED
  BY <1>2, <1>3

-----------------------------------------------------------------------------
(* Executions and replans between the calls.                               *)

\* A run that is put to work, collects or is replanned keeps its records.
LEMMA LinkedStill ==
  ASSUME NEW r, NEW q, Linked(r), DecisionsOnce(r),
         q.fin = r.fin, q.val = r.val, q.red = r.red, q.ic = r.ic, q.decisions = r.decisions,
         \/ q.thesis = r.thesis /\ r.evidence \subseteq q.evidence
         \/ \A v \in Entries(r.red) : v.thesis # q.thesis
         \/ q.thesis = 0
  PROVE  /\ Linked(q) /\ DecisionsOnce(q) /\ Ids(q.decisions) = Ids(r.decisions)
         /\ StoredParts(q) = StoredParts(r)
BY SameParts DEF Linked, DecisionsOnce

LEMMA RunningLinked ==
  ASSUME NEW r \in Payload, Linked(r), DecisionsOnce(r)
  PROVE  LET q == [r EXCEPT !.state = "RUNNING"]
         IN /\ Linked(q) /\ DecisionsOnce(q) /\ Ids(q.decisions) = Ids(r.decisions)
            /\ StoredParts(q) = StoredParts(r)
<1>. DEFINE q == [r EXCEPT !.state = "RUNNING"]
<1>1. /\ q.fin = r.fin /\ q.val = r.val /\ q.red = r.red /\ q.ic = r.ic /\ q.decisions = r.decisions
      /\ q.thesis = r.thesis /\ q.evidence = r.evidence
  BY DEF Payload
<1>. HIDE DEF q
<1>2. Linked(q) /\ DecisionsOnce(q) /\ Ids(q.decisions) = Ids(r.decisions) /\ StoredParts(q) = StoredParts(r)
  BY <1>1, LinkedStill
<1>. QED
  BY <1>2 DEF q

LEMMA FailedLinked ==
  ASSUME NEW r \in Payload, Linked(r), DecisionsOnce(r), NEW collected
  PROVE  LET q == [r EXCEPT !.state = "FAILED", !.evidence = @ \cup collected]
         IN /\ Linked(q) /\ DecisionsOnce(q) /\ Ids(q.decisions) = Ids(r.decisions)
            /\ StoredParts(q) = StoredParts(r)
<1>. DEFINE q == [r EXCEPT !.state = "FAILED", !.evidence = @ \cup collected]
<1>1. /\ q.fin = r.fin /\ q.val = r.val /\ q.red = r.red /\ q.ic = r.ic /\ q.decisions = r.decisions
      /\ q.thesis = r.thesis /\ r.evidence \subseteq q.evidence
  BY DEF Payload
<1>. HIDE DEF q
<1>2. Linked(q) /\ DecisionsOnce(q) /\ Ids(q.decisions) = Ids(r.decisions) /\ StoredParts(q) = StoredParts(r)
  BY <1>1, LinkedStill
<1>. QED
  BY <1>2 DEF q

LEMMA SynthesizedLinked ==
  ASSUME NEW n \in Nat, NEW r, Sound(r, n), Linked(r), DecisionsOnce(r),
         NEW state, NEW review, NEW collected
  PROVE  LET q == Synthesized(r, state, review, collected, n + 1)
         IN /\ Linked(q) /\ DecisionsOnce(q) /\ Ids(q.decisions) = Ids(r.decisions)
            /\ StoredParts(q) = StoredParts(r) /\ q.decisions = r.decisions
<1>. DEFINE q == Synthesized(r, state, review, collected, n + 1)
<1>1. r \in Payload /\ \A v \in Entries(r.red) : v.thesis \in Nat /\ v.thesis <= n
  BY ReviewThesis DEF Sound, Bounded
<1>2. /\ q.fin = r.fin /\ q.val = r.val /\ q.red = r.red /\ q.ic = r.ic /\ q.decisions = r.decisions
      /\ q.thesis = n + 1
  BY <1>1 DEF Synthesized, Payload
<1>3. \A v \in Entries(r.red) : v.thesis # q.thesis
  BY <1>1, <1>2
<1>. HIDE DEF q
<1>4. Linked(q) /\ DecisionsOnce(q) /\ Ids(q.decisions) = Ids(r.decisions) /\ StoredParts(q) = StoredParts(r)
  BY <1>2, <1>3, LinkedStill
<1>. QED
  BY <1>2, <1>4 DEF q

LEMMA ReplannedLinked ==
  ASSUME NEW r \in Payload, Linked(r), DecisionsOnce(r), NEW kept
  PROVE  LET q == Replanned(r, kept)
         IN /\ Linked(q) /\ DecisionsOnce(q) /\ Ids(q.decisions) = Ids(r.decisions)
            /\ StoredParts(q) = StoredParts(r) /\ q.decisions = r.decisions
<1>. DEFINE q == Replanned(r, kept)
<1>1. /\ q.fin = r.fin /\ q.val = r.val /\ q.red = r.red /\ q.ic = r.ic /\ q.decisions = r.decisions
      /\ q.thesis = 0
  BY DEF Replanned, Payload
<1>. HIDE DEF q
<1>2. Linked(q) /\ DecisionsOnce(q) /\ Ids(q.decisions) = Ids(r.decisions) /\ StoredParts(q) = StoredParts(r)
  BY <1>1, LinkedStill
<1>. QED
  BY <1>1, <1>2 DEF q

\* Nobody calls.
LEMMA NobodyMoves ==
  ASSUME Sequential, InFlight = {}, UNCHANGED <<call, listed, cut>>,
         Ids(run'.decisions) = Ids(run.decisions), Linked(run'), DecisionsOnce(run'),
         job'.kind # "none" => job'.copy = run'
  PROVE  Sequential'
<1>1. InFlight' = {}
  BY DEF InFlight
<1>2. listed \subseteq Ids(run.decisions) \cup cut
  BY NobodyPending
<1>. QED
  BY <1>1, <1>2 DEF Sequential

LEMMA ExecuteAlone == ASSUME RInv, Sequential, Execute, ~overlapped' PROVE Sequential'
<1>1. /\ InFlight = {} /\ UNCHANGED <<call, listed, cut>> /\ run \in Payload
      /\ Linked(run) /\ DecisionsOnce(run)
      /\ run' = [run EXCEPT !.state = "RUNNING"] /\ job'.copy = run'
  BY DEF Execute, StartExecution, RInv, Sound, Sequential
<1>2. Linked(run') /\ DecisionsOnce(run') /\ Ids(run'.decisions) = Ids(run.decisions)
  BY <1>1, RunningLinked
<1>. QED
  BY <1>1, <1>2, NobodyMoves

LEMMA ExecuteForAlone == ASSUME RInv, Sequential, NEW c \in Calls, ExecuteFor(c) PROVE Sequential'
<1>1. /\ c \in InFlight /\ call[c].phase = "execute" /\ UNCHANGED <<listed, cut>> /\ CallsOK /\ InTouch(c)
      /\ run \in Payload /\ Linked(run) /\ DecisionsOnce(run)
  BY DEF ExecuteFor, RInv, Sequential, Sound
<1>2. Workflow(c)
  BY <1>1, AtStep DEF Underway, Workflow
<1>3. CASE run.state \in {"CREATED", "RUNNING"} /\ StartExecution(c) /\ UNCHANGED call
  <2>1. /\ run' = [run EXCEPT !.state = "RUNNING"]
        /\ job'.kind = "execute" /\ job'.by = c /\ job'.copy = run'
    BY <1>3 DEF StartExecution
  <2>2. Linked(run') /\ DecisionsOnce(run') /\ Ids(run'.decisions) = Ids(run.decisions)
    BY <1>1, <2>1, RunningLinked
  <2>3. At(c) = "begin"
    BY <1>1, <1>2, <1>3 DEF InTouch, Following
  <2>4. At(c)' = "begin" /\ Others(c)
    BY <1>3, <2>3 DEF At, Others
  <2>5. InTouch(c)'
    BY <1>1, <1>3, <2>1, <2>4 DEF InTouch
  <2>6. listed \subseteq Ids(run.decisions) \cup cut
    BY <1>1, NothingPending
  <2>7. \A d \in Calls : call[d].answer = "none" => <<d, "decide">> \notin Ids(run.decisions)
    BY DEF Sequential
  <2>. QED
    BY <1>1, <1>3, <2>1, <2>2, <2>4, <2>5, <2>6, <2>7, Moved
<1>4. CASE End(c, "refused") /\ UNCHANGED <<run, job>>
  BY <1>1, <1>4, EndsQuietly
<1>5. CASE /\ run.state = "COMPLETED" /\ UNCHANGED <<run, job>>
           /\ call' = [call EXCEPT ![c].first = run, ![c].step = 2, ![c].phase = "read"]
  <2>1. /\ Others(c) /\ call'[c].op = call[c].op /\ call'[c].request = call[c].request
        /\ call'[c].first = run /\ call'[c].answer = call[c].answer
        /\ call'[c].step = 2 /\ call'[c].phase = "read"
    BY <1>1, <1>5, AtStep DEF Others, CallsOK, CallRecords
  <2>2. Following(c)'
    BY <1>1, <1>5, <2>1, BeginsFollowing
  <2>3. InTouch(c)'
    BY <1>1, <1>5, <2>1, <2>2 DEF InTouch
  <2>. QED
    BY <1>1, <1>5, <2>1, <2>3, MovedQuietly
<1>. QED
  BY <1>3, <1>4, <1>5 DEF ExecuteFor

\* What the last write of an execution keeps of the run it read.
LEMMA FinishLinked ==
  ASSUME RInv, Sequential, FinishExecution
  PROVE  /\ Linked(run') /\ DecisionsOnce(run') /\ Ids(run'.decisions) = Ids(run.decisions)
         /\ StoredParts(run') = StoredParts(run)
<1>1. /\ job.copy = run /\ Sound(run, theses) /\ run \in Payload /\ theses \in Nat
      /\ Linked(run) /\ DecisionsOnce(run)
  <2>1. job.kind = "execute"
    BY DEF FinishExecution
  <2>2. Sound(run, theses) /\ theses \in Nat
    BY BoundAssumption DEF RInv
  <2>. QED
    BY <2>1, <2>2 DEF Sequential, Sound
<1>2. CASE \E collected \in Harvests :
             \E s \in {<<"COMPLETED", "PENDING_REVIEW">>, <<"PARTIAL", "PENDING_REVIEW">>,
                       <<"PARTIAL", "NEEDS_REVIEW">>} :
                run' = Synthesized(job.copy, s[1], s[2], collected, theses + 1)
  <2>1. PICK collected \in Harvests,
             s \in {<<"COMPLETED", "PENDING_REVIEW">>, <<"PARTIAL", "PENDING_REVIEW">>,
                    <<"PARTIAL", "NEEDS_REVIEW">>} :
          run' = Synthesized(run, s[1], s[2], collected, theses + 1)
    BY <1>1, <1>2
  <2>. QED
    BY <1>1, <2>1, SynthesizedLinked
<1>3. CASE \E collected \in Harvests :
             run' = [job.copy EXCEPT !.state = "FAILED", !.evidence = @ \cup collected]
  <2>1. PICK collected \in Harvests :
          run' = [run EXCEPT !.state = "FAILED", !.evidence = @ \cup collected]
    BY <1>1, <1>3
  <2>. QED
    BY <1>1, <2>1, FailedLinked
<1>. QED
  BY <1>2, <1>3 DEF FinishExecution

LEMMA FinishExecutionAlone == ASSUME RInv, Sequential, FinishExecution PROVE Sequential'
<1>1. /\ job.kind = "execute" /\ job' = NoJob /\ UNCHANGED <<listed, cut>> /\ job'.kind = "none"
      /\ call' = [c \in Calls |->
                    IF c # job.by THEN call[c]
                    ELSE IF run'.state = "COMPLETED"
                    THEN [call[c] EXCEPT !.first = run', !.step = 2, !.phase = "read"]
                    ELSE Idle("refused")]
      /\ JobOK /\ CallsOK
  BY DEF FinishExecution, NoJob, RInv
<1>2. Linked(run') /\ DecisionsOnce(run') /\ Ids(run'.decisions) = Ids(run.decisions)
  BY FinishLinked
<1>3. CASE InFlight = {}
  <2>1. job.by \notin Calls
    BY <1>1, <1>3 DEF JobOK, InFlight
  <2>2. call' = call
    BY <1>1, <2>1 DEF CallsOK
  <2>. QED
    BY <1>1, <1>2, <1>3, <2>2, NobodyMoves
<1>4. ASSUME NEW c \in InFlight PROVE Sequential'
  <2>1. /\ job.by = c /\ c \in Calls /\ call[c].phase = "execute" /\ Workflow(c) /\ InTouch(c)
    BY <1>1 DEF Sequential, InTouch, JobOK, InFlight, Workflow
  <2>2. Others(c)
    BY <1>1, <2>1 DEF Others
  <2>3. listed \subseteq Ids(run.decisions) \cup cut
    BY <2>1, NothingPending
  <2>4. \A d \in Calls : call[d].answer = "none" => <<d, "decide">> \notin Ids(run.decisions)
    BY DEF Sequential
  <2>5. CASE run'.state = "COMPLETED"
    <3>0. /\ call'[c] = [call[c] EXCEPT !.first = run', !.step = 2, !.phase = "read"]
          /\ call[c] \in CallRecords
      BY <1>1, <2>1, <2>5 DEF CallsOK
    <3>1. /\ call'[c].op = call[c].op /\ call'[c].request = call[c].request
          /\ call'[c].first = run' /\ call'[c].answer = call[c].answer
          /\ call'[c].step = 2 /\ call'[c].phase = "read"
      BY <3>0 DEF CallRecords
    <3>2. Following(c)'
      BY <2>5, <3>1, BeginsFollowing
    <3>3. InTouch(c)'
      BY <1>1, <2>1, <3>1, <3>2 DEF InTouch
    <3>. QED
      BY <1>1, <1>2, <2>2, <2>3, <2>4, <3>1, <3>3, Moved
  <2>6. CASE run'.state # "COMPLETED"
    <3>1. call'[c] = Idle("refused")
      BY <1>1, <2>1, <2>6
    <3>. QED
      BY <1>1, <1>2, <2>2, <2>3, <2>4, <3>1, Ended
  <2>. QED
    BY <2>5, <2>6
<1>. QED
  BY <1>3, <1>4

LEMMA ReadForReplanAlone == ASSUME RInv, Sequential, ReadForReplan, ~overlapped' PROVE Sequential'
<1>1. /\ InFlight = {} /\ UNCHANGED <<run, call, listed, cut>> /\ job'.copy = run
      /\ Linked(run) /\ DecisionsOnce(run)
  BY DEF ReadForReplan, Sequential
<1>. QED
  BY <1>1, NobodyMoves

LEMMA ReplanAlone == ASSUME RInv, Sequential, Replan PROVE Sequential'
<1>1. PICK kept \in Harvests : run' = Replanned(job.copy, kept \cap job.copy.evidence)
  BY DEF Replan
<1>2. /\ InFlight = {} /\ job.copy = run /\ UNCHANGED <<call, listed, cut>> /\ job'.kind = "none"
      /\ run \in Payload /\ Linked(run) /\ DecisionsOnce(run)
  BY DEF Replan, Sequential, InTouch, NoJob, RInv, Sound
<1>3. Linked(run') /\ DecisionsOnce(run') /\ Ids(run'.decisions) = Ids(run.decisions)
  BY <1>1, <1>2, ReplannedLinked
<1>. QED
  BY <1>2, <1>3, NobodyMoves

LEMMA LoseJobAlone == ASSUME RInv, Sequential, LoseJob PROVE Sequential'
<1>1. /\ UNCHANGED <<run, call, listed, cut>> /\ job' = NoJob /\ job'.kind = "none"
      /\ Linked(run) /\ DecisionsOnce(run)
  BY DEF LoseJob, NoJob, Sequential
<1>2. \A c \in InFlight : InTouch(c) => InTouch(c)'
  BY <1>1 DEF InTouch, Following, At, Past, Workflow
<1>3. InFlight' = InFlight /\ Saving' = Saving
  BY <1>1 DEF InFlight, Saving, Id, Workflow
<1>. QED
  BY <1>1, <1>2, <1>3 DEF Sequential

-----------------------------------------------------------------------------
(* The evaluation.                                                         *)

\* A call that evaluates has everything stored, and read the run as it is.
LEMMA AllStored ==
  ASSUME RInv, Sequential, NEW c \in Calls, Evaluate(c)
  PROVE  /\ c \in InFlight /\ Workflow(c) /\ call[c].copy = run
         /\ run.state = "COMPLETED" /\ StoredParts(run) = Parts
<1>1. /\ c \in InFlight /\ At(c) = "evaluate" /\ call[c].phase = "write" /\ CallsOK /\ InTouch(c)
  BY DEF Evaluate, RInv, Sequential
<1>2. call[c].op \in Endpoints /\ call[c].step \in DOMAIN Route(call[c].op)
  BY <1>1, AtStep DEF Underway
<1>3. call[c].op = "workflow"
  BY <1>1, <1>2, OnlyWorkflowEvaluates DEF At
<1>4. Following(c)
  BY <1>1, <1>3 DEF InTouch, Workflow
<1>5. Parts \subseteq Past(c)
  BY <1>1, <1>2, <1>3, WorkflowRoute DEF At, Past, Parts
<1>6. StoredParts(run) = Parts
  BY <1>4, <1>5, PartsOf DEF Following
<1>. QED
  BY <1>1, <1>3, <1>4, <1>6 DEF InTouch, Following, Workflow

\* A run whose parts are all stored passes, unless a replan left something.
LEMMA FailsOverLeftovers ==
  ASSUME NEW r, NEW n \in Nat, Sound(r, n), Linked(r), r.state = "COMPLETED", StoredParts(r) = Parts
  PROVE  Failures(r, Cardinality(Good(r))) # {} <=> Leftovers(r)
<1>. DEFINE Fails(k) ==
       CASE k = "terminal_state" -> r.state # "COMPLETED"
         [] k = "qualified_evidence" -> Cardinality(Good(r)) < Cardinality(Good(r))
         [] k = "financial_artifact_links" -> ~(r.fin.evidence \subseteq Good(r))
         [] k = "financial_artifact_presence" -> r.fin = NoArtifact
         [] k = "valuation_artifact_links" -> ~(r.val.evidence \subseteq Good(r))
         [] k = "valuation_artifact_presence" -> r.val = NoArtifact
         [] k = "red_team_links" -> BadRed(r) # {} \/ BadRedEvidence(r) # {}
         [] k = "red_team_coverage" ->
              \A v \in Entries(r.red) \ BadRed(r) : v.evidence \cap BadRedEvidence(r) # {}
         [] k = "ic_review_links" -> ~ReviewsLink(r)
         [] k = "ic_review_coverage" ->
              ~(Range(Roles) \subseteq {v.role : v \in {w \in Entries(r.ic) : w.thesis = r.thesis}})
     Checks == {"terminal_state", "qualified_evidence", "financial_artifact_links",
                "financial_artifact_presence", "valuation_artifact_links",
                "valuation_artifact_presence", "red_team_links", "red_team_coverage",
                "ic_review_links", "ic_review_coverage"}
<1>1. Failures(r, Cardinality(Good(r))) = {k \in Checks : Fails(k)}
  BY DEF Failures
<1>2. /\ Fails("terminal_state") <=> r.state # "COMPLETED"
      /\ Fails("qualified_evidence") <=> Cardinality(Good(r)) < Cardinality(Good(r))
      /\ Fails("financial_artifact_links") <=> ~(r.fin.evidence \subseteq Good(r))
      /\ Fails("financial_artifact_presence") <=> r.fin = NoArtifact
      /\ Fails("valuation_artifact_links") <=> ~(r.val.evidence \subseteq Good(r))
      /\ Fails("valuation_artifact_presence") <=> r.val = NoArtifact
      /\ Fails("red_team_links") <=> BadRed(r) # {} \/ BadRedEvidence(r) # {}
      /\ Fails("red_team_coverage") <=>
           \A v \in Entries(r.red) \ BadRed(r) : v.evidence \cap BadRedEvidence(r) # {}
      /\ Fails("ic_review_links") <=> ~ReviewsLink(r)
      /\ Fails("ic_review_coverage") <=>
           ~(Range(Roles) \subseteq {v.role : v \in {w \in Entries(r.ic) : w.thesis = r.thesis}})
  OBVIOUS
<1>. HIDE DEF Fails
<1>3. r \in Payload /\ MemoCurrent(r) /\ ReviewsOnce(r) /\ DecisionsGrounded(r)
  BY DEF Sound
<1>4. ASSUME Leftovers(r) PROVE \E k \in Checks : Fails(k)
  <2>1. CASE \E v \in Entries(r.red) : v.thesis # r.thesis
    BY <1>2, <2>1 DEF BadRed
  <2>2. CASE \E v \in Entries(r.ic) : v.thesis # r.thesis /\ v.id \in CitedReviews(r)
    BY <1>2, <2>2 DEF ReviewsLink, Referenced
  <2>3. CASE ~(r.fin.evidence \cup r.val.evidence \subseteq r.evidence)
    BY <1>2, <2>3 DEF Good
  <2>. QED
    BY <1>4, <2>1, <2>2, <2>3 DEF Leftovers
<1>5. ASSUME ~Leftovers(r), NEW k \in Checks, Fails(k) PROVE FALSE
  <2>1. /\ \A v \in Entries(r.red) : v.thesis = r.thesis
        /\ \A v \in Entries(r.ic) : v.id \in CitedReviews(r) => v.thesis = r.thesis
        /\ r.fin.evidence \cup r.val.evidence \subseteq r.evidence
    BY <1>5 DEF Leftovers
  <2>2. ~Fails("terminal_state")
    BY <1>2
  <2>3. ~Fails("qualified_evidence")
    <3>1. IsFiniteSet(Good(r))
      BY <1>3, EvidenceAssumption, FS_Subset DEF Good, Payload
    <3>2. Cardinality(Good(r)) \in Nat
      BY <3>1, FS_CardinalityType
    <3>. QED
      BY <1>2, <3>2
  <2>4. ~Fails("financial_artifact_links") /\ ~Fails("valuation_artifact_links")
    BY <1>2, <2>1 DEF Linked, Good
  <2>5. ~Fails("financial_artifact_presence") /\ ~Fails("valuation_artifact_presence")
    BY <1>2, PartsOf DEF Parts
  <2>6. BadRed(r) = {} /\ BadRedEvidence(r) = {}
    <3>1. BadRed(r) = {}
      BY <2>1 DEF BadRed
    <3>2. \A v \in Entries(r.red) : v.evidence \subseteq r.evidence \cap Counter
      BY <2>1 DEF Linked
    <3>3. UNION {v.evidence : v \in Entries(r.red)} \subseteq r.evidence \cap Counter
      BY <3>2
    <3>. QED
      BY <3>1, <3>3 DEF BadRedEvidence
  <2>7. PICK red \in Entries(r.red) : red.id = <<None, "red">>
    BY PartsOf DEF Parts, Ids, Entries
  <2>8. ~Fails("red_team_links") /\ ~Fails("red_team_coverage")
    BY <1>2, <2>6, <2>7
  <2>9. r.thesis # 0
    BY <2>1, <2>7 DEF Linked
  <2>10. CitedReviews(r) \subseteq Ids(r.ic)
    BY <1>3 DEF DecisionsGrounded, CitedReviews
  <2>11. Range(r.memo.ic) = {v.id : v \in {w \in Entries(r.ic) : w.thesis = r.thesis}}
    BY <1>3, <2>9 DEF MemoCurrent
  <2>12. Referenced(r) \subseteq Ids(r.ic)
    BY <2>10, <2>11 DEF Referenced, Ids, Entries
  <2>13. \A v, w \in Entries(r.ic) : v.id = w.id => v = w
    BY <1>3 DEF ReviewsOnce, Entries
  <2>14. \A v \in Entries(r.ic) : v.id \in Range(r.memo.ic) => v.thesis = r.thesis
    BY <2>11, <2>13
  <2>15. ~Fails("ic_review_links")
    BY <1>2, <2>1, <2>12, <2>14 DEF ReviewsLink, Referenced
  <2>16. ~Fails("ic_review_coverage")
    <3>1. PICK d \in Entries(r.decisions) : d.id = <<None, "decide">>
      BY PartsOf DEF Parts, Ids, Entries
    <3>2. MvpReviews \subseteq CitedReviews(r)
      BY <3>1 DEF Linked, CitedReviews
    <3>3. ASSUME NEW role \in Range(Roles)
          PROVE  role \in {v.role : v \in {w \in Entries(r.ic) : w.thesis = r.thesis}}
      <4>1. <<None, role>> \in Ids(r.ic)
        BY PartsOf DEF Parts
      <4>2. PICK v \in Entries(r.ic) : v.id = <<None, role>>
        BY <4>1 DEF Ids, Entries
      <4>3. v.thesis = r.thesis
        BY <2>1, <3>2, <4>2 DEF MvpReviews
      <4>4. v.role = role
        BY <4>2 DEF Linked
      <4>. QED
        BY <4>3, <4>4
    <3>. QED
      BY <1>2, <3>3
  <2>. QED
    BY <1>5, <2>2, <2>3, <2>4, <2>5, <2>8, <2>15, <2>16
<1>. QED
  BY <1>1, <1>4, <1>5

LEMMA EvaluateExplained ==
  ASSUME RInv, Sequential, NEW c \in Calls, Evaluate(c)
  PROVE  call'[c].answer = "failed" <=> Leftovers(run)
<1>. DEFINE failures == Failures(run, Cardinality(Good(call[c].copy)))
<1>1. End(c, IF failures = {} THEN "passed" ELSE "failed")
  BY DEF Evaluate
<1>2. call'[c] = Idle(IF failures = {} THEN "passed" ELSE "failed")
  BY <1>1, EndRecord DEF RInv
<1>3. call'[c].answer = IF failures = {} THEN "passed" ELSE "failed"
  BY <1>2 DEF Idle
<1>4. failures # {} <=> Leftovers(run)
  BY AllStored, FailsOverLeftovers, BoundAssumption DEF RInv, Sequential
<1>. QED
  BY <1>3, <1>4

-----------------------------------------------------------------------------
(* The invariant of calls that come one after the other.                   *)

LEMMA InitSequential == Init => OneByOne
<1>. SUFFICES ASSUME Init PROVE Sequential
  BY DEF OneByOne
<1>1. /\ run = NewRun /\ listed = {} /\ job.kind = "none" /\ \A c \in Calls : call[c].op = "none"
  BY DEF Init, NoJob, Idle
<1>2. InFlight = {}
  BY <1>1 DEF InFlight
<1>3. /\ NewRun.fin.evidence = {} /\ NewRun.val.evidence = {} /\ NewRun.red = << >>
      /\ NewRun.ic = << >> /\ NewRun.decisions = << >>
  BY DEF NewRun, NoArtifact
<1>4. Linked(run) /\ DecisionsOnce(run) /\ Ids(run.decisions) = {}
  BY <1>1, <1>3, EmptyHolds DEF Linked, DecisionsOnce
<1>. QED
  BY <1>1, <1>2, <1>4 DEF Sequential

\* What has overlapped once has overlapped for good.
LEMMA OverlappedStays ==
  ASSUME RInv, [Next]_vars, ~overlapped'
  PROVE  ~overlapped
<1>1. overlapped \in BOOLEAN
  BY DEF RInv
<1>2. ASSUME NEW c \in Calls, Submit(c) PROVE ~overlapped
  <2>1. overlapped' = (overlapped \/ InFlight # {} \/ job # NoJob)
    BY <1>2 DEF Submit
  <2>. QED
    BY <1>1, <2>1, Zenon
<1>3. ASSUME NEW c \in Calls,
             \/ Begin(c) \/ Check(c) \/ Skip(c) \/ Read(c) \/ Write(c) \/ Save(c)
             \/ Get(c) \/ Evaluate(c) \/ Lose(c) \/ ExecuteFor(c)
      PROVE  ~overlapped
  <2>1. UNCHANGED overlapped
    BY <1>3, Zenon DEF Begin, Check, Skip, Read, Write, Save, Get, Evaluate, Lose, ExecuteFor
  <2>. QED
    BY <2>1
<1>4. CASE Execute \/ ReadForReplan
  <2>1. overlapped' = (overlapped \/ InFlight # {})
    BY <1>4 DEF Execute, ReadForReplan
  <2>. QED
    BY <1>1, <2>1, Zenon
<1>5. CASE FinishExecution \/ Replan \/ LoseJob
  BY <1>5 DEF FinishExecution, Replan, LoseJob
<1>6. CASE UNCHANGED vars
  BY <1>6 DEF vars
<1>. QED
  BY <1>2, <1>3, <1>4, <1>5, <1>6 DEF Next

LEMMA StepOneByOne == RInv /\ OneByOne /\ [Next]_vars => OneByOne'
<1>. SUFFICES ASSUME RInv, OneByOne, [Next]_vars, ~overlapped' PROVE Sequential'
  BY DEF OneByOne
<1>1. Sequential
  BY OverlappedStays DEF OneByOne
<1>2. ASSUME NEW c \in Calls,
             \/ Submit(c) \/ Begin(c) \/ Check(c) \/ Skip(c) \/ Read(c) \/ Write(c) \/ Save(c)
             \/ Get(c) \/ Evaluate(c) \/ Lose(c) \/ ExecuteFor(c)
      PROVE  Sequential'
  BY <1>1, <1>2, SubmitAlone, BeginAlone, CheckAlone, SkipAlone, ReadAlone, WriteAlone, SaveAlone,
     GetAlone, EvaluateAlone, LoseAlone, ExecuteForAlone
<1>3. CASE Execute \/ FinishExecution \/ ReadForReplan \/ Replan \/ LoseJob
  BY <1>1, <1>3, ExecuteAlone, FinishExecutionAlone, ReadForReplanAlone, ReplanAlone, LoseJobAlone
<1>4. CASE UNCHANGED vars
  <2>1. InFlight' = InFlight /\ Saving' = Saving /\ \A c \in InFlight : InTouch(c) => InTouch(c)'
    BY <1>4 DEF vars, InFlight, Saving, Id, Workflow, InTouch, Following, At, Past
  <2>. QED
    BY <1>1, <1>4, <2>1 DEF vars, Sequential
<1>. QED
  BY <1>2, <1>3, <1>4 DEF Next

\* The inductive invariant: while calls come one after the other, the one in
\* flight knows the run as it is stored.
THEOREM Alone == Spec => []OneByOne
<1>1. Init => RInv /\ OneByOne
  BY Initially, InitSequential
<1>2. RInv /\ OneByOne /\ [Next]_vars => (RInv /\ OneByOne)'
  BY Step, StepOneByOne
<1>. QED
  BY <1>1, <1>2, PTL DEF Spec

\* Called one after the other, and called again after it was cut off, the
\* workflow records its decision once: it finds what it recorded before.
THEOREM Decides == Spec => []DecidedOnce
<1>1. OneByOne => DecidedOnce
  BY DEF OneByOne, Sequential, DecisionsOnce, DecidedOnce
<1>. QED
  BY <1>1, Alone, PTL

\* Between its two writes, and only there, a decision is in the memory and not in
\* the run: its own call is about to save it, or was cut off in between.
THEOREM Listing == Spec => []ListedOrCut
<1>1. RInv /\ OneByOne => ListedOrCut
  <2>. SUFFICES ASSUME RInv, Sequential, NEW id \in listed \ Ids(run.decisions), id \notin cut
                PROVE  \E c \in Calls : call[c].phase = "save" /\ Item(c).id = id
    BY DEF OneByOne, ListedOrCut
  <2>1. PICK c \in InFlight : call[c].phase = "save" /\ id = Id(c, "decide")
    BY DEF Sequential, Saving
  <2>2. c \in Calls /\ At(c) = "decide"
    BY <2>1, AtStep DEF RInv, Underway, InFlight
  <2>. QED
    BY <2>1, <2>2, DecideId
<1>. QED
  BY <1>1, Invariance, Alone, PTL

\* The evaluation that the workflow ends with fails over what was recorded
\* before a replan and over nothing else.
THEOREM Verdict == Spec => VerdictExplained
<1>1. RInv /\ OneByOne =>
        \A c \in Calls : Evaluate(c) /\ ~overlapped =>
          (call'[c].answer = "failed" <=> Leftovers(run))
  BY EvaluateExplained DEF OneByOne
<1>. QED
  BY <1>1, Invariance, Alone, PTL DEF VerdictExplained

-----------------------------------------------------------------------------
(* The chain of artifacts grows one part at a time.                        *)

Receiving(c) == call'[c].answer \in {"passed", "failed"}

\* A call that comes to anything but a receipt leaves the receipts as they are.
LEMMA ReceiptsKept ==
  ASSUME NEW c \in Calls, Others(c), call[c].answer = "none", ~Receiving(c)
  PROVE  UNCHANGED Receipts
BY DEF Others, Receiving, Receipts

LEMMA ReceiptsAsCalls == ASSUME UNCHANGED call PROVE UNCHANGED Receipts
BY DEF Receipts

LEMMA EndReceipt ==
  ASSUME CallsOK, NEW c \in InFlight, InTouch(c), NEW answer, End(c, answer),
         answer \notin {"passed", "failed"}
  PROVE  UNCHANGED Receipts
<1>1. Others(c) /\ call'[c] = Idle(answer) /\ c \in Calls
  BY EndRecord DEF InFlight
<1>2. call'[c].answer = answer
  BY <1>1 DEF Idle
<1>. QED
  BY <1>1, <1>2, ReceiptsKept DEF InTouch, Receiving

LEMMA GotoReceipt ==
  ASSUME CallsOK, NEW c \in InFlight, InTouch(c), NEW phase, Goto(c, phase)
  PROVE  UNCHANGED Receipts
<1>1. Others(c) /\ call'[c].answer = "none" /\ c \in Calls
  BY GotoRecord DEF InFlight, InTouch
<1>. QED
  BY <1>1, ReceiptsKept DEF InTouch, Receiving

LEMMA AdvanceReceipt ==
  ASSUME CallsOK, NEW c \in InFlight, InTouch(c), Advance(c) \/ Recorded(c)
  PROVE  UNCHANGED Receipts
<1>1. CASE Advance(c)
  <2>1. Others(c) /\ call'[c].answer \in {"done", "none"} /\ c \in Calls
    BY <1>1, AdvanceRecord DEF InFlight, InTouch, Idle
  <2>. QED
    BY <2>1, ReceiptsKept DEF InTouch, Receiving
<1>2. CASE Goto(c, "get")
  BY <1>2, GotoReceipt
<1>. QED
  BY <1>1, <1>2 DEF Recorded

\* A step with one more part in the run is the chain's, unless the part was
\* there.
LEMMA Stores ==
  ASSUME NEW part \in Parts, StoredParts(run') = StoredParts(run) \cup {part},
         part = "decide" => Range(Roles) \subseteq StoredParts(run), UNCHANGED Receipts
  PROVE  Chain!Next \/ UNCHANGED <<StoredParts(run), Receipts>>
<1>1. CASE part \in StoredParts(run)
  BY <1>1
<1>2. CASE part \notin StoredParts(run)
  <2>1. Chain!Store(part) /\ part \in Chain!Parts
    BY <1>2 DEF Chain!Store, Chain!Parts, Parts
  <2>. QED
    BY <2>1 DEF Chain!Next
<1>. QED
  BY <1>1, <1>2

LEMMA WriteGrows ==
  ASSUME RInv, Sequential, NEW c \in Calls, Write(c)
  PROVE  Chain!Next \/ UNCHANGED <<StoredParts(run), Receipts>>
<1>1. /\ c \in InFlight /\ call[c].phase = "write" /\ At(c) # "evaluate"
      /\ CallsOK /\ InTouch(c) /\ call[c].copy = run /\ run \in Payload
      /\ Linked(run) /\ DecisionsOnce(run)
  BY DEF Write, RInv, Sequential, InTouch, Sound
<1>2. At(c) \in Steps \ {"begin", "evaluate"}
  BY <1>1, AtStep DEF Underway
<1>3. CASE Refuses(run, c)
  <2>1. End(c, "refused") /\ UNCHANGED run
    BY <1>1, <1>3 DEF Write
  <2>. QED
    BY <1>1, <2>1, EndReceipt
<1>4. CASE ~Refuses(run, c) /\ At(c) = "decide"
  <2>1. call' = [call EXCEPT ![c].phase = "save"] /\ UNCHANGED run
    BY <1>1, <1>4 DEF Write
  <2>2. Others(c) /\ call'[c].answer = call[c].answer
    BY <1>1, <2>1, AtStep DEF Others, CallsOK, CallRecords
  <2>3. UNCHANGED Receipts
    BY <1>1, <2>2, ReceiptsKept DEF InTouch, Receiving
  <2>. QED
    BY <2>1, <2>3
<1>5. CASE ~Refuses(run, c) /\ At(c) # "decide"
  <2>1. run' = With(run, c) /\ Recorded(c)
    BY <1>1, <1>5 DEF Write
  <2>2. StoredParts(run') = StoredParts(run) \cup Added(c)
    BY <1>1, <1>2, <1>5, <2>1, WithRecords DEF InTouch
  <2>3. UNCHANGED Receipts
    BY <1>1, <2>1, AdvanceReceipt
  <2>4. CASE Added(c) = {}
    BY <2>2, <2>3, <2>4
  <2>5. CASE Added(c) = {At(c)}
    <3>1. At(c) \in Parts
      BY <1>2 DEF Steps, Parts
    <3>. QED
      BY <1>5, <2>2, <2>3, <2>5, <3>1, Stores
  <2>. QED
    BY <2>4, <2>5 DEF Added
<1>. QED
  BY <1>3, <1>4, <1>5

LEMMA SaveGrows ==
  ASSUME RInv, Sequential, NEW c \in Calls, Save(c)
  PROVE  Chain!Next \/ UNCHANGED <<StoredParts(run), Receipts>>
<1>1. /\ c \in InFlight /\ call[c].phase = "save" /\ Advance(c)
      /\ CallsOK /\ InTouch(c) /\ call[c].copy = run
      /\ run' = With(run, c) /\ run \in Payload /\ Linked(run) /\ DecisionsOnce(run)
  BY DEF Save, RInv, Sequential, InTouch, Sound
<1>2. /\ At(c) = "decide" /\ call[c].op \in Endpoints /\ call[c].step \in DOMAIN Route(call[c].op)
      /\ Item(c) = Decision(c) /\ ~RefusesDecision(run, Decision(c))
  BY <1>1, AtStep, ItemType DEF Underway
<1>3. ~Refuses(run, c) /\ Id(c, "decide") \notin Ids(run.decisions)
  BY <1>1, <1>2, UndecidedYet DEF Refuses
<1>4. StoredParts(run') = StoredParts(run) \cup Added(c)
  BY <1>1, <1>2, <1>3, WithRecords DEF InTouch
<1>5. UNCHANGED Receipts
  BY <1>1, AdvanceReceipt
<1>6. CASE ~Workflow(c)
  BY <1>2, <1>4, <1>5, <1>6 DEF Added
<1>7. CASE Workflow(c)
  <2>1. Range(Roles) \subseteq Past(c)
    BY <1>2, <1>7, WorkflowRoute DEF At, Past, Workflow
  <2>2. Range(Roles) \subseteq StoredParts(run)
    BY <1>1, <1>2, <1>7, <2>1 DEF InTouch, Following
  <2>. QED
    BY <1>2, <1>4, <1>5, <1>7, <2>2, Stores DEF Added, Parts
<1>. QED
  BY <1>6, <1>7

\* A receipt is given for all parts.
LEMMA EvaluateReceives ==
  ASSUME RInv, Sequential, NEW c \in Calls, Evaluate(c)
  PROVE  Chain!Next
<1>. DEFINE answer == IF Failures(run, Cardinality(Good(call[c].copy))) = {} THEN "passed" ELSE "failed"
<1>1. End(c, answer) /\ UNCHANGED run /\ CallsOK
  BY DEF Evaluate, RInv
<1>2. answer \in {"passed", "failed"}
  OBVIOUS
<1>. HIDE DEF answer
<1>3. Others(c) /\ call'[c] = Idle(answer)
  BY <1>1, EndRecord
<1>4. Receipts' = Receipts \cup {c}
  BY <1>2, <1>3 DEF Others, Receipts, Idle
<1>5. Chain!Receive(c)
  BY <1>1, <1>4, AllStored DEF Chain!Receive, Chain!Parts, Parts
<1>. QED
  BY <1>5 DEF Chain!Next

\* No other step of a call adds a part or comes to a receipt.
LEMMA CallGrowsNothing ==
  ASSUME RInv, Sequential, NEW c \in Calls,
         \/ Submit(c) \/ Begin(c) \/ Check(c) \/ Skip(c) \/ Read(c) \/ Get(c) \/ Lose(c) \/ ExecuteFor(c)
  PROVE  UNCHANGED <<StoredParts(run), Receipts>>
<1>1. CallsOK /\ run \in Payload /\ Linked(run) /\ DecisionsOnce(run)
  BY DEF RInv, Sequential, Sound
<1>2. CASE Submit(c)
  <2>1. call[c] = Idle("none") /\ UNCHANGED run
    BY <1>2 DEF Submit
  <2>2. PICK body \in Bodies :
          call' = [call EXCEPT ![c].op = body[1], ![c].request = body[2],
                               ![c].target = run.thesis, ![c].seen = Ids(run.ic)]
    BY <1>2 DEF Submit
  <2>3. Others(c) /\ call[c].answer = "none" /\ call'[c].answer = "none"
    BY <1>1, <2>1, <2>2 DEF Others, Idle, CallsOK
  <2>. QED
    BY <2>1, <2>3, ReceiptsKept DEF Receiving
<1>3. ASSUME c \in InFlight PROVE InTouch(c) /\ call[c].answer = "none"
  BY <1>3 DEF Sequential, InTouch
<1>4. CASE Begin(c)
  <2>1. c \in InFlight /\ UNCHANGED run
    BY <1>4 DEF Begin
  <2>2. CASE Goto(c, "execute")
    BY <1>1, <1>3, <2>1, <2>2, GotoReceipt
  <2>3. CASE End(c, "refused")
    BY <1>1, <1>3, <2>1, <2>3, EndReceipt
  <2>4. CASE call' = [call EXCEPT ![c].first = run, ![c].step = 2]
    <3>1. Others(c) /\ call'[c].answer = call[c].answer
      BY <1>1, <2>1, <2>4, AtStep DEF Others, CallsOK, CallRecords
    <3>. QED
      BY <1>3, <2>1, <3>1, ReceiptsKept DEF Receiving
  <2>. QED
    BY <1>4, <2>1, <2>2, <2>3, <2>4 DEF Begin
<1>5. CASE Check(c)
  <2>1. c \in InFlight /\ UNCHANGED run /\ (Goto(c, "read") \/ End(c, "refused"))
    BY <1>5 DEF Check
  <2>. QED
    BY <1>1, <1>3, <2>1, GotoReceipt, EndReceipt
<1>6. CASE Skip(c)
  <2>1. c \in InFlight /\ UNCHANGED run /\ (Recorded(c) \/ End(c, "refused"))
    BY <1>6 DEF Skip
  <2>. QED
    BY <1>1, <1>3, <2>1, AdvanceReceipt, EndReceipt
<1>7. CASE Read(c)
  <2>1. /\ c \in InFlight /\ UNCHANGED run
        /\ call' = [call EXCEPT ![c].copy = run, ![c].phase = "write"]
    BY <1>7 DEF Read
  <2>2. Others(c) /\ call'[c].answer = call[c].answer
    BY <1>1, <2>1, AtStep DEF Others, CallsOK, CallRecords
  <2>. QED
    BY <1>3, <2>1, <2>2, ReceiptsKept DEF Receiving
<1>8. CASE Get(c)
  <2>1. c \in InFlight /\ UNCHANGED run /\ (Advance(c) \/ End(c, "refused"))
    BY <1>8 DEF Get
  <2>. QED
    BY <1>1, <1>3, <2>1, AdvanceReceipt, EndReceipt
<1>9. CASE Lose(c)
  <2>1. c \in InFlight /\ UNCHANGED run /\ End(c, "lost")
    BY <1>9 DEF Lose
  <2>. QED
    BY <1>1, <1>3, <2>1, EndReceipt
<1>10. CASE ExecuteFor(c)
  <2>1. c \in InFlight
    BY <1>10 DEF ExecuteFor
  <2>2. CASE StartExecution(c) /\ UNCHANGED call
    <3>1. run' = [run EXCEPT !.state = "RUNNING"]
      BY <2>2 DEF StartExecution
    <3>. QED
      BY <1>1, <2>2, <3>1, RunningLinked, ReceiptsAsCalls
  <2>3. CASE End(c, "refused") /\ UNCHANGED run
    BY <1>1, <1>3, <2>1, <2>3, EndReceipt
  <2>4. CASE /\ UNCHANGED run
             /\ call' = [call EXCEPT ![c].first = run, ![c].step = 2, ![c].phase = "read"]
    <3>1. Others(c) /\ call'[c].answer = call[c].answer
      BY <1>1, <2>1, <2>4, AtStep DEF Others, CallsOK, CallRecords
    <3>. QED
      BY <1>3, <2>1, <2>4, <3>1, ReceiptsKept DEF Receiving
  <2>. QED
    BY <1>10, <2>2, <2>3, <2>4 DEF ExecuteFor
<1>. QED
  BY <1>2, <1>4, <1>5, <1>6, <1>7, <1>8, <1>9, <1>10

\* Nor does an execution or a replan: they keep what was recorded.
LEMMA JobGrowsNothing ==
  ASSUME RInv, Sequential, Execute \/ FinishExecution \/ ReadForReplan \/ Replan \/ LoseJob
  PROVE  UNCHANGED <<StoredParts(run), Receipts>>
<1>1. CallsOK /\ JobOK /\ run \in Payload /\ Linked(run) /\ DecisionsOnce(run)
  BY DEF RInv, Sequential, Sound
<1>2. CASE Execute
  <2>1. run' = [run EXCEPT !.state = "RUNNING"] /\ UNCHANGED call
    BY <1>2 DEF Execute, StartExecution
  <2>. QED
    BY <1>1, <2>1, RunningLinked, ReceiptsAsCalls
<1>3. CASE FinishExecution
  <2>1. /\ StoredParts(run') = StoredParts(run) /\ job.kind = "execute"
        /\ call' = [c \in Calls |->
                      IF c # job.by THEN call[c]
                      ELSE IF run'.state = "COMPLETED"
                      THEN [call[c] EXCEPT !.first = run', !.step = 2, !.phase = "read"]
                      ELSE Idle("refused")]
    BY <1>3, FinishLinked DEF FinishExecution
  <2>2. CASE job.by \notin Calls
    <3>1. call' = call
      BY <1>1, <2>1, <2>2 DEF CallsOK
    <3>. QED
      BY <2>1, <3>1, ReceiptsAsCalls
  <2>3. CASE job.by \in Calls
    <3>1. job.by \in InFlight
      BY <1>1, <2>3 DEF JobOK, InFlight
    <3>2. Others(job.by) /\ call[job.by].answer = "none"
      BY <2>1, <3>1 DEF Others, Sequential, InTouch
    <3>3. call'[job.by].answer \in {"none", "refused"}
      BY <1>1, <2>1, <2>3, <3>2 DEF CallsOK, CallRecords, Idle
    <3>. QED
      BY <2>1, <2>3, <3>2, <3>3, ReceiptsKept DEF Receiving
  <2>. QED
    BY <2>2, <2>3
<1>4. CASE ReadForReplan \/ LoseJob
  BY <1>4, ReceiptsAsCalls DEF ReadForReplan, LoseJob
<1>5. CASE Replan
  <2>1. PICK kept \in Harvests : run' = Replanned(job.copy, kept \cap job.copy.evidence)
    BY <1>5 DEF Replan
  <2>2. job.copy = run /\ UNCHANGED call
    BY <1>5 DEF Replan, Sequential
  <2>. QED
    BY <1>1, <2>1, <2>2, ReplannedLinked, ReceiptsAsCalls
<1>. QED
  BY <1>2, <1>3, <1>4, <1>5

\* Called one after the other, the workflow stores its parts one at a time, the
\* decision after the reviews it cites, gives a receipt for all of them, and
\* neither it nor a review, an execution or a replan takes one away again.
THEOREM Growth == Spec => ChainGrows
<1>1. ASSUME RInv, OneByOne, [Next]_vars
      PROVE  overlapped' \/ Chain!Next \/ UNCHANGED <<StoredParts(run), Receipts>>
  <2>. SUFFICES ASSUME ~overlapped'
                PROVE  Chain!Next \/ UNCHANGED <<StoredParts(run), Receipts>>
    OBVIOUS
  <2>1. Sequential
    BY <1>1, OverlappedStays DEF OneByOne
  <2>2. ASSUME NEW c \in Calls,
               \/ Submit(c) \/ Begin(c) \/ Check(c) \/ Skip(c) \/ Read(c) \/ Write(c) \/ Save(c)
               \/ Get(c) \/ Evaluate(c) \/ Lose(c) \/ ExecuteFor(c)
        PROVE  Chain!Next \/ UNCHANGED <<StoredParts(run), Receipts>>
    BY <1>1, <2>1, <2>2, CallGrowsNothing, WriteGrows, SaveGrows, EvaluateReceives
  <2>3. CASE Execute \/ FinishExecution \/ ReadForReplan \/ Replan \/ LoseJob
    BY <1>1, <2>1, <2>3, JobGrowsNothing
  <2>4. CASE UNCHANGED vars
    BY <2>4, ReceiptsAsCalls DEF vars
  <2>. QED
    BY <1>1, <2>2, <2>3, <2>4 DEF Next
<1>2. RInv /\ OneByOne /\ [Next]_vars =>
        [overlapped' \/ Chain!Next]_<<StoredParts(run), Receipts>>
  BY <1>1
<1>. QED
  BY <1>2, Invariance, Alone, PTL DEF Spec, ChainGrows
=============================================================================
