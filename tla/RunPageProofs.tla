---------------------------- MODULE RunPageProofs ----------------------------
(***************************************************************************)
(* A page shows its own writes: for any of its queries and buttons, any    *)
(* number of clicks and failures, and whatever others do to the run.  What *)
(* is read after a call was answered is as new as the answer; what was     *)
(* read before is dropped, or is a query's first fetch.                    *)
(***************************************************************************)
EXTENDS RunPage, TLAPS

\* A call is answered with a version that the runtime has reached.
CallOK(kind) ==
  call[kind].phase = "read" => call[kind].value.version \in 1 .. stored.version

\* What q shows, or is about to show, is as new as the newest answer.
Fresh(q) ==
  /\ fetch[q].phase = "read" => fetch[q].value.version >= answered
  /\ fetch[q] = Quiet /\ q \notin failed /\ cache[q] # NotLoaded
       => cache[q].version >= answered

PInv ==
  /\ TypeOK
  /\ stored.version >= 1
  /\ \A kind \in Kinds : CallOK(kind)
  /\ \A q \in Queries : q \notin late => Fresh(q)

-----------------------------------------------------------------------------
\* What other writers make of a run is a run, one version on.
LEMMA MovesType ==
  ASSUME NEW state \in Ended \cup Active \cup {"NONE"}
  PROVE  Moves(state) \subseteq Ended \cup Active \cup {"NONE"}
BY DEF Moves, Ended, Active

LEMMA WrittenType ==
  ASSUME PInv, stored.version < MaxWrites, NEW state \in Ended \cup Active \cup {"NONE"}
  PROVE  /\ Written(state) \in Versions
         /\ Written(state).version = stored.version + 1
BY BoundAssumption DEF PInv, TypeOK, Written, Versions

\* A call leaves the run as it is, or makes its next version.
LEMMA OutcomesType ==
  ASSUME PInv, stored.version < MaxWrites, NEW kind \in Kinds, NEW run \in Outcomes(kind)
  PROVE  /\ run \in Versions
         /\ run.version >= stored.version
<1>1. run = stored \/ \E state \in Ended \cup Active \cup {"NONE"} : run = Written(state)
  <2>1. stored.state \in Ended \cup Active \cup {"NONE"}
    BY DEF PInv, TypeOK, Versions
  <2>2. Moves("BLOCKED") \subseteq Ended \cup Active \cup {"NONE"}
    BY MovesType DEF Ended
  <2>3. kind \in {"execute", "replan", "cancel", "enqueue", "record", "analyze", "resolve"}
    BY KindAssumption
  <2>. QED
    BY <2>1, <2>2, <2>3 DEF Outcomes, Ended, Active
<1>2. stored \in Versions /\ stored.version \in Nat
  BY BoundAssumption DEF PInv, TypeOK, Versions
<1>. QED
  BY <1>1, <1>2, WrittenType

\* Fetching again leaves a query with an old fetch among the late ones only.
LEMMA RefetchedFresh ==
  ASSUME PInv, NEW some \in SUBSET Queries, NEW data, Refetched(some, data)
  PROVE  /\ fetch' \in [Queries -> Requests]
         /\ late' \subseteq Queries
         /\ \A q \in some : q \notin late' => fetch'[q] = Sent
         /\ \A q \in Queries \ some : fetch'[q] = fetch[q] /\ (q \in late' <=> q \in late)
<1>1. Sent \in Requests
  BY BoundAssumption DEF Sent, NotLoaded, Requests, Versions
<1>. QED
  BY <1>1 DEF Refetched, PInv, TypeOK

-----------------------------------------------------------------------------
LEMMA Initially == Init => PInv
<1>. SUFFICES ASSUME Init PROVE PInv
  OBVIOUS
<1>1. TypeOK
  <2>1. stored \in Versions /\ stored.version = 1
    <3>1. PICK state \in Starts : stored = [version |-> 1, state |-> state]
      BY DEF Init
    <3>. QED
      BY <3>1, StartAssumption, BoundAssumption DEF Versions, Ended, Active
  <2>2. NotLoaded \in Versions
    BY BoundAssumption DEF NotLoaded, Versions
  <2>3. Quiet \in Requests /\ Sent \in Requests
    BY <2>2 DEF Quiet, Sent, Requests
  <2>. QED
    BY <2>1, <2>2, <2>3, BoundAssumption DEF Init, TypeOK
<1>2. \A kind \in Kinds : CallOK(kind)
  BY DEF Init, CallOK, Quiet
<1>3. \A q \in Queries : Fresh(q)
  BY DEF Init, Fresh, Sent, Quiet, NotLoaded
<1>. QED
  BY <1>1, <1>2, <1>3 DEF Init, PInv

\* A step that leaves the queries and the answers alone, and keeps the calls in
\* order, keeps the invariant.
LEMMA Elsewhere ==
  ASSUME PInv, TypeOK', UNCHANGED <<cache, fetch, failed, answered, late>>,
         stored.version <= stored'.version, \A kind \in Kinds : CallOK(kind)'
  PROVE  PInv'
<1>1. stored'.version >= 1
  BY BoundAssumption DEF PInv, TypeOK, Versions
<1>2. \A q \in Queries : q \notin late' => Fresh(q)'
  BY DEF PInv, Fresh
<1>. QED
  BY <1>1, <1>2 DEF PInv

LEMMA Step == PInv /\ [Next]_vars => PInv'
<1>. SUFFICES ASSUME PInv, [Next]_vars PROVE PInv'
  OBVIOUS
<1>. USE BoundAssumption
<1>1. ASSUME NEW q \in Queries, Poll(q) PROVE PInv'
  <2>1. TypeOK'
    BY <1>1 DEF Poll, PInv, TypeOK, Sent, NotLoaded, Requests, Versions
  <2>2. \A kind \in Kinds : CallOK(kind)'
    BY <1>1 DEF Poll, PInv, CallOK
  <2>3. ASSUME NEW p \in Queries, p \notin late' PROVE Fresh(p)'
    <3>1. CASE p = q
      BY <1>1, <3>1 DEF Poll, PInv, TypeOK, Fresh, Sent, Quiet
    <3>2. CASE p # q
      BY <1>1, <2>3, <3>2 DEF Poll, PInv, TypeOK, Fresh
    <3>. QED
      BY <3>1, <3>2
  <2>. QED
    BY <1>1, <2>1, <2>2, <2>3 DEF PInv, Poll
<1>2. ASSUME NEW q \in Queries, Serve(q) PROVE PInv'
  <2>1. TypeOK'
    BY <1>2 DEF Serve, PInv, TypeOK, Requests
  <2>2. \A kind \in Kinds : CallOK(kind)'
    BY <1>2 DEF Serve, PInv, CallOK
  <2>3. ASSUME NEW p \in Queries, p \notin late' PROVE Fresh(p)'
    <3>1. CASE p = q
      BY <1>2, <3>1 DEF Serve, PInv, TypeOK, Fresh, Quiet, Versions
    <3>2. CASE p # q
      BY <1>2, <2>3, <3>2 DEF Serve, PInv, TypeOK, Fresh
    <3>. QED
      BY <3>1, <3>2
  <2>. QED
    BY <1>2, <2>1, <2>2, <2>3 DEF PInv, Serve
<1>3. ASSUME NEW q \in Queries, Arrive(q) PROVE PInv'
  <2>1. TypeOK'
    BY <1>3 DEF Arrive, PInv, TypeOK, Requests, Quiet, NotLoaded, Versions
  <2>2. \A kind \in Kinds : CallOK(kind)'
    BY <1>3 DEF Arrive, PInv, CallOK
  <2>3. ASSUME NEW p \in Queries, p \notin late' PROVE Fresh(p)'
    <3>1. CASE p = q
      BY <1>3, <2>3, <3>1 DEF Arrive, PInv, TypeOK, Fresh, Quiet
    <3>2. CASE p # q
      BY <1>3, <2>3, <3>2 DEF Arrive, PInv, TypeOK, Fresh
    <3>. QED
      BY <3>1, <3>2
  <2>. QED
    BY <1>3, <2>1, <2>2, <2>3 DEF PInv, Arrive
<1>4. ASSUME NEW q \in Queries, FetchFails(q) PROVE PInv'
  <2>1. TypeOK'
    BY <1>4 DEF FetchFails, PInv, TypeOK, Requests, Quiet, NotLoaded, Versions
  <2>2. \A kind \in Kinds : CallOK(kind)'
    BY <1>4 DEF FetchFails, PInv, CallOK
  <2>3. ASSUME NEW p \in Queries, p \notin late' PROVE Fresh(p)'
    <3>1. CASE p = q
      BY <1>4, <3>1 DEF FetchFails, PInv, TypeOK, Fresh, Quiet
    <3>2. CASE p # q
      BY <1>4, <2>3, <3>2 DEF FetchFails, PInv, TypeOK, Fresh
    <3>. QED
      BY <3>1, <3>2
  <2>. QED
    BY <1>4, <2>1, <2>2, <2>3 DEF PInv, FetchFails
<1>5. ASSUME NEW kind \in Kinds, Click(kind) PROVE PInv'
  <2>1. TypeOK'
    BY <1>5 DEF Click, PInv, TypeOK, Requests, Sent, NotLoaded, Versions
  <2>2. \A k \in Kinds : CallOK(k)'
    BY <1>5 DEF Click, PInv, TypeOK, CallOK, Sent
  <2>. QED
    BY <1>5, <2>1, <2>2, Elsewhere DEF Click, PInv, TypeOK, Versions
<1>6. ASSUME NEW kind \in Kinds, Handle(kind) PROVE PInv'
  <2>1. stored' \in Versions /\ stored'.version >= stored.version
    BY <1>6, OutcomesType DEF Handle
  <2>2. TypeOK'
    BY <1>6, <2>1 DEF Handle, PInv, TypeOK, Requests, Versions
  <2>3. \A k \in Kinds : CallOK(k)'
    BY <1>6, <2>1 DEF Handle, PInv, TypeOK, CallOK, Versions
  <2>. QED
    BY <1>6, <2>1, <2>2, <2>3, Elsewhere DEF Handle
<1>7. ASSUME NEW kind \in Kinds, Refuse(kind) \/ CallFails(kind) PROVE PInv'
  <2>1. TypeOK'
    BY <1>7 DEF Refuse, CallFails, PInv, TypeOK, Requests, Quiet, NotLoaded, Versions
  <2>2. \A k \in Kinds : CallOK(k)'
    BY <1>7 DEF Refuse, CallFails, PInv, TypeOK, CallOK, Quiet
  <2>. QED
    BY <1>7, <2>1, <2>2, Elsewhere DEF Refuse, CallFails, PInv, TypeOK, Versions
<1>8. ASSUME NEW kind \in Kinds, Answer(kind) PROVE PInv'
  <2>1. Refetched(Queries, cache')
    BY <1>8 DEF Answer
  <2>2. call[kind].value \in Versions /\ call[kind].value.version \in 1 .. stored.version
    BY <1>8 DEF Answer, PInv, TypeOK, CallOK, Requests
  <2>3. TypeOK'
    BY <1>8, <2>1, <2>2, RefetchedFresh, QueryAssumption
    DEF Answer, PInv, TypeOK, Requests, Quiet, NotLoaded, Versions
  <2>4. \A k \in Kinds : CallOK(k)'
    BY <1>8 DEF Answer, PInv, TypeOK, CallOK, Quiet
  <2>5. \A q \in Queries : q \notin late' => Fresh(q)'
    BY <2>1, RefetchedFresh DEF Fresh, Sent, Quiet
  <2>. QED
    BY <1>8, <2>3, <2>4, <2>5 DEF PInv, Answer
<1>9. CASE Refresh
  <2>. DEFINE some == IF "run" \in failed THEN {"run"} ELSE Queries
  <2>1. some \in SUBSET Queries /\ Refetched(some, cache)
    BY <1>9, QueryAssumption DEF Refresh
  <2>. HIDE DEF some
  <2>2. TypeOK'
    BY <1>9, <2>1, RefetchedFresh DEF Refresh, PInv, TypeOK
  <2>3. \A k \in Kinds : CallOK(k)'
    BY <1>9 DEF Refresh, PInv, CallOK
  <2>4. ASSUME NEW q \in Queries, q \notin late' PROVE Fresh(q)'
    <3>1. CASE q \in some
      BY <2>1, <2>4, <3>1, RefetchedFresh DEF Fresh, Sent, Quiet
    <3>2. CASE q \notin some
      BY <1>9, <2>1, <2>4, <3>2, RefetchedFresh DEF Refresh, PInv, Fresh
    <3>. QED
      BY <3>1, <3>2
  <2>. QED
    BY <1>9, <2>2, <2>3, <2>4 DEF PInv, Refresh
<1>10. CASE Write
  <2>1. stored' \in Versions /\ stored'.version = stored.version + 1
    BY <1>10, MovesType, WrittenType DEF Write, PInv, TypeOK, Versions
  <2>2. TypeOK'
    BY <1>10, <2>1 DEF Write, PInv, TypeOK, Versions
  <2>3. \A k \in Kinds : CallOK(k)'
    BY <1>10, <2>1 DEF Write, PInv, TypeOK, CallOK, Versions
  <2>. QED
    BY <1>10, <2>1, <2>2, <2>3, Elsewhere DEF Write, PInv, TypeOK, Versions
<1>11. CASE UNCHANGED vars
  BY <1>11 DEF vars, PInv, TypeOK, CallOK, Fresh
<1>. QED
  BY <1>1, <1>2, <1>3, <1>4, <1>5, <1>6, <1>7, <1>8, <1>9, <1>10, <1>11 DEF Next

-----------------------------------------------------------------------------
\* The inductive invariant: answered calls and fresh queries.
THEOREM Invariance == Spec => []PInv
BY Initially, Step, PTL DEF Spec

\* All variables of the page keep their types.
THEOREM TypeCorrect == Spec => []TypeOK
<1>1. PInv => TypeOK
  BY DEF PInv
<1>. QED
  BY <1>1, Invariance, PTL

\* Answers that cross on their way do not put the page back to before its own
\* writes: cache and refetch of use-runtime-run.ts.
THEOREM WritesShown == Spec => []OwnWritesShown
<1>1. PInv => OwnWritesShown
  BY DEF PInv, Fresh, OwnWritesShown
<1>. QED
  BY <1>1, Invariance, PTL
=============================================================================
