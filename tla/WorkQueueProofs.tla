-------------------------- MODULE WorkQueueProofs --------------------------
(***************************************************************************)
(* Type correctness of WorkQueue, and that a run id is dispatched once,    *)
(* for any runs, clients and workers.                                      *)
(***************************************************************************)
EXTENDS WorkQueue, TLAPS

\* A client that is not idle has a run.
ClientsBusy == \A c \in Clients : cpc[c] # "idle" => crun[c] \in Runs

QInv == TypeOK /\ ClientsBusy /\ DispatchedOnce

\* Head and tail of a sequence that has elements.
LEMMA HeadTail ==
  ASSUME NEW S, NEW s \in Seq(S), s # << >>
  PROVE  /\ Head(s) \in S /\ Head(s) = s[1] /\ 1 \in DOMAIN s
         /\ Tail(s) \in Seq(S)
         /\ \A i \in DOMAIN Tail(s) : i + 1 \in DOMAIN s /\ Tail(s)[i] = s[i + 1]
  OBVIOUS

\* What Append adds to a sequence.
LEMMA AppendAt ==
  ASSUME NEW S, NEW s \in Seq(S), NEW x \in S
  PROVE  /\ Append(s, x) \in Seq(S)
         /\ \A i \in DOMAIN Append(s, x) :
              \/ i \in DOMAIN s /\ Append(s, x)[i] = s[i]
              \/ i = Len(s) + 1 /\ Append(s, x)[i] = x
  OBVIOUS

\* The initial state.
LEMMA InitQInv == Init => QInv
  BY RunsAssumption, QueueAssumption
  DEF Init, QInv, TypeOK, ClientsBusy, DispatchedOnce, Pushing, Unmarking

\* Every step keeps the types and gives a busy client a run.
LEMMA NextTypes ==
  ASSUME TypeOK, ClientsBusy, [Next]_vars
  PROVE  TypeOK' /\ ClientsBusy'
<1> USE RunsAssumption, QueueAssumption DEF TypeOK, ClientsBusy
<1>1. ASSUME NEW c \in Clients, NEW r \in Runs, LookUp(c, r)
      PROVE  TypeOK' /\ ClientsBusy'
  BY <1>1 DEF LookUp, CGoto, redis, worker
<1>2. ASSUME NEW c \in Clients, AppendIntent(c)
      PROVE  TypeOK' /\ ClientsBusy'
  BY ZenonT(30), <1>2 DEF AppendIntent, CGoto, redis, worker
<1>3. ASSUME NEW c \in Clients, MarkPending(c)
      PROVE  TypeOK' /\ ClientsBusy'
  BY ZenonT(30), <1>3 DEF MarkPending, CGoto, worker
<1>4. ASSUME NEW c \in Clients, Push(c)
      PROVE  TypeOK' /\ ClientsBusy'
  <2>1. list' \in Seq(Runs)
    BY <1>4, AppendAt DEF Push
  <2> QED
    BY <1>4, <2>1 DEF Push, CGoto, worker
<1>5. ASSUME NEW c \in Clients, ClientCrash(c)
      PROVE  TypeOK' /\ ClientsBusy'
  BY <1>5 DEF ClientCrash, Fault, CGoto, redis, worker
<1>6. ASSUME NEW w \in Workers, Pop(w)
      PROVE  TypeOK' /\ ClientsBusy'
  <2>1. CASE list = << >>
    BY <1>6, <2>1 DEF Pop, WGoto, client
  <2>2. CASE list # << >>
    <3>1. Head(list) \in Runs /\ Tail(list) \in Seq(Runs)
      BY <2>2, HeadTail
    <3>2. /\ wpc' = [wpc EXCEPT ![w] = "unmark"]
          /\ front' = [front EXCEPT ![w] = Head(list)]
          /\ list' = Tail(list)
          /\ UNCHANGED <<stored, intents, pending, cpc, crun, todo, leased, faults>>
      BY <1>6, <2>2 DEF Pop, WGoto, client
    <3>3. front' \in [Workers -> Runs \cup {NoRun}]
      BY <3>1, <3>2
    <3> QED
      BY <3>1, <3>2, <3>3
  <2> QED
    BY <2>1, <2>2
<1>7. ASSUME NEW w \in Workers, Unmark(w) \/ Scan(w) \/ Skip(w) \/ Begin(w)
      PROVE  TypeOK' /\ ClientsBusy'
  <2>1. CASE Unmark(w)
    BY <2>1 DEF Unmark, WGoto, client
  <2>2. CASE Scan(w)
    BY <2>2 DEF Scan, Runnable, WGoto, client, redis
  <2>3. CASE Skip(w)
    BY <2>3 DEF Skip, Attempted, client, redis
  <2>4. CASE Begin(w)
    BY <2>4 DEF Begin, WGoto, client, redis
  <2> QED
    BY <1>7, <2>1, <2>2, <2>3, <2>4
<1>8. ASSUME NEW w \in Workers, Finish(w) \/ Interrupted(w)
      PROVE  TypeOK' /\ ClientsBusy'
  <2>1. CASE Finish(w)
    BY <2>1 DEF Finish, Attempted, WGoto, client, redis
  <2>2. CASE Interrupted(w)
    BY <2>2 DEF Interrupted, Fault, LeftAs, Attempted, WGoto, client, redis
  <2> QED
    BY <1>8, <2>1, <2>2
<1>9. ASSUME NEW w \in Workers, Raises(w) \/ Crash(w)
      PROVE  TypeOK' /\ ClientsBusy'
  <2>1. CASE Raises(w)
    <3>1. faults' \in 0..MaxFaults
      BY <2>1 DEF Raises, Fault
    <3> QED
      BY <2>1, <3>1 DEF Raises, LeftAs, Dies, client, redis
  <2>2. CASE Crash(w)
    BY <2>2 DEF Crash, Fault, LeftAs, Dies, client, redis
  <2> QED
    BY <1>9, <2>1, <2>2
<1>10. ASSUME NEW w \in Workers, Restart(w) \/ Sleep(w)
       PROVE  TypeOK' /\ ClientsBusy'
  BY <1>10 DEF Restart, Sleep, WGoto, client, redis
<1>11. ASSUME NEW r \in Runs, ExpireLease(r) \/ ExecuteByApi(r)
       PROVE  TypeOK' /\ ClientsBusy'
  <2>1. stored' \in [Runs -> {"CREATED", "STARTED", "PARTIAL", "SETTLED"}]
    BY <1>11 DEF ExpireLease, ExecuteByApi
  <2>2. leased' \subseteq Runs
    BY <1>11 DEF ExpireLease, ExecuteByApi
  <2> QED
    BY <1>11, <2>1, <2>2 DEF ExpireLease, ExecuteByApi, client, redis, worker
<1>12. ASSUME UNCHANGED vars
       PROVE  TypeOK' /\ ClientsBusy'
  BY <1>12 DEF vars, client, redis, worker
<1>13. CASE \E c \in Clients : ClientStep(c) \/ ClientCrash(c) \/ \E r \in Runs : LookUp(c, r)
  BY ONLY <1>1, <1>2, <1>3, <1>4, <1>5, <1>13 DEF ClientStep
<1>14. CASE \E w \in Workers : WorkerStep(w) \/ Interrupted(w) \/ Crash(w)
  BY ONLY <1>6, <1>7, <1>8, <1>9, <1>10, <1>14 DEF WorkerStep
<1> QED
  BY ONLY [Next]_vars, <1>11, <1>12, <1>13, <1>14 DEF Next

\* A step that leaves Redis alone, and starts no push and no unmark, keeps
\* every id where it is.
LEMMA RedisQuiet ==
  ASSUME TypeOK, DispatchedOnce, UNCHANGED redis,
         \A c \in Clients : Pushing(c)' => Pushing(c) /\ crun'[c] = crun[c],
         \A w \in Workers : Unmarking(w)' => Unmarking(w) /\ front'[w] = front[w]
  PROVE  DispatchedOnce'
  BY DEF DispatchedOnce, redis

\* Every step keeps an id at one place at most.
LEMMA NextDispatched ==
  ASSUME QInv, [Next]_vars
  PROVE  DispatchedOnce'
<1> USE DEF QInv
<1>1. ASSUME NEW c \in Clients, MarkPending(c)
      PROVE  DispatchedOnce'
  <2> USE <1>1 DEF MarkPending, CGoto, TypeOK
  <2>1. list' = list /\ wpc' = wpc /\ front' = front
    BY DEF worker
  <2>2. CASE crun[c] \in pending
    <3>1. pending' = pending
      BY <2>2
    <3> QED
      BY <2>1, <2>2, <3>1, RedisQuiet DEF redis, Pushing, Unmarking
  <2>3. CASE crun[c] \notin pending
    <3>1. /\ cpc' = [cpc EXCEPT ![c] = "push"] /\ crun' = [crun EXCEPT ![c] = crun[c]]
          /\ pending' = pending \cup {crun[c]}
      BY <2>3
    <3>2. /\ \A d \in Clients : crun'[d] = crun[d]
          /\ \A d \in Clients \ {c} : cpc'[d] = cpc[d]
      BY <3>1
    <3> QED
      BY <2>1, <2>3, <3>1, <3>2 DEF DispatchedOnce, Pushing, Unmarking
  <2> QED
    BY <2>2, <2>3
<1>2. ASSUME NEW c \in Clients, Push(c)
      PROVE  DispatchedOnce'
  <2> USE DEF TypeOK
  <2>1. /\ cpc[c] = "push" /\ crun[c] \in Runs
        /\ cpc' = [cpc EXCEPT ![c] = "idle"] /\ crun' = [crun EXCEPT ![c] = NoRun]
        /\ list' = Append(list, crun[c])
        /\ pending' = pending /\ wpc' = wpc /\ front' = front
    BY <1>2 DEF Push, CGoto, worker, ClientsBusy
  <2>2. \A i \in DOMAIN list' :
          \/ i \in DOMAIN list /\ list'[i] = list[i]
          \/ i = Len(list) + 1 /\ list'[i] = crun[c]
    BY <2>1, AppendAt
  <2>3. \A d \in Clients : Pushing(d)' => d # c /\ Pushing(d) /\ crun'[d] = crun[d]
    BY <2>1 DEF Pushing
  <2>4. Pushing(c)
    BY <2>1 DEF Pushing
  <2>5. \A i, j \in DOMAIN list' : list'[i] = list'[j] => i = j
    BY <2>2, <2>4 DEF DispatchedOnce
  <2>6. \A d \in Clients : Pushing(d)' =>
          \A i \in DOMAIN list' : list'[i] # crun'[d]
    BY <2>2, <2>3, <2>4 DEF DispatchedOnce
  <2>7. \A w \in Workers : Unmarking(w)' =>
          \A i \in DOMAIN list' : list'[i] # front'[w]
    BY <2>1, <2>2, <2>4 DEF DispatchedOnce, Unmarking
  <2>8. \A i \in DOMAIN list' : list'[i] \in pending'
    BY <2>1, <2>2, <2>4 DEF DispatchedOnce
  <2> QED
    BY <2>1, <2>3, <2>5, <2>6, <2>7, <2>8 DEF DispatchedOnce, Unmarking
<1>3. ASSUME NEW w \in Workers, Pop(w)
      PROVE  DispatchedOnce'
  <2> USE DEF TypeOK
  <2>1. CASE list = << >>
    BY <1>3, <2>1, RedisQuiet DEF Pop, WGoto, client, redis, Pushing, Unmarking
  <2>2. CASE list # << >>
    <3>1. /\ wpc' = [wpc EXCEPT ![w] = "unmark"] /\ front' = [front EXCEPT ![w] = Head(list)]
          /\ list' = Tail(list) /\ pending' = pending /\ cpc' = cpc /\ crun' = crun
      BY <1>3, <2>2 DEF Pop, WGoto, client
    <3>2. /\ Head(list) = list[1] /\ 1 \in DOMAIN list
          /\ \A i \in DOMAIN list' : i + 1 \in DOMAIN list /\ list'[i] = list[i + 1]
                                     /\ i \in Nat \ {0}
      BY <2>2, <3>1, HeadTail
    <3>3. \A i, j \in DOMAIN list' : list'[i] = list'[j] => i = j
      BY <3>2 DEF DispatchedOnce
    <3>4. \A i \in DOMAIN list' : list'[i] # Head(list)
      BY <3>2 DEF DispatchedOnce
    <3>5. \A v \in Workers : Unmarking(v)' =>
            \/ v = w /\ front'[v] = Head(list)
            \/ v # w /\ Unmarking(v) /\ front'[v] = front[v]
      BY <3>1 DEF Unmarking
    <3>6. \A c \in Clients : Pushing(c)' <=> Pushing(c)
      BY <3>1 DEF Pushing
    <3>7. \A c \in Clients : Pushing(c)' =>
            /\ crun'[c] \in pending'
            /\ \A i \in DOMAIN list' : list'[i] # crun'[c]
            /\ \A d \in Clients : Pushing(d)' /\ crun'[d] = crun'[c] => d = c
      BY <3>1, <3>2, <3>6 DEF DispatchedOnce
    <3>8. \A v \in Workers : Unmarking(v)' =>
            /\ front'[v] \in pending'
            /\ \A i \in DOMAIN list' : list'[i] # front'[v]
            /\ \A c \in Clients : Pushing(c)' => crun'[c] # front'[v]
            /\ \A u \in Workers : Unmarking(u)' /\ front'[u] = front'[v] => u = v
      BY <3>1, <3>2, <3>4, <3>5, <3>6 DEF DispatchedOnce
    <3>9. \A i \in DOMAIN list' : list'[i] \in pending'
      BY <3>1, <3>2 DEF DispatchedOnce
    <3> QED
      BY <3>3, <3>7, <3>8, <3>9 DEF DispatchedOnce
  <2> QED
    BY <2>1, <2>2
<1>4. ASSUME NEW w \in Workers, Unmark(w)
      PROVE  DispatchedOnce'
  <2>1. /\ Unmarking(w) /\ pending' = pending \ {front[w]}
        /\ list' = list /\ cpc' = cpc /\ crun' = crun /\ front' = front
        /\ wpc' = [wpc EXCEPT ![w] = "scan"]
    BY <1>4 DEF Unmark, WGoto, client, Unmarking
  <2>2. \A v \in Workers : Unmarking(v)' => v # w /\ Unmarking(v)
    BY <2>1 DEF Unmarking, TypeOK
  <2>3. \A c \in Clients : Pushing(c)' <=> Pushing(c)
    BY <2>1 DEF Pushing
  <2> QED
    BY <2>1, <2>2, <2>3 DEF DispatchedOnce
<1>5. ASSUME NEW c \in Clients, NEW r \in Runs, LookUp(c, r)
      PROVE  DispatchedOnce'
  BY <1>5, RedisQuiet DEF LookUp, CGoto, TypeOK, worker, Pushing, Unmarking
<1>6. ASSUME NEW c \in Clients, AppendIntent(c) \/ ClientCrash(c)
      PROVE  DispatchedOnce'
  BY <1>6, RedisQuiet
  DEF AppendIntent, ClientCrash, CGoto, TypeOK, redis, worker, Pushing, Unmarking
<1>7. ASSUME NEW w \in Workers,
             Scan(w) \/ Skip(w) \/ Begin(w) \/ Finish(w) \/ Interrupted(w)
               \/ Raises(w) \/ Crash(w) \/ Restart(w) \/ Sleep(w)
      PROVE  DispatchedOnce'
  <2>1. UNCHANGED redis /\ UNCHANGED client
    BY <1>7 DEF Scan, Skip, Begin, Finish, Interrupted, Raises, Crash, Restart, Sleep
  <2>2. \A v \in Workers : Unmarking(v)' => Unmarking(v) /\ front'[v] = front[v]
    BY <1>7 DEF Scan, Skip, Begin, Finish, Interrupted, Raises, Crash, Restart, Sleep,
                WGoto, Dies, TypeOK, Unmarking
  <2> QED
    BY <2>1, <2>2, RedisQuiet DEF client, Pushing
<1>8. ASSUME NEW r \in Runs, ExpireLease(r) \/ ExecuteByApi(r)
      PROVE  DispatchedOnce'
  BY <1>8, RedisQuiet DEF ExpireLease, ExecuteByApi, client, worker, Pushing, Unmarking
<1>9. ASSUME UNCHANGED vars
      PROVE  DispatchedOnce'
  BY <1>9, RedisQuiet DEF vars, client, worker, Pushing, Unmarking
<1> QED
  BY <1>1, <1>2, <1>3, <1>4, <1>5, <1>6, <1>7, <1>8, <1>9
  DEF Next, ClientStep, WorkerStep

\* All variables keep their types.
THEOREM TypeCorrect == Spec => []TypeOK
<1>1. QInv /\ [Next]_vars => QInv'
  BY NextTypes, NextDispatched DEF QInv
<1>2. QInv => TypeOK
  BY DEF QInv
<1> QED
  BY InitQInv, <1>1, <1>2, PTL DEF Spec

\* However many clients enqueue a run and however many workers poll, its id is
\* at one place at most between SADD and SREM.
THEOREM Dispatch == Spec => []DispatchedOnce
<1>1. QInv /\ [Next]_vars => QInv'
  BY NextTypes, NextDispatched DEF QInv
<1>2. QInv => DispatchedOnce
  BY DEF QInv
<1> QED
  BY InitQInv, <1>1, <1>2, PTL DEF Spec
=============================================================================
