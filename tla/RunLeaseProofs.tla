--------------------------- MODULE RunLeaseProofs ---------------------------
(***************************************************************************)
(* Theorems about RunLease, for any calls and runs, any lease time and any  *)
(* clock.  The argument is inductive over three conjuncts: the types; Fence *)
(* (a row names the call that got the newest lease of its run), which needs *)
(* no time at all; and Timely, the deadlines of an undisturbed call, which  *)
(* is where RenewalAssumption is used.                                      *)
(***************************************************************************)
EXTENDS RunLease, TLAPS

\* The holder of a row got the newest lease of the run, and nobody who got a
\* newer one wrote.
Fence ==
  /\ \A r \in Runs : wrote[r] <= epoch[r]
  /\ \A r \in Runs : row[r].id # NoLease =>
       /\ RunOf[row[r].id] = r
       /\ mine[row[r].id] = epoch[r]
       /\ pc[row[r].id] \notin {"new", "acquiring"}

\* The deadlines of an undisturbed call, and how far they are from its expiry.
TimelyCall(c) ==
  /\ now[c] <= clock /\ beatNow[c] <= clock
  /\ pc[c] \in {"new", "acquiring"} => beat[c] = "off" /\ ~lost[c]
  /\ pc[c] = "acquiring" /\ ~disturbed[c] => clock <= now[c] + Latency
  /\ Inside(c) /\ ~disturbed[c] =>
       /\ ~lost[c] /\ beat[c] # "off" /\ Holds(c)
       /\ clock <= due[c] + Latency
       /\ due[c] + TTL <= row[RunOf[c]].expires + Interval + Latency
       /\ beat[c] = "renewing" => due[c] <= beatNow[c]

Timely == \A c \in Calls : TimelyCall(c)

LInv == TypeOK /\ Fence /\ Timely

-----------------------------------------------------------------------------

\* The renewal interval of _heartbeat is a natural number.
LEMMA IntervalNat == Interval \in Nat
BY TimeAssumption DEF Interval, AtLeast, AtMost

\* A sweep leaves a table of rows...
LEMMA SweptType ==
  ASSUME TypeOK, NEW t \in Nat
  PROVE  Swept(t) \in [Runs -> [id: Calls \cup {NoLease}, expires: Nat]]
BY DEF TypeOK, Swept, Empty

\* ... in which every row left is as it was and unexpired, and no other is gone.
LEMMA SweptRows ==
  ASSUME TypeOK, NEW t \in Nat, NEW r \in Runs
  PROVE  /\ Swept(t)[r].id # NoLease => Swept(t)[r] = row[r]
         /\ row[r].expires > t => Swept(t)[r] = row[r]
BY DEF TypeOK, Swept, Empty, Expired

\* Every step keeps the types.
LEMMA TypeStep == TypeOK /\ [Next]_vars => TypeOK'
<1> SUFFICES ASSUME TypeOK, [Next]_vars PROVE TypeOK'
  OBVIOUS
<1> USE CallsAssumption, TimeAssumption, IntervalNat DEF TypeOK
<1>1. CASE Tick
  BY <1>1 DEF Tick, calls, history
<1>2. ASSUME NEW c \in Calls, BeginAcquire(c) PROVE TypeOK'
  BY <1>2 DEF BeginAcquire, history
<1>3. ASSUME NEW c \in Calls, AcquireRefused(c) PROVE TypeOK'
  BY <1>3, SweptType DEF AcquireRefused, history
<1>14. ASSUME NEW c \in Calls, AcquireGranted(c) PROVE TypeOK'
  <2>1. row' \in [Runs -> [id: Calls \cup {NoLease}, expires: Nat]]
    BY <1>14, SweptType DEF AcquireGranted
  <2> QED BY <1>14, <2>1 DEF AcquireGranted
<1>4. ASSUME NEW c \in Calls, BeginWrite(c) PROVE TypeOK'
  BY <1>4 DEF BeginWrite, history
<1>5. ASSUME NEW c \in Calls, OwnedWrite(c) PROVE TypeOK'
  <2>1. pc' \in [Calls -> {"new", "acquiring", "working", "writing", "releasing", "done"}]
    BY ZenonT(30), <1>5 DEF OwnedWrite
  <2>2. wrote' \in [Runs -> Nat]
    BY <1>5 DEF OwnedWrite
  <2>3. /\ now' = [now EXCEPT ![c] = 0]
        /\ UNCHANGED <<clock, row, beat, beatNow, due, lost, disturbed, epoch, mine>>
    BY <1>5 DEF OwnedWrite
  <2> QED BY <2>1, <2>2, <2>3
<1>6. ASSUME NEW c \in Calls, BeginRelease(c) PROVE TypeOK'
  BY <1>6 DEF BeginRelease, history
<1>7. ASSUME NEW c \in Calls, Release(c) PROVE TypeOK'
  <2>1. Empty \in [id: Calls \cup {NoLease}, expires: Nat]
    BY DEF Empty
  <2>2. row' \in [Runs -> [id: Calls \cup {NoLease}, expires: Nat]]
    BY <1>7, <2>1 DEF Release
  <2>3. /\ pc' = [pc EXCEPT ![c] = "done"] /\ due' = [due EXCEPT ![c] = 0]
        /\ beat' = [beat EXCEPT ![c] = IF @ = "waiting" THEN "off" ELSE @]
        /\ UNCHANGED <<clock, now, beatNow, lost, disturbed, epoch, mine, wrote>>
    BY <1>7 DEF Release, history
  <2>4. beat' \in [Calls -> {"off", "waiting", "renewing"}]
    BY <2>3
  <2> QED BY <2>2, <2>3, <2>4
<1>8. ASSUME NEW c \in Calls, BeginRenew(c) PROVE TypeOK'
  BY <1>8 DEF BeginRenew, history
<1>9. ASSUME NEW c \in Calls, Renew(c) PROVE TypeOK'
  <2>1. CASE Valid(c, beatNow[c])
    <3>1. row' = [row EXCEPT ![RunOf[c]] = [@ EXCEPT !.expires = beatNow[c] + TTL]]
      BY <1>9, <2>1 DEF Renew
    <3>2. row' \in [Runs -> [id: Calls \cup {NoLease}, expires: Nat]]
      BY SMTT(30), <3>1
    <3>3. beat' \in [Calls -> {"off", "waiting", "renewing"}]
      BY <1>9, <2>1 DEF Renew, Valid, Holds
    <3>4. /\ due' = [due EXCEPT ![c] = clock + Interval] /\ beatNow' = [beatNow EXCEPT ![c] = 0]
          /\ UNCHANGED <<clock, pc, now, lost, disturbed, epoch, mine, wrote>>
      BY <1>9, <2>1 DEF Renew, history
    <3> QED BY <3>2, <3>3, <3>4
  <2>2. CASE ~Valid(c, beatNow[c])
    <3>1. /\ beat' = [beat EXCEPT ![c] = "off"] /\ lost' = [lost EXCEPT ![c] = TRUE]
          /\ due' = [due EXCEPT ![c] = 0] /\ beatNow' = [beatNow EXCEPT ![c] = 0]
          /\ UNCHANGED <<clock, row, pc, now, disturbed, epoch, mine, wrote>>
      BY <1>9, <2>2 DEF Renew, history
    <3> QED BY <3>1
  <2> QED BY <2>1, <2>2
<1>10. ASSUME NEW c \in Calls, RenewRaises(c) PROVE TypeOK'
  BY <1>10 DEF RenewRaises, history
<1>11. ASSUME NEW c \in Calls, Stall(c) PROVE TypeOK'
  BY <1>11 DEF Stall, history
<1>12. ASSUME NEW c \in Calls, Crash(c) PROVE TypeOK'
  BY <1>12 DEF Crash, history
<1>13. CASE UNCHANGED vars
  BY <1>13 DEF vars, calls, history
<1> QED
  BY <1>1, <1>2, <1>3, <1>14, <1>4, <1>5, <1>6, <1>7, <1>8, <1>9, <1>10, <1>11, <1>12, <1>13 DEF Next

\* Every step keeps the newest lease with the row's holder.
LEMMA FenceStep == TypeOK /\ Fence /\ [Next]_vars => Fence'
<1> SUFFICES ASSUME TypeOK, Fence, [Next]_vars PROVE Fence'
  OBVIOUS
<1> USE CallsAssumption DEF TypeOK, Fence
<1>1. CASE Tick
  BY <1>1 DEF Tick, calls, history
<1>2. ASSUME NEW c \in Calls, BeginAcquire(c) PROVE Fence'
  BY <1>2 DEF BeginAcquire, history
<1>3. ASSUME NEW c \in Calls, AcquireRefused(c) PROVE Fence'
  <2>1. /\ row' = Swept(now[c]) /\ UNCHANGED <<epoch, mine, wrote>>
        /\ pc' = [pc EXCEPT ![c] = "done"]
    BY <1>3 DEF AcquireRefused, history
  <2> QED BY <2>1, SweptRows
<1>14. ASSUME NEW c \in Calls, AcquireGranted(c) PROVE Fence'
  <2> DEFINE r == RunOf[c]
  <2>1. /\ row' = [Swept(now[c]) EXCEPT ![r] = [id |-> c, expires |-> now[c] + TTL]]
        /\ pc' = [pc EXCEPT ![c] = "working"]
        /\ epoch' = [epoch EXCEPT ![r] = @ + 1]
        /\ mine' = [mine EXCEPT ![c] = epoch[r] + 1]
        /\ UNCHANGED wrote
    BY <1>14 DEF AcquireGranted
  <2>2. r \in Runs
    OBVIOUS
  <2>3. \A q \in Runs : wrote'[q] <= epoch'[q]
    BY <2>1, <2>2
  <2>4. ASSUME NEW q \in Runs, row'[q].id # NoLease
        PROVE /\ RunOf[row'[q].id] = q
              /\ mine'[row'[q].id] = epoch'[q]
              /\ pc'[row'[q].id] \notin {"new", "acquiring"}
    <3>1. CASE q = r
      BY <2>1, <2>2, <3>1, SweptType
    <3>2. CASE q # r
      <4>1. row'[q] = row[q]
        BY <2>1, <2>4, <3>2, SweptType, SweptRows
      <4>2. row[q].id \in Calls /\ row[q].id # c
        BY <4>1, <2>4, <3>2
      <4> QED BY <2>1, <2>2, <3>2, <4>1, <4>2
    <3> QED BY <3>1, <3>2
  <2> QED BY <2>3, <2>4
<1>4. ASSUME NEW c \in Calls, BeginWrite(c) PROVE Fence'
  BY <1>4 DEF BeginWrite, history
<1>5. ASSUME NEW c \in Calls, OwnedWrite(c) PROVE Fence'
  <2>1. UNCHANGED <<row, epoch, mine>>
    BY <1>5 DEF OwnedWrite
  <2>2. \A r \in Runs : wrote'[r] <= epoch'[r]
    <3>1. CASE Valid(c, now[c])
      <4>1. wrote' = [wrote EXCEPT ![RunOf[c]] = mine[c]]
        BY <1>5, <3>1 DEF OwnedWrite
      <4>2. mine[c] = epoch[RunOf[c]]
        BY <3>1 DEF Valid, Holds
      <4> QED BY <4>1, <4>2, <2>1
    <3>2. CASE ~Valid(c, now[c])
      BY <1>5, <2>1, <3>2 DEF OwnedWrite
    <3> QED BY <3>1, <3>2
  <2>3. \A d \in Calls : pc[d] \notin {"new", "acquiring"} => pc'[d] \notin {"new", "acquiring"}
    BY <1>5 DEF OwnedWrite
  <2>4. \A r \in Runs : row[r].id # NoLease => row[r].id \in Calls
    OBVIOUS
  <2> QED BY <2>1, <2>2, <2>3, <2>4
<1>6. ASSUME NEW c \in Calls, BeginRelease(c) PROVE Fence'
  BY <1>6 DEF BeginRelease, history
<1>7. ASSUME NEW c \in Calls, Release(c) PROVE Fence'
  BY <1>7 DEF Release, Empty, history, Holds
<1>8. ASSUME NEW c \in Calls, BeginRenew(c) PROVE Fence'
  BY <1>8 DEF BeginRenew, history
<1>9. ASSUME NEW c \in Calls, Renew(c) PROVE Fence'
  <2>1. \A r \in Runs : row'[r].id = row[r].id
    BY <1>9 DEF Renew
  <2>2. UNCHANGED <<pc, epoch, mine, wrote>>
    BY <1>9 DEF Renew, history
  <2> QED BY <2>1, <2>2
<1>10. ASSUME NEW c \in Calls, RenewRaises(c) PROVE Fence'
  BY <1>10 DEF RenewRaises, history
<1>11. ASSUME NEW c \in Calls, Stall(c) PROVE Fence'
  BY <1>11 DEF Stall, history
<1>12. ASSUME NEW c \in Calls, Crash(c) PROVE Fence'
  BY <1>12 DEF Crash, history
<1>13. CASE UNCHANGED vars
  BY <1>13 DEF vars, calls, history
<1> QED
  BY <1>1, <1>2, <1>3, <1>14, <1>4, <1>5, <1>6, <1>7, <1>8, <1>9, <1>10, <1>11, <1>12, <1>13 DEF Next

-----------------------------------------------------------------------------

\* An undisturbed call is at least TTL - Interval - 2 * Latency away from its expiry.
LEMMA HealthyLemma == LInv => HealthyKeepsLease
<1> SUFFICES ASSUME LInv, NEW c \in Calls, Inside(c), ~disturbed[c]
             PROVE  Valid(c, clock) /\ ~lost[c]
  BY DEF HealthyKeepsLease
<1>1. TimelyCall(c) /\ TypeOK
  BY DEF LInv, Timely
<1>2. ~lost[c] /\ Holds(c) /\ clock <= due[c] + Latency
      /\ due[c] + TTL <= row[RunOf[c]].expires + Interval + Latency
  BY <1>1 DEF TimelyCall
<1>3. row[RunOf[c]].expires \in Nat /\ due[c] \in Nat /\ clock \in Nat
  BY <1>1, CallsAssumption DEF TypeOK
<1>4. row[RunOf[c]].expires > clock
  BY <1>2, <1>3, IntervalNat, TimeAssumption, RenewalAssumption
<1> QED BY <1>2, <1>4 DEF Valid

\* What a step leaves alone of call c, and of its row while c is undisturbed.
Untouched(c) ==
  /\ clock' = clock
  /\ pc'[c] = pc[c] /\ now'[c] = now[c] /\ beat'[c] = beat[c] /\ beatNow'[c] = beatNow[c]
  /\ due'[c] = due[c] /\ lost'[c] = lost[c] /\ disturbed'[c] = disturbed[c]
  /\ Inside(c) /\ ~disturbed[c] => row'[RunOf[c]] = row[RunOf[c]]

\* A call that a step leaves alone stays timely.
LEMMA UntouchedTimely == ASSUME NEW c \in Calls, TimelyCall(c), Untouched(c) PROVE TimelyCall(c)'
BY DEF TimelyCall, Untouched, Inside, Holds

\* No step of another call touches an undisturbed one: a sweep deletes expired
\* rows only, and a release or a renewal changes the row of its own lease only.
LEMMA OthersUntouched ==
  ASSUME LInv, NEW c \in Calls, NEW d \in Calls, c # d,
         \/ BeginAcquire(d) \/ AcquireRefused(d) \/ AcquireGranted(d)
         \/ BeginWrite(d) \/ OwnedWrite(d) \/ BeginRelease(d) \/ Release(d)
         \/ BeginRenew(d) \/ Renew(d) \/ RenewRaises(d) \/ Stall(d) \/ Crash(d)
  PROVE  Untouched(c)
<1> USE CallsAssumption
<1>1. TypeOK /\ now[d] \in Nat /\ now[d] <= clock /\ clock \in Nat
  BY DEF LInv, TypeOK, Timely, TimelyCall
<1>2. Inside(c) /\ ~disturbed[c] => Holds(c) /\ row[RunOf[c]].expires > now[d]
  <2> SUFFICES ASSUME Inside(c), ~disturbed[c]
               PROVE  Holds(c) /\ row[RunOf[c]].expires > now[d]
    OBVIOUS
  <2>1. Valid(c, clock)
    BY HealthyLemma DEF HealthyKeepsLease
  <2>2. row[RunOf[c]].expires \in Nat
    BY <1>1 DEF TypeOK
  <2> QED BY <1>1, <2>1, <2>2 DEF Valid
<1>3. Inside(c) /\ ~disturbed[c] => Swept(now[d])[RunOf[c]] = row[RunOf[c]]
  BY <1>1, <1>2, SweptRows
<1>4. Swept(now[d]) \in [Runs -> [id: Calls \cup {NoLease}, expires: Nat]]
  BY <1>1, SweptType
<1>5. /\ clock' = clock
      /\ pc'[c] = pc[c] /\ now'[c] = now[c] /\ beat'[c] = beat[c] /\ beatNow'[c] = beatNow[c]
      /\ due'[c] = due[c] /\ lost'[c] = lost[c] /\ disturbed'[c] = disturbed[c]
  BY <1>1 DEF TypeOK, BeginAcquire, AcquireRefused, AcquireGranted, BeginWrite, OwnedWrite,
     BeginRelease, Release, BeginRenew, Renew, RenewRaises, Stall, Crash
<1>6. ASSUME Inside(c), ~disturbed[c] PROVE row'[RunOf[c]] = row[RunOf[c]]
  <2>1. CASE AcquireRefused(d)
    BY <1>3, <1>6, <2>1 DEF AcquireRefused
  <2>2. CASE AcquireGranted(d)
    <3>1. RunOf[c] # RunOf[d]
      BY <1>1, <1>2, <1>3, <1>6, <2>2 DEF AcquireGranted, Holds, TypeOK
    <3>2. row' = [Swept(now[d]) EXCEPT ![RunOf[d]] = [id |-> d, expires |-> now[d] + TTL]]
      BY <2>2 DEF AcquireGranted
    <3> QED BY <1>3, <1>4, <1>6, <3>1, <3>2
  <2>3. CASE Release(d)
    BY <1>1, <1>2, <1>6, <2>3 DEF Release, Holds, TypeOK
  <2>4. CASE Renew(d)
    BY <1>1, <1>2, <1>6, <2>4 DEF Renew, Valid, Holds, TypeOK
  <2> QED
    BY <2>1, <2>2, <2>3, <2>4 DEF BeginAcquire, BeginWrite, OwnedWrite, BeginRelease,
       BeginRenew, RenewRaises, Stall, Crash
<1> QED BY <1>5, <1>6 DEF Untouched

\* Every step keeps the deadlines.
LEMMA TimelyStep == LInv /\ [Next]_vars => Timely'
<1> SUFFICES ASSUME LInv, [Next]_vars, NEW c \in Calls PROVE TimelyCall(c)'
  BY DEF Timely
<1> USE CallsAssumption, TimeAssumption, IntervalNat DEF TypeOK
<1>0. TypeOK /\ TimelyCall(c)
  BY DEF LInv, Timely
<1>1. CASE Tick
  BY <1>0, <1>1 DEF Tick, calls, history, TimelyCall, Inside, Holds, Overdue
<1>2. ASSUME NEW d \in Calls, d # c,
             \/ BeginAcquire(d) \/ AcquireRefused(d) \/ AcquireGranted(d)
             \/ BeginWrite(d) \/ OwnedWrite(d) \/ BeginRelease(d) \/ Release(d)
             \/ BeginRenew(d) \/ Renew(d) \/ RenewRaises(d) \/ Stall(d) \/ Crash(d)
      PROVE TimelyCall(c)'
  BY <1>0, <1>2, OthersUntouched, UntouchedTimely
<1>3. CASE BeginAcquire(c)
  BY <1>0, <1>3 DEF BeginAcquire, history, TimelyCall, Inside
<1>4. CASE AcquireRefused(c)
  BY <1>0, <1>4 DEF AcquireRefused, history, TimelyCall, Inside
<1>5. CASE AcquireGranted(c)
  <2>1. row'[RunOf[c]] = [id |-> c, expires |-> now[c] + TTL]
    BY <1>0, <1>5, SweptType DEF AcquireGranted
  <2> QED BY <1>0, <1>5, <2>1 DEF AcquireGranted, TimelyCall, Inside, Holds
<1>6. CASE BeginWrite(c)
  BY <1>0, <1>6 DEF BeginWrite, history, TimelyCall, Inside, Holds
<1>7. CASE OwnedWrite(c)
  BY <1>0, <1>7 DEF OwnedWrite, TimelyCall, Inside, Holds
<1>8. CASE BeginRelease(c)
  BY <1>0, <1>8 DEF BeginRelease, history, TimelyCall, Inside
<1>9. CASE Release(c)
  BY <1>0, <1>9 DEF Release, history, TimelyCall, Inside
<1>10. CASE BeginRenew(c)
  BY <1>0, <1>10 DEF BeginRenew, history, TimelyCall, Inside, Holds
<1>11. CASE Renew(c)
  <2>1. CASE Inside(c) /\ ~disturbed[c]
    <3>1. Valid(c, beatNow[c])
      BY <1>0, <2>1, HealthyLemma DEF HealthyKeepsLease, TimelyCall, Valid
    <3>2. /\ row'[RunOf[c]] = [row[RunOf[c]] EXCEPT !.expires = beatNow[c] + TTL]
          /\ beat'[c] = "waiting" /\ due'[c] = clock + Interval /\ beatNow'[c] = 0
          /\ UNCHANGED <<clock, pc, now, lost, disturbed>>
      BY <1>0, <1>11, <2>1, <3>1 DEF Renew, history
    <3>3. row'[RunOf[c]].id = c /\ row'[RunOf[c]].expires = beatNow[c] + TTL
      BY <1>0, <3>1, <3>2 DEF Valid, Holds
    <3>4. beat[c] = "renewing"
      BY <1>11 DEF Renew
    <3> QED BY <1>0, <2>1, <3>2, <3>3, <3>4 DEF TimelyCall, Inside, Holds
  <2>2. CASE ~(Inside(c) /\ ~disturbed[c])
    <3>1. /\ UNCHANGED <<clock, pc, now, disturbed>> /\ beatNow'[c] = 0
          /\ pc[c] \in {"new", "acquiring"} => beat[c] # "renewing"
          /\ beat[c] = "renewing"
      BY <1>0, <1>11 DEF Renew, history, TimelyCall
    <3> QED BY <1>0, <2>2, <3>1 DEF TimelyCall, Inside
  <2> QED BY <2>1, <2>2
<1>12. CASE RenewRaises(c)
  BY <1>0, <1>12 DEF RenewRaises, history, TimelyCall, Inside
<1>13. CASE Stall(c)
  BY <1>0, <1>13 DEF Stall, history, TimelyCall, Inside
<1>14. CASE Crash(c)
  BY <1>0, <1>14 DEF Crash, history, TimelyCall, Inside
<1>15. CASE UNCHANGED vars
  BY <1>0, <1>15, UntouchedTimely DEF vars, calls, history, Untouched
<1> QED
  BY <1>1, <1>2, <1>3, <1>4, <1>5, <1>6, <1>7, <1>8, <1>9, <1>10, <1>11, <1>12, <1>13,
     <1>14, <1>15 DEF Next

\* The inductive invariant.
LEMMA Invariant == Spec => []LInv
<1>1. Init => LInv
  BY CallsAssumption DEF Init, LInv, TypeOK, Fence, Timely, TimelyCall, Inside, Empty
<1>2. LInv /\ [Next]_vars => LInv'
  BY TypeStep, FenceStep, TimelyStep DEF LInv
<1> QED BY <1>1, <1>2, PTL DEF Spec

-----------------------------------------------------------------------------

\* The variables keep their types.
THEOREM TypeCorrect == Spec => []TypeOK
<1>1. LInv => TypeOK
  BY DEF LInv
<1> QED BY <1>1, Invariant, PTL

\* A call that is neither stalled nor refused a renewal keeps its lease, for
\* every lease time and latency with Interval + 2 * Latency < TTL.
THEOREM KeepsLease == Spec => []HealthyKeepsLease
BY HealthyLemma, Invariant, PTL

\* The owned writes of a run come in the order of its leases.
THEOREM WritesFenced == Spec => FencedWrites
<1>1. LInv /\ [Next]_vars => [\A r \in Runs : wrote[r] <= wrote'[r]]_vars
  <2> SUFFICES ASSUME LInv, Next, NEW r \in Runs PROVE wrote[r] <= wrote'[r]
    OBVIOUS
  <2> USE CallsAssumption
  <2>1. TypeOK /\ Fence
    BY DEF LInv
  <2>2. wrote[r] <= wrote[r]
    BY <2>1 DEF TypeOK
  <2>3. ASSUME NEW c \in Calls, OwnedWrite(c) PROVE wrote[r] <= wrote'[r]
    <3>1. CASE Valid(c, now[c]) /\ RunOf[c] = r
      <4>1. mine[c] = epoch[r]
        BY <2>1, <3>1 DEF Fence, Valid, Holds
      <4>2. wrote' = [wrote EXCEPT ![r] = mine[c]]
        BY <2>3, <3>1 DEF OwnedWrite
      <4> QED BY <2>1, <4>1, <4>2 DEF Fence, TypeOK
    <3>2. CASE ~(Valid(c, now[c]) /\ RunOf[c] = r)
      BY <2>1, <2>2, <2>3, <3>2 DEF OwnedWrite, TypeOK
    <3> QED BY <3>1, <3>2
  <2> QED
    BY <2>2, <2>3 DEF Next, Tick, BeginAcquire, AcquireRefused, AcquireGranted, BeginWrite,
       BeginRelease, Release, BeginRenew, Renew, RenewRaises, Stall, Crash, history
<1> QED BY <1>1, Invariant, PTL DEF Spec, FencedWrites

\* A lease ends by its holder's release or after its expiry.
THEOREM NoTakeover == Spec => NoEarlyTakeover
<1>1. LInv /\ [Next]_vars =>
        [\A c \in Calls : Holds(c) /\ ~Holds(c)' =>
           \/ row[RunOf[c]].expires <= clock
           \/ pc[c] = "releasing" /\ pc'[c] = "done"]_vars
  <2> SUFFICES ASSUME LInv, Next, NEW c \in Calls, Holds(c), ~Holds(c)',
                      ~(row[RunOf[c]].expires <= clock)
               PROVE  pc[c] = "releasing" /\ pc'[c] = "done"
    OBVIOUS
  <2> USE CallsAssumption
  <2>1. TypeOK /\ row[RunOf[c]].expires \in Nat /\ clock \in Nat
    BY DEF LInv, TypeOK
  <2>2. ASSUME NEW d \in Calls
        PROVE  /\ now[d] \in Nat
               /\ Swept(now[d])[RunOf[c]] = row[RunOf[c]]
    <3>1. now[d] \in Nat /\ now[d] <= clock
      BY DEF LInv, TypeOK, Timely, TimelyCall
    <3>2. row[RunOf[c]].expires > now[d]
      BY <2>1, <3>1
    <3> QED BY <2>1, <3>1, <3>2, SweptRows
  <2>3. ASSUME NEW d \in Calls, AcquireRefused(d) PROVE FALSE
    BY <2>2, <2>3 DEF AcquireRefused, Holds
  <2>4. ASSUME NEW d \in Calls, AcquireGranted(d) PROVE FALSE
    <3>1. RunOf[d] # RunOf[c]
      BY <2>2, <2>4 DEF AcquireGranted, Holds
    <3>2. row'[RunOf[c]] = row[RunOf[c]]
      BY <2>1, <2>2, <2>4, <3>1, SweptType DEF AcquireGranted
    <3> QED BY <3>2 DEF Holds
  <2>5. ASSUME NEW d \in Calls, Release(d) PROVE pc[c] = "releasing" /\ pc'[c] = "done"
    <3>1. d = c
      BY <2>1, <2>5 DEF Release, Holds, TypeOK
    <3> QED BY <2>1, <2>5, <3>1 DEF Release, TypeOK
  <2>6. ASSUME NEW d \in Calls, Renew(d) PROVE FALSE
    BY SMTT(30), <2>1, <2>6 DEF Renew, Holds, TypeOK
  <2> QED
    BY <2>3, <2>4, <2>5, <2>6 DEF Next, Tick, BeginAcquire, BeginWrite, OwnedWrite,
       BeginRelease, BeginRenew, RenewRaises, Stall, Crash, Holds, calls, history
<1> QED BY <1>1, Invariant, PTL DEF Spec, NoEarlyTakeover
=============================================================================
