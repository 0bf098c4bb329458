------------------------------ MODULE RunLease ------------------------------
(***************************************************************************)
(* The run_leases table, the heartbeat thread of each execute call, and    *)
(* time.  RunExecution abstracts this module to a holder and a bit.        *)
(*                                                                         *)
(* An execute call draws a fresh lease id, so a call is its own lease id.  *)
(* Every store call reads time.time() before it opens its transaction: the *)
(* time in the statement is older than the statement.  One clock stands    *)
(* for those of all processes.  A local variable out of use is 0.  epoch,  *)
(* mine and wrote are history.                                             *)
(***************************************************************************)
EXTENDS Integers

CONSTANTS
  Runs, Calls,
  RunOf,        \* the run a call executes
  TTL,          \* lease_seconds
  MinInterval, MaxInterval,   \* 0.01 s and 30 s in _heartbeat
  Latency,      \* bound on a store call of a call that is not disturbed
  MaxClock,     \* bound of the clock
  NoLease

ASSUME CallsAssumption == RunOf \in [Calls -> Runs] /\ NoLease \notin Calls
ASSUME TimeAssumption ==
  /\ TTL \in Nat \ {0} /\ Latency \in Nat /\ MaxClock \in Nat
  /\ MinInterval \in Nat /\ MaxInterval \in Nat

AtLeast(a, b) == IF a < b THEN b ELSE a
AtMost(a, b) == IF a < b THEN a ELSE b

Interval == AtMost(AtLeast(TTL \div 3, MinInterval), MaxInterval)

\* Late by one store call and one interval, a renewal still precedes the expiry.
ASSUME RenewalAssumption == Interval + 2 * Latency < TTL

VARIABLES
  clock,
  row,        \* per run: lease id and expires_at of its row
  pc,         \* per call
  now,        \* per call: the time its statement carries
  beat,       \* per call: its heartbeat thread
  beatNow,    \* per call: the time its renewal carries
  due,        \* per call: when its heartbeat wakes up
  lost,       \* per call: heartbeat_lost
  disturbed,  \* per call: it was stalled, or a renewal raised
  epoch,      \* per run: leases granted so far
  mine,       \* per call: which of them it got, 0 for none
  wrote       \* per run: the last of them that wrote the run

calls == <<pc, now, beat, beatNow, due, lost, disturbed>>
history == <<epoch, mine, wrote>>
vars == <<clock, row, calls, history>>

Empty == [id |-> NoLease, expires |-> 0]

Init ==
  /\ clock = 0
  /\ row = [r \in Runs |-> Empty]
  /\ pc = [c \in Calls |-> "new"]
  /\ now = [c \in Calls |-> 0]
  /\ beat = [c \in Calls |-> "off"]
  /\ beatNow = [c \in Calls |-> 0]
  /\ due = [c \in Calls |-> 0]
  /\ lost = [c \in Calls |-> FALSE]
  /\ disturbed = [c \in Calls |-> FALSE]
  /\ epoch = [r \in Runs |-> 0]
  /\ mine = [c \in Calls |-> 0]
  /\ wrote = [r \in Runs |-> 0]

-----------------------------------------------------------------------------

Holds(c) == row[RunOf[c]].id = c
Valid(c, at) == Holds(c) /\ row[RunOf[c]].expires > at

\* From entering _execute to leaving it.
Inside(c) == pc[c] \in {"working", "writing"}

\* The lease of run r has expired at time t.
Expired(r, t) == row[r].id # NoLease /\ row[r].expires <= t

BeginAcquire(c) ==
  /\ pc[c] = "new"
  /\ pc' = [pc EXCEPT ![c] = "acquiring"]
  /\ now' = [now EXCEPT ![c] = clock]
  /\ UNCHANGED <<clock, row, beat, beatNow, due, lost, disturbed, history>>

\* acquire_run_lease first deletes the expired rows of every run.
Swept(t) == [r \in Runs |-> IF Expired(r, t) THEN Empty ELSE row[r]]

\* The INSERT meets a row: RunLeaseConflictError.
AcquireRefused(c) ==
  /\ pc[c] = "acquiring"
  /\ Swept(now[c])[RunOf[c]].id # NoLease
  /\ row' = Swept(now[c])
  /\ pc' = [pc EXCEPT ![c] = "done"]
  /\ now' = [now EXCEPT ![c] = 0]
  /\ UNCHANGED <<clock, beat, beatNow, due, lost, disturbed, history>>

\* The INSERT succeeds and the heartbeat thread starts.
AcquireGranted(c) ==
  /\ pc[c] = "acquiring"
  /\ Swept(now[c])[RunOf[c]].id = NoLease
  /\ row' = [Swept(now[c]) EXCEPT ![RunOf[c]] = [id |-> c, expires |-> now[c] + TTL]]
  /\ pc' = [pc EXCEPT ![c] = "working"]
  /\ now' = [now EXCEPT ![c] = 0]
  /\ beat' = [beat EXCEPT ![c] = "waiting"]
  /\ due' = [due EXCEPT ![c] = clock + Interval]
  /\ epoch' = [epoch EXCEPT ![RunOf[c]] = @ + 1]
  /\ mine' = [mine EXCEPT ![c] = epoch[RunOf[c]] + 1]
  /\ UNCHANGED <<clock, beatNow, lost, disturbed, wrote>>

BeginWrite(c) ==
  /\ pc[c] = "working"
  /\ pc' = [pc EXCEPT ![c] = "writing"]
  /\ now' = [now EXCEPT ![c] = clock]
  /\ UNCHANGED <<clock, row, beat, beatNow, due, lost, disturbed, history>>

\* Mutant: the fence asks for an unexpired lease, whosever it is.
WriteUnderAnyLease(c) ==
  /\ pc[c] = "writing"
  /\ IF row[RunOf[c]].id # NoLease /\ row[RunOf[c]].expires > now[c]
     THEN /\ pc' = [pc EXCEPT ![c] = "working"]
          /\ wrote' = [wrote EXCEPT ![RunOf[c]] = mine[c]]
     ELSE /\ pc' = [pc EXCEPT ![c] = "releasing"]
          /\ UNCHANGED wrote
  /\ now' = [now EXCEPT ![c] = 0]
  /\ UNCHANGED <<clock, row, beat, beatNow, due, lost, disturbed, epoch, mine>>

\* The UPDATE of an owned write; without the lease, RunLeaseLostError.
OwnedWrite(c) ==
  /\ pc[c] = "writing"
  /\ IF Valid(c, now[c])
     THEN /\ pc' = [pc EXCEPT ![c] = "working"]
          /\ wrote' = [wrote EXCEPT ![RunOf[c]] = mine[c]]
     ELSE /\ pc' = [pc EXCEPT ![c] = "releasing"]
          /\ UNCHANGED wrote
  /\ now' = [now EXCEPT ![c] = 0]
  /\ UNCHANGED <<clock, row, beat, beatNow, due, lost, disturbed, epoch, mine>>

\* The finally block of execute, reached by a return or an exception.
BeginRelease(c) ==
  /\ pc[c] = "working"
  /\ pc' = [pc EXCEPT ![c] = "releasing"]
  /\ UNCHANGED <<clock, row, now, beat, beatNow, due, lost, disturbed, history>>

\* Mutant: the run's row goes, whosever it is.
ReleaseAny(c) ==
  /\ pc[c] = "releasing"
  /\ pc' = [pc EXCEPT ![c] = "done"]
  /\ beat' = [beat EXCEPT ![c] = IF @ = "waiting" THEN "off" ELSE @]
  /\ row' = [row EXCEPT ![RunOf[c]] = Empty]
  /\ due' = [due EXCEPT ![c] = 0]
  /\ UNCHANGED <<clock, now, beatNow, lost, disturbed, history>>

\* Mutant: the row is backdated instead of deleted.
ReleaseByBackdating(c) ==
  /\ pc[c] = "releasing"
  /\ pc' = [pc EXCEPT ![c] = "done"]
  /\ beat' = [beat EXCEPT ![c] = IF @ = "waiting" THEN "off" ELSE @]
  /\ row' = [row EXCEPT ![RunOf[c]].expires = IF Holds(c) THEN clock - 1 ELSE @]
  /\ due' = [due EXCEPT ![c] = 0]
  /\ UNCHANGED <<clock, now, beatNow, lost, disturbed, history>>

\* A heartbeat that waits stops; join gives up on one that is in the store.
Release(c) ==
  /\ pc[c] = "releasing"
  /\ pc' = [pc EXCEPT ![c] = "done"]
  /\ beat' = [beat EXCEPT ![c] = IF @ = "waiting" THEN "off" ELSE @]
  /\ row' = [row EXCEPT ![RunOf[c]] = IF Holds(c) THEN Empty ELSE @]
  /\ due' = [due EXCEPT ![c] = 0]
  /\ UNCHANGED <<clock, now, beatNow, lost, disturbed, history>>

-----------------------------------------------------------------------------
(* The heartbeat thread.                                                   *)

BeginRenew(c) ==
  /\ Inside(c) /\ beat[c] = "waiting" /\ clock >= due[c]
  /\ beat' = [beat EXCEPT ![c] = "renewing"]
  /\ beatNow' = [beatNow EXCEPT ![c] = clock]
  /\ UNCHANGED <<clock, row, pc, now, due, lost, disturbed, history>>

\* Mutant: a renewal finds the lease valid and does not extend it.
RenewWithoutExtending(c) ==
  /\ beat[c] = "renewing"
  /\ IF Valid(c, beatNow[c])
     THEN /\ beat' = [beat EXCEPT ![c] = "waiting"]
          /\ due' = [due EXCEPT ![c] = clock + Interval]
          /\ UNCHANGED lost
     ELSE /\ beat' = [beat EXCEPT ![c] = "off"]
          /\ lost' = [lost EXCEPT ![c] = TRUE]
          /\ due' = [due EXCEPT ![c] = 0]
  /\ beatNow' = [beatNow EXCEPT ![c] = 0]
  /\ UNCHANGED <<clock, row, pc, now, disturbed, history>>

\* A renewal counts from the time it carries; the next wait starts when it ends.
Renew(c) ==
  /\ beat[c] = "renewing"
  /\ IF Valid(c, beatNow[c])
     THEN /\ row' = [row EXCEPT ![RunOf[c]].expires = beatNow[c] + TTL]
          /\ beat' = [beat EXCEPT ![c] = IF Inside(c) THEN "waiting" ELSE "off"]
          /\ due' = [due EXCEPT ![c] = clock + Interval]
          /\ UNCHANGED lost
     ELSE /\ beat' = [beat EXCEPT ![c] = "off"]
          /\ lost' = [lost EXCEPT ![c] = TRUE]
          /\ due' = [due EXCEPT ![c] = 0]
          /\ UNCHANGED row
  /\ beatNow' = [beatNow EXCEPT ![c] = 0]
  /\ UNCHANGED <<clock, pc, now, disturbed, history>>

\* Any exception counts as a lost lease, and ends the renewals.
RenewRaises(c) ==
  /\ beat[c] = "renewing"
  /\ beat' = [beat EXCEPT ![c] = "off"]
  /\ lost' = [lost EXCEPT ![c] = TRUE]
  /\ disturbed' = [disturbed EXCEPT ![c] = TRUE]
  /\ beatNow' = [beatNow EXCEPT ![c] = 0]
  /\ due' = [due EXCEPT ![c] = 0]
  /\ UNCHANGED <<clock, row, pc, now, history>>

-----------------------------------------------------------------------------
(* Processes and time.                                                     *)

\* From here on nothing bounds how late c's threads are.
Stall(c) ==
  /\ (pc[c] = "acquiring" \/ Inside(c)) /\ ~disturbed[c]
  /\ disturbed' = [disturbed EXCEPT ![c] = TRUE]
  /\ UNCHANGED <<clock, row, pc, now, beat, beatNow, due, lost, history>>

Crash(c) ==
  /\ pc[c] \notin {"new", "done"}
  /\ pc' = [pc EXCEPT ![c] = "done"]
  /\ now' = [now EXCEPT ![c] = 0]
  /\ beat' = [beat EXCEPT ![c] = "off"]
  /\ beatNow' = [beatNow EXCEPT ![c] = 0]
  /\ due' = [due EXCEPT ![c] = 0]
  /\ lost' = [lost EXCEPT ![c] = FALSE]
  /\ disturbed' = [disturbed EXCEPT ![c] = FALSE]
  /\ UNCHANGED <<clock, row, history>>

Overdue(c) ==
  \/ pc[c] = "acquiring" /\ clock >= now[c] + Latency
  \/ Inside(c) /\ beat[c] # "off" /\ clock >= due[c] + Latency

Tick ==
  /\ clock < MaxClock
  /\ \A c \in Calls : Overdue(c) => disturbed[c]
  /\ clock' = clock + 1
  /\ UNCHANGED <<row, calls, history>>

Next ==
  \/ Tick
  \/ \E c \in Calls :
       \/ BeginAcquire(c) \/ AcquireRefused(c) \/ AcquireGranted(c)
       \/ BeginWrite(c) \/ OwnedWrite(c) \/ BeginRelease(c) \/ Release(c)
       \/ BeginRenew(c) \/ Renew(c) \/ RenewRaises(c)
       \/ Stall(c) \/ Crash(c)

Spec == Init /\ [][Next]_vars

-----------------------------------------------------------------------------
(* Properties.                                                             *)

\* Types of all variables.
TypeOK ==
  /\ clock \in Nat
  /\ row \in [Runs -> [id: Calls \cup {NoLease}, expires: Nat]]
  /\ pc \in [Calls -> {"new", "acquiring", "working", "writing", "releasing", "done"}]
  /\ now \in [Calls -> Nat]
  /\ beat \in [Calls -> {"off", "waiting", "renewing"}]
  /\ beatNow \in [Calls -> Nat]
  /\ due \in [Calls -> Nat]
  /\ lost \in [Calls -> BOOLEAN]
  /\ disturbed \in [Calls -> BOOLEAN]
  /\ epoch \in [Runs -> Nat]
  /\ mine \in [Calls -> Nat]
  /\ wrote \in [Runs -> Nat]

\* The owned writes of a run come in the order in which its leases were granted,
\* however late a statement carries its time (save_run_owned): what the holder of
\* a newer lease wrote is never overwritten by the holder of an older one.
FencedWrites == [][\A r \in Runs : wrote[r] <= wrote'[r]]_vars

\* A lease ends by the release of its holder, or after its expiry: no release,
\* late renewal or acquisition of another call ends it (acquire_run_lease,
\* release_run_lease).
NoEarlyTakeover ==
  [][\A c \in Calls : Holds(c) /\ ~Holds(c)' =>
       \/ row[RunOf[c]].expires <= clock
       \/ pc[c] = "releasing" /\ pc'[c] = "done"]_vars

\* A call that is neither stalled nor refused a renewal keeps its lease, however
\* long its provider call takes (_heartbeat, renew_run_lease).
HealthyKeepsLease ==
  \A c \in Calls : Inside(c) /\ ~disturbed[c] =>
    Valid(c, clock) /\ ~lost[c]
=============================================================================
