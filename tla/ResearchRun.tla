---------------------------- MODULE ResearchRun ----------------------------
(***************************************************************************)
(* What the durable runtime promises of one stored run: it evolves as if   *)
(* a single executor worked on it and every write took effect at once, no  *)
(* matter how many executors are started, stall, lose their lease or die.  *)
(* RunExecution implements it while the API is called for resolutions and  *)
(* replans alone, one at a time: cancellations and artifacts, which are     *)
(* taken in any state and written from a stale copy, are not steps of it.   *)
(***************************************************************************)
EXTENDS RunSteps

VARIABLE run

Init == run = NewRun

Next == Evolves(run, run')

Spec == Init /\ [][Next]_run
=============================================================================
