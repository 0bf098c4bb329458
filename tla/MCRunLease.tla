----------------------------- MODULE MCRunLease -----------------------------
(* A small instance of RunLease: all calls compete for one run, so that     *)
(* every acquisition meets the row, live or expired, of another call.       *)
EXTENDS RunLease

CONSTANT r1

Competing == [c \in Calls |-> r1]
=============================================================================
