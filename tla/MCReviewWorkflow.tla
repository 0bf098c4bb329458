-------------------------- MODULE MCReviewWorkflow --------------------------
(* A small instance of ReviewWorkflow: the first request asks for everything *)
(* and approves, the second has other facts, asks for research and rejects.  *)
EXTENDS ReviewWorkflow

CONSTANTS support, counter, first, second

TwoRoles == <<"BULL", "BEAR">>

Request(hash, outcome, action) ==
  [fin |-> [hash |-> hash, evidence |-> {support}], val |-> [hash |-> hash, evidence |-> {support}],
   red |-> {counter}, outcome |-> outcome, ic |-> {support}, action |-> action]
Approving == Request(first, "OPEN", "APPROVE_THESIS")
Rejecting == Request(second, "REQUIRES_RESEARCH", "REJECT_THESIS")

SomeBodies ==
  {<<"workflow", Approving>>} \cup {<<op, Rejecting>> : op \in {"fin", "red", "decide", "BULL"}}

Symmetry == Permutations(Calls)
=============================================================================
