--------------------------- MODULE ArtifactChain ---------------------------
(***************************************************************************)
(* What the workflow behind mvp-complete promises of a run's artifacts: a  *)
(* part that is stored stays stored, parts are stored one at a time, the   *)
(* decision comes after the reviews it cites, and a call has its receipt   *)
(* only when every part is stored.  ReviewWorkflow implements it as long   *)
(* as its calls come one after the other.                                  *)
(***************************************************************************)
CONSTANTS Calls, Roles

VARIABLES stored, receipts

Parts == {"fin", "val", "red", "decide"} \cup Roles

Init == stored = {} /\ receipts = {}

Store(part) ==
  /\ part \notin stored
  /\ part = "decide" => Roles \subseteq stored
  /\ stored' = stored \cup {part}
  /\ UNCHANGED receipts

Receive(c) ==
  /\ stored = Parts
  /\ receipts' = receipts \cup {c}
  /\ UNCHANGED stored

Next == (\E part \in Parts : Store(part)) \/ (\E c \in Calls : Receive(c))

Spec == Init /\ [][Next]_<<stored, receipts>>
=============================================================================
