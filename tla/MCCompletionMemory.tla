------------------------- MODULE MCCompletionMemory -------------------------
(* Small instances of CompletionMemory.                                    *)
EXTENDS CompletionMemory, TLC

CONSTANTS e1, e2, p1, p2, t1, r1, r2

\* Two workers.
Apart == (e1 :> p1) @@ (e2 :> p2)
\* Both runs are about the one target.
Shared == (r1 :> t1) @@ (r2 :> t1)
\* The runs are interchangeable: both have the same target.
RunSymmetry == Permutations(Runs)
=============================================================================
