--------------------------- MODULE MCSessionTurns ---------------------------
(* Instances of SessionTurns for TLC. *)
EXTENDS SessionRefinement, TLC

CONSTANTS t1, t2, p1, p2, r1, r2

\* One process that may run two tasks (a worker loop and a background task), or
\* two processes with one task each.
OneProcess == [t \in Tasks |-> p1]

TwoProcesses == [t \in Tasks |-> IF t = t1 THEN p1 ELSE p2]

\* Clients are interchangeable.
RequestSymmetry == Permutations(Requests)
=============================================================================
