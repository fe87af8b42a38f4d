---------------------------- MODULE MCMemoryStore ----------------------------
(* Instances of MemoryStore for TLC. *)
EXTENDS MemoryStore, TLC

CONSTANTS m1, m2, m3, p1, p2, c1, c2, r1, r2

\* Nothing but equality is asked of ids, paths, contents and requests.
StoreSymmetry == Permutations(Memories) \cup Permutations(Paths) \cup Permutations(Contents)
                   \cup Permutations(Requests)
=============================================================================
