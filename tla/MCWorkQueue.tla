---------------------------- MODULE MCWorkQueue ----------------------------
(* Instances of WorkQueue for TLC. *)
EXTENDS WorkQueue

CONSTANTS a, b, s1, s2

OneSession == [w \in 1 .. MaxWork |-> s1]

TwoSessions == [w \in 1 .. MaxWork |-> IF w = 1 THEN s1 ELSE s2]

OwnId == [p \in Workers |-> p]
=============================================================================
