---------------------------- MODULE MCIndexPass ----------------------------
(* Instances of IndexPass for TLC. *)
EXTENDS IndexPass, TLC

CONSTANTS p1, p2, p3

MCHash == [p \in Paths |-> p]           \* no collision
MCDate == [v \in 1..MaxVersion |-> v]   \* every change has a new second

\* p1 and p2 collide, nothing else tells them apart; p3 has a hash of its own.
MCPairHash == [p \in Paths |-> IF p = p3 THEN 1 ELSE 0]
MCPair == Permutations({p1, p2})
=============================================================================
