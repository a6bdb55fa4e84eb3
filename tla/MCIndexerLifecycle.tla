------------------------- MODULE MCIndexerLifecycle -------------------------
(* Instances of IndexerLifecycle for TLC. *)
EXTENDS IndexerLifecycle

CONSTANTS t1, t2, t3

MCIdxDir == [d \in Dirs |-> d]   \* no collision
=============================================================================
