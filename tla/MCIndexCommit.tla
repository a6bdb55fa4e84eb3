--------------------------- MODULE MCIndexCommit ---------------------------
(* IndexCommit for TLC; the searches are interchangeable.                    *)
EXTENDS IndexCommit, TLC

Searches == Permutations(Readers)
=============================================================================
