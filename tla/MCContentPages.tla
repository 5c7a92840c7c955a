----------------------------- MODULE MCContentPages -----------------------------
(* One administrator's pages on a version of two cells.                    *)
EXTENDS ContentPages, TLC

CONSTANTS c1, c2, x1, x2, t1

Alike == Permutations({c1, c2})
=============================================================================
