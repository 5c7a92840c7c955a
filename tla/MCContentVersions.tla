--------------------------- MODULE MCContentVersions ---------------------------
(* Two requests, which are alike, on a version of two cells.               *)
EXTENDS ContentVersions, TLC

CONSTANTS c1, c2, x1, x2, x3, t1, r1, r2

Alike == Permutations({r1, r2})
=============================================================================
