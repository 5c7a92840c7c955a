---------------------------- MODULE MCCourseRuntime ----------------------------
(* Instances of CourseRuntime for TLC: all words are of one group.         *)
EXTENDS CourseStorage, TLC

CONSTANTS w1, r1, r2, k1, k2  \* model values; the cfgs put them into the sets

OneGroup == [w \in Words |-> 1]

(* For a run in which both requests may be of every kind: a request and a  *)
(* token are then told apart by nothing but what they do.                  *)
Symmetry == Permutations({r1, r2}) \cup Permutations({k1, k2})
=============================================================================
