------------------------------ MODULE MCAdminPages ------------------------------
(***************************************************************************)
(* An administrator's tab shows the page of the word lists, where one      *)
(* source exists at most, or the one of the courses, where one course      *)
(* exists at first.  A behaviour stays at one page, and nothing passes     *)
(* between the two.                                                        *)
(***************************************************************************)
EXTENDS SourceImport, CoursesWorkspace, TLC

CONSTANTS t1, t2, r1, r2, c1, c2, c3

VARIABLE shown

vars == <<importVars, deskVars, shown>>

Init ==
    /\ shown \in {"word lists", "courses"}
    /\ ImportInit
    /\ DeskInit
    /\ shown = "courses" => versions = {}

Next ==
    \/ shown = "word lists" /\ ImportNext /\ UNCHANGED <<deskVars, shown>>
    \/ shown = "courses" /\ DeskNext /\ UNCHANGED <<importVars, shown>>

Spec == Init /\ [][Next]_vars

Alike == Permutations({r1, r2}) \cup Permutations({t1, t2})
=============================================================================
