---------------------------- MODULE MCLearnerAccess ----------------------------
(* A learner l1, an id l2 for another, and what administrators may ask.    *)
EXTENDS LearnerAccess, TLC

CONSTANTS l1, l2, a1, p1, p2, k1, k2, r1, r2

Ask(kind, l, a, p, v) ==
    [kind |-> kind, learner |-> l, account |-> a, pin |-> p, version |-> v]

Inputs ==
    {Ask("rotate_access_code", l1, NoAccount, NoPin, 1),
     Ask("update_learner_login", l1, a1, p1, 1),
     Ask("update_learner_login", l1, a1, NoPin, 1),
     Ask("update_learner_login", l1, a1, NoPin, 2),
     Ask("create_course", l2, a1, p2, 0),
     Ask("reset_course_progress", l1, NoAccount, NoPin, 0)}

Alike == Permutations({k1, k2}) \cup Permutations({r1, r2})
=============================================================================
