------------------------------ MODULE LessonLimits ------------------------------
(* The courses WordReviews is about and the lessons of RefluxSchedule, with *)
(* the bounds on them.                                                     *)
EXTENDS Integers

CONSTANTS
    Courses,        \* the courses that are looked at: one is chosen initially
    PrimaryCounts,  \* the lessons that are looked at, by their primary tasks
    MaxMistakes     \* bound: wrong answers of such a lesson that are repeated

ASSUME ReviewsAssumption ==
    \A c \in Courses :
       /\ c.words \in Nat \ {0}         \* words of the source version
       /\ c.group \in Nat \ {0}         \* GROUP_SIZE of ContentBuilder.ts
       /\ c.withGroup \in Nat           \* maxPrimaryWithNewGroup
       /\ c.reviewOnly \in Nat \ {0}    \* reviewOnlyPrimaryBudget
       /\ c.group <= c.withGroup
       /\ c.lessons \in Nat             \* bound: no lesson is started after it
       /\ c.wrong \in Nat               \* bound: wrong answers in it

ASSUME RefluxAssumption == PrimaryCounts \subseteq Nat \ {0} /\ MaxMistakes \in Nat
=============================================================================
