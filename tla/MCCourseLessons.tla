---------------------------- MODULE MCCourseLessons ----------------------------
(***************************************************************************)
(* The lessons of a course in three ways: two lessons with concurrent      *)
(* requests, the words of a course over many lessons, and one lesson of    *)
(* the earlier queue policy.  A behaviour is one of them.                  *)
(***************************************************************************)
EXTENDS CourseLessons, LessonLimits, Sequences

CONSTANTS w1, w2, r1, r2, k1   \* model values; the cfg puts them into the sets

OneGroup == [w \in Words |-> 1]

VARIABLES shown, limits, lessonNo, states, primary, answered, wrongs,
          queue, done, mistakes, closed

(* Few words and places, with many mistakes; lessons that are completed    *)
(* with a task skipped; many groups, so that some words are mastered when  *)
(* others are new; and the first lessons under the real limits.            *)
SomeCourses ==
    {[words |-> 5, group |-> 1, withGroup |-> 2, reviewOnly |-> 2, lessons |-> 10, wrong |-> 4],
     [words |-> 8, group |-> 2, withGroup |-> 4, reviewOnly |-> 5, lessons |-> 14, wrong |-> 1],
     [words |-> 8, group |-> 1, withGroup |-> 3, reviewOnly |-> 3, lessons |-> 24, wrong |-> 1],
     [words |-> 20, group |-> 5, withGroup |-> 15, reviewOnly |-> 18, lessons |-> 9, wrong |-> 0]}

Reviews == INSTANCE WordReviews
Legacy == INSTANCE RefluxSchedule

reviewVars == <<limits, lessonNo, states, primary, answered, wrongs>>
refluxVars == <<queue, done, mistakes, closed>>

LessonsInit ==
    /\ Init /\ Reviews!ReviewsInit /\ Legacy!RefluxInit
    /\ shown \in {"requests", "reviews", "legacy"}
    /\ shown # "reviews" => limits = CHOOSE c \in Courses : TRUE
    /\ shown # "legacy" => Len(queue) = 1

LessonsNext ==
    \/ /\ shown = "requests" /\ Next
       /\ UNCHANGED <<shown, reviewVars, refluxVars>>
    \/ /\ shown = "reviews" /\ Reviews!ReviewsNext
       /\ UNCHANGED <<shown, vars, refluxVars>>
    \/ /\ shown = "legacy" /\ Legacy!RefluxNext
       /\ UNCHANGED <<shown, vars, reviewVars>>

LessonsSpec == LessonsInit /\ [][LessonsNext]_<<vars, shown, reviewVars, refluxVars>>

(* A word is asked for again when it should be: in a later lesson as       *)
(* WordReviews has it, and within a lesson as RefluxSchedule has it.       *)
WordsComeBackInTime == Reviews!ReviewsAreOnTime /\ Legacy!RefluxesAreInTime
=============================================================================
