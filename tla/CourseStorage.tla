----------------------------- MODULE CourseStorage ------------------------------
(***************************************************************************)
(* The operations of a course, performed by concurrent requests in several *)
(* D1 statements, change the database as the repository in memory changes  *)
(* its maps: in one step each, from what is stored when that step is taken *)
(* and never from what a request read before.                              *)
(***************************************************************************)
EXTENDS CourseRuntime

(* In the database a session is found by its lesson.                       *)
Memory == INSTANCE MemoryCourses
    WITH Primaries <- {t \in Task : Primary(t)},
         WordOf    <- [t \in Task |-> t.word],
         lessonOf  <- [l \in Lessons |-> l]

(* Where the two differ: the D1 repository also completes a started lesson *)
(* the course has left, and leaves the course where it is.                 *)
CompletesLeftLesson ==
    \E l \in Lessons :
        /\ Memory!Closes(l)
        /\ course.lesson # l
        /\ course' = course

(* Every step of a request either reads, or changes the database as one    *)
(* whole operation of the repository in memory would, however many         *)
(* statements of other requests came between its own.                      *)
AgreesWithMemory == [][Memory!MemoryNext \/ CompletesLeftLesson]_db
=============================================================================
