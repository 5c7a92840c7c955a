----------------------------- MODULE CourseLessons -----------------------------
(***************************************************************************)
(* Every lesson of a course keeps the promise of a lesson queue, although  *)
(* concurrent requests plan answers on snapshots they read earlier, write  *)
(* them in one batch later, and a reset may abandon the lesson in between. *)
(***************************************************************************)
EXTENDS CourseRuntime

LessonStatus(l) == IF l \in Lessons THEN sessions[l].status ELSE "none"
LessonTasks(l) ==
    [t \in Task |-> IF l \in Lessons THEN sessions[l].tasks[t] ELSE "absent"]
LessonFirst(l) == IF l \in Lessons THEN sessions[l].first ELSE NoTask

Queue(l) == INSTANCE LessonQueuePromise WITH
    MaxAdded <- MaxPlanned,
    lesson <- LessonStatus(l),
    tasks <- LessonTasks(l),
    first <- LessonFirst(l)

(* Seen as a queue, the first and the second lesson of the course take     *)
(* only steps of the promise: what answers, completions and resets do      *)
(* concurrently is as if each had happened at once, and a request that     *)
(* lost a race or was repeated changes nothing.                            *)
LessonsKeepPromise ==
    /\ Queue(1)!Init /\ [][Queue(1)!Next]_(Queue(1)!vars)
    /\ Queue(2)!Init /\ [][Queue(2)!Next]_(Queue(2)!vars)
=============================================================================
