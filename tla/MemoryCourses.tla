----------------------------- MODULE MemoryCourses ------------------------------
(***************************************************************************)
(* What the operations of a course repository promise, each of them in one *)
(* step: the repository the server keeps in memory when it has no          *)
(* database, which runs every method to its end before the next one.       *)
(* CourseRuntime is how the D1 repository and the services perform the     *)
(* same operations in several statements.                                  *)
(*                                                                         *)
(* Abstracted: the state is that of one course, whose status is active;    *)
(* tasks and word states as in CourseRuntime.  What a method is given and  *)
(* only passes on (the tasks of a new lesson, the state of a word the      *)
(* service computed) is read off the state the step leaves behind.         *)
(***************************************************************************)
EXTENDS Integers, FiniteSets

CONSTANTS
    Words,
    Task, Primaries,    \* lesson tasks, and those whose role is primary
    WordOf,             \* the word of a task
    NoTask

VARIABLES
    course,     \* the course record
    lessonOf,   \* lesson number by session
    sessions,   \* sessions with their tasks and review logs
    rows,       \* word states by word
    archive,    \* word state snapshots by learning run
    resets      \* reset operations by operation hash

storage == <<course, lessonOf, sessions, rows, archive, resets>>

MemoryInit ==
    /\ course = [lesson |-> 1, run |-> 1, start |-> 1]
    /\ lessonOf = [s \in {} |-> 0]
    /\ sessions = [s \in {} |-> {}]
    /\ rows = [w \in Words |-> [run |-> 0, due |-> 0, attempts |-> 0]]
    /\ archive = [n \in {} |-> {}]
    /\ resets = [k \in {} |-> {}]

-----------------------------------------------------------------------------
NoRow == [run |-> 0, due |-> 0, attempts |-> 0]

(* getWordState, getWordStates.                                            *)
CurrentRow(w) == IF rows[w].run = course.run THEN rows[w] ELSE NoRow

IsOpen(s) == sessions[s].status = "started"
TasksIn(s, status) == {t \in Task : sessions[s].tasks[t] = status}

(* The task that comes first is a pending one.                             *)
IsFirstOf(first, tasks) ==
    LET pending == {t \in Task : tasks[t] = "pending"}
    IN  IF pending = {} THEN first = NoTask ELSE first \in pending

-----------------------------------------------------------------------------
(* createLesson, unless a started session of the lesson is returned.       *)
CreateLesson(s, lesson, new) ==
    /\ s \notin DOMAIN sessions
    /\ ~ \E q \in DOMAIN sessions : lessonOf[q] = lesson /\ IsOpen(q)
    /\ lessonOf' = [q \in DOMAIN sessions \cup {s} |-> IF q = s THEN lesson ELSE lessonOf[q]]
    /\ new.status = "started"
    /\ \A t \in Task : new.score[t] = "none" /\ new.tasks[t] \in {"absent", "pending"}
    /\ IsFirstOf(new.first, new.tasks)
    /\ sessions' = [q \in DOMAIN sessions \cup {s} |-> IF q = s THEN new ELSE sessions[q]]
    /\ \E words \in SUBSET Words :
          rows' = [w \in Words |->
                      IF w \in words
                        THEN [run |-> new.run, due |-> lesson, attempts |-> 0]
                        ELSE rows[w]]
    /\ UNCHANGED <<course, archive, resets>>

(* recordAnswer of a task that has no answer yet.                          *)
MayRecord(s, t) ==
    /\ sessions[s].score[t] = "none"
    /\ IsOpen(s)
    /\ sessions[s].run = course.run
    /\ sessions[s].tasks[t] = "pending"
    /\ sessions[s].first = t

AnsweredTasks(s, t, new) ==
    [u \in Task |-> IF u = t THEN "completed"
                    ELSE IF u \in new THEN "pending"
                    ELSE sessions[s].tasks[u]]

RecordAnswer(s, t, new, score, first, row) ==
    /\ MayRecord(s, t)
    /\ IsFirstOf(first, AnsweredTasks(s, t, new))
    /\ sessions' = [sessions EXCEPT ![s] =
            [@ EXCEPT !.tasks = AnsweredTasks(s, t, new),
                      !.score[t] = score,
                      !.first = first]]
    /\ \/ rows' = rows
       \/ rows' = [rows EXCEPT ![WordOf[t]] = [row EXCEPT !.run = course.run]]
    /\ UNCHANGED <<course, lessonOf, archive, resets>>

(* completeLesson of a started session: every pending primary task is      *)
(* skipped.                                                                *)
CanComplete(s) ==
    LET primaries == {t \in Primaries : sessions[s].tasks[t] # "absent"} IN
    /\ primaries # {}
    /\ 5 * Cardinality(primaries \cap TasksIn(s, "completed")) >= 4 * Cardinality(primaries)
    /\ TasksIn(s, "pending") \subseteq Primaries

Closes(s) ==
    /\ IsOpen(s)
    /\ sessions[s].run = course.run
    /\ CanComplete(s)
    /\ sessions' = [sessions EXCEPT ![s] =
            [@ EXCEPT !.status = "completed",
                      !.tasks = [t \in Task |-> IF t \in Primaries \cap TasksIn(s, "pending")
                                                  THEN "skipped"
                                                  ELSE sessions[s].tasks[t]],
                      !.first = NoTask]]
    /\ UNCHANGED <<lessonOf, rows, archive, resets>>

CompleteLesson(s, next) ==
    /\ Closes(s)
    /\ lessonOf[s] < next
    /\ course.lesson = lessonOf[s]
    /\ course' = [course EXCEPT !.lesson = next]

AdvanceCourseLessonNo(next) ==
    /\ course.lesson < next
    /\ course' = [course EXCEPT !.lesson = next]
    /\ UNCHANGED <<lessonOf, sessions, rows, archive, resets>>

(* resetCourseProgress with a token that was not used: everything the      *)
(* operation records is what the repository finds.                         *)
StartedNow == {s \in DOMAIN sessions : IsOpen(s) /\ sessions[s].run = course.run}

IsPastAllLessons(n) ==
    /\ \A s \in DOMAIN sessions : lessonOf[s] < n
    /\ course.lesson < n
    /\ n - 1 \in {course.lesson} \cup {lessonOf[s] : s \in DOMAIN sessions}

ResetCourseProgress(token, to) ==
    /\ token \notin DOMAIN resets
    /\ IsPastAllLessons(to)
    /\ resets' = [k \in DOMAIN resets \cup {token} |->
            IF k = token
              THEN [fromRun |-> course.run, runLesson |-> course.lesson - course.start + 1,
                    toLesson |-> to, abandoned |-> Cardinality(StartedNow)]
              ELSE resets[k]]
    /\ archive' = [n \in DOMAIN archive \cup {course.run} |->
            IF n = course.run THEN [w \in Words |-> CurrentRow(w)] ELSE archive[n]]
    /\ sessions' = [s \in DOMAIN sessions |->
            IF s \in StartedNow THEN [sessions[s] EXCEPT !.status = "abandoned"]
                                ELSE sessions[s]]
    /\ course' = [lesson |-> to, run |-> course.run + 1, start |-> to]
    /\ UNCHANGED <<lessonOf, rows>>

-----------------------------------------------------------------------------
MemoryNext ==
    \/ \E s \in DOMAIN sessions' \ DOMAIN sessions :
          CreateLesson(s, lessonOf'[s], sessions'[s])
    \/ \E s \in DOMAIN sessions, t \in Task :
          RecordAnswer(s, t, {u \in Task : sessions'[s].tasks[u] = "pending"},
                       sessions'[s].score[t], sessions'[s].first, rows'[WordOf[t]])
    \/ \E s \in DOMAIN sessions : CompleteLesson(s, course'.lesson)
    \/ AdvanceCourseLessonNo(course'.lesson)
    \/ \E token \in DOMAIN resets' : ResetCourseProgress(token, course'.lesson)

MemorySpec == MemoryInit /\ [][MemoryNext]_storage
=============================================================================
