-------------------------- MODULE LessonQueuePromise --------------------------
(***************************************************************************)
(* What the queue of a lesson promises to the protocol around it, which    *)
(* schedule it chooses left open: the first pending task is answered and   *)
(* completed; answering adds only next repetitions of words that are       *)
(* completed and not pending, few at a time, and none of the word itself   *)
(* when the answer passed; the lesson is completed when four fifths of the *)
(* primary tasks and all repetitions are, and then nothing is pending.     *)
(*                                                                         *)
(* LessonQueue implements this with the planner's own schedules, and every *)
(* lesson of CourseRuntime implements it with concurrent requests.         *)
(***************************************************************************)
EXTENDS Integers, FiniteSets

CONSTANTS
    Words,
    MaxTasksPerWord,
    MaxAdded,           \* tasks one answer may add
    NoTask

Task == [word : Words, nth : 0 .. MaxTasksPerWord - 1]

VARIABLES
    lesson,     \* "none", "started", "completed" or "abandoned"
    tasks,      \* status of each task
    first       \* the task that is shown, or NoTask

vars == <<lesson, tasks, first>>

TasksOf(status) == {t \in Task : tasks[t] = status}
Primaries == {t \in Task : t.nth = 0 /\ tasks[t] # "absent"}
TaskCount(w) == Cardinality({t \in Task : t.word = w /\ tasks[t] # "absent"})

ShowSome == first' \in IF \E t \in Task : tasks'[t] = "pending"
                         THEN {t \in Task : tasks'[t] = "pending"}
                         ELSE {NoTask}

(* A lesson begins with the primary tasks of some words.                   *)
IsFresh(ts) ==
    /\ ts \in [Task -> {"absent", "pending"}]
    /\ \E t \in Task : ts[t] = "pending"
    /\ \A t \in Task : ts[t] = "pending" => t.nth = 0

Init ==
    \/ /\ lesson = "none"
       /\ tasks = [t \in Task |-> "absent"]
       /\ first = NoTask
    \/ /\ lesson = "started"
       /\ IsFresh(tasks)
       /\ first \in TasksOf("pending")

Start ==
    /\ lesson = "none"
    /\ lesson' = "started"
    /\ IsFresh(tasks')
    /\ ShowSome

(* The words that may be repeated when the shown task is answered.         *)
Repeatable ==
    {w \in Words :
        /\ TaskCount(w) \in 1 .. MaxTasksPerWord - 1
        /\ \A t \in TasksOf("pending") : t.word = w => t = first}

Repetitions(W) == {[word |-> w, nth |-> TaskCount(w)] : w \in W}

(* The tasks a step adds to the queue.                                     *)
Added == {t \in Task : tasks[t] = "absent" /\ tasks'[t] # "absent"}

AnswerFirst ==
    /\ lesson = "started"
    /\ first # NoTask
    /\ DOMAIN tasks' = Task
    /\ \A t \in Task : tasks'[t] = IF t = first THEN "completed"
                                ELSE IF tasks[t] = "absent" /\ tasks'[t] # "absent"
                                  THEN "pending" ELSE tasks[t]
    /\ ShowSome
    /\ UNCHANGED lesson

AnswerRight ==
    /\ AnswerFirst
    /\ Added \subseteq Repetitions(Repeatable \ {first.word})
    /\ Cardinality(Added) <= 1

AnswerWrong ==
    /\ AnswerFirst
    /\ Added \subseteq Repetitions(Repeatable)
    /\ Cardinality(Added) <= MaxAdded

MayComplete ==
    /\ Cardinality(Primaries \cap TasksOf("completed")) * 5 >= Cardinality(Primaries) * 4
    /\ TasksOf("pending") \subseteq Primaries

Complete ==
    /\ lesson = "started"
    /\ MayComplete
    /\ lesson' = "completed"
    /\ tasks' = [t \in Task |-> IF tasks[t] = "pending" THEN "skipped" ELSE tasks[t]]
    /\ first' = NoTask

(* The course's progress is reset.                                         *)
Abandon ==
    /\ lesson = "started"
    /\ lesson' = "abandoned"
    /\ UNCHANGED <<tasks, first>>

Next == Start \/ AnswerRight \/ AnswerWrong \/ Complete \/ Abandon

Spec == Init /\ [][Next]_vars

=============================================================================
