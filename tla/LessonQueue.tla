----------------------------- MODULE LessonQueue -----------------------------
(***************************************************************************)
(* The task queue of one lesson under the queue policy v2_3_6_cap3 and the *)
(* flow policy v2_rolling_reinforcement_budget24.  Answering the first     *)
(* pending task completes it; a wrong answer schedules a repetition three  *)
(* to six tasks later or records why there is none; passing the first new  *)
(* words schedules a reinforcement two to four tasks later.                *)
(*                                                                         *)
(* A word is its place in the primary order of the lesson.  The completed  *)
(* tasks are the first Len(log) ones, and log[i] is the review log of the  *)
(* i-th: whether it passed, and the queue disposition of a wrong answer,   *)
(* "deferred_capacity" being replaced by its reason, which this flow       *)
(* always records.  One answer is one step: what happens between its       *)
(* reads and its batch is the subject of CourseRuntime.                    *)
(*                                                                         *)
(* Left out: suspended words, which nothing in the server ever creates.    *)
(***************************************************************************)
EXTENDS QueueSchedule

CONSTANTS
    Selections,         \* the lessons that are looked at: one is chosen initially
    MaxTasksPerWord,    \* maxTasksPerWordPerLesson
    MaxPlanned,         \* maxPlannedReinforcements
    NormalBudget,       \* normalVisibleTaskBudget
    HardCap             \* hardVisibleTaskCap

ASSUME QueueAssumption ==
    /\ \A s \in Selections :
          /\ s.words \in Nat \ {0}          \* primary tasks of the lesson
          /\ s.new \subseteq 1 .. s.words    \* the words first seen in it
          /\ s.wrong \in Nat               \* bound: wrong answers in it
          /\ s.words <= NormalBudget
    /\ MaxTasksPerWord \in Nat \ {0}
    /\ MaxPlanned \in Nat
    /\ NormalBudget \in Nat
    /\ HardCap \in Nat
    /\ NormalBudget <= HardCap

VARIABLES
    selection,  \* primarySelections of the flow plan the lesson was created with
    tasks,      \* lesson_tasks in order
    log,        \* review_logs of the completed tasks
    status      \* lesson_sessions.status

vars == <<selection, tasks, log, status>>

WordCount == selection.words
NewWords == selection.new
Words == 1 .. WordCount

Deferred == {"deferred_cap", "short_pool", "interval_infeasible", "lesson_task_budget"}
Disposition == {"none", "scheduled"} \cup Deferred

Task == [word : Nat, role : {"primary", "reflux", "bridge"}, source : Nat]
ReviewLog == [passed : BOOLEAN, disposition : Disposition]

-----------------------------------------------------------------------------
(* A queue q is [tasks, log]; its first Len(q.log) tasks are completed.    *)

Completed(q) == 1 .. Len(q.log)
PendingAt(q) == Len(q.log) + 1 .. Len(q.tasks)
PendingWords(q) == {q.tasks[i].word : i \in PendingAt(q)}
TaskCount(q, w) == Cardinality({i \in DOMAIN q.tasks : q.tasks[i].word = w})
ClosedWords(q) == {q.tasks[i].word : i \in {i \in Completed(q) : q.log[i].disposition \in Deferred}}
LaterSameWord(q, i) == {j \in i + 1 .. Len(q.tasks) : q.tasks[j].word = q.tasks[i].word}

Repeated(w, role, source) == [word |-> w, role |-> role, source |-> source]

(* The first pending task, answered.                                       *)
Answered(q, passed, disposition) ==
    [tasks |-> q.tasks,
     log   |-> Append(q.log, [passed |-> passed, disposition |-> disposition])]

Problem(q, job, bridges) ==
    [done    |-> Len(q.log),
     pending |-> SubSeq(q.tasks, Len(q.log) + 1, Len(q.tasks)),
     job     |-> job,
     bridges |-> bridges]

WithPending(q, pending) ==
    [tasks |-> SubSeq(q.tasks, 1, Len(q.log)) \o pending, log |-> q.log]

-----------------------------------------------------------------------------
(* The queue the code accepts, before it plans an answer, after it planned *)
(* one, and when it completes the lesson.                                  *)

HoldsTogether(q) ==
    /\ Len(q.log) <= Len(q.tasks)
    /\ \A i, j \in PendingAt(q) : q.tasks[i].word = q.tasks[j].word => i = j
    /\ \A i \in DOMAIN q.tasks :
          \E j \in DOMAIN q.tasks : /\ q.tasks[j].role = "primary"
                                    /\ q.tasks[j].word = q.tasks[i].word
    /\ \A w \in Words : TaskCount(q, w) <= MaxTasksPerWord
    /\ Len(q.tasks) <= HardCap
    /\ Cardinality({i \in DOMAIN q.tasks : IsPlanned(q.tasks[i])}) <= MaxPlanned

(* The only repetition of a task is the first later task of its word.      *)
IsOnlyChild(q, i, j) ==
    /\ {k \in DOMAIN q.tasks : /\ q.tasks[k].source = i
                               /\ q.tasks[k].role = q.tasks[j].role} = {j}
    /\ LaterSameWord(q, i) # {}
    /\ j = Min(LaterSameWord(q, i))

RefluxIsValid(q, j) ==
    LET i == q.tasks[j].source
    IN  /\ i \in Completed(q)
        /\ q.log[i].disposition = "scheduled"
        /\ IsOnlyChild(q, i, j)
        /\ j - i - 1 \in WrongGap

PlannedIsValid(q, j) ==
    LET i == q.tasks[j].source
    IN  /\ i \in Completed(q)
        /\ q.log[i].passed
        /\ q.tasks[i].role = "primary"
        /\ q.tasks[i].word \in NewWords
        /\ IsOnlyChild(q, i, j)
        /\ Cardinality((i + 1 .. j - 1) \cap Completed(q)) \in PlannedGap

LogIsValid(q, i) ==
    /\ q.log[i].passed <=> q.log[i].disposition = "none"
    /\ q.log[i].disposition \in Deferred => LaterSameWord(q, i) = {}
    /\ q.log[i].disposition = "scheduled" =>
          \E j \in DOMAIN q.tasks : q.tasks[j].role = "reflux" /\ q.tasks[j].source = i

IsValid(q) ==
    /\ HoldsTogether(q)
    /\ \A i \in Completed(q) : LogIsValid(q, i)
    /\ \A j \in DOMAIN q.tasks :
          /\ q.tasks[j].role = "reflux" => RefluxIsValid(q, j)
          /\ IsPlanned(q.tasks[j]) => PlannedIsValid(q, j)

-----------------------------------------------------------------------------
(* A wrong answer.                                                         *)

(* Mutant: a pending word may be a bridge.                                 *)
MayBridgePending(q, w) == w \notin ClosedWords(q) /\ TaskCount(q, w) < MaxTasksPerWord

(* The words a bridge may repeat: completed, not the answered one, not     *)
(* closed, not pending, and not yet repeated as often as allowed.          *)
MayBridge(q, w) ==
    /\ w \notin ClosedWords(q) \cup PendingWords(q)
    /\ TaskCount(q, w) < MaxTasksPerWord

BridgesFor(q) ==
    LET source == q.tasks[Len(q.log) + 1]
        completed == SubSeq(q.tasks, 1, Len(q.log))
        IsBridgeSource(t) == /\ t.role = "primary"
                             /\ t.word # source.word
                             /\ MayBridge(q, t.word)
        Bridge(t) == Repeated(t.word, "bridge", 0)
        sources == SelectSeq(completed, IsBridgeSource)
    IN  [i \in DOMAIN sources |-> Bridge(sources[i])]

WrongProblem(q) ==
    Problem(Answered(q, FALSE, "scheduled"),
            Repeated(q.tasks[Len(q.log) + 1].word, "reflux", Len(q.log) + 1),
            BridgesFor(q))

(* The first reason that applies, else the repetition is scheduled.        *)
WrongDisposition(q) ==
    LET p == WrongProblem(q)
    IN  IF TaskCount(q, p.job.word) >= MaxTasksPerWord THEN "deferred_cap"
        ELSE IF Len(q.tasks) >= HardCap THEN "lesson_task_budget"
        ELSE IF WordCount < Min(WrongGap) + 1 THEN "short_pool"
        ELSE IF ~ IsFeasible(p, Unlimited(p)) THEN "interval_infeasible"
        ELSE IF ~ IsFeasible(p, HardCap) THEN "lesson_task_budget"
        ELSE "scheduled"

WrongPlans(q) ==
    LET disposition == WrongDisposition(q)
        answered == Answered(q, FALSE, disposition)
    IN  IF disposition = "scheduled"
          THEN {WithPending(answered, pending) :
                    pending \in Schedules(WrongProblem(q), HardCap, FALSE)}
          ELSE {answered}

-----------------------------------------------------------------------------
(* The planned reinforcement, tried after every answer.                    *)

(* The first new words whose primary task passed, in the order they were   *)
(* answered.                                                               *)
PassingSources(q) ==
    LET passing == SelectSeq([i \in Completed(q) |-> i],
                       LAMBDA i : /\ q.tasks[i].role = "primary"
                                  /\ q.tasks[i].word \in NewWords
                                  /\ q.log[i].passed)
    IN  SubSeq(passing, 1, Min({Len(passing), MaxPlanned}))

(* The k-th of them waits for k + 1 completed tasks, and not for more than *)
(* the latest slot allows.                                                 *)
IsRipe(q, k, i) ==
    Len(q.log) - i \in k - 1 + Min(PlannedGap) .. Max(PlannedGap)

Reinforcements(q, k) ==
    LET i == PassingSources(q)[k]
        job == Repeated(q.tasks[i].word, "bridge", i)
    IN  IF LaterSameWord(q, i) = {} /\ IsRipe(q, k, i) /\ TaskCount(q, job.word) < MaxTasksPerWord
          THEN Schedules(Problem(q, job, << >>), NormalBudget, TRUE)
          ELSE {}

(* At most one reinforcement, for the first source that gets a schedule.   *)
ReinforcedSource(q) ==
    IF Len(q.tasks) >= NormalBudget THEN {}
    ELSE LET able == {k \in DOMAIN PassingSources(q) : Reinforcements(q, k) # {}}
         IN  {k \in able : \A other \in able : k <= other}

WithReinforcement(q) ==
    IF ReinforcedSource(q) = {} THEN {q}
    ELSE {WithPending(q, pending) :
              pending \in UNION {Reinforcements(q, k) : k \in ReinforcedSource(q)}}

-----------------------------------------------------------------------------
(* The queues an answer to the first pending task leads to: one, or none   *)
(* when planning fails and the request ends in queue_invariant_violation.  *)
Plans(q, passed) ==
    LET answered == IF passed THEN {Answered(q, TRUE, "none")}
                    ELSE IF IsValid(q) THEN WrongPlans(q) ELSE {}
        planned == UNION {WithReinforcement(a) : a \in {a \in answered : IsValid(a)}}
    IN  {plan \in planned : IsValid(plan)}

Queue == [tasks |-> tasks, log |-> log]
IsShown == status = "started" /\ Len(log) < Len(tasks)

Init ==
    /\ selection \in Selections
    /\ tasks = [w \in Words |-> Repeated(w, "primary", 0)]
    /\ log = << >>
    /\ status = "started"

Commit(plan) ==
    /\ tasks' = plan.tasks
    /\ log' = plan.log
    /\ UNCHANGED <<selection, status>>

AnswerRight ==
    /\ IsShown
    /\ \E plan \in Plans(Queue, TRUE) : Commit(plan)

AnswerWrong ==
    /\ IsShown
    /\ Cardinality({i \in DOMAIN log : ~ log[i].passed}) < selection.wrong
    /\ \E plan \in Plans(Queue, FALSE) : Commit(plan)

(* Mutant: only passed primaries count.                                    *)
MayCompleteWhenPassed(q) ==
    LET done == {i \in Completed(q) : q.tasks[i].role = "primary" /\ q.log[i].passed}
    IN  /\ Cardinality(done) * 5 >= WordCount * 4
        /\ \A i \in PendingAt(q) : q.tasks[i].role = "primary"

(* A lesson may be completed when four fifths of the primary tasks are and *)
(* no other task is pending; the pending primaries are skipped.            *)
MayComplete(q) ==
    LET done == {i \in Completed(q) : q.tasks[i].role = "primary"}
    IN  /\ Cardinality(done) * 5 >= WordCount * 4
        /\ \A i \in PendingAt(q) : q.tasks[i].role = "primary"

CompleteLesson ==
    /\ status = "started"
    /\ IsValid(Queue)
    /\ MayComplete(Queue)
    /\ status' = "completed"
    /\ UNCHANGED <<selection, tasks, log>>

Next == AnswerRight \/ AnswerWrong \/ CompleteLesson

Spec == Init /\ [][Next]_vars

-----------------------------------------------------------------------------
(* The queue as the protocol around it sees it: a task is a word and how   *)
(* many tasks of the word come before it.                                  *)
PlacesOf(w) == {i \in DOMAIN tasks : tasks[i].word = w}
Nth(i) == Cardinality({j \in PlacesOf(tasks[i].word) : j < i})
Name(i) == [word |-> tasks[i].word, nth |-> Nth(i)]

(* The completed tasks are the first ones, those of each word too.         *)
SeenStatus(t) ==
    LET places == PlacesOf(t.word)
    IN  IF Cardinality(places) <= t.nth THEN "absent"
        ELSE IF Cardinality(places \cap Completed(Queue)) > t.nth THEN "completed"
        ELSE IF status = "completed" THEN "skipped" ELSE "pending"

NoTask == [word |-> 0, nth |-> 0]
AnyWord == 1 .. Max({0} \cup {s.words : s \in Selections})

Promise == INSTANCE LessonQueuePromise WITH
    Words <- AnyWord,
    MaxAdded <- 1 + Min(WrongGap) + 1,
    lesson <- status,
    tasks <- [t \in [word : AnyWord, nth : 0 .. MaxTasksPerWord - 1] |-> SeenStatus(t)],
    first <- IF IsShown THEN Name(Len(log) + 1) ELSE NoTask

(* The queue keeps its promise.                                            *)
KeepsPromise == Promise!Spec

-----------------------------------------------------------------------------
(* The type invariant.                                                     *)
TypeOK ==
    /\ tasks \in Seq(Task)
    /\ log \in Seq(ReviewLog)
    /\ status \in {"started", "completed"}

(* Planning never fails: whatever was answered before, a right and a wrong *)
(* answer to the task that is shown both lead to a queue the code accepts, *)
(* so that no submitAnswer ends in queue_invariant_violation.  Feasibility *)
(* and construction of a schedule are decided by two algorithms in the     *)
(* code, and each plan must also pass validateLessonQueueSnapshot.         *)
AnswersAreAccepted ==
    IsShown => Plans(Queue, TRUE) # {} /\ Plans(Queue, FALSE) # {}

(* What is stored can be read, and the next answer to it stored again.     *)
QueueIsSound == TypeOK /\ AnswersAreAccepted

(* The same word is never shown twice in a row, although bridges, the      *)
(* repetitions of wrong answers and the planned ones are placed            *)
(* independently.                                                          *)
NoWordTwiceInARow ==
    \A i \in 1 .. Len(tasks) - 1 : tasks[i].word # tasks[i + 1].word

(* The first wrong answer of a lesson with enough words is always repeated *)
(* in the lesson: however late it comes, there are words for bridges and   *)
(* the planned reinforcements left room in the budget.                     *)
FirstMistakeIsRepeated ==
    IsShown /\ WordCount > Min(WrongGap) /\ (\A i \in DOMAIN log : log[i].passed)
        => WrongDisposition(Queue) = "scheduled"

(* Who answers everything right sees the first new words a second time: no *)
(* reinforcement is missed while its source is ripe, although only one is  *)
(* planned per answer.  This is so for lessons of five new words and none, *)
(* one or at least four due ones; with two or three due words one is       *)
(* missed.                                                                 *)
PassedNewWordsAreReinforced ==
    Len(log) = Len(tasks) /\ (\A i \in DOMAIN log : log[i].passed) =>
        Cardinality({j \in DOMAIN tasks : IsPlanned(tasks[j])})
            = Min({MaxPlanned, Cardinality(NewWords)})

(* So words come back within a lesson, and the lesson stays one of        *)
(* changing words.                                                         *)
WordsComeBack == NoWordTwiceInARow /\ FirstMistakeIsRepeated /\ PassedNewWordsAreReinforced

=============================================================================
