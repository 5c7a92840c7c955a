----------------------------- MODULE CourseRuntime -----------------------------
(***************************************************************************)
(* The learning protocol of one course: lessons are started, answered and  *)
(* completed, and the progress of the course is reset, by HTTP requests    *)
(* that run concurrently against one D1 (SQLite) database.                 *)
(*                                                                         *)
(* A request is a process.  It reads and writes the database in several    *)
(* statements; every read and every D1 batch is one atomic step, and       *)
(* anything may happen between two steps of a request.  What a request     *)
(* remembers between its steps is its record in loc; the step it is about  *)
(* to take is at.                                                          *)
(*                                                                         *)
(* Abstracted: a session is identified by its lesson number (the pair      *)
(* (course_id, lesson_no) is UNIQUE); a task by its word and how many      *)
(* tasks of the word precede it; the order of the queue by which pending   *)
(* task comes first; a score by whether it passes; the stage and the ease  *)
(* factor of a word by the gap they lead to.  What the queue planner may   *)
(* add to a queue is the subject of LessonQueue.                           *)
(***************************************************************************)
EXTENDS Integers, FiniteSets

CONSTANTS
    Words,              \* the words of the published source version
    GroupOf,            \* the position of a word's group in the source version
    StartRequests, SubmitRequests, CompleteRequests, ResetRequests,
                        \* the requests in flight, by what they may be; a
                        \* request that may be several is one after another
    Tokens,             \* operation tokens of administrators
    MaxTasksPerWord,    \* LESSON_QUEUE_POLICY_LIMITS.maxTasksPerWord
    MaxPlanned,         \* bound: tasks the planner adds after one answer
    Gaps,               \* lesson gaps a passing primary answer may lead to
    MaxPlayed,          \* bound: only the lessons up to this one are answered
    MaxRun,             \* bound: the last learning run a reset may start
    NoTask, NoToken

Requests == StartRequests \cup SubmitRequests \cup CompleteRequests \cup ResetRequests

Task == [word : Words, nth : 0 .. MaxTasksPerWord - 1]

ASSUME WordsAssumption ==
    /\ IsFiniteSet(Words)
    /\ Words # {}
    /\ GroupOf \in [Words -> Nat]

ASSUME BoundsAssumption ==
    /\ MaxTasksPerWord \in Nat \ {0}
    /\ Gaps \subseteq Nat \ {0}
    /\ Gaps # {}
    /\ MaxPlanned \in Nat
    /\ MaxPlayed \in Nat
    /\ MaxRun \in Nat \ {0}

ASSUME NoValueAssumption == NoTask \notin Task /\ NoToken \notin Tokens

VARIABLES
    course,     \* row of courses: current_lesson_no, current_learning_run_no,
                \* current_run_start_lesson_no
    sessions,   \* lesson_sessions by lesson number, with their lesson_tasks
                \* and review_logs
    rows,       \* user_word_states by word
    archive,    \* course_learning_run_word_state_snapshots by learning run
    resets,     \* course_progress_reset_operations by operation hash
    at,         \* the step each request takes next
    loc         \* what each request remembers

db == <<course, sessions, rows, archive, resets>>
vars == <<course, sessions, rows, archive, resets, at, loc>>

-----------------------------------------------------------------------------
(* Rows of the database.                                                   *)

Primary(t) == t.nth = 0
PrimaryTask(w) == [word |-> w, nth |-> 0]

Row == [run : Nat, due : Nat, attempts : Nat]
NoRow == [run |-> 0, due |-> 0, attempts |-> 0]

TaskStatus == {"absent", "pending", "completed", "skipped"}
Score == {"none", "pass", "fail"}

Session == [status : {"started", "completed", "abandoned"},
            run    : Nat,
            tasks  : [Task -> TaskStatus],
            score  : [Task -> Score],
            first  : Task \cup {NoTask}]

ResetOperation == [fromRun : Nat, runLesson : Nat, toLesson : Nat, abandoned : Nat]

Replies == {"start_reply", "submit_reply", "complete_reply", "reset_reply"}

Point == Replies \cup
         {"idle", "start_existing", "start_states", "start_advance", "start_reread",
          "start_create", "start_winner",
          "submit_existing", "submit_snapshot", "submit_raced", "submit_state",
          "submit_recheck", "submit_record", "submit_outcome",
          "complete_queue", "complete_next", "complete_recheck",
          "complete_commit", "complete_outcome",
          "reset_existing", "reset_course", "reset_stats", "reset_commit", "reset_failed"}

Local == [lesson : Nat, run : Nat, start : Nat, target : Nat,
          task : Task \cup {NoTask}, score : Score,
          tasks : SUBSET Task, words : SUBSET Words, row : Row,
          token : Tokens \cup {NoToken}, abandoned : Nat]

Nothing == [lesson |-> 0, run |-> 0, start |-> 0, target |-> 0,
            task |-> NoTask, score |-> "none",
            tasks |-> {}, words |-> {}, row |-> NoRow,
            token |-> NoToken, abandoned |-> 0]

Lessons == DOMAIN sessions
IsStarted(l) == l \in Lessons /\ sessions[l].status = "started"
TasksOf(l, status) == {t \in Task : sessions[l].tasks[t] = status}
Logged(l, t) == sessions[l].score[t] # "none"

(* getWordStates joins the rows with the learning run the course is in.    *)
CurrentRow(w) == IF rows[w].run = course.run THEN rows[w] ELSE NoRow
Activated == {w \in Words : rows[w].run = course.run}
UnactivatedGroups == {GroupOf[w] : w \in Words} \ {GroupOf[w] : w \in Activated}
NextGroupWords ==
    {w \in Words : /\ GroupOf[w] \in UnactivatedGroups
                   /\ \A g \in UnactivatedGroups : GroupOf[w] <= g}

IsLeast(n, S) == n \in S /\ \A m \in S : n <= m
IsGreatest(n, S) == n \in S /\ \A m \in S : m <= n
CountOf(S) == Cardinality(S)

-----------------------------------------------------------------------------
Init ==
    /\ course = [lesson |-> 1, run |-> 1, start |-> 1]
    /\ sessions = [l \in {} |-> {}]
    /\ rows = [w \in Words |-> NoRow]
    /\ archive = [n \in {} |-> {}]
    /\ resets = [k \in {} |-> {}]
    /\ at = [r \in Requests |-> "idle"]
    /\ loc = [r \in Requests |-> Nothing]

Goto(r, point, l) ==
    /\ at' = [at EXCEPT ![r] = point]
    /\ loc' = [loc EXCEPT ![r] = l]

Fail(r) == Goto(r, "idle", Nothing)

(* The response is sent: what the request returned is forgotten.           *)
Deliver(r) ==
    /\ at[r] \in Replies
    /\ Fail(r)
    /\ UNCHANGED db

(* A request ends between two of its steps: the worker is evicted or the   *)
(* database does not answer.                                               *)
Die(r) ==
    /\ at[r] \notin Replies \cup {"idle"}
    /\ Fail(r)
    /\ UNCHANGED db

-----------------------------------------------------------------------------
(* startLesson.                                                            *)

StartLesson(r) ==
    /\ at[r] = "idle"
    /\ Goto(r, "start_existing",
            [Nothing EXCEPT !.lesson = course.lesson,
                            !.run    = course.run,
                            !.start  = course.start])
    /\ UNCHANGED db

(* A started lesson at the current lesson number is returned as it is.     *)
GetStartedLesson(r) ==
    /\ at[r] = "start_existing"
    /\ IF IsStarted(loc[r].lesson)
          THEN Goto(r, "start_reply", loc[r])
          ELSE Goto(r, "start_states", loc[r])
    /\ UNCHANGED db

(* The words a lesson may consist of, from the rows as they are now and    *)
(* the lesson number n read before: some of the words that are due, and    *)
(* the words of the next group unless the due words leave no room for it.  *)
Due(n) == {w \in Activated : rows[w].due <= n}
LaterDue(n) == {rows[w].due : w \in {v \in Activated : rows[v].due > n}}

LessonPlan(n) ==
    {p \in [review : SUBSET Due(n), fresh : {{}, NextGroupWords}] :
        /\ p.review \cup p.fresh # {}
        /\ p.fresh = {} => Due(n) # {} \/ NextGroupWords = {}}

PlanLesson(r) ==
    /\ at[r] = "start_states"
    /\ LET n == loc[r].lesson IN
       \/ \E p \in LessonPlan(n) :
            Goto(r, "start_create",
                 [loc[r] EXCEPT
                    !.tasks = {PrimaryTask(w) : w \in p.review \cup p.fresh},
                    !.words = p.fresh])
       \/ /\ LessonPlan(n) = {}
          /\ \E m \in LaterDue(n) :
                /\ IsLeast(m, LaterDue(n))
                /\ Goto(r, "start_advance", [loc[r] EXCEPT !.target = m])
       \/ /\ LessonPlan(n) = {} /\ LaterDue(n) = {}
          /\ Fail(r)
    /\ UNCHANGED db

(* Nothing is due: the course moves to the lesson where something is,      *)
(* provided it still is at the lesson the request read.                    *)
AdvanceCourseLessonNo(r) ==
    /\ at[r] = "start_advance"
    /\ course' = IF course.lesson = loc[r].lesson
                   THEN [course EXCEPT !.lesson = loc[r].target]
                   ELSE course
    /\ Goto(r, "start_reread", loc[r])
    /\ UNCHANGED <<sessions, rows, archive, resets>>

RereadAdvancedCourse(r) ==
    /\ at[r] = "start_reread"
    /\ IF course.lesson > loc[r].lesson
          THEN Goto(r, "start_existing",
                    [Nothing EXCEPT !.lesson = course.lesson,
                                    !.run    = course.run,
                                    !.start  = course.start])
          ELSE Fail(r)
    /\ UNCHANGED db

(* Mutant: a session that exists is inserted again.                        *)
MayInsertSessionAgain(r) ==
    /\ loc[r].run = course.run
    /\ loc[r].start = course.start

(* createLesson inserts the session, its tasks and the rows of the new     *)
(* words in one batch.  UNIQUE(course_id, lesson_no) and the trigger       *)
(* lesson_sessions_learning_run_insert abort it.                           *)
MayInsertSession(r) ==
    /\ loc[r].lesson \notin Lessons
    /\ loc[r].run = course.run
    /\ loc[r].start = course.start

NewSession(r, first) ==
    [status |-> "started",
     run    |-> loc[r].run,
     tasks  |-> [t \in Task |-> IF t \in loc[r].tasks THEN "pending" ELSE "absent"],
     score  |-> [t \in Task |-> "none"],
     first  |-> first]

InitialRow(r, w) == [run |-> loc[r].run, due |-> loc[r].lesson, attempts |-> 0]

CreateLesson(r) ==
    /\ at[r] = "start_create"
    /\ IF MayInsertSession(r)
          THEN /\ \E first \in loc[r].tasks :
                    sessions' = [l \in Lessons \cup {loc[r].lesson} |->
                                    IF l = loc[r].lesson THEN NewSession(r, first)
                                                         ELSE sessions[l]]
               /\ rows' = [w \in Words |->
                             IF w \in loc[r].words THEN InitialRow(r, w) ELSE rows[w]]
               /\ Goto(r, "start_reply", loc[r])
          ELSE /\ Goto(r, "start_winner", loc[r])
               /\ UNCHANGED <<sessions, rows>>
    /\ UNCHANGED <<course, archive, resets>>

(* Mutant: a start that lost a race starts again from what it read.        *)
ReturnWinnerRetrying(r) ==
    /\ at[r] = "start_winner"
    /\ Goto(r, IF IsStarted(loc[r].lesson) THEN "start_reply" ELSE "start_existing", loc[r])
    /\ UNCHANGED db

(* After an aborted batch: the lesson another request started, if any.     *)
ReturnWinner(r) ==
    /\ at[r] = "start_winner"
    /\ IF IsStarted(loc[r].lesson) THEN Goto(r, "start_reply", loc[r]) ELSE Fail(r)
    /\ UNCHANGED db

-----------------------------------------------------------------------------
(* submitAnswer.                                                           *)

(* requireSessionTask: the session is started and has the task.            *)
SubmitAnswer(r, l, t) ==
    /\ at[r] = "idle"
    /\ l <= MaxPlayed
    /\ IsStarted(l)
    /\ t \in Task \ TasksOf(l, "absent")
    /\ Goto(r, "submit_existing", [Nothing EXCEPT !.lesson = l, !.task = t])
    /\ UNCHANGED db

(* Mutant: a request whose answer is already logged returns its own score. *)
AnswerOrOwn(r, otherwise) ==
    IF ~Logged(loc[r].lesson, loc[r].task) \/ loc[r].score = "none" THEN otherwise
    ELSE Goto(r, "submit_reply", loc[r])

(* getSubmittedAnswer: the answer the log already holds is returned, and   *)
(* with it the word's current row, without which the request fails.        *)
AnswerOr(r, otherwise) ==
    LET l == loc[r].lesson
        t == loc[r].task
    IN  IF ~Logged(l, t) THEN otherwise
        ELSE IF CurrentRow(t.word) = NoRow THEN Fail(r)
        ELSE Goto(r, "submit_reply", [loc[r] EXCEPT !.score = sessions[l].score[t]])

GetSubmittedAnswer(r) ==
    /\ at[r] = "submit_existing"
    /\ AnswerOr(r, Goto(r, "submit_snapshot", loc[r]))
    /\ UNCHANGED db

(* What the queue planner may add when t is answered: for some words that  *)
(* have no other pending task, whose primary task is completed and that    *)
(* have fewer than MaxTasksPerWord tasks, the word's next task.  A passed  *)
(* answer adds at most one task, of another word.                          *)
TaskCount(l, w) == CountOf({t \in Task : t.word = w /\ sessions[l].tasks[t] # "absent"})

RepeatableWords(l, t) ==
    {w \in Words :
        /\ TaskCount(l, w) < MaxTasksPerWord
        /\ \A u \in TasksOf(l, "pending") : u.word = w => u = t
        /\ sessions[l].tasks[PrimaryTask(w)] = "completed" \/ t = PrimaryTask(w)}

(* Mutant: the repetition index counts from one.                           *)
NextTaskFromOne(l, w) == [word |-> w, nth |-> TaskCount(l, w) + 1]

NextTask(l, w) == [word |-> w, nth |-> TaskCount(l, w)]

PlannedTasks(l, t, score) ==
    {{NextTask(l, w) : w \in W} : W \in
        {W \in SUBSET RepeatableWords(l, t) :
            /\ CountOf(W) <= MaxPlanned
            /\ score = "pass" => CountOf(W) <= 1 /\ t.word \notin W}}

ReadQueueSnapshot(r) ==
    /\ at[r] = "submit_snapshot"
    /\ LET l == loc[r].lesson
           t == loc[r].task
       IN  IF sessions[l].first # t
             THEN Goto(r, "submit_raced", loc[r])
             ELSE \E score \in {"pass", "fail"} :
                  \E new \in PlannedTasks(l, t, score) :
                    Goto(r, "submit_state",
                         [loc[r] EXCEPT !.score = score, !.tasks = new])
    /\ UNCHANGED db

(* The task is not the first pending one: a raced answer, or an error.     *)
ReturnRacedAnswer(r) ==
    /\ at[r] = "submit_raced"
    /\ AnswerOr(r, Fail(r))
    /\ UNCHANGED db

(* Mutant: every answer counts as an attempt.                              *)
UpdatedRowsCountingAll(row, l, t, score) ==
    {[row EXCEPT !.due = l + g, !.attempts = row.attempts + 1] :
        g \in IF score = "pass" THEN Gaps ELSE {1}}

(* applyAnswerScore for a primary task, deferToNextLesson for a wrong      *)
(* answer to any other, and the row as it is for the rest.                 *)
UpdatedRows(row, l, t, score) ==
    IF Primary(t)
      THEN {[row EXCEPT !.due = l + g, !.attempts = row.attempts + 1] :
                g \in IF score = "pass" THEN Gaps ELSE {1}}
    ELSE IF score = "fail" /\ l + 1 < row.due
      THEN {[row EXCEPT !.due = l + 1]}
    ELSE {row}

ReadWordState(r) ==
    /\ at[r] = "submit_state"
    /\ LET row == CurrentRow(loc[r].task.word) IN
       IF row = NoRow
         THEN Fail(r)
         ELSE \E updated \in UpdatedRows(row, loc[r].lesson, loc[r].task, loc[r].score) :
                Goto(r, "submit_recheck", [loc[r] EXCEPT !.row = updated])
    /\ UNCHANGED db

RecheckSubmittedAnswer(r) ==
    /\ at[r] = "submit_recheck"
    /\ AnswerOr(r, Goto(r, "submit_record", loc[r]))
    /\ UNCHANGED db

(* Mutants: only primary tasks are logged; a wrong answer to a repeated    *)
(* task leaves the row as it is.                                           *)
MayInsertPrimaryLog(r) == Primary(loc[r].task) /\ sessions[loc[r].lesson].first = loc[r].task
PersistsPrimaryState(r) == Primary(loc[r].task)

(* createRecordAnswerStatements: the log is inserted if the task is the    *)
(* first pending task of a started session; every other statement of the   *)
(* batch has an effect only if that log was inserted.  The row is written  *)
(* as the request computed it.                                             *)
MayInsertLog(r) ==
    /\ IsStarted(loc[r].lesson)
    /\ sessions[loc[r].lesson].tasks[loc[r].task] = "pending"
    /\ sessions[loc[r].lesson].first = loc[r].task

PersistsWordState(r) == Primary(loc[r].task) \/ loc[r].score = "fail"

AnsweredTasks(r) ==
    [t \in Task |-> IF t = loc[r].task THEN "completed"
                    ELSE IF t \in loc[r].tasks THEN "pending"
                    ELSE sessions[loc[r].lesson].tasks[t]]

FirstOf(status) ==
    LET pending == {t \in Task : status[t] = "pending"}
    IN  IF pending = {} THEN {NoTask} ELSE pending

RecordAnswer(r) ==
    /\ at[r] = "submit_record"
    /\ IF MayInsertLog(r)
          THEN /\ \E first \in FirstOf(AnsweredTasks(r)) :
                    sessions' = [sessions EXCEPT ![loc[r].lesson] =
                        [@ EXCEPT !.tasks = AnsweredTasks(r),
                                  !.score[loc[r].task] = loc[r].score,
                                  !.first = first]]
               /\ rows' = IF PersistsWordState(r)
                            THEN [rows EXCEPT ![loc[r].task.word] = loc[r].row]
                            ELSE rows
          ELSE UNCHANGED <<sessions, rows>>
    /\ Goto(r, "submit_outcome", loc[r])
    /\ UNCHANGED <<course, archive, resets>>

(* What is returned is what the log holds, whoever wrote it.               *)
ReturnRecordedAnswer(r) ==
    /\ at[r] = "submit_outcome"
    /\ AnswerOr(r, Fail(r))
    /\ UNCHANGED db

-----------------------------------------------------------------------------
(* completeLesson.                                                         *)

(* getLessonCompletionDecision: 80% of the primary tasks are completed and *)
(* no required task, that is no task the planner added, is open.           *)
PrimaryTasks(l) == {t \in Task : Primary(t) /\ sessions[l].tasks[t] # "absent"}

CompletionAllowed(l) ==
    /\ PrimaryTasks(l) # {}
    /\ 5 * CountOf(PrimaryTasks(l) \cap TasksOf(l, "completed"))
          >= 4 * CountOf(PrimaryTasks(l))
    /\ \A t \in TasksOf(l, "pending") : Primary(t)

SkippableTasks(l) == {t \in TasksOf(l, "pending") : Primary(t)}

CompleteLesson(r, l) ==
    /\ at[r] = "idle"
    /\ l \in Lessons
    /\ LET asked == [Nothing EXCEPT !.lesson = l] IN
       \/ /\ sessions[l].status = "started"
          /\ Goto(r, "complete_queue", asked)
       \/ /\ sessions[l].status = "completed"
          /\ Goto(r, "complete_recheck", [asked EXCEPT !.target = l + 1])
    /\ UNCHANGED db

DecideCompletion(r) ==
    /\ at[r] = "complete_queue"
    /\ LET l == loc[r].lesson IN
       IF CompletionAllowed(l)
         THEN Goto(r, "complete_next", [loc[r] EXCEPT !.tasks = SkippableTasks(l)])
         ELSE Fail(r)
    /\ UNCHANGED db

(* resolveNextActionableLessonNo: the next lesson if a group is left to    *)
(* activate, else the first lesson after this one where a word is due.     *)
NextLessonCandidates(l) ==
    IF UnactivatedGroups # {}
      THEN {l + 1}
      ELSE {IF rows[w].due > l THEN rows[w].due ELSE l + 1 : w \in Activated}

ResolveNextLessonNo(r) ==
    /\ at[r] = "complete_next"
    /\ LET next == NextLessonCandidates(loc[r].lesson) IN
       \E n \in next : /\ IsLeast(n, next)
                       /\ Goto(r, "complete_recheck", [loc[r] EXCEPT !.target = n])
    /\ UNCHANGED db

(* The repository reads the session and its tasks again.                   *)
RecheckCompletion(r) ==
    /\ at[r] = "complete_recheck"
    /\ LET l == loc[r].lesson IN
       CASE sessions[l].status = "completed" ->
                Goto(r, "complete_reply", [loc[r] EXCEPT !.target = course.lesson])
         [] /\ sessions[l].status = "started"
            /\ CompletionAllowed(l)
            /\ SkippableTasks(l) = loc[r].tasks -> Goto(r, "complete_commit", loc[r])
         [] OTHER -> Fail(r)
    /\ UNCHANGED db

(* One batch: skip what may be skipped, complete the session, move the     *)
(* course on if it still is at this lesson.  Each statement repeats the    *)
(* conditions it depends on.                                               *)
MayComplete(l) == IsStarted(l) /\ CompletionAllowed(l)

(* Mutants: what was to be skipped is skipped even if it was answered      *)
(* since; the course stays at the completed lesson.                        *)
SkippedTasksAsDecided(r) ==
    [t \in Task |-> IF t \in loc[r].tasks THEN "skipped"
                    ELSE sessions[loc[r].lesson].tasks[t]]

AdvancedCourseNever(r) == course

SkippedTasks(r) ==
    [t \in Task |-> IF t \in loc[r].tasks \cap TasksOf(loc[r].lesson, "pending")
                      THEN "skipped"
                      ELSE sessions[loc[r].lesson].tasks[t]]

AdvancedCourse(r) ==
    IF course.lesson = loc[r].lesson
      THEN [course EXCEPT !.lesson = loc[r].target]
      ELSE course

CommitCompletion(r) ==
    /\ at[r] = "complete_commit"
    /\ IF MayComplete(loc[r].lesson)
          THEN /\ \E first \in FirstOf(SkippedTasks(r)) :
                    sessions' = [sessions EXCEPT ![loc[r].lesson] =
                        [@ EXCEPT !.status = "completed",
                                  !.tasks = SkippedTasks(r),
                                  !.first = first]]
               /\ course' = AdvancedCourse(r)
          ELSE UNCHANGED <<sessions, course>>
    /\ Goto(r, "complete_outcome", loc[r])
    /\ UNCHANGED <<rows, archive, resets>>

ReturnCompletion(r) ==
    /\ at[r] = "complete_outcome"
    /\ IF sessions[loc[r].lesson].status = "completed"
          THEN Goto(r, "complete_reply", [loc[r] EXCEPT !.target = course.lesson])
          ELSE Fail(r)
    /\ UNCHANGED db

-----------------------------------------------------------------------------
(* resetCourseProgress.                                                    *)

RunLessonNo == course.lesson - course.start + 1

(* The operation of an administrator: a token, and the run and the lesson  *)
(* of the run that the page showed.  A token already spent on the same     *)
(* request returns its operation.                                          *)
Matches(token, run, lesson) ==
    resets[token].fromRun = run /\ resets[token].runLesson = lesson

CommittedReset(asked, token) ==
    [asked EXCEPT !.target = resets[token].toLesson,
                  !.abandoned = resets[token].abandoned]

(* The service looks for the operation; a spent token that does not match  *)
(* is refused.                                                             *)
ResetCourseProgress(r, token, run, lesson) ==
    /\ at[r] = "idle"
    /\ LET asked == [Nothing EXCEPT !.token = token, !.run = run, !.start = lesson] IN
       IF token \notin DOMAIN resets
         THEN Goto(r, "reset_existing", asked)
         ELSE /\ Matches(token, run, lesson)
              /\ Goto(r, "reset_reply", CommittedReset(asked, token))
    /\ UNCHANGED db

(* The operation the ledger holds for the token, if it was spent.          *)
CommittedOr(r, otherwise) ==
    IF loc[r].token \notin DOMAIN resets THEN otherwise
    ELSE IF Matches(loc[r].token, loc[r].run, loc[r].start)
      THEN Goto(r, "reset_reply", CommittedReset(loc[r], loc[r].token))
    ELSE Fail(r)

(* The repository looks for it again.                                      *)
FindCommittedReset(r) ==
    /\ at[r] = "reset_existing"
    /\ CommittedOr(r, Goto(r, "reset_course", loc[r]))
    /\ UNCHANGED db

(* The course must be where the administrator saw it.                      *)
ReadCourseToReset(r) ==
    /\ at[r] = "reset_course"
    /\ IF course.run = loc[r].run /\ RunLessonNo = loc[r].start
         THEN Goto(r, "reset_stats", [loc[r] EXCEPT !.lesson = course.lesson])
         ELSE Fail(r)
    /\ UNCHANGED db

StartedInRun(run) == {l \in Lessons : IsStarted(l) /\ sessions[l].run = run}

(* toPhysicalLessonNo for a course at lesson n.                            *)
IsNextPhysicalLesson(m, n) == IsGreatest(m - 1, Lessons \cup {n})

ReadResetStats(r) ==
    /\ at[r] = "reset_stats"
    /\ \E l \in Lessons \cup {loc[r].lesson} :
         /\ IsNextPhysicalLesson(l + 1, loc[r].lesson)
         /\ Goto(r, "reset_commit",
                 [loc[r] EXCEPT !.target = l + 1,
                                !.abandoned = CountOf(StartedInRun(loc[r].run))])
    /\ UNCHANGED db

(* Mutants: the count of abandoned sessions is not compared again; the     *)
(* completed sessions of the run are abandoned too; none is.               *)
MayResetWithAnyCount(r) ==
    /\ loc[r].token \notin DOMAIN resets
    /\ course.run = loc[r].run
    /\ course.lesson = loc[r].lesson
    /\ RunLessonNo = loc[r].start
    /\ IsNextPhysicalLesson(loc[r].target, course.lesson)

AllSessionsAbandoned(r) ==
    [l \in Lessons |-> IF sessions[l].run = loc[r].run
                         THEN [sessions[l] EXCEPT !.status = "abandoned"]
                         ELSE sessions[l]]

NoSessionAbandoned(r) == sessions

(* One batch: the trigger course_progress_reset_operation_validate aborts  *)
(* it unless everything the request read still holds.                      *)
MayReset(r) ==
    /\ loc[r].token \notin DOMAIN resets
    /\ course.run = loc[r].run
    /\ course.lesson = loc[r].lesson
    /\ RunLessonNo = loc[r].start
    /\ IsNextPhysicalLesson(loc[r].target, course.lesson)
    /\ loc[r].abandoned = CountOf(StartedInRun(course.run))

ResetRecord(r) ==
    [fromRun |-> loc[r].run, runLesson |-> loc[r].start,
     toLesson |-> loc[r].target, abandoned |-> loc[r].abandoned]

AbandonedSessions(r) ==
    [l \in Lessons |-> IF l \in StartedInRun(loc[r].run)
                         THEN [sessions[l] EXCEPT !.status = "abandoned"]
                         ELSE sessions[l]]

CommitReset(r) ==
    /\ at[r] = "reset_commit"
    /\ IF MayReset(r)
          THEN /\ resets' = [k \in DOMAIN resets \cup {loc[r].token} |->
                                IF k = loc[r].token THEN ResetRecord(r) ELSE resets[k]]
               /\ archive' = [n \in DOMAIN archive \cup {loc[r].run} |->
                                IF n = loc[r].run
                                  THEN [w \in Words |-> CurrentRow(w)]
                                  ELSE archive[n]]
               /\ sessions' = AbandonedSessions(r)
               /\ course' = [lesson |-> loc[r].target, run |-> loc[r].run + 1,
                             start |-> loc[r].target]
               /\ Goto(r, "reset_reply", loc[r])
          ELSE /\ Goto(r, "reset_failed", loc[r])
               /\ UNCHANGED <<resets, archive, sessions, course>>
    /\ UNCHANGED rows

(* After an aborted batch: the operation another request with this token   *)
(* committed, or a conflict.                                               *)
ReturnCommittedReset(r) ==
    /\ at[r] = "reset_failed"
    /\ CommittedOr(r, Fail(r))
    /\ UNCHANGED db

-----------------------------------------------------------------------------
(* A request arrives and takes its first step.                             *)
Arrive(r) ==
    \/ r \in StartRequests /\ StartLesson(r)
    \/ /\ r \in SubmitRequests
       /\ \E l \in Lessons, t \in Task : SubmitAnswer(r, l, t)
    \/ /\ r \in CompleteRequests
       /\ \E l \in Lessons : CompleteLesson(r, l)
    \/ /\ r \in ResetRequests
       /\ \E token \in Tokens, run \in 1 .. MaxRun - 1, lesson \in 1 .. MaxPlayed + 1 :
            ResetCourseProgress(r, token, run, lesson)

(* A request that has arrived takes its next step.                         *)
Serve(r) ==
    \/ GetStartedLesson(r) \/ PlanLesson(r) \/ AdvanceCourseLessonNo(r)
    \/ RereadAdvancedCourse(r) \/ CreateLesson(r) \/ ReturnWinner(r)
    \/ GetSubmittedAnswer(r) \/ ReadQueueSnapshot(r) \/ ReturnRacedAnswer(r)
    \/ ReadWordState(r) \/ RecheckSubmittedAnswer(r) \/ RecordAnswer(r)
    \/ ReturnRecordedAnswer(r)
    \/ DecideCompletion(r) \/ ResolveNextLessonNo(r) \/ RecheckCompletion(r)
    \/ CommitCompletion(r) \/ ReturnCompletion(r)
    \/ FindCommittedReset(r) \/ ReadCourseToReset(r) \/ ReadResetStats(r)
    \/ CommitReset(r) \/ ReturnCommittedReset(r)
    \/ Deliver(r)

Next == \E r \in Requests : Arrive(r) \/ Serve(r) \/ Die(r)

Spec == Init /\ [][Next]_vars

(* Fairness.  The worker runs a request to its end: no request that has    *)
(* arrived waits for ever.  A learner who keeps going answers the task the *)
(* lesson shows and asks to complete a lesson that shows none.             *)
AnswerCurrentTask(r) ==
    /\ r \in SubmitRequests
    /\ \E l \in Lessons : \E t \in {sessions[l].first} \ {NoTask} : SubmitAnswer(r, l, t)

AskToComplete(r) ==
    /\ r \in CompleteRequests
    /\ \E l \in Lessons :
        /\ IsStarted(l)
        /\ sessions[l].first = NoTask
        /\ CompleteLesson(r, l)

(* The requests of this learner do not die half-way.                       *)
PersistentLearnerSpec ==
    /\ Init
    /\ [][\E r \in Requests : Arrive(r) \/ Serve(r)]_vars
    /\ \A r \in Requests : /\ WF_vars(Serve(r))
                           /\ SF_vars(AnswerCurrentTask(r))
                           /\ SF_vars(AskToComplete(r))

-----------------------------------------------------------------------------
(* Properties.                                                             *)

(* Every variable holds the kind of value the schema and the handlers give *)
(* it.                                                                     *)
TypeOK ==
    /\ course \in [lesson : Nat, run : Nat, start : Nat]
    /\ Lessons \subseteq Nat
    /\ \A l \in Lessons : sessions[l] \in Session
    /\ rows \in [Words -> Row]
    /\ DOMAIN archive \subseteq Nat
    /\ \A n \in DOMAIN archive : archive[n] \in [Words -> Row]
    /\ DOMAIN resets \subseteq Tokens
    /\ \A k \in DOMAIN resets : resets[k] \in ResetOperation
    /\ at \in [Requests -> Point]
    /\ loc \in [Requests -> Local]

(* What holds between the steps of the requests and makes the properties   *)
(* below inductive: what a request remembers may be old, but the lesson    *)
(* number it read is never ahead of the course, the number it is about to  *)
(* write is past the one it read, and the rows it points at exist.         *)
StartPoints == {"start_existing", "start_states", "start_advance",
                "start_reread", "start_create", "start_winner"}
SubmitPoints == {"submit_existing", "submit_snapshot", "submit_raced", "submit_state",
                 "submit_recheck", "submit_record", "submit_outcome"}
CompletePoints == {"complete_queue", "complete_next", "complete_recheck",
                   "complete_commit", "complete_outcome"}
ResetPoints == {"reset_existing", "reset_course", "reset_stats", "reset_commit",
                "reset_failed"}

LocalOK(p, l) ==
    /\ p \in StartPoints => l.start <= l.lesson /\ l.lesson <= course.lesson
    /\ p = "start_advance" => l.lesson < l.target
    /\ p \in SubmitPoints => l.lesson \in Lessons /\ l.task \in Task
    /\ p \in {"submit_recheck", "submit_record"} => l.row.run <= course.run
    /\ p \in CompletePoints => l.lesson \in Lessons
    /\ p \in {"complete_recheck", "complete_commit"} => l.lesson < l.target
    /\ p \in ResetPoints => l.token \in Tokens

RequestsAreBehind ==
    /\ IsFiniteSet(Lessons)
    /\ course.start <= course.lesson
    /\ \A r \in Requests : LocalOK(at[r], loc[r])

(* A word's state counts exactly the primary answers that the review logs  *)
(* of its learning run hold, in the current run and in every archived one: *)
(* no answer is counted twice by a retry and none is lost to a stale write *)
(* of the row.  This is for lessons started one at a time; what holds with *)
(* two of them open is ProgressIsEarned.                                   *)
LoggedPrimaries(w, run) ==
    CountOf({l \in Lessons : sessions[l].run = run /\ Logged(l, PrimaryTask(w))})

AttemptsMatchLog ==
    \A w \in Words :
        /\ w \in Activated => rows[w].attempts = LoggedPrimaries(w, course.run)
        /\ \A n \in DOMAIN archive :
              archive[n][w].run = n => archive[n][w].attempts = LoggedPrimaries(w, n)

(* A completed lesson is closed: nothing in it is pending, at least 80% of *)
(* its primary tasks were answered, and only unanswered primary tasks were *)
(* skipped, whatever was answered while it was being completed.            *)
CompletedLessonIsClosed ==
    \A l \in Lessons : sessions[l].status = "completed" =>
        /\ TasksOf(l, "pending") = {}
        /\ 5 * CountOf({t \in PrimaryTasks(l) : Logged(l, t)}) >= 4 * CountOf(PrimaryTasks(l))
        /\ \A t \in TasksOf(l, "skipped") : Primary(t) /\ ~Logged(l, t)

(* The word of a wrong answer comes back in the next lesson, unless a      *)
(* later lesson asked it again: neither a passed repetition nor another    *)
(* request undoes the early due date.                                      *)
FailedWordComesBack ==
    \A l \in Lessons : \A t \in Task :
        /\ sessions[l].run = course.run
        /\ sessions[l].score[t] = "fail"
        /\ \A m \in Lessons : m > l => \A u \in Task : u.word = t.word => ~Logged(m, u)
        => rows[t.word].due <= l + 1

(* The runs divide the lesson numbers: the sessions of the current run are *)
(* those from its first lesson on, no session of an earlier run is still   *)
(* started, and no row is of a run that has not begun.                     *)
RunsAreFenced ==
    /\ \A l \in Lessons :
        /\ sessions[l].run <= course.run
        /\ l <= course.lesson
        /\ sessions[l].run = course.run <=> l >= course.start
        /\ sessions[l].status = "started" => sessions[l].run = course.run
    /\ \A w \in Words : rows[w].run <= course.run

(* The course is past every lesson that was completed, so that none is     *)
(* handed out again.                                                       *)
CourseIsPastCompletedLessons ==
    \A l \in Lessons : sessions[l].status = "completed" => l < course.lesson

(* At most one lesson of a course is open at a time, so that a start that  *)
(* is submitted twice returns one lesson: what a test says of startLesson. *)
OneOpenLesson ==
    \A l, m \in Lessons : IsStarted(l) /\ IsStarted(m) => l = m

(* Every learning run after the first was begun by exactly one reset,      *)
(* which recorded how many lessons it abandoned; the lessons that are      *)
(* abandoned are those.                                                    *)
ResetsAccountForRuns ==
    /\ \A n \in 1 .. course.run - 1 :
        CountOf({k \in DOMAIN resets : resets[k].fromRun = n}) = 1
    /\ \A k \in DOMAIN resets :
        /\ resets[k].fromRun < course.run
        /\ resets[k].abandoned = CountOf({l \in Lessons :
                sessions[l].run = resets[k].fromRun /\ sessions[l].status = "abandoned"})

(* What a request returns is what the database holds, also when another    *)
(* request won the race or the request is a retry: the score in the log, a *)
(* lesson after the completed one, the operation of the token.             *)
RepliesAreRecorded ==
    \A r \in Requests :
        /\ at[r] = "submit_reply" =>
              sessions[loc[r].lesson].score[loc[r].task] = loc[r].score
        /\ at[r] = "complete_reply" =>
              /\ sessions[loc[r].lesson].status = "completed"
              /\ loc[r].lesson < loc[r].target
        /\ at[r] = "reset_reply" =>
              /\ loc[r].token \in DOMAIN resets
              /\ resets[loc[r].token] =
                    [fromRun |-> loc[r].run, runLesson |-> loc[r].start,
                     toLesson |-> loc[r].target, abandoned |-> loc[r].abandoned]

(* What a word's row tells of a run was earned by answers.  It counts no   *)
(* answer that the logs do not hold and none twice, in the current run and *)
(* in every archived one; and a row once created in the run changes only   *)
(* in the batch that logs an answer to its word, which was not answered at *)
(* that task before.  No start that was planned earlier wipes it, whether  *)
(* its lesson exists by now, the course has moved on or two are open.      *)
AttemptsAreLogged ==
    \A w \in Words :
        /\ w \in Activated => rows[w].attempts <= LoggedPrimaries(w, course.run)
        /\ \A n \in DOMAIN archive :
              archive[n][w].run = n => archive[n][w].attempts <= LoggedPrimaries(w, n)

LogsNow(w) ==
    \E l \in Lessons, t \in Task :
        t.word = w /\ ~Logged(l, t) /\ sessions'[l].score[t] # "none"

ProgressIsEarned ==
    [][/\ AttemptsAreLogged'
       /\ \A w \in Activated : rows'[w] # rows[w] => LogsNow(w)
      ]_<<course, sessions, rows, archive>>

(* What is over stays as it was: a session that ended and an answer once   *)
(* logged, the rows archived with a learning run, and the operation of a   *)
(* token once spent, whatever requests of before a reset still write.      *)
HistoryIsFinal ==
    [][/\ \A l \in Lessons :
            /\ sessions[l].status # "started" => sessions'[l] = sessions[l]
            /\ \A t \in Task : Logged(l, t) => sessions'[l].score[t] = sessions[l].score[t]
       /\ \A n \in DOMAIN archive : n \in DOMAIN archive' /\ archive'[n] = archive[n]
       /\ \A k \in DOMAIN resets : k \in DOMAIN resets' /\ resets'[k] = resets[k]
      ]_<<sessions, archive, resets>>

(* Every request ends: the loop of startLesson, which moves the course on  *)
(* and starts again, does not go round for ever.                           *)
RequestsEnd == \A r \in Requests : at[r] # "idle" ~> at[r] = "idle"

(* A lesson that is answered ends: wrong answers add tasks only up to the  *)
(* cap, every added task can be answered, and then the lesson completes.   *)
LessonsEnd ==
    \A l \in 1 .. MaxPlayed : l \in Lessons ~> l \in Lessons /\ ~IsStarted(l)

=============================================================================
