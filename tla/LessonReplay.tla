------------------------------- MODULE LessonReplay -------------------------------
(***************************************************************************)
(* Replays of one completed lesson on the server, and the previews of a    *)
(* sentence task of a lesson that is still being learned.  A request is a  *)
(* process whose D1 statements and batches are its steps.                  *)
(*                                                                         *)
(* Abstracted: who the learner is, as the course is always theirs and      *)
(* active; what was submitted beyond its score and its draft; what a       *)
(* submission is checked for before it is scored.  A behaviour has a       *)
(* lesson or has replays: they share no row.                               *)
(***************************************************************************)
EXTENDS LessonTasks

CONSTANTS
    Requests,
    MaxFailures,    \* bound: statements that fail, dead requests
    MaxFinished     \* bound: replays are started until so many are completed

VARIABLES
    counts,     \* the counters of each replay
    taken,      \* the draft each recorded answer was about
    lesson,     \* the sentence task of the lesson
    at, loc,    \* the step each request takes next, and what it remembers
    failures    \* number of failures so far

db == <<sessions, counts, taken, lesson>>
replayVars == <<db, at, loc, failures>>

NoLesson == [started |-> FALSE, task |-> NewTask("plain")]

NoCounts == [completed |-> 0, correct |-> 0, wrong |-> 0]

Operations == {"start", "preview", "answer", "complete", "preview_lesson"}

Point == {"idle", "find", "create", "create_reread", "winner",
          "read", "task", "write", "reread", "raced", "after_error", "reply"}

Nothing == [op |-> "none", s |-> 0, t |-> 0, draft |-> NoDraft, score |-> "none",
            reply |-> "none"]

ReplayInit ==
    /\ TasksInit
    /\ counts = <<>> /\ taken = <<>>
    /\ lesson \in {NoLesson, [started |-> TRUE, task |-> NewTask("sentence")]}
    /\ at = [r \in Requests |-> "idle"]
    /\ loc = [r \in Requests |-> Nothing]
    /\ failures = 0

Goto(r, point, l) ==
    /\ at' = [at EXCEPT ![r] = point]
    /\ loc' = [loc EXCEPT ![r] = l]

Move(r, point) == Goto(r, point, loc[r])
Refuse(r) == Goto(r, "idle", Nothing)
Accept(r, l) == Goto(r, "reply", [l EXCEPT !.reply = "ok"])

Is(r, point, ops) == at[r] = point /\ loc[r].op \in ops
Failure == failures < MaxFailures /\ failures' = failures + 1
Reads == UNCHANGED <<db, failures>>

(* What a statement of request r that writes does when it fails.           *)
Fails(r, point) == Failure /\ Move(r, point) /\ UNCHANGED db

Arrive(r) ==
    /\ at[r] = "idle"
    /\ \/ lesson = NoLesson /\ Goto(r, "find", [Nothing EXCEPT !.op = "start"])
       \/ \E s \in DOMAIN sessions :
             Goto(r, "read", [Nothing EXCEPT !.op = "complete", !.s = s])
       \/ \E s \in DOMAIN sessions, t \in DOMAIN SourceTasks, draft \in Drafts,
             score \in Scores :
             \/ /\ SourceTasks[t] = "sentence"
                /\ Goto(r, "read", [Nothing EXCEPT !.op = "preview", !.s = s, !.t = t,
                                                   !.draft = draft])
             \/ Goto(r, "read", [Nothing EXCEPT !.op = "answer", !.s = s, !.t = t,
                                    !.score = score,
                                    !.draft = IF SourceTasks[t] = "sentence" THEN draft
                                                                             ELSE NoDraft])
       \/ lesson # NoLesson /\ \E draft \in Drafts :
             Goto(r, "read", [Nothing EXCEPT !.op = "preview_lesson", !.draft = draft])
    /\ Reads

-----------------------------------------------------------------------------
(* startReplay, createReplay.                                              *)
GetStartedReplay(r) ==
    /\ Is(r, "find", {"start"}) /\ Reads
    /\ IF Started # {} THEN Accept(r, [loc[r] EXCEPT !.s = CHOOSE s \in Started : TRUE])
                       ELSE Move(r, "create")

(* Mutant: the index of started replays is missing.                        *)
MayCreateAgain == TRUE

MayCreate == Started = {}

Finished == {s \in DOMAIN sessions : sessions[s].status = "completed"}

Create(r) ==
    /\ Is(r, "create", {"start"})
    /\ IF MayCreate
       THEN /\ Cardinality(Finished) < MaxFinished
            /\ sessions' = Append(sessions, NewSession)
            /\ counts' = Append(counts, NoCounts)
            /\ taken' = Append(taken, [t \in DOMAIN SourceTasks |-> NoDraft])
            /\ Goto(r, "create_reread", [loc[r] EXCEPT !.s = Len(sessions) + 1])
            /\ UNCHANGED <<lesson, failures>>
       ELSE Move(r, "winner") /\ Reads

FailToCreate(r) == Is(r, "create", {"start"}) /\ Fails(r, "winner")

RereadCreated(r) == Is(r, "create_reread", {"start"}) /\ Accept(r, loc[r]) /\ Reads

ReadWinner(r) ==
    /\ Is(r, "winner", {"start"}) /\ Reads
    /\ IF Started # {} THEN Accept(r, [loc[r] EXCEPT !.s = CHOOSE s \in Started : TRUE])
                       ELSE Refuse(r)

-----------------------------------------------------------------------------
(* requireReplay and the checks of the service, on what it read.           *)
TaskOf(r) == sessions[loc[r].s].tasks[loc[r].t]

IsNext(r) == IsCurrent(sessions[loc[r].s], loc[r].t)

IsOpen(r) == sessions[loc[r].s].status = "started" /\ IsNext(r)

IsAboutDraft(r) == TaskOf(r).kind = "sentence" => TaskOf(r).draft = loc[r].draft

RequireReplay(r) ==
    /\ Is(r, "read", {"preview", "answer", "complete"}) /\ Reads
    /\ CASE loc[r].op = "complete" ->
              IF sessions[loc[r].s].status = "completed" THEN Accept(r, loc[r])
              ELSE IF IsDone(sessions[loc[r].s]) THEN Move(r, "task") ELSE Refuse(r)
         [] loc[r].op = "preview" -> IF IsOpen(r) THEN Move(r, "task") ELSE Refuse(r)
         [] loc[r].op = "answer" ->
              IF ~IsPending(TaskOf(r))
              THEN Accept(r, [loc[r] EXCEPT !.score = TaskOf(r).score])
              ELSE IF IsOpen(r) /\ IsAboutDraft(r) THEN Move(r, "task") ELSE Refuse(r)

(* saveSentenceOutputPreview: the task, the update, and, when the update   *)
(* changed nothing or failed, the task again.                              *)
IsFixedAs(task, draft) == task.draft = draft

GetPreviewTask(r) ==
    /\ Is(r, "task", {"preview"}) /\ Reads
    /\ IF IsFixedAs(TaskOf(r), loc[r].draft) THEN Accept(r, loc[r]) ELSE Move(r, "write")

(* Mutant: the update does not ask whether a draft is there.               *)
MayFixAgain(task) == IsPending(task)

MayFix(task) == IsPending(task) /\ task.draft = NoDraft

SavePreview(r) ==
    /\ Is(r, "write", {"preview"})
    /\ IF MayFix(TaskOf(r))
       THEN /\ sessions' = [sessions EXCEPT ![loc[r].s].tasks[loc[r].t].draft = loc[r].draft]
            /\ Move(r, "reread") /\ UNCHANGED <<counts, taken, lesson, failures>>
       ELSE Move(r, "raced") /\ Reads

FailToWrite(r) ==
    /\ Is(r, "write", {"preview", "answer"})
    /\ Fails(r, "raced")

ReadRaced(r) ==
    /\ at[r] = "raced" /\ Reads
    /\ CASE loc[r].op = "preview" ->
              IF IsFixedAs(TaskOf(r), loc[r].draft) THEN Accept(r, loc[r]) ELSE Refuse(r)
         [] loc[r].op = "answer" ->
              IF IsPending(TaskOf(r)) THEN Refuse(r)
              ELSE Accept(r, [loc[r] EXCEPT !.score = TaskOf(r).score])
         [] loc[r].op = "preview_lesson" ->
              IF IsFixedAs(lesson.task, loc[r].draft) THEN Accept(r, loc[r])
              ELSE Refuse(r)

RereadPreview(r) == Is(r, "reread", {"preview"}) /\ Accept(r, loc[r]) /\ Reads

(* recordAnswer: the task, the batch of the task and the counters, and the *)
(* task as it is then.                                                     *)
GetAnswerTask(r) ==
    /\ Is(r, "task", {"answer"}) /\ Reads
    /\ IF IsPending(TaskOf(r)) THEN Move(r, "write")
       ELSE Accept(r, [loc[r] EXCEPT !.score = TaskOf(r).score])

Answered(tasks) == {t \in DOMAIN tasks : ~IsPending(tasks[t])}

CountsOf(r, tasks) ==
    [completed |-> Cardinality(Answered(tasks)),
     correct   |-> Cardinality({t \in Answered(tasks) : tasks[t].score = "right"}),
     wrong     |-> Cardinality({t \in Answered(tasks) : tasks[t].score = "wrong"})]

RecordAnswer(r) ==
    LET s == loc[r].s
        t == loc[r].t
        isFirst == IsPending(TaskOf(r))
        tasks == IF isFirst THEN [sessions[s].tasks EXCEPT ![t].score = loc[r].score]
                            ELSE sessions[s].tasks
    IN
    /\ Is(r, "write", {"answer"})
    /\ sessions' = [sessions EXCEPT ![s].tasks = tasks]
    /\ taken' = [taken EXCEPT ![s][t] = IF isFirst THEN loc[r].draft ELSE @]
    /\ counts' = IF sessions[s].status = "started"
                 THEN [counts EXCEPT ![s] = CountsOf(r, tasks)] ELSE counts
    /\ Move(r, "reread") /\ UNCHANGED <<lesson, failures>>

RecordedScore(r) == TaskOf(r).score

RereadAnswer(r) ==
    /\ Is(r, "reread", {"answer"}) /\ Reads
    /\ Accept(r, [loc[r] EXCEPT !.score = RecordedScore(r)])

(* completeReplay.                                                         *)
GetReplay(r) ==
    /\ Is(r, "task", {"complete"}) /\ Reads
    /\ IF sessions[loc[r].s].status = "completed" THEN Accept(r, loc[r]) ELSE Move(r, "write")

CompleteReplay(r) ==
    LET session == sessions[loc[r].s] IN
    /\ Is(r, "write", {"complete"})
    /\ Move(r, "reread")
    /\ IF session.status = "started" /\ IsDone(session)
       THEN /\ sessions' = [sessions EXCEPT ![loc[r].s].status = "completed"]
            /\ UNCHANGED <<counts, taken, lesson, failures>>
       ELSE Reads

RereadReplay(r) ==
    /\ Is(r, "reread", {"complete"}) /\ Reads
    /\ IF sessions[loc[r].s].status = "completed" THEN Accept(r, loc[r]) ELSE Refuse(r)

-----------------------------------------------------------------------------
(* The preview of a lesson: previewSentenceOutput of CourseRuntime, then   *)
(* saveSentenceOutputPreview of d1CourseRepository.  An answered task has  *)
(* a draft; a lesson that ends leaves its draft alone.                     *)
ReadLessonTask(r) ==
    /\ Is(r, "read", {"preview_lesson"}) /\ Reads
    /\ IF lesson.task.draft # NoDraft
       THEN IF IsFixedAs(lesson.task, loc[r].draft) THEN Accept(r, loc[r]) ELSE Refuse(r)
       ELSE IF lesson.started THEN Move(r, "task") ELSE Refuse(r)

GetLessonTask(r) ==
    /\ Is(r, "task", {"preview_lesson"}) /\ Reads
    /\ IF ~IsPending(lesson.task) THEN Refuse(r)
       ELSE IF lesson.task.draft # NoDraft
       THEN IF IsFixedAs(lesson.task, loc[r].draft) THEN Accept(r, loc[r]) ELSE Refuse(r)
       ELSE Move(r, "write")

SaveLessonPreview(r) ==
    /\ Is(r, "write", {"preview_lesson"})
    /\ IF lesson.started /\ MayFix(lesson.task)
       THEN /\ lesson' = [lesson EXCEPT !.task.draft = loc[r].draft]
            /\ Accept(r, loc[r]) /\ UNCHANGED <<sessions, counts, taken, failures>>
       ELSE Reads /\ IF lesson.started THEN Move(r, "raced") ELSE Refuse(r)

(* CourseRuntime records the answer, or a reset abandons the lesson.       *)
LearnLesson ==
    /\ lesson.started
    /\ \/ /\ lesson.task.draft # NoDraft /\ IsPending(lesson.task)
          /\ lesson' = [lesson EXCEPT !.task.score = "right"]
       \/ lesson' = [lesson EXCEPT !.started = FALSE]
    /\ UNCHANGED <<sessions, counts, taken, at, loc, failures>>

-----------------------------------------------------------------------------
Deliver(r) == at[r] = "reply" /\ Goto(r, "idle", Nothing) /\ Reads

Die(r) ==
    /\ at[r] \notin {"idle", "reply"} /\ Failure
    /\ Goto(r, "idle", Nothing) /\ UNCHANGED db

Serve(r) ==
    \/ GetStartedReplay(r) \/ Create(r) \/ RereadCreated(r) \/ ReadWinner(r)
    \/ RequireReplay(r) \/ GetPreviewTask(r) \/ SavePreview(r) \/ RereadPreview(r)
    \/ GetAnswerTask(r) \/ RecordAnswer(r) \/ RereadAnswer(r) \/ ReadRaced(r)
    \/ GetReplay(r) \/ CompleteReplay(r) \/ RereadReplay(r)
    \/ ReadLessonTask(r) \/ GetLessonTask(r) \/ SaveLessonPreview(r)

ReplayNext ==
    \/ \E r \in Requests :
          \/ Arrive(r) \/ Serve(r) \/ Deliver(r)
          \/ FailToCreate(r) \/ FailToWrite(r) \/ Die(r)
    \/ LearnLesson

ReplaySpec == ReplayInit /\ [][ReplayNext]_replayVars

-----------------------------------------------------------------------------
(* PROPERTIES                                                              *)

(* Sessions, counters and requests are in states of the program.           *)
ReplayTypeOK ==
    /\ sessions \in Seq(Session)
    /\ DOMAIN counts = DOMAIN taken /\ DOMAIN counts \subseteq DOMAIN sessions
    /\ lesson.task \in Task
    /\ \A r \in Requests :
          /\ at[r] \in Point /\ loc[r].op \in Operations \cup {"none"}
          /\ at[r] = "idle" <=> loc[r] = Nothing
          /\ loc[r].s \in 0 .. Len(sessions)
          /\ loc[r].reply # "none" => at[r] = "reply"

(* The counters the report shows are those of the tasks, however often an  *)
(* answer is sent; else the guard of lesson_replay_sessions would abort.   *)
CountsMatchTasks ==
    \A s \in DOMAIN counts :
        LET tasks == sessions[s].tasks IN
        /\ counts[s].completed = Cardinality(Answered(tasks))
        /\ counts[s].correct = Cardinality({t \in Answered(tasks) : tasks[t].score = "right"})
        /\ counts[s].wrong + counts[s].correct = counts[s].completed

(* An answer counts for the draft that was compared with the reference.    *)
AnswerIsAboutDraft ==
    \A s \in DOMAIN taken : \A t \in Answered(sessions[s].tasks) :
        taken[s][t] = sessions[s].tasks[t].draft

(* Whatever races, a request is told what was recorded: the score of the   *)
(* task, the draft the reference was shown for, the end of the replay.     *)
RepliesAreTrue ==
    \A r \in Requests :
        loc[r].reply = "ok" =>
            CASE loc[r].op = "answer"   -> TaskOf(r).score = loc[r].score
              [] loc[r].op = "preview"  -> TaskOf(r).draft = loc[r].draft
              [] loc[r].op = "complete" -> sessions[loc[r].s].status = "completed"
              [] loc[r].op = "preview_lesson" -> lesson.task.draft = loc[r].draft
              [] loc[r].op = "start"    -> loc[r].s \in DOMAIN sessions

(* Tasks, counters and replies agree.                                      *)
ReplayIsTrue == ReplayTypeOK /\ CountsMatchTasks /\ AnswerIsAboutDraft /\ RepliesAreTrue

(* Statement by statement, the replays are what LessonTasks promises.      *)
KeepsOrder == TasksSpec
=============================================================================
