------------------------------- MODULE LessonTasks -------------------------------
(***************************************************************************)
(* What a learner may rely on who works through the tasks of a lesson, or  *)
(* of a replay, one call after the other: tasks are answered in their      *)
(* order and once; the reference of a sentence task is shown for one draft *)
(* that cannot be changed, and the answer is about that draft; a session   *)
(* ends when every task has been answered, and nothing changes after that. *)
(***************************************************************************)
EXTENDS Integers, Sequences, FiniteSets

CONSTANTS
    SourceTasks,    \* kinds of the tasks of a lesson, in their order
    Drafts,         \* sentences a learner may write
    NoDraft,
    MaxMore         \* bound: tasks a lesson inserts

Kinds == {"plain", "sentence"}
Scores == {"right", "wrong"}

ASSUME TasksAssumption ==
    /\ SourceTasks \in Seq(Kinds) /\ SourceTasks # <<>>
    /\ NoDraft \notin Drafts
    /\ MaxMore \in Nat

VARIABLE sessions   \* in the order they were started

Task == [kind : Kinds, score : Scores \cup {"none"}, draft : Drafts \cup {NoDraft}]
NewTask(kind) == [kind |-> kind, score |-> "none", draft |-> NoDraft]

Session == [status : {"started", "completed", "abandoned"}, tasks : Seq(Task)]
NewSession == [status |-> "started",
               tasks  |-> [t \in DOMAIN SourceTasks |-> NewTask(SourceTasks[t])]]

IsPending(task) == task.score = "none"
IsDone(session) == \A t \in DOMAIN session.tasks : ~IsPending(session.tasks[t])

(* The first pending task.                                                 *)
IsCurrent(session, t) ==
    /\ t \in DOMAIN session.tasks /\ IsPending(session.tasks[t])
    /\ \A u \in 1 .. t - 1 : ~IsPending(session.tasks[u])

TasksInit == sessions = <<>>

Started == {s \in DOMAIN sessions : sessions[s].status = "started"}

Start ==
    /\ Started = {}
    /\ sessions' = Append(sessions, NewSession)

Reveal(s, t, draft) ==
    /\ sessions[s].status = "started" /\ IsCurrent(sessions[s], t)
    /\ sessions[s].tasks[t].kind = "sentence" /\ sessions[s].tasks[t].draft = NoDraft
    /\ sessions' = [sessions EXCEPT ![s].tasks[t].draft = draft]

MayAnswer(s, t) ==
    /\ sessions[s].status = "started" /\ IsCurrent(sessions[s], t)
    /\ sessions[s].tasks[t].kind = "sentence" => sessions[s].tasks[t].draft # NoDraft

Answer(s, t, score) ==
    /\ MayAnswer(s, t)
    /\ sessions' = [sessions EXCEPT ![s].tasks[t].score = score]

(* A lesson may insert a task after a wrong answer, for a word that comes  *)
(* back; a replay does not.                                                *)
AnswerWithMore(s, t) ==
    /\ MayAnswer(s, t) /\ Len(sessions[s].tasks) < Len(SourceTasks) + MaxMore
    /\ sessions' = [sessions EXCEPT ![s].tasks =
                        Append([@ EXCEPT ![t].score = "wrong"], NewTask("plain"))]

Complete(s) ==
    /\ sessions[s].status = "started" /\ IsDone(sessions[s])
    /\ sessions' = [sessions EXCEPT ![s].status = "completed"]

(* Progress is reset, of a lesson only.                                    *)
Abandon(s) ==
    /\ sessions[s].status = "started"
    /\ sessions' = [sessions EXCEPT ![s].status = "abandoned"]

TasksNext ==
    \/ Start
    \/ \E s \in DOMAIN sessions :
          \/ \E t \in DOMAIN sessions[s].tasks :
                \/ \E draft \in Drafts : Reveal(s, t, draft)
                \/ \E score \in Scores : Answer(s, t, score)
                \/ AnswerWithMore(s, t)
          \/ Complete(s) \/ Abandon(s)

TasksSpec == TasksInit /\ [][TasksNext]_sessions
=============================================================================
