------------------------------- MODULE LessonPages -------------------------------
(***************************************************************************)
(* A learner's tab: the course page, which starts or resumes a lesson or a *)
(* replay, and the runner that works through its tasks.  The server keeps  *)
(* what LessonTasks says; calls are lost on their way there or back, and   *)
(* the same learner goes on in another tab.                                *)
(*                                                                         *)
(* LessonRunner and LessonReplayRunner are one page with a `mode`.  Left   *)
(* out: courses and contents that have become unavailable, wording, focus. *)
(***************************************************************************)
EXTENDS LessonTasks

CONSTANTS
    MaxSittings,    \* bound: sessions started by this tab
    MaxLosses,      \* bound: calls lost, sessions of the browser that expire
    MaxLeaves       \* bound: times the learner leaves a page that still works

VARIABLES
    mode,       \* "lesson" or "replay"
    page,       \* what the tab shows and remembers
    call,       \* the call it waits for
    losses, leaves

pageVars == <<sessions, mode, page, call, losses, leaves>>

Nowhere == [status |-> "none", tasks |-> <<>>]

NoCall == [op |-> "none", s |-> 0, t |-> 0, draft |-> NoDraft, score |-> "none",
           reply |-> "none", read |-> Nowhere]

NoForm == [t |-> 0, draft |-> NoDraft, waiting |-> FALSE, submitted |-> FALSE]

Home == [view |-> "home", s |-> 0, known |-> Nowhere, queued |-> Nowhere, form |-> NoForm,
         feedback |-> "none", retry |-> "none", reference |-> FALSE, told |-> "none",
         sent |-> "none"]

PagesInit ==
    /\ TasksInit
    /\ mode \in {"lesson", "replay"}
    /\ page = Home /\ call = NoCall
    /\ losses = 0 /\ leaves = 0

-----------------------------------------------------------------------------
(* What the page computes from the session it knows.                       *)
CurrentTask(session) ==
    IF IsDone(session) THEN 0 ELSE CHOOSE t \in DOMAIN session.tasks : IsCurrent(session, t)

ShownTask == page.known.tasks[page.form.t]

(* A task that is mounted shows the draft it was revealed for, or the one  *)
(* that was recovered.                                                     *)
Mounted(session, recovered) ==
    LET t == CurrentTask(session) IN
    IF t = 0 THEN NoForm
    ELSE [NoForm EXCEPT !.t = t, !.draft = IF session.tasks[t].draft # NoDraft
                                           THEN session.tasks[t].draft ELSE recovered]

ReferenceShown ==
    /\ page.form.t # 0 /\ ShownTask.kind = "sentence"
    /\ page.reference \/ ShownTask.draft # NoDraft

Calls(op, s, t) == [NoCall EXCEPT !.op = op, !.s = s, !.t = t]

Busy == call.op # "none"

(* What a page does: it changes itself, and waits for the next call.       *)
Turn(p, next) ==
    /\ page' = p /\ call' = next
    /\ UNCHANGED <<sessions, mode, losses>>

Closed(session) == session.status # "started"

-----------------------------------------------------------------------------
(* The server.                                                             *)
Reply(reply) == call' = [call EXCEPT !.reply = reply]

ServeStart ==
    /\ call.op = "start"
    /\ IF Started # {}
       THEN /\ call' = [call EXCEPT !.reply = "ok", !.s = CHOOSE s \in Started : TRUE]
            /\ UNCHANGED sessions
       ELSE /\ Len(sessions) < MaxSittings /\ Start
            /\ call' = [call EXCEPT !.reply = "ok", !.s = Len(sessions) + 1]

ServeGet ==
    /\ call.op \in {"load", "reload", "sync"}
    /\ call' = [call EXCEPT !.reply = "ok", !.read = sessions[call.s]]
    /\ UNCHANGED sessions

ServePreview ==
    LET task == sessions[call.s].tasks[call.t]
        open == sessions[call.s].status = "started" /\ IsCurrent(sessions[call.s], call.t)
        fixed == task.draft = call.draft /\ (mode = "replay" => open)
    IN
    /\ call.op = "preview"
    /\ IF open /\ task.draft = NoDraft
       THEN Reveal(call.s, call.t, call.draft) /\ Reply("ok")
       ELSE Reply(IF fixed THEN "ok" ELSE "refused") /\ UNCHANGED sessions

ServeAnswer ==
    LET task == sessions[call.s].tasks[call.t] IN
    /\ call.op = "answer"
    /\ IF ~IsPending(task)
       THEN call' = [call EXCEPT !.reply = "ok", !.score = task.score] /\ UNCHANGED sessions
       ELSE IF MayAnswer(call.s, call.t) /\ task.draft = call.draft
       THEN /\ \/ Answer(call.s, call.t, call.score)
               \/ mode = "lesson" /\ call.score = "wrong" /\ AnswerWithMore(call.s, call.t)
            /\ Reply("ok")
       ELSE Reply("refused") /\ UNCHANGED sessions

(* The page asks only when it knows of no pending task; tasks are inserted *)
(* when one is answered, so that none is found to be missing then.         *)
ServeComplete ==
    /\ call.op = "complete"
    /\ \/ sessions[call.s].status = "completed" /\ Reply("ok") /\ UNCHANGED sessions
       \/ Complete(call.s) /\ Reply("ok")
       \/ /\ sessions[call.s].status = "abandoned"
          /\ Reply("refused") /\ UNCHANGED sessions

Handle ==
    /\ call.reply = "none"
    /\ ServeStart \/ ServeGet \/ ServePreview \/ ServeAnswer \/ ServeComplete
    /\ UNCHANGED <<mode, page, losses, leaves>>

(* A call fails before it is served or after, or the server has failed.    *)
Lose ==
    /\ Busy /\ call.reply # "unknown" /\ losses < MaxLosses
    /\ losses' = losses + 1
    /\ call' = [call EXCEPT !.reply = "unknown"]
    /\ UNCHANGED <<sessions, mode, page, leaves>>

(* The session of the browser has expired: it has to log in again.         *)
Expire ==
    /\ Busy /\ call.reply = "none" /\ losses < MaxLosses
    /\ losses' = losses + 1
    /\ page' = Home /\ call' = NoCall
    /\ UNCHANGED <<sessions, mode, leaves>>

(* Another tab, or a call that was given up and arrives after all.         *)
Elsewhere ==
    /\ \E s \in DOMAIN sessions :
          \/ \E t \in DOMAIN sessions[s].tasks :
                \/ \E draft \in Drafts : Reveal(s, t, draft)
                \/ \E score \in Scores : Answer(s, t, score)
                \/ mode = "lesson" /\ AnswerWithMore(s, t)
          \/ Complete(s)
          \/ mode = "lesson" /\ Abandon(s)
    /\ UNCHANGED <<mode, page, call, losses, leaves>>

-----------------------------------------------------------------------------
(* The course page.                                                        *)
StartSession ==
    /\ page.view = "home" /\ ~Busy
    /\ Started # {} \/ Len(sessions) < MaxSittings     \* nothing else to do here
    /\ Turn(page, Calls("start", 0, 0)) /\ UNCHANGED leaves

OnStarted ==
    /\ call.op = "start" /\ call.reply # "none" /\ UNCHANGED leaves
    /\ IF call.reply = "ok"
       THEN Turn([Home EXCEPT !.view = "loading", !.s = call.s], Calls("load", call.s, 0))
       ELSE Turn(page, NoCall)

-----------------------------------------------------------------------------
(* The runner: loadLesson and loadReplay.                                  *)
ClosedPage(session) ==
    IF mode = "replay" /\ session.status = "completed" THEN [page EXCEPT !.view = "summary"]
    ELSE Home

OnLoaded ==
    /\ call.op = "load" /\ call.reply # "none" /\ UNCHANGED leaves
    /\ IF call.reply = "ok"
       THEN Turn(IF Closed(call.read) THEN ClosedPage(call.read)
                 ELSE [Home EXCEPT !.view = "tasks", !.s = page.s, !.known = call.read,
                                   !.form = Mounted(call.read, NoDraft)], NoCall)
       ELSE Turn([page EXCEPT !.view = "unread"], NoCall)

Reload ==
    /\ ~Busy /\ UNCHANGED leaves
    /\ page.view = "unread"
    /\ Turn([page EXCEPT !.view = "loading"], Calls("load", page.s, 0))

(* What an error leaves behind: a message, and a button or none.           *)
ErrorPage(p, retry) == [p EXCEPT !.feedback = "error", !.retry = retry]

(* Mutant: whatever fails is offered for another try.                      *)
RefusedPageRetried == ErrorPage(page, "submit")

(* A task has moved on elsewhere.  The lesson asks the learner to          *)
(* synchronise; the replay has to be entered again.                        *)
RefusedPage == ErrorPage(page, IF mode = "lesson" THEN "sync" ELSE "none")

-----------------------------------------------------------------------------
(* previewSentenceOutput.                                                  *)
CanType ==
    page.view = "tasks" /\ page.form.t # 0 /\ page.feedback = "none" /\ ~Busy

Waiting(op, p) ==
    Turn([p EXCEPT !.feedback = "none", !.retry = "none"],
         [Calls(op, p.s, p.form.t) EXCEPT !.draft = p.form.draft,
             !.score = IF op = "answer" THEN p.sent ELSE "none"])

Preview ==
    /\ CanType /\ ShownTask.kind = "sentence"
    /\ ~ReferenceShown /\ ~page.form.waiting /\ UNCHANGED leaves
    /\ \E draft \in Drafts :
          Waiting("preview", [page EXCEPT !.form.draft = draft, !.form.waiting = TRUE])

OnPreviewed ==
    /\ call.op = "preview" /\ call.reply # "none" /\ UNCHANGED leaves
    /\ Turn(CASE call.reply = "ok"      -> [page EXCEPT !.reference = TRUE]
              [] call.reply = "refused" -> RefusedPage
              [] call.reply = "unknown" -> ErrorPage(page, "preview"), NoCall)

-----------------------------------------------------------------------------
(* submitAnswer, reloadAfterAnswer, refreshAfterAnswer.                    *)
Submit ==
    /\ CanType /\ ~page.form.submitted
    /\ ShownTask.kind = "sentence" => ReferenceShown /\ page.form.draft # NoDraft
    /\ UNCHANGED leaves
    /\ \E score \in Scores :
          Waiting("answer", [page EXCEPT !.form.submitted = TRUE, !.sent = score])

(* Mutant: the score that was sent is shown.                               *)
ToldAsSent == page.sent

Told == call.score

OnAnswered ==
    /\ call.op = "answer" /\ call.reply # "none" /\ UNCHANGED leaves
    /\ CASE call.reply = "ok"      -> Turn([page EXCEPT !.told = Told],
                                           Calls("reload", page.s, 0))
         [] call.reply = "refused" -> Turn(RefusedPage, NoCall)
         [] call.reply = "unknown" -> Turn(ErrorPage(page, "submit"), NoCall)

OnReloaded ==
    /\ call.op = "reload" /\ call.reply # "none" /\ UNCHANGED leaves
    /\ Turn(IF call.reply = "unknown" THEN ErrorPage(page, "reload")
            ELSE IF mode = "lesson" /\ Closed(call.read) THEN Home
            ELSE [page EXCEPT !.queued = call.read, !.feedback = "result",
                              !.retry = "continue"], NoCall)

-----------------------------------------------------------------------------
(* syncLesson.                                                             *)
Recovered(read) ==
    IF page.form.t # 0 /\ CurrentTask(read) = page.form.t
       /\ ShownTask.kind = "sentence"
    THEN page.form.draft ELSE NoDraft

SyncedForm(read) ==
    IF CurrentTask(read) = page.form.t /\ page.form.t # 0 /\ ShownTask.kind # "sentence"
    THEN page.form ELSE Mounted(read, Recovered(read))

OnSynced ==
    /\ call.op = "sync" /\ call.reply # "none" /\ UNCHANGED leaves
    /\ Turn(IF call.reply = "unknown" THEN ErrorPage(page, "sync")
            ELSE IF Closed(call.read) THEN Home
            ELSE [Home EXCEPT !.view = "tasks", !.s = page.s, !.known = call.read,
                              !.form = SyncedForm(call.read)], NoCall)

-----------------------------------------------------------------------------
(* handleShellAction and handleRetry.                                      *)
Continue ==
    /\ page.retry = "continue" /\ ~Busy /\ UNCHANGED leaves
    /\ Turn(IF Closed(page.queued) THEN ClosedPage(page.queued)
            ELSE [Home EXCEPT !.view = "tasks", !.s = page.s, !.known = page.queued,
                              !.form = Mounted(page.queued, NoDraft)], NoCall)

Retry ==
    /\ ~Busy /\ UNCHANGED leaves
    /\ \/ page.retry = "submit" /\ Waiting("answer", page)
       \/ page.retry = "preview" /\ Waiting("preview", page)
       \/ /\ page.retry \in {"reload", "sync"}
          /\ Turn([page EXCEPT !.feedback = "none", !.retry = "none"],
                  Calls(page.retry, page.s, 0))

(* completeLesson, completeReplay and handleCompletionAction.              *)
CompleteSession ==
    /\ page.view = "tasks" /\ CurrentTask(page.known) = 0 /\ ~Busy
    /\ UNCHANGED leaves
    /\ Turn(page, Calls("complete", page.s, 0))

OnCompleted ==
    /\ call.op = "complete" /\ call.reply # "none" /\ UNCHANGED leaves
    /\ CASE call.reply = "ok" ->
              Turn(IF mode = "replay" THEN [page EXCEPT !.view = "summary"] ELSE Home, NoCall)
         [] call.reply = "refused" -> Turn(page, Calls("sync", page.s, 0))
         [] call.reply = "unknown" -> Turn(page, NoCall)

-----------------------------------------------------------------------------
(* A page that has nothing to offer is left.                               *)
DeadEnd ==
    \/ page.view = "summary"
    \/ page.feedback = "error" /\ page.retry = "none"

Leave ==
    /\ page.view # "home" /\ Turn(Home, NoCall)
    /\ \/ DeadEnd /\ ~Busy /\ UNCHANGED leaves
       \/ leaves < MaxLeaves /\ leaves' = leaves + 1

Respond ==
    \/ OnStarted \/ OnLoaded \/ OnPreviewed \/ OnAnswered \/ OnReloaded
    \/ OnSynced \/ OnCompleted

Learn ==
    \/ StartSession \/ Reload \/ Preview \/ Submit \/ Continue \/ Retry \/ CompleteSession

PagesNext == Handle \/ Lose \/ Expire \/ Elsewhere \/ Respond \/ Learn \/ Leave

(* The server answers, and the learner goes on: leaves a page only if that *)
(* is all there is to do.                                                  *)
GoesOn == Handle \/ Respond \/ Learn \/ (DeadEnd /\ Leave)

PagesSpec == PagesInit /\ [][PagesNext]_pageVars /\ WF_pageVars(GoesOn)

-----------------------------------------------------------------------------
(* PROPERTIES                                                              *)

(* The page shows what it has read, and waits for one call at a time.      *)
PagesTypeOK ==
    /\ mode \in {"lesson", "replay"}
    /\ page.view \in {"home", "loading", "unread", "tasks", "summary"}
    /\ page.known \in Session \cup {Nowhere} /\ page.queued \in Session \cup {Nowhere}
    /\ page.view = "tasks" => page.known \in Session /\ ~Closed(page.known)
    /\ page.form.t \in 0 .. Len(page.known.tasks)
    /\ page.retry \in {"none", "continue", "submit", "preview", "reload", "sync"}
    /\ page.s \in 0 .. Len(sessions) /\ (page.s = 0 <=> page.view = "home")

(* The result the learner is shown is the one that was recorded, whichever *)
(* tab answered the task, and however often it was sent.                   *)
ResultsAreRecorded ==
    page.feedback = "result" \/ page.retry = "reload" =>
        sessions[page.s].tasks[page.form.t].score = page.told

(* A reference is compared with the draft it was revealed for: the one     *)
(* that is recorded is the one on the page, which cannot be edited.        *)
ReferenceIsForDraft ==
    page.view = "tasks" /\ ReferenceShown =>
        sessions[page.s].tasks[page.form.t].draft = page.form.draft

(* The learner can trust what the page shows.                              *)
LessonPageIsTrue == PagesTypeOK /\ ResultsAreRecorded /\ ReferenceIsForDraft

(* A learner who opens a session and does what the page offers gets to its *)
(* end, whatever was lost and whatever another tab did in between.         *)
LearnersFinish == page.view # "home" ~> Started = {}
=============================================================================
