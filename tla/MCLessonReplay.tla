------------------------------ MODULE MCLessonReplay ------------------------------
(* Either the requests of replays, statement by statement, or one learner  *)
(* at the pages, for whom every call to the server is one step.            *)
EXTENDS LessonReplay, LessonPages, TLC

CONSTANTS r1, r2, d1, d2

Plan == <<"sentence", "plain">>

VARIABLE shown

vars == <<replayVars, pageVars, shown>>

Init ==
    /\ ReplayInit /\ PagesInit
    /\ \/ shown = "requests" /\ mode = "replay"
       \/ shown = "pages" /\ lesson = NoLesson

AtRequests == shown = "requests" /\ UNCHANGED <<mode, page, call, losses, leaves, shown>>
AtPages == shown = "pages" /\ UNCHANGED <<counts, taken, lesson, at, loc, failures, shown>>

Next == (ReplayNext /\ AtRequests) \/ (PagesNext /\ AtPages)

Spec == Init /\ [][Next]_vars /\ WF_vars(GoesOn /\ AtPages)
=============================================================================
