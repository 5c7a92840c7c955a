----------------------------- MODULE MCLessonQueue -----------------------------
(***************************************************************************)
(* What TLC looks at about the queue: lessons, from the first answer to    *)
(* the last, and scheduling problems on their own.  A behaviour is one or  *)
(* the other.                                                              *)
(***************************************************************************)
EXTENDS LessonQueue, QueueMatching

VARIABLE shown

allVars == <<vars, problemVars, shown>>

(* As alternatePrimarySelections orders them: five new words and the due   *)
(* ones in turn, a due one first, then what is left of either.             *)
FiveNew(words) ==
    LET due == words - 5
    IN  {w \in 1 .. words : IF due >= 5 THEN w % 2 = 0 /\ w <= 10
                            ELSE w > 2 * due \/ w % 2 = 0}

(* A first lesson, with any number of mistakes, and the largest lesson     *)
(* with a new group, with up to three.                                     *)
FirstAndFull ==
    {[words |-> 5, new |-> FiveNew(5), wrong |-> 15],
     [words |-> 15, new |-> FiveNew(15), wrong |-> 3]}

MCInit ==
    /\ Init
    /\ NoJobs
    /\ shown \in {"lesson", "problem"}
    /\ shown = "problem" => selection = CHOOSE s \in Selections : TRUE

MCNext ==
    \/ shown = "lesson" /\ Next /\ UNCHANGED <<problemVars, shown>>
    \/ shown = "problem" /\ Grow /\ UNCHANGED <<vars, shown>>

(* A learner who goes on answers the task that is shown, right or wrong,   *)
(* and completes the lesson when it may be completed.  That the answer     *)
(* comes is said by what it does to the log: QueueIsSound has it that the  *)
(* answer can be planned.                                                  *)
AnswerComes == shown = "lesson" /\ IsShown /\ \E r \in ReviewLog : log' = Append(log, r)
LessonCompletes == shown = "lesson" /\ CompleteLesson

MCSpec == MCInit /\ [][MCNext]_allVars /\ WF_log(AnswerComes) /\ WF_status(LessonCompletes)

(* Every lesson can be finished: repetitions and bridges do not go on for  *)
(* ever, and at the end of them the lesson may be completed, however many  *)
(* answers are wrong.                                                      *)
LessonEnds == shown = "lesson" ~> status = "completed"
=============================================================================
