-------------------------- MODULE CourseRuntimeProofs --------------------------
(***************************************************************************)
(* Proofs about CourseRuntime, for any words, requests, tokens and bounds. *)
(*                                                                         *)
(* The inductive invariant joins the types with what a request may assume  *)
(* of its possibly old knowledge (RequestsAreBehind) and the two           *)
(* properties of the database that depend on each other.  A step changes   *)
(* the record of one request and at most one part of the database, so two  *)
(* lemmas carry most of the argument: what the other requests remember     *)
(* stays good while the course only moves forward (OthersUndisturbed), and *)
(* a step that writes nothing preserves everything (ReadStep).             *)
(*                                                                         *)
(* The second half is about what the database says of the past: the        *)
(* answers that were logged, the lessons that are over, the resets, and    *)
(* the replies of the requests that made them.                             *)
(***************************************************************************)
EXTENDS CourseRuntime, FiniteSetTheorems, TLAPS

IInv ==
    /\ TypeOK
    /\ RequestsAreBehind
    /\ RunsAreFenced
    /\ CourseIsPastCompletedLessons

LEMMA PointsAreDisjoint ==
    /\ StartPoints \cap (SubmitPoints \cup CompletePoints \cup ResetPoints \cup Replies) = {}
    /\ SubmitPoints \cap (CompletePoints \cup ResetPoints \cup Replies) = {}
    /\ CompletePoints \cap (ResetPoints \cup Replies) = {}
    /\ ResetPoints \cap Replies = {}
    /\ "idle" \notin StartPoints \cup SubmitPoints \cup CompletePoints \cup ResetPoints \cup Replies
BY DEF StartPoints, SubmitPoints, CompletePoints, ResetPoints, Replies

LEMMA NothingIsLocal == Nothing \in Local
BY NoValueAssumption DEF Nothing, Local, NoRow, Row, Score

LEMMA IdleLocalOK == LocalOK("idle", Nothing)
BY PointsAreDisjoint DEF LocalOK

(* The tasks of one word in a session are finitely many.                   *)
LEMMA TaskCountType ==
    ASSUME NEW l, NEW w
    PROVE  TaskCount(l, w) \in Nat
<1> DEFINE S == {t \in Task : t.word = w /\ sessions[l].tasks[t] # "absent"}
           f == [t \in S |-> t.nth]
<1>1. f \in Injection(S, 0 .. MaxTasksPerWord - 1)
  <2>1. \A t \in S : t.nth \in 0 .. MaxTasksPerWord - 1
    BY DEF Task
  <2>2. \A t, u \in S : t.nth = u.nth => t = u
    BY DEF Task
  <2> QED  BY <2>1, <2>2 DEF Injection, IsInjective
<1>2. IsFiniteSet(0 .. MaxTasksPerWord - 1)
  BY BoundsAssumption, FS_Interval
<1>3. IsFiniteSet(S)
  BY ONLY <1>1, <1>2, FS_Injection
<1> QED  BY <1>3, FS_CardinalityType DEF TaskCount, CountOf

LEMMA NextTaskType ==
    ASSUME NEW l, NEW w \in Words, TaskCount(l, w) < MaxTasksPerWord
    PROVE  NextTask(l, w) \in Task
BY TaskCountType, BoundsAssumption DEF NextTask, Task

(* While the course moves forward and no session disappears, what the      *)
(* other requests remember stays good.                                     *)
LEMMA OthersUndisturbed ==
    ASSUME IInv, NEW r \in Requests, NEW p \in Point, NEW l \in Local,
           Goto(r, p, l), LocalOK(at[r], loc[r])',
           course' \in [lesson : Nat, run : Nat, start : Nat],
           Lessons \subseteq Lessons',
           course.lesson <= course'.lesson,
           course.run <= course'.run
    PROVE  /\ at' \in [Requests -> Point]
           /\ loc' \in [Requests -> Local]
           /\ \A q \in Requests : LocalOK(at[q], loc[q])'
<1>1. at' \in [Requests -> Point] /\ loc' \in [Requests -> Local]
  BY DEF IInv, TypeOK, Goto
<1>2. ASSUME NEW q \in Requests
      PROVE  LocalOK(at[q], loc[q])'
  <2>1. CASE q = r
    BY <2>1 DEF IInv, TypeOK, Goto, LocalOK
  <2>2. CASE q # r
    <3>1. at'[q] = at[q] /\ loc'[q] = loc[q] /\ loc[q] \in Local
      BY <2>2 DEF IInv, TypeOK, Goto
    <3>2. LocalOK(at[q], loc[q])
      BY DEF IInv, RequestsAreBehind
    <3>3. loc[q].lesson \in Nat /\ loc[q].row.run \in Nat
      BY <3>1 DEF Local, Row
    <3>4. course \in [lesson : Nat, run : Nat, start : Nat]
      BY DEF IInv, TypeOK
    <3> QED  BY <3>1, <3>2, <3>3, <3>4 DEF LocalOK
  <2> QED  BY <2>1, <2>2
<1> QED  BY <1>1, <1>2

(* A step that only reads.                                                 *)
LEMMA ReadStep ==
    ASSUME IInv, NEW r \in Requests, NEW p \in Point, NEW l \in Local,
           Goto(r, p, l), LocalOK(p, l), UNCHANGED db
    PROVE  IInv'
<1>1. course' = course /\ sessions' = sessions /\ rows' = rows
      /\ archive' = archive /\ resets' = resets
  BY DEF db
<1>2. LocalOK(at[r], loc[r])'
  <2>1. at'[r] = p /\ loc'[r] = l
    BY DEF IInv, TypeOK, Goto
  <2> QED  BY <1>1, <2>1 DEF LocalOK, Lessons
<1>3. course \in [lesson : Nat, run : Nat, start : Nat]
  BY DEF IInv, TypeOK
<1>4. /\ at' \in [Requests -> Point]
      /\ loc' \in [Requests -> Local]
      /\ \A q \in Requests : LocalOK(at[q], loc[q])'
  <2>1. Lessons \subseteq Lessons' /\ course.lesson <= course'.lesson /\ course.run <= course'.run
    BY <1>1, <1>3 DEF Lessons
  <2> QED  BY <1>1, <1>2, <1>3, <2>1, OthersUndisturbed
<1>5. TypeOK'
  BY <1>1, <1>4 DEF IInv, TypeOK, Lessons
<1>6. RequestsAreBehind'
  BY <1>1, <1>4 DEF IInv, RequestsAreBehind, Lessons
<1>7. RunsAreFenced'
  BY <1>1 DEF IInv, RunsAreFenced, Lessons
<1>8. CourseIsPastCompletedLessons'
  BY <1>1 DEF IInv, CourseIsPastCompletedLessons, Lessons
<1> QED  BY <1>5, <1>6, <1>7, <1>8 DEF IInv

LEMMA FailStep ==
    ASSUME IInv, NEW r \in Requests, Fail(r), UNCHANGED db
    PROVE  IInv'
<1>1. "idle" \in Point
  BY DEF Point
<1> QED  BY <1>1, NothingIsLocal, IdleLocalOK, ReadStep DEF Fail

LEMMA Known ==
    ASSUME IInv, NEW r \in Requests
    PROVE  /\ at[r] \in Point /\ loc[r] \in Local
           /\ LocalOK(at[r], loc[r])
           /\ course \in [lesson : Nat, run : Nat, start : Nat]
           /\ course.start <= course.lesson
BY DEF IInv, TypeOK, RequestsAreBehind

LEMMA CurrentRowType ==
    ASSUME IInv, NEW w \in Words
    PROVE  CurrentRow(w) \in Row /\ CurrentRow(w).run <= course.run
<1>1. rows[w] \in Row /\ course.run \in Nat
  BY DEF IInv, TypeOK
<1> QED  BY <1>1 DEF CurrentRow, NoRow, Row

LEMMA UpdatedRowsType ==
    ASSUME NEW row \in Row, NEW l \in Nat, NEW t, NEW score,
           NEW u \in UpdatedRows(row, l, t, score)
    PROVE  u \in Row /\ u.run = row.run
<1>1. row.attempts + 1 \in Nat /\ l + 1 \in Nat
  BY DEF Row
<1>2. CASE Primary(t)
  <2>1. PICK g \in Nat : u = [row EXCEPT !.due = l + g, !.attempts = row.attempts + 1]
    BY <1>2, BoundsAssumption DEF UpdatedRows
  <2>2. l + g \in Nat
    OBVIOUS
  <2> QED  BY <1>1, <2>1, <2>2 DEF Row
<1>3. CASE ~Primary(t)
  BY <1>1, <1>3 DEF UpdatedRows, Row
<1> QED  BY <1>2, <1>3

-----------------------------------------------------------------------------
(* startLesson.                                                            *)

LEMMA StartLessonStep ==
    ASSUME IInv, NEW r \in Requests,
           StartLesson(r) \/ GetStartedLesson(r) \/ PlanLesson(r)
             \/ RereadAdvancedCourse(r) \/ ReturnWinner(r)
    PROVE  IInv'
<1> DEFINE fresh == [Nothing EXCEPT !.lesson = course.lesson, !.run = course.run,
                                    !.start = course.start]
<1>0. /\ at[r] \in Point /\ loc[r] \in Local /\ LocalOK(at[r], loc[r])
      /\ course \in [lesson : Nat, run : Nat, start : Nat]
      /\ course.start <= course.lesson
  BY Known
<1>1. /\ fresh \in Local
      /\ fresh.start <= fresh.lesson /\ fresh.lesson <= course.lesson
  <2>1. fresh \in Local
    BY <1>0, NothingIsLocal DEF Local
  <2>2. fresh.start = course.start /\ fresh.lesson = course.lesson
    BY DEF Nothing
  <2> QED  BY <1>0, <2>1, <2>2
<1> HIDE DEF fresh
<1>2. LocalOK("start_existing", fresh)
  BY <1>1, PointsAreDisjoint DEF LocalOK, StartPoints
<1>3. {"start_existing", "start_states", "start_advance", "start_create", "start_reply"}
        \subseteq Point
  BY DEF Point, Replies
<1>4. ASSUME at[r] \in StartPoints
      PROVE  /\ LocalOK("start_reply", loc[r])
             /\ LocalOK("start_states", loc[r])
  BY <1>0, <1>4, PointsAreDisjoint DEF LocalOK, StartPoints, Replies
<1>5. CASE StartLesson(r)
  BY <1>1, <1>2, <1>3, <1>5, ReadStep DEF StartLesson, fresh
<1>6. CASE GetStartedLesson(r)
  <2>1. at[r] \in StartPoints /\ UNCHANGED db
    BY <1>6 DEF GetStartedLesson, StartPoints
  <2>2. Goto(r, "start_reply", loc[r]) \/ Goto(r, "start_states", loc[r])
    BY <1>6 DEF GetStartedLesson
  <2> QED  BY <1>0, <1>3, <1>4, <2>1, <2>2, ReadStep
<1>7. CASE PlanLesson(r)
  <2>1. at[r] = "start_states" /\ UNCHANGED db
    BY <1>7 DEF PlanLesson
  <2>2. loc[r].start <= loc[r].lesson /\ loc[r].lesson <= course.lesson
    BY <1>0, <2>1 DEF LocalOK, StartPoints
  <2>3. ASSUME NEW p \in LessonPlan(loc[r].lesson),
               Goto(r, "start_create",
                    [loc[r] EXCEPT
                       !.tasks = {PrimaryTask(w) : w \in p.review \cup p.fresh},
                       !.words = p.fresh])
        PROVE  IInv'
    <3> DEFINE l == [loc[r] EXCEPT
                       !.tasks = {PrimaryTask(w) : w \in p.review \cup p.fresh},
                       !.words = p.fresh]
    <3>1. p.review \subseteq Words /\ p.fresh \subseteq Words
      BY <2>3 DEF LessonPlan, Due, Activated, NextGroupWords
    <3>2. \A w \in Words : PrimaryTask(w) \in Task
      BY BoundsAssumption DEF PrimaryTask, Task
    <3>3. l \in Local /\ l.start = loc[r].start /\ l.lesson = loc[r].lesson
      BY <1>0, <3>1, <3>2 DEF Local
    <3>4. LocalOK("start_create", l)
      BY <2>2, <3>3, PointsAreDisjoint DEF LocalOK, StartPoints
    <3> QED  BY <1>3, <2>1, <2>3, <3>3, <3>4, ReadStep
  <2>4. ASSUME NEW m \in LaterDue(loc[r].lesson),
               Goto(r, "start_advance", [loc[r] EXCEPT !.target = m])
        PROVE  IInv'
    <3> DEFINE l == [loc[r] EXCEPT !.target = m]
    <3>1. m \in Nat /\ loc[r].lesson < m
      BY <2>4 DEF LaterDue, Activated, IInv, TypeOK, Row
    <3>2. l \in Local /\ l.start = loc[r].start /\ l.lesson = loc[r].lesson /\ l.target = m
      BY <1>0, <3>1 DEF Local
    <3>3. LocalOK("start_advance", l)
      BY <2>2, <3>1, <3>2, PointsAreDisjoint DEF LocalOK, StartPoints
    <3> QED  BY <1>3, <2>1, <2>4, <3>2, <3>3, ReadStep
  <2> QED  BY <1>7, <2>1, <2>3, <2>4, FailStep DEF PlanLesson
<1>8. CASE RereadAdvancedCourse(r)
  BY <1>1, <1>2, <1>3, <1>8, ReadStep, FailStep DEF RereadAdvancedCourse, fresh
<1>9. CASE ReturnWinner(r)
  <2>1. at[r] \in StartPoints /\ UNCHANGED db
    BY <1>9 DEF ReturnWinner, StartPoints
  <2>2. Goto(r, "start_reply", loc[r]) \/ Fail(r)
    BY <1>9 DEF ReturnWinner
  <2> QED  BY <1>0, <1>3, <1>4, <2>1, <2>2, ReadStep, FailStep
<1> QED  BY <1>5, <1>6, <1>7, <1>8, <1>9

(* The course moves to a later lesson: every session stays behind it.      *)
LEMMA AdvanceStep ==
    ASSUME IInv, NEW r \in Requests, AdvanceCourseLessonNo(r)
    PROVE  IInv'
<1>0. /\ at[r] = "start_advance" /\ loc[r] \in Local /\ LocalOK(at[r], loc[r])
      /\ course \in [lesson : Nat, run : Nat, start : Nat]
      /\ course.start <= course.lesson
  BY Known DEF AdvanceCourseLessonNo
<1>1. /\ loc[r].start <= loc[r].lesson /\ loc[r].lesson <= course.lesson
      /\ loc[r].lesson < loc[r].target
  BY <1>0 DEF LocalOK, StartPoints
<1>2. loc[r].lesson \in Nat /\ loc[r].target \in Nat /\ loc[r].start \in Nat
  BY <1>0 DEF Local
<1>3. /\ course' \in [lesson : Nat, run : Nat, start : Nat]
      /\ course.lesson <= course'.lesson
      /\ course'.run = course.run /\ course'.start = course.start
      /\ Goto(r, "start_reread", loc[r])
      /\ sessions' = sessions /\ rows' = rows /\ archive' = archive /\ resets' = resets
  BY <1>0, <1>1, <1>2 DEF AdvanceCourseLessonNo
<1>4. Lessons' = Lessons
  BY <1>3 DEF Lessons
<1>5. LocalOK(at[r], loc[r])'
  <2>1. loc[r].lesson <= course'.lesson
    BY <1>0, <1>1, <1>2, <1>3
  <2>2. at'[r] = "start_reread" /\ loc'[r] = loc[r]
    BY <1>3 DEF IInv, TypeOK, Goto
  <2> QED  BY <1>1, <2>1, <2>2, PointsAreDisjoint DEF LocalOK, StartPoints
<1>6. /\ at' \in [Requests -> Point]
      /\ loc' \in [Requests -> Local]
      /\ \A q \in Requests : LocalOK(at[q], loc[q])'
  <2>1. "start_reread" \in Point /\ Lessons \subseteq Lessons' /\ course.run <= course'.run
    BY <1>0, <1>3, <1>4 DEF Point
  <2> QED  BY <1>0, <1>3, <1>5, <2>1, OthersUndisturbed
<1>7. TypeOK'
  BY <1>3, <1>4, <1>6 DEF IInv, TypeOK
<1>8. RequestsAreBehind'
  BY <1>0, <1>3, <1>4, <1>6 DEF IInv, RequestsAreBehind
<1>9. \A l \in Lessons : l \in Nat
  BY DEF IInv, TypeOK
<1>10. RunsAreFenced'
  BY <1>0, <1>3, <1>4, <1>9 DEF IInv, RunsAreFenced
<1>11. CourseIsPastCompletedLessons'
  BY <1>0, <1>3, <1>4, <1>9 DEF IInv, CourseIsPastCompletedLessons
<1> QED  BY <1>7, <1>8, <1>10, <1>11 DEF IInv

(* A new session belongs to the run and lies between the start of the run  *)
(* and the lesson the course is at.                                        *)
LEMMA CreateLessonStep ==
    ASSUME IInv, NEW r \in Requests, CreateLesson(r)
    PROVE  IInv'
<1> DEFINE n == loc[r].lesson
<1>0. /\ at[r] = "start_create" /\ loc[r] \in Local /\ LocalOK(at[r], loc[r])
      /\ course \in [lesson : Nat, run : Nat, start : Nat]
      /\ course.start <= course.lesson
  BY Known DEF CreateLesson
<1>1. loc[r].start <= n /\ n <= course.lesson
  BY <1>0 DEF LocalOK, StartPoints
<1>2. /\ n \in Nat /\ loc[r].run \in Nat /\ loc[r].start \in Nat
      /\ loc[r].tasks \subseteq Task /\ loc[r].words \subseteq Words
  BY <1>0 DEF Local
<1>3. course' = course /\ archive' = archive /\ resets' = resets
  BY DEF CreateLesson
<1>4. CASE ~MayInsertSession(r)
  <2>1. Goto(r, "start_winner", loc[r]) /\ UNCHANGED db
    BY <1>4 DEF CreateLesson, db
  <2>2. "start_winner" \in Point /\ LocalOK("start_winner", loc[r])
    BY <1>1, PointsAreDisjoint DEF Point, LocalOK, StartPoints
  <2> QED  BY <1>0, <2>1, <2>2, ReadStep
<1>5. CASE MayInsertSession(r)
  <2>1. n \notin Lessons /\ loc[r].run = course.run /\ loc[r].start = course.start
    BY <1>5 DEF MayInsertSession
  <2>2. PICK first \in loc[r].tasks :
          sessions' = [l \in Lessons \cup {n} |->
                          IF l = n THEN NewSession(r, first) ELSE sessions[l]]
    BY <1>5 DEF CreateLesson
  <2>3. /\ rows' = [w \in Words |->
                       IF w \in loc[r].words
                         THEN InitialRow(r, w)
                         ELSE rows[w]]
        /\ Goto(r, "start_reply", loc[r])
    BY <1>5 DEF CreateLesson
  <2>4. /\ Lessons' = Lessons \cup {n}
        /\ sessions'[n] = NewSession(r, first)
        /\ \A l \in Lessons : sessions'[l] = sessions[l]
    BY <2>1, <2>2 DEF Lessons
  <2>5. /\ NewSession(r, first) \in Session
        /\ NewSession(r, first).run = course.run
        /\ NewSession(r, first).status = "started"
    BY <1>2, <2>1, <2>2 DEF NewSession, Session, TaskStatus, Score
  <2>6. /\ at' \in [Requests -> Point]
        /\ loc' \in [Requests -> Local]
        /\ \A q \in Requests : LocalOK(at[q], loc[q])'
    <3>1. at'[r] = "start_reply" /\ loc'[r] = loc[r]
      BY <2>3 DEF IInv, TypeOK, Goto
    <3>2. LocalOK(at[r], loc[r])'
      BY <3>1, PointsAreDisjoint DEF LocalOK, Replies
    <3>3. "start_reply" \in Point /\ Lessons \subseteq Lessons'
          /\ course.lesson <= course'.lesson /\ course.run <= course'.run
      BY <1>0, <1>3, <2>4 DEF Point, Replies
    <3> QED  BY <1>0, <1>3, <2>3, <3>2, <3>3, OthersUndisturbed
  <2>7. rows' \in [Words -> Row] /\ \A w \in Words : rows'[w].run <= course.run
    BY <1>0, <1>2, <2>1, <2>3 DEF IInv, TypeOK, RunsAreFenced, Row, InitialRow
  <2>8. TypeOK'
    BY <1>2, <1>3, <2>4, <2>5, <2>6, <2>7 DEF IInv, TypeOK
  <2>9. RequestsAreBehind'
    BY <1>0, <1>3, <2>4, <2>6, FS_AddElement DEF IInv, RequestsAreBehind
  <2>10. RunsAreFenced'
    BY <1>0, <1>1, <1>2, <1>3, <2>1, <2>4, <2>5, <2>7 DEF IInv, RunsAreFenced
  <2>11. CourseIsPastCompletedLessons'
    BY <1>3, <2>4, <2>5 DEF IInv, CourseIsPastCompletedLessons
  <2> QED  BY <2>8, <2>9, <2>10, <2>11 DEF IInv
<1> QED  BY <1>4, <1>5

-----------------------------------------------------------------------------
(* submitAnswer.                                                           *)

LEMMA AnswerReplyStep ==
    ASSUME IInv, NEW r \in Requests, at[r] \in SubmitPoints, UNCHANGED db,
           Goto(r, "submit_reply",
                [loc[r] EXCEPT !.score = sessions[loc[r].lesson].score[loc[r].task]])
    PROVE  IInv'
<1> DEFINE l == [loc[r] EXCEPT !.score = sessions[loc[r].lesson].score[loc[r].task]]
<1>1. loc[r] \in Local /\ loc[r].lesson \in Lessons /\ loc[r].task \in Task
  BY Known DEF LocalOK
<1>2. sessions[loc[r].lesson].score[loc[r].task] \in Score
  BY <1>1 DEF IInv, TypeOK, Session
<1>3. l \in Local
  BY <1>1, <1>2 DEF Local
<1>4. "submit_reply" \in Point /\ LocalOK("submit_reply", l)
  BY PointsAreDisjoint DEF Point, Replies, LocalOK
<1> QED  BY <1>3, <1>4, ReadStep

LEMMA SubmitReadStep ==
    ASSUME IInv, NEW r \in Requests,
           \/ \E l \in Lessons, t \in Task : SubmitAnswer(r, l, t)
           \/ GetSubmittedAnswer(r) \/ ReadQueueSnapshot(r) \/ ReturnRacedAnswer(r)
           \/ ReadWordState(r) \/ RecheckSubmittedAnswer(r) \/ ReturnRecordedAnswer(r)
    PROVE  IInv'
<1>0. /\ at[r] \in Point /\ loc[r] \in Local /\ LocalOK(at[r], loc[r])
      /\ course \in [lesson : Nat, run : Nat, start : Nat]
  BY Known
<1>1. SubmitPoints \subseteq Point
  BY DEF SubmitPoints, Point
<1>2. ASSUME at[r] \in SubmitPoints
      PROVE  /\ loc[r].lesson \in Lessons /\ loc[r].task \in Task
             /\ loc[r].task.word \in Words
             /\ \A p \in SubmitPoints \ {"submit_recheck", "submit_record"} :
                   LocalOK(p, loc[r])
  BY <1>0, <1>2, PointsAreDisjoint DEF LocalOK, SubmitPoints, Task
<1>3. CASE \E l \in Lessons, t \in Task : SubmitAnswer(r, l, t)
  <2>1. PICK l \in Lessons, t \in Task : SubmitAnswer(r, l, t)
    BY <1>3
  <2> DEFINE asked == [Nothing EXCEPT !.lesson = l, !.task = t]
  <2>2. asked \in Local
    BY NothingIsLocal DEF IInv, TypeOK, Local
  <2>3. asked.lesson = l /\ asked.task = t
    BY DEF Nothing
  <2>4. Goto(r, "submit_existing", asked) /\ UNCHANGED db
    BY <2>1 DEF SubmitAnswer
  <2> HIDE DEF asked
  <2>5. LocalOK("submit_existing", asked)
    BY <2>3, PointsAreDisjoint DEF LocalOK, SubmitPoints
  <2>6. "submit_existing" \in Point
    BY DEF Point
  <2> QED  BY <2>2, <2>4, <2>5, <2>6, ReadStep
<1>4. CASE GetSubmittedAnswer(r)
  <2>1. at[r] \in SubmitPoints /\ UNCHANGED db
    BY <1>4 DEF GetSubmittedAnswer, SubmitPoints
  <2>2. CASE Goto(r, "submit_snapshot", loc[r])
    <3>1. "submit_snapshot" \in SubmitPoints \ {"submit_recheck", "submit_record"}
      BY DEF SubmitPoints
    <3> QED  BY <1>0, <1>1, <1>2, <2>1, <2>2, <3>1, ReadStep
  <2>3. CASE ~Goto(r, "submit_snapshot", loc[r])
    BY <1>4, <2>1, <2>3, FailStep, AnswerReplyStep DEF GetSubmittedAnswer, AnswerOr
  <2> QED  BY <2>2, <2>3
<1>5. CASE ReadQueueSnapshot(r)
  <2>1. at[r] \in SubmitPoints /\ UNCHANGED db
    BY <1>5 DEF ReadQueueSnapshot, SubmitPoints
  <2>2. CASE Goto(r, "submit_raced", loc[r])
    <3>1. "submit_raced" \in SubmitPoints \ {"submit_recheck", "submit_record"}
      BY DEF SubmitPoints
    <3> QED  BY <1>0, <1>1, <1>2, <2>1, <2>2, <3>1, ReadStep
  <2>3. ASSUME NEW score \in {"pass", "fail"},
               NEW new \in PlannedTasks(loc[r].lesson, loc[r].task, score),
               Goto(r, "submit_state", [loc[r] EXCEPT !.score = score, !.tasks = new])
        PROVE  IInv'
    <3> DEFINE l == [loc[r] EXCEPT !.score = score, !.tasks = new]
    <3>1. new \subseteq Task
      BY NextTaskType DEF PlannedTasks, RepeatableWords
    <3>2. score \in Score
      BY DEF Score
    <3>3. l \in Local /\ l.lesson = loc[r].lesson /\ l.task = loc[r].task
      BY <1>0, <3>1, <3>2 DEF Local
    <3>4. LocalOK("submit_state", l)
      BY <1>2, <2>1, <3>3, PointsAreDisjoint DEF LocalOK, SubmitPoints
    <3>5. "submit_state" \in Point
      BY DEF Point
    <3> QED  BY <2>1, <2>3, <3>3, <3>4, <3>5, ReadStep
  <2> QED  BY <1>5, <2>2, <2>3 DEF ReadQueueSnapshot
<1>6. CASE ReturnRacedAnswer(r)
  <2>1. at[r] \in SubmitPoints /\ UNCHANGED db
    BY <1>6 DEF ReturnRacedAnswer, SubmitPoints
  <2> QED  BY <1>6, <2>1, FailStep, AnswerReplyStep DEF ReturnRacedAnswer, AnswerOr
<1>7. CASE ReadWordState(r)
  <2>1. at[r] \in SubmitPoints /\ UNCHANGED db
    BY <1>7 DEF ReadWordState, SubmitPoints
  <2> DEFINE row == CurrentRow(loc[r].task.word)
  <2>2. row \in Row /\ row.run <= course.run
    BY <1>2, <2>1, CurrentRowType
  <2>3. ASSUME NEW u \in UpdatedRows(row, loc[r].lesson, loc[r].task, loc[r].score),
               Goto(r, "submit_recheck", [loc[r] EXCEPT !.row = u])
        PROVE  IInv'
    <3> DEFINE l == [loc[r] EXCEPT !.row = u]
    <3>1. loc[r].lesson \in Nat
      BY <1>0 DEF Local
    <3> HIDE DEF row
    <3>2. u \in Row /\ u.run = row.run
      BY <2>2, <2>3, <3>1, UpdatedRowsType
    <3>3. /\ l \in Local /\ l.lesson = loc[r].lesson /\ l.task = loc[r].task
          /\ l.row = u
      BY <1>0, <3>2 DEF Local
    <3>4. l.row.run <= course.run
      BY <2>2, <3>2, <3>3
    <3> HIDE DEF l
    <3>5. LocalOK("submit_recheck", l)
      BY <1>2, <2>1, <3>3, <3>4, PointsAreDisjoint DEF LocalOK, SubmitPoints
    <3>6. "submit_recheck" \in Point
      BY DEF Point
    <3> QED  BY <2>1, <2>3, <3>3, <3>5, <3>6, ReadStep DEF l
  <2> QED  BY <1>7, <2>1, <2>3, FailStep DEF ReadWordState
<1>8. CASE RecheckSubmittedAnswer(r)
  <2>1. at[r] = "submit_recheck" /\ at[r] \in SubmitPoints /\ UNCHANGED db
    BY <1>8 DEF RecheckSubmittedAnswer, SubmitPoints
  <2>2. CASE Goto(r, "submit_record", loc[r])
    <3>1. "submit_record" \in Point /\ LocalOK("submit_record", loc[r])
      BY <1>0, <2>1, PointsAreDisjoint DEF Point, LocalOK, SubmitPoints
    <3> QED  BY <1>0, <2>1, <2>2, <3>1, ReadStep
  <2>3. CASE ~Goto(r, "submit_record", loc[r])
    BY <1>8, <2>1, <2>3, FailStep, AnswerReplyStep DEF RecheckSubmittedAnswer, AnswerOr
  <2> QED  BY <2>2, <2>3
<1>9. CASE ReturnRecordedAnswer(r)
  <2>1. at[r] \in SubmitPoints /\ UNCHANGED db
    BY <1>9 DEF ReturnRecordedAnswer, SubmitPoints
  <2> QED  BY <1>9, <2>1, FailStep, AnswerReplyStep DEF ReturnRecordedAnswer, AnswerOr
<1> QED  BY <1>3, <1>4, <1>5, <1>6, <1>7, <1>8, <1>9

LEMMA FirstOfType ==
    ASSUME NEW status \in [Task -> TaskStatus], NEW first \in FirstOf(status)
    PROVE  first \in Task \cup {NoTask}
BY DEF FirstOf

(* A session with other tasks, one score more and another first task is    *)
(* still a session, of the same run and status.                            *)
AnsweredSession(s, status, t, score, first) ==
    [s EXCEPT !.tasks = status, !.score[t] = score, !.first = first]

LEMMA AnsweredSessionType ==
    ASSUME NEW s \in Session, NEW status \in [Task -> TaskStatus],
           NEW t \in Task, NEW score \in Score, NEW first \in Task \cup {NoTask}
    PROVE  /\ AnsweredSession(s, status, t, score, first) \in Session
           /\ AnsweredSession(s, status, t, score, first).run = s.run
           /\ AnsweredSession(s, status, t, score, first).status = s.status
<1> DEFINE scores == [s.score EXCEPT ![t] = score]
<1>1. s.score \in [Task -> Score]
  BY DEF Session
<1>2. scores \in [Task -> Score]
  BY <1>1
<1>3. AnsweredSession(s, status, t, score, first) =
        [s EXCEPT !.tasks = status, !.score = scores, !.first = first]
  BY DEF Session, AnsweredSession
<1> HIDE DEF scores
<1> QED  BY <1>2, <1>3 DEF Session

(* The session keeps its run and its status, and the row that is written   *)
(* was of the run the course is in or of an earlier one when it was read.  *)
LEMMA RecordAnswerStep ==
    ASSUME IInv, NEW r \in Requests, RecordAnswer(r)
    PROVE  IInv'
<1> DEFINE n == loc[r].lesson
           t == loc[r].task
<1>0. /\ at[r] = "submit_record" /\ loc[r] \in Local /\ LocalOK(at[r], loc[r])
      /\ course \in [lesson : Nat, run : Nat, start : Nat]
      /\ course.start <= course.lesson
  BY Known DEF RecordAnswer
<1>1. n \in Lessons /\ t \in Task /\ t.word \in Words /\ loc[r].row.run <= course.run
  BY <1>0 DEF LocalOK, SubmitPoints, Task
<1>2. loc[r].row \in Row /\ loc[r].score \in Score
  BY <1>0 DEF Local
<1>3. /\ course' = course /\ archive' = archive /\ resets' = resets
      /\ Goto(r, "submit_outcome", loc[r])
  BY DEF RecordAnswer
<1>4. "submit_outcome" \in Point /\ LocalOK("submit_outcome", loc[r])
  BY <1>1, PointsAreDisjoint DEF Point, LocalOK, SubmitPoints
<1>5. CASE ~MayInsertLog(r)
  <2>1. UNCHANGED db
    BY <1>3, <1>5 DEF RecordAnswer, db
  <2> QED  BY <1>0, <1>3, <1>4, <2>1, ReadStep
<1>6. CASE MayInsertLog(r)
  <2>1. PICK first \in FirstOf(AnsweredTasks(r)) :
          sessions' = [sessions EXCEPT ![n] =
                        [@ EXCEPT !.tasks = AnsweredTasks(r),
                                  !.score[t] = loc[r].score,
                                  !.first = first]]
    BY <1>6 DEF RecordAnswer
  <2>2. rows' = rows \/ rows' = [rows EXCEPT ![t.word] = loc[r].row]
    BY <1>6 DEF RecordAnswer
  <2>3. sessions[n] \in Session
    BY <1>1 DEF IInv, TypeOK
  <2>4. AnsweredTasks(r) \in [Task -> TaskStatus]
    BY <2>3 DEF AnsweredTasks, Session, TaskStatus
  <2>5. first \in Task \cup {NoTask}
    BY <2>4, FirstOfType
  <2>6. /\ Lessons' = Lessons
        /\ \A l \in Lessons : l # n => sessions'[l] = sessions[l]
        /\ sessions'[n] =
             AnsweredSession(sessions[n], AnsweredTasks(r), t, loc[r].score, first)
    BY <1>1, <2>1 DEF Lessons, AnsweredSession
  <2>7. /\ sessions'[n] \in Session
        /\ sessions'[n].run = sessions[n].run
        /\ sessions'[n].status = sessions[n].status
    <3> DEFINE s == AnsweredSession(sessions[n], AnsweredTasks(r), t, loc[r].score, first)
    <3>1. s \in Session /\ s.run = sessions[n].run /\ s.status = sessions[n].status
      BY <1>1, <1>2, <2>3, <2>4, <2>5, AnsweredSessionType
    <3> QED  BY <2>6, <3>1
  <2>8. rows' \in [Words -> Row] /\ \A w \in Words : rows'[w].run <= course.run
    BY <1>1, <1>2, <2>2 DEF IInv, TypeOK, RunsAreFenced
  <2>9. /\ at' \in [Requests -> Point]
        /\ loc' \in [Requests -> Local]
        /\ \A q \in Requests : LocalOK(at[q], loc[q])'
    <3>1. at'[r] = "submit_outcome" /\ loc'[r] = loc[r]
      BY <1>3 DEF IInv, TypeOK, Goto
    <3>2. LocalOK(at[r], loc[r])'
      BY <1>1, <2>6, <3>1, PointsAreDisjoint DEF LocalOK, SubmitPoints
    <3>3. Lessons \subseteq Lessons' /\ course.lesson <= course'.lesson
          /\ course.run <= course'.run
      BY <1>0, <1>3, <2>6
    <3> QED  BY <1>0, <1>3, <1>4, <3>2, <3>3, OthersUndisturbed
  <2>10. \A l \in Lessons : /\ sessions'[l] \in Session
                            /\ sessions'[l].run = sessions[l].run
                            /\ sessions'[l].status = sessions[l].status
    BY <2>6, <2>7 DEF IInv, TypeOK
  <2>11. TypeOK'
    BY <1>3, <2>6, <2>8, <2>9, <2>10 DEF IInv, TypeOK
  <2>12. RequestsAreBehind'
    BY <1>3, <2>6, <2>9 DEF IInv, RequestsAreBehind
  <2>13. RunsAreFenced'
    BY <1>3, <2>6, <2>8, <2>10 DEF IInv, RunsAreFenced
  <2>14. CourseIsPastCompletedLessons'
    BY <1>3, <2>6, <2>10 DEF IInv, CourseIsPastCompletedLessons
  <2> QED  BY <2>11, <2>12, <2>13, <2>14 DEF IInv
<1> QED  BY <1>5, <1>6

-----------------------------------------------------------------------------
(* completeLesson.                                                         *)

LEMMA CompleteReadStep ==
    ASSUME IInv, NEW r \in Requests,
           \/ \E l \in Lessons : CompleteLesson(r, l)
           \/ DecideCompletion(r) \/ ResolveNextLessonNo(r) \/ RecheckCompletion(r)
           \/ ReturnCompletion(r)
    PROVE  IInv'
<1>0. /\ at[r] \in Point /\ loc[r] \in Local /\ LocalOK(at[r], loc[r])
      /\ course \in [lesson : Nat, run : Nat, start : Nat]
  BY Known
<1>1. {"complete_queue", "complete_next", "complete_recheck", "complete_commit",
       "complete_reply"} \subseteq Point
  BY DEF Point, Replies
<1>2. ASSUME at[r] \in CompletePoints
      PROVE  loc[r].lesson \in Lessons /\ loc[r].lesson \in Nat
  BY <1>0, <1>2 DEF LocalOK, IInv, TypeOK
<1>3. ASSUME at[r] \in CompletePoints, UNCHANGED db,
             Goto(r, "complete_reply", [loc[r] EXCEPT !.target = course.lesson])
      PROVE  IInv'
  <2> DEFINE l == [loc[r] EXCEPT !.target = course.lesson]
  <2>1. l \in Local
    BY <1>0 DEF Local
  <2>2. LocalOK("complete_reply", l)
    BY PointsAreDisjoint DEF LocalOK, Replies
  <2> QED  BY <1>1, <1>3, <2>1, <2>2, ReadStep
<1>4. CASE \E l \in Lessons : CompleteLesson(r, l)
  <2>1. PICK n \in Lessons : CompleteLesson(r, n)
    BY <1>4
  <2>2. n \in Nat
    BY DEF IInv, TypeOK
  <2> DEFINE asked == [Nothing EXCEPT !.lesson = n]
             again == [asked EXCEPT !.target = n + 1]
  <2>3. asked \in Local /\ again \in Local
    <3>1. asked \in Local
      BY <2>2, NothingIsLocal DEF Local
    <3> HIDE DEF asked
    <3>2. n + 1 \in Nat
      BY <2>2
    <3> QED  BY <3>1, <3>2 DEF Local
  <2>4. asked.lesson = n /\ again.lesson = n /\ again.target = n + 1
    BY DEF Nothing
  <2>5. \/ Goto(r, "complete_queue", asked) /\ UNCHANGED db
        \/ Goto(r, "complete_recheck", again) /\ UNCHANGED db
    BY <2>1 DEF CompleteLesson
  <2> HIDE DEF asked, again
  <2>6. LocalOK("complete_queue", asked)
    BY <2>4, PointsAreDisjoint DEF LocalOK, CompletePoints
  <2>7. LocalOK("complete_recheck", again)
    BY <2>2, <2>4, PointsAreDisjoint DEF LocalOK, CompletePoints
  <2> QED  BY <1>1, <2>3, <2>5, <2>6, <2>7, ReadStep
<1>5. CASE DecideCompletion(r)
  <2>1. at[r] \in CompletePoints /\ UNCHANGED db
    BY <1>5 DEF DecideCompletion, CompletePoints
  <2> DEFINE l == [loc[r] EXCEPT !.tasks = SkippableTasks(loc[r].lesson)]
  <2>2. l \in Local /\ l.lesson = loc[r].lesson
    BY <1>0 DEF Local, SkippableTasks, TasksOf
  <2>3. Goto(r, "complete_next", l) \/ Fail(r)
    BY <1>5 DEF DecideCompletion
  <2> HIDE DEF l
  <2>4. LocalOK("complete_next", l)
    BY <1>2, <2>1, <2>2, PointsAreDisjoint DEF LocalOK, CompletePoints
  <2> QED  BY <1>1, <2>1, <2>2, <2>3, <2>4, ReadStep, FailStep
<1>6. CASE ResolveNextLessonNo(r)
  <2>1. at[r] \in CompletePoints /\ UNCHANGED db
    BY <1>6 DEF ResolveNextLessonNo, CompletePoints
  <2>2. PICK m \in NextLessonCandidates(loc[r].lesson) :
          Goto(r, "complete_recheck", [loc[r] EXCEPT !.target = m])
    BY <1>6 DEF ResolveNextLessonNo
  <2>3. m \in Nat /\ loc[r].lesson < m
    <3>1. CASE UnactivatedGroups # {}
      BY <1>2, <2>1, <2>2, <3>1 DEF NextLessonCandidates
    <3>2. CASE UnactivatedGroups = {}
      <4>1. PICK w \in Activated :
              m = IF rows[w].due > loc[r].lesson THEN rows[w].due ELSE loc[r].lesson + 1
        BY <2>2, <3>2 DEF NextLessonCandidates
      <4>2. rows[w].due \in Nat
        BY DEF Activated, IInv, TypeOK, Row
      <4> QED  BY <1>2, <2>1, <4>1, <4>2
    <3> QED  BY <3>1, <3>2
  <2> DEFINE l == [loc[r] EXCEPT !.target = m]
  <2>4. l \in Local /\ l.lesson = loc[r].lesson /\ l.target = m
    BY <1>0, <2>3 DEF Local
  <2>5. Goto(r, "complete_recheck", l)
    BY <2>2
  <2> HIDE DEF l
  <2>6. LocalOK("complete_recheck", l)
    BY <1>2, <2>1, <2>3, <2>4, PointsAreDisjoint DEF LocalOK, CompletePoints
  <2> QED  BY <1>1, <2>1, <2>4, <2>5, <2>6, ReadStep
<1>7. CASE RecheckCompletion(r)
  <2>1. at[r] = "complete_recheck" /\ at[r] \in CompletePoints /\ UNCHANGED db
    BY <1>7 DEF RecheckCompletion, CompletePoints
  <2>2. LocalOK("complete_commit", loc[r])
    BY <1>0, <2>1, PointsAreDisjoint DEF LocalOK, CompletePoints
  <2>3. \/ Goto(r, "complete_reply", [loc[r] EXCEPT !.target = course.lesson])
        \/ Goto(r, "complete_commit", loc[r])
        \/ Fail(r)
    <3> DEFINE n == loc[r].lesson
    <3>1. sessions[n] \in Session
      BY <1>2, <2>1 DEF IInv, TypeOK
    <3>2. CASE sessions[n].status = "completed"
      BY <1>7, <3>2 DEF RecheckCompletion
    <3>3. CASE sessions[n].status # "completed"
      BY <1>7, <3>3 DEF RecheckCompletion
    <3> QED  BY <3>2, <3>3
  <2> QED  BY <1>0, <1>1, <1>3, <2>1, <2>2, <2>3, ReadStep, FailStep
<1>8. CASE ReturnCompletion(r)
  <2>1. at[r] \in CompletePoints /\ UNCHANGED db
    BY <1>8 DEF ReturnCompletion, CompletePoints
  <2> QED  BY <1>3, <1>8, <2>1, FailStep DEF ReturnCompletion
<1> QED  BY <1>4, <1>5, <1>6, <1>7, <1>8

CompletedSession(s, status, first) ==
    [s EXCEPT !.status = "completed", !.tasks = status, !.first = first]

LEMMA CompletedSessionType ==
    ASSUME NEW s \in Session, NEW status \in [Task -> TaskStatus],
           NEW first \in Task \cup {NoTask}
    PROVE  /\ CompletedSession(s, status, first) \in Session
           /\ CompletedSession(s, status, first).run = s.run
           /\ CompletedSession(s, status, first).status = "completed"
BY DEF CompletedSession, Session

(* The completed lesson is the one the course is at, and the course moves  *)
(* past it, or the course was past it before.                              *)
LEMMA CommitCompletionStep ==
    ASSUME IInv, NEW r \in Requests, CommitCompletion(r)
    PROVE  IInv'
<1> DEFINE n == loc[r].lesson
<1>0. /\ at[r] = "complete_commit" /\ loc[r] \in Local /\ LocalOK(at[r], loc[r])
      /\ course \in [lesson : Nat, run : Nat, start : Nat]
      /\ course.start <= course.lesson
  BY Known DEF CommitCompletion
<1>1. n \in Lessons /\ n < loc[r].target /\ loc[r].target \in Nat
  BY <1>0 DEF LocalOK, CompletePoints, Local
<1>2. sessions[n] \in Session /\ n \in Nat /\ n <= course.lesson
  BY <1>1 DEF IInv, TypeOK, RunsAreFenced
<1>3. /\ rows' = rows /\ archive' = archive /\ resets' = resets
      /\ Goto(r, "complete_outcome", loc[r])
  BY DEF CommitCompletion
<1>4. "complete_outcome" \in Point /\ LocalOK("complete_outcome", loc[r])
  BY <1>1, PointsAreDisjoint DEF Point, LocalOK, CompletePoints
<1>5. CASE ~MayComplete(n)
  <2>1. UNCHANGED db
    BY <1>3, <1>5 DEF CommitCompletion, db
  <2> QED  BY <1>0, <1>3, <1>4, <2>1, ReadStep
<1>6. CASE MayComplete(n)
  <2>1. PICK first \in FirstOf(SkippedTasks(r)) :
          sessions' = [sessions EXCEPT ![n] =
                        [@ EXCEPT !.status = "completed",
                                  !.tasks = SkippedTasks(r),
                                  !.first = first]]
    BY <1>6 DEF CommitCompletion
  <2>2. course' = AdvancedCourse(r)
    BY <1>6 DEF CommitCompletion
  <2>3. /\ course' \in [lesson : Nat, run : Nat, start : Nat]
        /\ course'.run = course.run /\ course'.start = course.start
        /\ course.lesson <= course'.lesson /\ n < course'.lesson
    BY <1>0, <1>1, <1>2, <2>2 DEF AdvancedCourse
  <2>4. SkippedTasks(r) \in [Task -> TaskStatus]
    BY <1>2 DEF SkippedTasks, Session, TaskStatus
  <2>5. first \in Task \cup {NoTask}
    BY <2>4, FirstOfType
  <2>6. /\ Lessons' = Lessons
        /\ \A l \in Lessons : l # n => sessions'[l] = sessions[l]
        /\ sessions'[n] = CompletedSession(sessions[n], SkippedTasks(r), first)
    BY <1>1, <2>1 DEF Lessons, CompletedSession
  <2>7. /\ sessions'[n] \in Session
        /\ sessions'[n].run = sessions[n].run
        /\ sessions'[n].status = "completed"
    <3> DEFINE s == CompletedSession(sessions[n], SkippedTasks(r), first)
    <3>1. s \in Session /\ s.run = sessions[n].run /\ s.status = "completed"
      BY <1>2, <2>4, <2>5, CompletedSessionType
    <3> QED  BY <2>6, <3>1
  <2>8. /\ at' \in [Requests -> Point]
        /\ loc' \in [Requests -> Local]
        /\ \A q \in Requests : LocalOK(at[q], loc[q])'
    <3>1. at'[r] = "complete_outcome" /\ loc'[r] = loc[r]
      BY <1>3 DEF IInv, TypeOK, Goto
    <3>2. LocalOK(at[r], loc[r])'
      BY <1>1, <2>6, <3>1, PointsAreDisjoint DEF LocalOK, CompletePoints
    <3>3. Lessons \subseteq Lessons' /\ course.run <= course'.run
      BY <1>0, <2>3, <2>6
    <3> QED  BY <1>0, <1>3, <1>4, <2>3, <3>2, <3>3, OthersUndisturbed
  <2>9. \A l \in Lessons : /\ sessions'[l] \in Session
                           /\ sessions'[l].run = sessions[l].run
                           /\ \/ sessions'[l].status = sessions[l].status
                              \/ l = n /\ sessions'[l].status = "completed"
    BY <2>6, <2>7 DEF IInv, TypeOK
  <2>10. TypeOK'
    BY <1>3, <2>3, <2>6, <2>8, <2>9 DEF IInv, TypeOK
  <2>11. RequestsAreBehind'
    BY <1>0, <2>3, <2>6, <2>8 DEF IInv, RequestsAreBehind
  <2>12. \A l \in Lessons : l \in Nat
    BY DEF IInv, TypeOK
  <2>13. RunsAreFenced'
    BY <1>0, <1>3, <2>3, <2>6, <2>9, <2>12 DEF IInv, RunsAreFenced
  <2>14. CourseIsPastCompletedLessons'
    BY <1>0, <2>3, <2>6, <2>9, <2>12 DEF IInv, CourseIsPastCompletedLessons
  <2> QED  BY <2>10, <2>11, <2>13, <2>14 DEF IInv
<1> QED  BY <1>5, <1>6

-----------------------------------------------------------------------------
(* resetCourseProgress.                                                    *)

LEMMA CommittedResetType ==
    ASSUME IInv, NEW asked \in Local, NEW token \in DOMAIN resets
    PROVE  CommittedReset(asked, token) \in Local
<1>1. resets[token].toLesson \in Nat /\ resets[token].abandoned \in Nat
  BY DEF IInv, TypeOK, ResetOperation
<1> QED  BY <1>1 DEF CommittedReset, Local

LEMMA CommittedReplyStep ==
    ASSUME IInv, NEW r \in Requests, NEW asked \in Local, NEW token \in DOMAIN resets,
           Goto(r, "reset_reply", CommittedReset(asked, token)), UNCHANGED db
    PROVE  IInv'
<1>1. "reset_reply" \in Point
  BY DEF Point, Replies
<1>2. LocalOK("reset_reply", CommittedReset(asked, token))
  BY PointsAreDisjoint DEF LocalOK, Replies
<1> QED  BY <1>1, <1>2, CommittedResetType, ReadStep

LEMMA StartedInRunIsFinite ==
    ASSUME IInv, NEW run \in Nat
    PROVE  CountOf(StartedInRun(run)) \in Nat
<1>1. IsFiniteSet(Lessons) /\ StartedInRun(run) \subseteq Lessons
  BY DEF IInv, RequestsAreBehind, StartedInRun
<1>2. IsFiniteSet(StartedInRun(run))
  BY <1>1, FS_Subset
<1> QED  BY <1>2, FS_CardinalityType DEF CountOf

LEMMA ResetReadStep ==
    ASSUME IInv, NEW r \in Requests,
           \/ \E token \in Tokens, run \in 1 .. MaxRun - 1, lesson \in 1 .. MaxPlayed + 1 :
                 ResetCourseProgress(r, token, run, lesson)
           \/ FindCommittedReset(r) \/ ReadCourseToReset(r) \/ ReadResetStats(r)
           \/ ReturnCommittedReset(r)
    PROVE  IInv'
<1>0. /\ at[r] \in Point /\ loc[r] \in Local /\ LocalOK(at[r], loc[r])
      /\ course \in [lesson : Nat, run : Nat, start : Nat]
  BY Known
<1>1. ResetPoints \subseteq Point
  BY DEF ResetPoints, Point
<1>2. ASSUME NEW p \in ResetPoints, NEW l \in Local, l.token \in Tokens,
             Goto(r, p, l), UNCHANGED db
      PROVE  IInv'
  <2>1. LocalOK(p, l)
    BY <1>2, PointsAreDisjoint DEF LocalOK, ResetPoints
  <2> QED  BY <1>1, <1>2, <2>1, ReadStep
<1>3. /\ "reset_existing" \in ResetPoints /\ "reset_course" \in ResetPoints
      /\ "reset_stats" \in ResetPoints /\ "reset_commit" \in ResetPoints
      /\ "reset_failed" \in ResetPoints
  BY DEF ResetPoints
<1>4. ASSUME at[r] \in ResetPoints
      PROVE  loc[r].token \in Tokens
  BY <1>0, <1>4 DEF LocalOK
<1>5. CASE \E token \in Tokens, run \in 1 .. MaxRun - 1, lesson \in 1 .. MaxPlayed + 1 :
              ResetCourseProgress(r, token, run, lesson)
  <2>1. PICK token \in Tokens, run \in 1 .. MaxRun - 1, lesson \in 1 .. MaxPlayed + 1 :
          ResetCourseProgress(r, token, run, lesson)
    BY <1>5
  <2>2. run \in Nat /\ lesson \in Nat
    BY BoundsAssumption
  <2> DEFINE asked == [Nothing EXCEPT !.token = token, !.run = run, !.start = lesson]
  <2>3. asked \in Local
    BY <2>2, NothingIsLocal DEF Local
  <2>4. asked.token = token
    BY DEF Nothing
  <2>5. /\ UNCHANGED db
        /\ \/ Goto(r, "reset_existing", asked)
           \/ token \in DOMAIN resets /\ Goto(r, "reset_reply", CommittedReset(asked, token))
    BY <2>1 DEF ResetCourseProgress
  <2> HIDE DEF asked
  <2> QED  BY <1>2, <1>3, <2>3, <2>4, <2>5, CommittedReplyStep
<1>6. CASE FindCommittedReset(r)
  <2>1. at[r] \in ResetPoints /\ UNCHANGED db
    BY <1>3, <1>6 DEF FindCommittedReset
  <2>2. \/ Goto(r, "reset_course", loc[r])
        \/ /\ loc[r].token \in DOMAIN resets
           /\ Goto(r, "reset_reply", CommittedReset(loc[r], loc[r].token))
        \/ Fail(r)
    BY <1>6 DEF FindCommittedReset, CommittedOr
  <2> QED  BY <1>0, <1>2, <1>3, <1>4, <2>1, <2>2, FailStep, CommittedReplyStep
<1>7. CASE ReadCourseToReset(r)
  <2>1. at[r] \in ResetPoints /\ UNCHANGED db
    BY <1>3, <1>7 DEF ReadCourseToReset
  <2> DEFINE l == [loc[r] EXCEPT !.lesson = course.lesson]
  <2>2. l \in Local /\ l.token = loc[r].token
    BY <1>0 DEF Local
  <2>3. Goto(r, "reset_stats", l) \/ Fail(r)
    BY <1>7 DEF ReadCourseToReset
  <2> HIDE DEF l
  <2> QED  BY <1>2, <1>3, <1>4, <2>1, <2>2, <2>3, FailStep
<1>8. CASE ReadResetStats(r)
  <2>1. at[r] \in ResetPoints /\ UNCHANGED db
    BY <1>3, <1>8 DEF ReadResetStats
  <2>2. PICK m \in Lessons \cup {loc[r].lesson} :
          Goto(r, "reset_commit",
               [loc[r] EXCEPT !.target = m + 1,
                              !.abandoned = CountOf(StartedInRun(loc[r].run))])
    BY <1>8 DEF ReadResetStats
  <2>3. m + 1 \in Nat
    <3>1. loc[r].lesson \in Nat
      BY <1>0 DEF Local
    <3>2. m \in Nat
      BY <3>1 DEF IInv, TypeOK
    <3> QED  BY <3>2
  <2> DEFINE abandoned == CountOf(StartedInRun(loc[r].run))
  <2>4. abandoned \in Nat
    <3>1. loc[r].run \in Nat
      BY <1>0 DEF Local
    <3> QED  BY <3>1, StartedInRunIsFinite
  <2> DEFINE l == [loc[r] EXCEPT !.target = m + 1, !.abandoned = abandoned]
  <2> HIDE DEF abandoned
  <2>5. l \in Local /\ l.token = loc[r].token
    BY <1>0, <2>3, <2>4 DEF Local
  <2>6. Goto(r, "reset_commit", l)
    BY <2>2 DEF abandoned
  <2> HIDE DEF l
  <2> QED  BY <1>2, <1>3, <1>4, <2>1, <2>5, <2>6
<1>9. CASE ReturnCommittedReset(r)
  <2>1. at[r] \in ResetPoints /\ UNCHANGED db
    BY <1>3, <1>9 DEF ReturnCommittedReset
  <2>2. \/ /\ loc[r].token \in DOMAIN resets
           /\ Goto(r, "reset_reply", CommittedReset(loc[r], loc[r].token))
        \/ Fail(r)
    BY <1>9 DEF ReturnCommittedReset, CommittedOr
  <2> QED  BY <1>0, <2>1, <2>2, FailStep, CommittedReplyStep
<1> QED  BY <1>5, <1>6, <1>7, <1>8, <1>9

(* The new run starts past every session, and every session that was       *)
(* started belonged to the run that ends.                                  *)
LEMMA CommitResetStep ==
    ASSUME IInv, NEW r \in Requests, CommitReset(r)
    PROVE  IInv'
<1> DEFINE k == loc[r].token
           n == loc[r].target
<1>0. /\ at[r] = "reset_commit" /\ loc[r] \in Local /\ LocalOK(at[r], loc[r])
      /\ course \in [lesson : Nat, run : Nat, start : Nat]
      /\ course.start <= course.lesson
  BY Known DEF CommitReset
<1>1. k \in Tokens
  BY <1>0 DEF LocalOK, ResetPoints
<1>2. /\ n \in Nat /\ loc[r].run \in Nat /\ loc[r].start \in Nat
      /\ loc[r].abandoned \in Nat
  BY <1>0 DEF Local
<1>3. rows' = rows
  BY DEF CommitReset
<1>4. CASE ~MayReset(r)
  <2>1. Goto(r, "reset_failed", loc[r]) /\ UNCHANGED db
    BY <1>4 DEF CommitReset, db
  <2>2. "reset_failed" \in Point /\ LocalOK("reset_failed", loc[r])
    BY <1>1, PointsAreDisjoint DEF Point, LocalOK, ResetPoints
  <2> QED  BY <1>0, <2>1, <2>2, ReadStep
<1>5. CASE MayReset(r)
  <2>1. loc[r].run = course.run /\ IsNextPhysicalLesson(n, course.lesson)
    BY <1>5 DEF MayReset
  <2>2. /\ resets' = [j \in DOMAIN resets \cup {k} |->
                         IF j = k THEN ResetRecord(r) ELSE resets[j]]
        /\ archive' = [m \in DOMAIN archive \cup {loc[r].run} |->
                         IF m = loc[r].run THEN [w \in Words |-> CurrentRow(w)]
                                           ELSE archive[m]]
        /\ sessions' = AbandonedSessions(r)
        /\ course' = [lesson |-> n, run |-> loc[r].run + 1, start |-> n]
        /\ Goto(r, "reset_reply", loc[r])
    BY <1>5 DEF CommitReset
  <2>3. \A l \in Lessons : l \in Nat /\ l < n
    BY <1>2, <2>1 DEF IsNextPhysicalLesson, IsGreatest, IInv, TypeOK
  <2>4. course.lesson < n
    BY <1>0, <1>2, <2>1 DEF IsNextPhysicalLesson, IsGreatest
  <2>5. /\ course' \in [lesson : Nat, run : Nat, start : Nat]
        /\ course'.lesson = n /\ course'.start = n /\ course'.run = course.run + 1
    BY <1>0, <1>2, <2>1, <2>2
  <2>6. /\ DOMAIN resets' \subseteq Tokens
        /\ \A j \in DOMAIN resets' : resets'[j] \in ResetOperation
    <3>1. ResetRecord(r) \in ResetOperation
      BY <1>2 DEF ResetRecord, ResetOperation
    <3> QED  BY <1>1, <2>2, <3>1 DEF IInv, TypeOK
  <2>7. /\ DOMAIN archive' \subseteq Nat
        /\ \A m \in DOMAIN archive' : archive'[m] \in [Words -> Row]
    <3>1. [w \in Words |-> CurrentRow(w)] \in [Words -> Row]
      BY CurrentRowType
    <3> QED  BY <1>2, <2>2, <3>1 DEF IInv, TypeOK
  <2>8. Lessons' = Lessons
    BY <2>2 DEF Lessons, AbandonedSessions
  <2>9. \A l \in Lessons :
          /\ sessions'[l] \in Session
          /\ sessions'[l].run = sessions[l].run
          /\ sessions'[l].status # "started"
          /\ sessions'[l].status = "completed" => sessions[l].status = "completed"
    <3>1. ASSUME NEW l \in Lessons
          PROVE  /\ sessions'[l] \in Session
                 /\ sessions'[l].run = sessions[l].run
                 /\ sessions'[l].status # "started"
                 /\ sessions'[l].status = "completed" => sessions[l].status = "completed"
      <4>1. sessions[l] \in Session
        BY DEF IInv, TypeOK
      <4>2. CASE l \in StartedInRun(loc[r].run)
        <5>1. sessions'[l] = [sessions[l] EXCEPT !.status = "abandoned"]
          BY <2>2, <4>2 DEF AbandonedSessions
        <5> QED  BY <4>1, <5>1 DEF Session
      <4>3. CASE l \notin StartedInRun(loc[r].run)
        <5>1. sessions'[l] = sessions[l]
          BY <2>2, <4>3 DEF AbandonedSessions
        <5>2. sessions[l].status # "started"
          BY <2>1, <4>3 DEF StartedInRun, IsStarted, IInv, RunsAreFenced
        <5> QED  BY <4>1, <5>1, <5>2
      <4> QED  BY <4>2, <4>3
    <3> QED  BY <3>1
  <2>10. /\ at' \in [Requests -> Point]
         /\ loc' \in [Requests -> Local]
         /\ \A q \in Requests : LocalOK(at[q], loc[q])'
    <3>1. at'[r] = "reset_reply" /\ loc'[r] = loc[r]
      BY <2>2 DEF IInv, TypeOK, Goto
    <3>2. LocalOK(at[r], loc[r])'
      BY <3>1, PointsAreDisjoint DEF LocalOK, Replies
    <3>3. "reset_reply" \in Point /\ Lessons \subseteq Lessons'
          /\ course.lesson <= course'.lesson /\ course.run <= course'.run
      BY <1>0, <1>2, <2>4, <2>5, <2>8 DEF Point, Replies
    <3> QED  BY <1>0, <2>2, <2>5, <3>2, <3>3, OthersUndisturbed
  <2>11. TypeOK'
    BY <1>3, <2>5, <2>6, <2>7, <2>8, <2>9, <2>10 DEF IInv, TypeOK
  <2>12. RequestsAreBehind'
    BY <1>2, <2>5, <2>8, <2>10 DEF IInv, RequestsAreBehind
  <2>13. RunsAreFenced'
    <3>1. \A w \in Words : rows'[w].run <= course'.run
      <4>1. \A w \in Words : rows[w].run \in Nat /\ rows[w].run <= course.run
        BY DEF IInv, TypeOK, Row, RunsAreFenced
      <4> QED  BY <1>0, <1>3, <2>5, <4>1
    <3>2. \A l \in Lessons : sessions[l].run \in Nat /\ sessions[l].run <= course.run
      BY DEF IInv, TypeOK, Session, RunsAreFenced
    <3> QED  BY <1>0, <1>2, <2>3, <2>5, <2>8, <2>9, <3>1, <3>2 DEF RunsAreFenced
  <2>14. CourseIsPastCompletedLessons'
    BY <2>3, <2>5, <2>8, <2>9 DEF CourseIsPastCompletedLessons
  <2> QED  BY <2>11, <2>12, <2>13, <2>14 DEF IInv
<1> QED  BY <1>4, <1>5

-----------------------------------------------------------------------------
(* The invariant and the theorems.                                         *)

LEMMA InitIInv == Init => IInv
<1> SUFFICES ASSUME Init PROVE IInv
  OBVIOUS
<1>1. Lessons = {} /\ DOMAIN archive = {} /\ DOMAIN resets = {}
  BY DEF Init, Lessons
<1>2. course \in [lesson : Nat, run : Nat, start : Nat]
      /\ course.start <= course.lesson /\ course.run = 1
  BY DEF Init
<1>3. rows \in [Words -> Row] /\ \A w \in Words : rows[w].run <= course.run
  BY <1>2 DEF Init, NoRow, Row
<1>4. at \in [Requests -> Point] /\ loc \in [Requests -> Local]
  BY NothingIsLocal DEF Init, Point
<1>5. \A r \in Requests : LocalOK(at[r], loc[r])
  BY IdleLocalOK DEF Init
<1>6. TypeOK
  BY <1>1, <1>2, <1>3, <1>4 DEF TypeOK
<1>7. RequestsAreBehind
  BY <1>1, <1>2, <1>5, FS_EmptySet DEF RequestsAreBehind
<1>8. RunsAreFenced /\ CourseIsPastCompletedLessons
  BY <1>1, <1>3 DEF RunsAreFenced, CourseIsPastCompletedLessons
<1> QED  BY <1>6, <1>7, <1>8 DEF IInv

LEMMA StutterIInv == IInv /\ UNCHANGED vars => IInv'
BY DEF vars, IInv, TypeOK, RequestsAreBehind, LocalOK, RunsAreFenced,
       CourseIsPastCompletedLessons, Lessons

LEMMA NextIInv == IInv /\ [Next]_vars => IInv'
<1> SUFFICES ASSUME IInv, [Next]_vars PROVE IInv'
  OBVIOUS
<1>1. CASE UNCHANGED vars
  BY <1>1, StutterIInv
<1>2. ASSUME NEW r \in Requests, Arrive(r) PROVE IInv'
  BY <1>2, StartLessonStep, SubmitReadStep, CompleteReadStep, ResetReadStep DEF Arrive
<1>3. ASSUME NEW r \in Requests, Serve(r) PROVE IInv'
  <2>1. CASE GetStartedLesson(r) \/ PlanLesson(r) \/ RereadAdvancedCourse(r)
             \/ ReturnWinner(r)
    BY <2>1, StartLessonStep
  <2>2. CASE AdvanceCourseLessonNo(r)
    BY <2>2, AdvanceStep
  <2>3. CASE CreateLesson(r)
    BY <2>3, CreateLessonStep
  <2>4. CASE GetSubmittedAnswer(r) \/ ReadQueueSnapshot(r) \/ ReturnRacedAnswer(r)
             \/ ReadWordState(r) \/ RecheckSubmittedAnswer(r) \/ ReturnRecordedAnswer(r)
    BY <2>4, SubmitReadStep
  <2>5. CASE RecordAnswer(r)
    BY <2>5, RecordAnswerStep
  <2>6. CASE DecideCompletion(r) \/ ResolveNextLessonNo(r) \/ RecheckCompletion(r)
             \/ ReturnCompletion(r)
    BY <2>6, CompleteReadStep
  <2>7. CASE CommitCompletion(r)
    BY <2>7, CommitCompletionStep
  <2>8. CASE FindCommittedReset(r) \/ ReadCourseToReset(r) \/ ReadResetStats(r)
             \/ ReturnCommittedReset(r)
    BY <2>8, ResetReadStep
  <2>9. CASE CommitReset(r)
    BY <2>9, CommitResetStep
  <2>10. CASE Deliver(r)
    BY <2>10, FailStep DEF Deliver
  <2> QED  BY <1>3, <2>1, <2>2, <2>3, <2>4, <2>5, <2>6, <2>7, <2>8, <2>9, <2>10 DEF Serve
<1>4. ASSUME NEW r \in Requests, Die(r) PROVE IInv'
  BY <1>4, FailStep DEF Die
<1> QED  BY <1>1, <1>2, <1>3, <1>4 DEF Next

(* The inductive invariant holds in every reachable state.                 *)
THEOREM InvariantHolds == Spec => []IInv
BY InitIInv, NextIInv, PTL DEF Spec

(* Every row of the database and everything a request remembers keeps its  *)
(* type, however the requests interleave or die.                           *)
THEOREM TypesHold == Spec => []TypeOK
<1>1. IInv => TypeOK
  BY DEF IInv
<1> QED  BY <1>1, InvariantHolds, PTL

(* What a request remembers is old but never ahead of the database.        *)
THEOREM RequestsStayBehind == Spec => []RequestsAreBehind
<1>1. IInv => RequestsAreBehind
  BY DEF IInv
<1> QED  BY <1>1, InvariantHolds, PTL

(* A reset fences the runs: no late start, answer or completion of a run   *)
(* that is over reaches the run that replaced it.                          *)
THEOREM ResetsFenceRuns == Spec => []RunsAreFenced
<1>1. IInv => RunsAreFenced
  BY DEF IInv
<1> QED  BY <1>1, InvariantHolds, PTL

(* No interleaving of starts, completions and resets leaves the course at  *)
(* or before a lesson that was completed.                                  *)
THEOREM CompletedLessonsStayBehind == Spec => []CourseIsPastCompletedLessons
<1>1. IInv => CourseIsPastCompletedLessons
  BY DEF IInv
<1> QED  BY <1>1, InvariantHolds, PTL

-----------------------------------------------------------------------------
(* What the steps that write do to the database.                           *)

LEMMA DatabaseSteps ==
    ASSUME [Next]_vars
    PROVE  \/ UNCHANGED db
           \/ \E r \in Requests : AdvanceCourseLessonNo(r)
           \/ \E r \in Requests : CreateLesson(r) /\ MayInsertSession(r)
           \/ \E r \in Requests : RecordAnswer(r) /\ MayInsertLog(r)
           \/ \E r \in Requests : CommitCompletion(r) /\ MayComplete(loc[r].lesson)
           \/ \E r \in Requests : CommitReset(r) /\ MayReset(r)
<1>1. CASE UNCHANGED vars
  BY <1>1 DEF vars, db
<1>2. ASSUME NEW r \in Requests, Arrive(r) PROVE UNCHANGED db
  BY <1>2 DEF Arrive, StartLesson, SubmitAnswer, CompleteLesson, ResetCourseProgress
<1>3. ASSUME NEW r \in Requests, Serve(r)
      PROVE  \/ UNCHANGED db
             \/ AdvanceCourseLessonNo(r)
             \/ CreateLesson(r) /\ MayInsertSession(r)
             \/ RecordAnswer(r) /\ MayInsertLog(r)
             \/ CommitCompletion(r) /\ MayComplete(loc[r].lesson)
             \/ CommitReset(r) /\ MayReset(r)
  <2>1. CASE \/ GetStartedLesson(r) \/ PlanLesson(r) \/ RereadAdvancedCourse(r)
             \/ ReturnWinner(r) \/ GetSubmittedAnswer(r) \/ ReadQueueSnapshot(r)
             \/ ReturnRacedAnswer(r) \/ ReadWordState(r) \/ RecheckSubmittedAnswer(r)
             \/ ReturnRecordedAnswer(r)
    BY <2>1 DEF GetStartedLesson, PlanLesson, RereadAdvancedCourse, ReturnWinner,
                GetSubmittedAnswer, ReadQueueSnapshot, ReturnRacedAnswer, ReadWordState,
                RecheckSubmittedAnswer, ReturnRecordedAnswer
  <2>2. CASE \/ DecideCompletion(r) \/ ResolveNextLessonNo(r) \/ RecheckCompletion(r)
             \/ ReturnCompletion(r) \/ FindCommittedReset(r) \/ ReadCourseToReset(r)
             \/ ReadResetStats(r) \/ ReturnCommittedReset(r) \/ Deliver(r)
    BY <2>2 DEF DecideCompletion, ResolveNextLessonNo, RecheckCompletion, ReturnCompletion,
                FindCommittedReset, ReadCourseToReset, ReadResetStats, ReturnCommittedReset,
                Deliver
  <2>3. CASE CreateLesson(r)
    BY <2>3 DEF CreateLesson, db
  <2>4. CASE RecordAnswer(r)
    BY <2>4 DEF RecordAnswer, db
  <2>5. CASE CommitCompletion(r)
    BY <2>5 DEF CommitCompletion, db
  <2>6. CASE CommitReset(r)
    BY <2>6 DEF CommitReset, db
  <2> QED  BY <1>3, <2>1, <2>2, <2>3, <2>4, <2>5, <2>6 DEF Serve
<1>4. ASSUME NEW r \in Requests, Die(r) PROVE UNCHANGED db
  BY <1>4 DEF Die
<1> QED  BY <1>1, <1>2, <1>3, <1>4 DEF Next

LEMMA CreateEffect ==
    ASSUME IInv, NEW r \in Requests, CreateLesson(r), MayInsertSession(r)
    PROVE  /\ Lessons' = Lessons \cup {loc[r].lesson}
           /\ \E first \in loc[r].tasks : sessions'[loc[r].lesson] = NewSession(r, first)
           /\ \A l \in Lessons : sessions'[l] = sessions[l]
           /\ rows' = [w \in Words |->
                         IF w \in loc[r].words THEN InitialRow(r, w) ELSE rows[w]]
           /\ course' = course /\ archive' = archive /\ resets' = resets
           /\ Goto(r, "start_reply", loc[r])
<1>1. loc[r].lesson \notin Lessons
  BY DEF MayInsertSession
<1>2. PICK first \in loc[r].tasks :
        sessions' = [l \in Lessons \cup {loc[r].lesson} |->
                        IF l = loc[r].lesson THEN NewSession(r, first) ELSE sessions[l]]
  BY DEF CreateLesson
<1>3. Lessons' = Lessons \cup {loc[r].lesson}
  BY <1>2 DEF Lessons
<1> QED  BY <1>1, <1>2, <1>3 DEF CreateLesson

LEMMA AnswerEffect ==
    ASSUME IInv, NEW r \in Requests, RecordAnswer(r), MayInsertLog(r)
    PROVE  LET n == loc[r].lesson
               t == loc[r].task
           IN  /\ n \in Lessons /\ t \in Task
               /\ Lessons' = Lessons
               /\ \A l \in Lessons : l # n => sessions'[l] = sessions[l]
               /\ sessions'[n].status = "started" /\ sessions[n].status = "started"
               /\ sessions'[n].run = sessions[n].run
               /\ sessions'[n].tasks = AnsweredTasks(r)
               /\ sessions'[n].score = [sessions[n].score EXCEPT ![t] = loc[r].score]
               /\ sessions'[n].first \in FirstOf(AnsweredTasks(r))
               /\ course' = course /\ archive' = archive /\ resets' = resets
               /\ Goto(r, "submit_outcome", loc[r])
<1> DEFINE n == loc[r].lesson
           t == loc[r].task
<1>1. n \in Lessons /\ t \in Task /\ sessions[n] \in Session /\ IsStarted(n)
  <2>1. at[r] = "submit_record" /\ LocalOK(at[r], loc[r])
    BY Known DEF RecordAnswer
  <2> QED  BY <2>1 DEF LocalOK, SubmitPoints, IInv, TypeOK, MayInsertLog
<1>2. PICK first \in FirstOf(AnsweredTasks(r)) :
        sessions' = [sessions EXCEPT ![n] =
                      [@ EXCEPT !.tasks = AnsweredTasks(r),
                                !.score[t] = loc[r].score,
                                !.first = first]]
  BY DEF RecordAnswer
<1>3. /\ Lessons' = Lessons
      /\ \A l \in Lessons : l # n => sessions'[l] = sessions[l]
      /\ sessions'[n] = [sessions[n] EXCEPT !.tasks = AnsweredTasks(r),
                                            !.score[t] = loc[r].score,
                                            !.first = first]
  BY <1>1, <1>2 DEF Lessons
<1>4. /\ sessions'[n].status = sessions[n].status
      /\ sessions'[n].run = sessions[n].run
      /\ sessions'[n].tasks = AnsweredTasks(r)
      /\ sessions'[n].score = [sessions[n].score EXCEPT ![t] = loc[r].score]
      /\ sessions'[n].first = first
  BY <1>1, <1>3 DEF Session
<1> QED  BY <1>1, <1>2, <1>3, <1>4 DEF RecordAnswer, IsStarted

LEMMA CompletionEffect ==
    ASSUME IInv, NEW r \in Requests, CommitCompletion(r), MayComplete(loc[r].lesson)
    PROVE  LET n == loc[r].lesson
           IN  /\ n \in Lessons
               /\ Lessons' = Lessons
               /\ \A l \in Lessons : l # n => sessions'[l] = sessions[l]
               /\ sessions'[n].status = "completed" /\ sessions[n].status = "started"
               /\ sessions'[n].run = sessions[n].run
               /\ sessions'[n].tasks = SkippedTasks(r)
               /\ sessions'[n].score = sessions[n].score
               /\ sessions'[n].first \in FirstOf(SkippedTasks(r))
               /\ course' = AdvancedCourse(r)
               /\ course'.run = course.run /\ course'.start = course.start
               /\ course.lesson <= course'.lesson
               /\ rows' = rows /\ archive' = archive /\ resets' = resets
               /\ Goto(r, "complete_outcome", loc[r])
<1> DEFINE n == loc[r].lesson
<1>1. n \in Lessons /\ sessions[n] \in Session /\ sessions[n].status = "started"
  BY DEF MayComplete, IsStarted, IInv, TypeOK
<1>2. PICK first \in FirstOf(SkippedTasks(r)) :
        sessions' = [sessions EXCEPT ![n] =
                      [@ EXCEPT !.status = "completed",
                                !.tasks = SkippedTasks(r),
                                !.first = first]]
  BY DEF CommitCompletion
<1>3. /\ Lessons' = Lessons
      /\ \A l \in Lessons : l # n => sessions'[l] = sessions[l]
      /\ sessions'[n] = [sessions[n] EXCEPT !.status = "completed",
                                            !.tasks = SkippedTasks(r),
                                            !.first = first]
  BY <1>1, <1>2 DEF Lessons
<1>4. /\ sessions'[n].status = "completed"
      /\ sessions'[n].run = sessions[n].run
      /\ sessions'[n].tasks = SkippedTasks(r)
      /\ sessions'[n].score = sessions[n].score
      /\ sessions'[n].first = first
  BY <1>1, <1>3 DEF Session
<1>5. course' = AdvancedCourse(r)
  BY DEF CommitCompletion
<1>6. /\ course'.run = course.run /\ course'.start = course.start
      /\ course.lesson <= course'.lesson
  <2>1. /\ course \in [lesson : Nat, run : Nat, start : Nat]
        /\ at[r] = "complete_commit" /\ LocalOK(at[r], loc[r]) /\ loc[r] \in Local
    BY Known DEF CommitCompletion
  <2>2. n < loc[r].target /\ loc[r].target \in Nat
    BY <2>1 DEF LocalOK, CompletePoints, Local
  <2> QED  BY <1>1, <1>5, <2>1, <2>2 DEF AdvancedCourse, IInv, TypeOK
<1> QED  BY <1>1, <1>2, <1>3, <1>4, <1>5, <1>6 DEF CommitCompletion

LEMMA ResetEffect ==
    ASSUME IInv, NEW r \in Requests, CommitReset(r), MayReset(r)
    PROVE  LET run == course.run
               k   == loc[r].token
           IN  /\ k \notin DOMAIN resets
               /\ DOMAIN resets' = DOMAIN resets \cup {k}
               /\ resets'[k] = ResetRecord(r)
               /\ \A j \in DOMAIN resets : resets'[j] = resets[j]
               /\ Lessons' = Lessons
               /\ \A l \in Lessons :
                     /\ IsStarted(l) =>
                           sessions'[l] = [sessions[l] EXCEPT !.status = "abandoned"]
                     /\ ~IsStarted(l) => sessions'[l] = sessions[l]
               /\ StartedInRun(run) = {l \in Lessons : IsStarted(l)}
               /\ course' = [lesson |-> loc[r].target, run |-> run + 1,
                             start |-> loc[r].target]
               /\ loc[r].run = run
               /\ archive' = [n \in DOMAIN archive \cup {run} |->
                                 IF n = run THEN [w \in Words |-> CurrentRow(w)]
                                            ELSE archive[n]]
               /\ rows' = rows
               /\ Goto(r, "reset_reply", loc[r])
<1>1. loc[r].token \notin DOMAIN resets /\ loc[r].run = course.run
  BY DEF MayReset
<1>2. /\ resets' = [k \in DOMAIN resets \cup {loc[r].token} |->
                       IF k = loc[r].token THEN ResetRecord(r) ELSE resets[k]]
      /\ sessions' = AbandonedSessions(r)
      /\ course' = [lesson |-> loc[r].target, run |-> loc[r].run + 1,
                    start |-> loc[r].target]
      /\ archive' = [n \in DOMAIN archive \cup {loc[r].run} |->
                        IF n = loc[r].run THEN [w \in Words |-> CurrentRow(w)]
                                          ELSE archive[n]]
      /\ rows' = rows /\ Goto(r, "reset_reply", loc[r])
  BY DEF CommitReset
<1>3. StartedInRun(course.run) = {l \in Lessons : IsStarted(l)}
  BY DEF StartedInRun, IsStarted, IInv, RunsAreFenced
<1>4. /\ Lessons' = Lessons
      /\ \A l \in Lessons :
            /\ IsStarted(l) => sessions'[l] = [sessions[l] EXCEPT !.status = "abandoned"]
            /\ ~IsStarted(l) => sessions'[l] = sessions[l]
  <2>1. \A l \in Lessons : l \in StartedInRun(loc[r].run) <=> IsStarted(l)
    BY <1>1, <1>3
  <2>2. sessions' = [l \in Lessons |-> IF l \in StartedInRun(loc[r].run)
                                        THEN [sessions[l] EXCEPT !.status = "abandoned"]
                                        ELSE sessions[l]]
    BY <1>2 DEF AbandonedSessions
  <2>3. Lessons' = Lessons
    BY <2>2 DEF Lessons
  <2> QED  BY <2>1, <2>2, <2>3
<1> QED  BY <1>1, <1>2, <1>3, <1>4

-----------------------------------------------------------------------------
(* The inductive invariant.                                                *)

(* A session: an answer is logged exactly for the completed tasks; the     *)
(* tasks of a word are added one after the other; only primary tasks are   *)
(* skipped; a session is abandoned by the reset that ends its run.         *)
Follows(u, t) == u.word = t.word /\ u.nth > t.nth

TasksFollow(l) ==
    \A t, u \in Task :
        Follows(u, t) /\ sessions[l].tasks[u] # "absent" => sessions[l].tasks[t] # "absent"

SessionOK(l) ==
    /\ \A t \in Task : sessions[l].tasks[t] = "completed" <=> Logged(l, t)
    /\ TasksFollow(l)
    /\ \A t \in Task : sessions[l].tasks[t] = "skipped" => Primary(t)
    /\ sessions[l].status = "abandoned" => sessions[l].run < course.run

(* What a request knows of the session it works on.  While the task of an  *)
(* answer is pending it stays the first one, and the tasks planned for     *)
(* after it can still be added; while a lesson is started, what was to be  *)
(* skipped of it includes all that can be; and a reply stays true.         *)
Addable(l, u) ==
    /\ sessions[l].tasks[u] = "absent"
    /\ \A t \in Task : Follows(u, t) => sessions[l].tasks[t] # "absent"

PlanPoints == {"submit_state", "submit_recheck", "submit_record"}
SkipPoints == {"complete_next", "complete_recheck", "complete_commit"}

KnowsTasks(p, m) ==
    /\ p = "start_create" => \A t \in m.tasks : Primary(t)
    /\ p \in SubmitPoints => sessions[m.lesson].tasks[m.task] # "absent"
    /\ p \in PlanPoints => m.score # "none" /\ \A u \in m.tasks : ~Primary(u)
    /\ p \in {"submit_recheck", "submit_record"} => sessions[m.lesson].run <= m.row.run

KnowsPlan(p, m) ==
    /\ p \in PlanPoints
    /\ sessions[m.lesson].status = "started"
    /\ sessions[m.lesson].tasks[m.task] = "pending"
    => /\ sessions[m.lesson].first = m.task
       /\ m.tasks \in PlannedTasks(m.lesson, m.task, m.score)
       /\ \A u \in m.tasks : Addable(m.lesson, u)

KnowsSkips(p, m) ==
    p \in SkipPoints /\ sessions[m.lesson].status = "started" =>
        \A t \in Task : Primary(t) /\ sessions[m.lesson].tasks[t] = "pending" => t \in m.tasks

KnowsReply(p, m) ==
    /\ p = "submit_reply" =>
          /\ m.lesson \in Lessons /\ m.task \in Task
          /\ m.score # "none"
          /\ sessions[m.lesson].score[m.task] = m.score
    /\ p = "complete_reply" =>
          /\ m.lesson \in Lessons
          /\ sessions[m.lesson].status = "completed"
          /\ m.lesson < m.target
    /\ p = "reset_reply" =>
          /\ m.token \in DOMAIN resets
          /\ resets[m.token] = [fromRun |-> m.run, runLesson |-> m.start,
                                toLesson |-> m.target, abandoned |-> m.abandoned]

Knows(p, m) == KnowsTasks(p, m) /\ KnowsPlan(p, m) /\ KnowsSkips(p, m) /\ KnowsReply(p, m)

HInv ==
    /\ IInv
    /\ \A l \in Lessons : SessionOK(l)
    /\ \A r \in Requests : Knows(at[r], loc[r])

-----------------------------------------------------------------------------
(* How a session changes while requests remember it.                       *)
Advances(l) ==
    LET old == sessions[l]
        new == sessions'[l]
    IN  /\ new.run = old.run
        /\ new.status = "started" => old.status = "started"
        /\ old.status = "completed" => new.status = "completed"
        /\ \A t \in Task :
              /\ old.score[t] # "none" => new.score[t] = old.score[t]
              /\ old.tasks[t] # "absent" => new.tasks[t] # "absent"
              /\ new.tasks[t] = "pending" /\ (old.tasks[t] # "absent" \/ Primary(t)) =>
                    old.tasks[t] = "pending"
        /\ new.status = "started" =>
              new = old \/ (old.first \in Task /\ new.tasks[old.first] # "pending")

LEMMA UnchangedAdvances ==
    ASSUME NEW l, sessions'[l] = sessions[l]
    PROVE  Advances(l)
BY DEF Advances

LEMMA TasksKnowledgeLasts ==
    ASSUME NEW p, NEW m \in Local, LocalOK(p, m), KnowsTasks(p, m),
           \A l \in Lessons : Advances(l)
    PROVE  /\ p = "start_create" => \A t \in m.tasks : Primary(t)
           /\ p \in SubmitPoints => sessions'[m.lesson].tasks[m.task] # "absent"
           /\ p \in PlanPoints => m.score # "none" /\ \A u \in m.tasks : ~Primary(u)
           /\ p \in {"submit_recheck", "submit_record"} =>
                 sessions'[m.lesson].run <= m.row.run
<1>1. CASE p \in SubmitPoints
  <2>1. m.lesson \in Lessons /\ m.task \in Task
    BY <1>1 DEF LocalOK
  <2>2. /\ sessions'[m.lesson].run = sessions[m.lesson].run
        /\ sessions[m.lesson].tasks[m.task] # "absent" =>
              sessions'[m.lesson].tasks[m.task] # "absent"
    BY <2>1 DEF Advances
  <2> QED  BY <1>1, <2>2 DEF KnowsTasks
<1>2. CASE p \notin SubmitPoints
  BY <1>2 DEF KnowsTasks, SubmitPoints, PlanPoints
<1> QED  BY <1>1, <1>2

LEMMA PlannedTasksStay ==
    ASSUME NEW l, NEW t, NEW score, sessions'[l] = sessions[l]
    PROVE  PlannedTasks(l, t, score)' = PlannedTasks(l, t, score)
BY DEF PlannedTasks, RepeatableWords, NextTask, TaskCount, TasksOf

LEMMA PlanKnowledgeLasts ==
    ASSUME NEW p, NEW m \in Local, LocalOK(p, m), KnowsTasks(p, m), KnowsPlan(p, m),
           \A l \in Lessons : Advances(l),
           p \in PlanPoints,
           sessions'[m.lesson].status = "started",
           sessions'[m.lesson].tasks[m.task] = "pending"
    PROVE  /\ sessions'[m.lesson].first = m.task
           /\ m.tasks \in PlannedTasks(m.lesson, m.task, m.score)'
           /\ \A u \in m.tasks : /\ sessions'[m.lesson].tasks[u] = "absent"
                                 /\ \A t \in Task : Follows(u, t) =>
                                        sessions'[m.lesson].tasks[t] # "absent"
<1>1. p \in SubmitPoints
  BY DEF PlanPoints, SubmitPoints
<1>2. m.lesson \in Lessons /\ m.task \in Task
  BY <1>1 DEF LocalOK
<1>3. Advances(m.lesson)
  BY <1>2
<1>4. sessions[m.lesson].tasks[m.task] # "absent"
  BY <1>1 DEF KnowsTasks
<1>5. sessions[m.lesson].status = "started" /\ sessions[m.lesson].tasks[m.task] = "pending"
  BY <1>2, <1>3, <1>4 DEF Advances
<1>6. /\ sessions[m.lesson].first = m.task
      /\ m.tasks \in PlannedTasks(m.lesson, m.task, m.score)
      /\ \A u \in m.tasks : Addable(m.lesson, u)
  BY <1>5 DEF KnowsPlan
<1>7. sessions'[m.lesson] = sessions[m.lesson]
  BY <1>2, <1>3, <1>6 DEF Advances
<1> QED  BY <1>6, <1>7, PlannedTasksStay DEF Addable

LEMMA SkipKnowledgeLasts ==
    ASSUME NEW p, NEW m \in Local, LocalOK(p, m), KnowsSkips(p, m),
           \A l \in Lessons : Advances(l),
           p \in SkipPoints, sessions'[m.lesson].status = "started",
           NEW t \in Task, Primary(t), sessions'[m.lesson].tasks[t] = "pending"
    PROVE  t \in m.tasks
<1>1. m.lesson \in Lessons
  BY DEF LocalOK, SkipPoints, CompletePoints
<1>2. Advances(m.lesson)
  BY <1>1
<1>3. sessions[m.lesson].status = "started" /\ sessions[m.lesson].tasks[t] = "pending"
  BY <1>2 DEF Advances
<1> QED  BY <1>3 DEF KnowsSkips

LEMMA ReplyKnowledgeLasts ==
    ASSUME NEW p, NEW m \in Local, KnowsReply(p, m),
           Lessons \subseteq Lessons',
           \A l \in Lessons : Advances(l),
           \A k \in DOMAIN resets : k \in DOMAIN resets' /\ resets'[k] = resets[k]
    PROVE  /\ p = "submit_reply" =>
                /\ m.lesson \in Lessons' /\ m.task \in Task
                /\ m.score # "none"
                /\ sessions'[m.lesson].score[m.task] = m.score
           /\ p = "complete_reply" =>
                /\ m.lesson \in Lessons'
                /\ sessions'[m.lesson].status = "completed"
                /\ m.lesson < m.target
           /\ p = "reset_reply" =>
                /\ m.token \in DOMAIN resets'
                /\ resets'[m.token] = [fromRun |-> m.run, runLesson |-> m.start,
                                       toLesson |-> m.target, abandoned |-> m.abandoned]
<1>1. CASE p = "submit_reply"
  <2>1. m.lesson \in Lessons /\ m.task \in Task
    BY <1>1 DEF KnowsReply
  <2>2. Advances(m.lesson)
    BY <2>1
  <2> QED  BY <1>1, <2>1, <2>2 DEF KnowsReply, Advances
<1>2. CASE p = "complete_reply"
  <2>1. m.lesson \in Lessons
    BY <1>2 DEF KnowsReply
  <2>2. Advances(m.lesson)
    BY <2>1
  <2> QED  BY <1>2, <2>1, <2>2 DEF KnowsReply, Advances
<1>3. CASE p = "reset_reply"
  BY <1>3 DEF KnowsReply
<1> QED  BY <1>1, <1>2, <1>3

(* A step that changes sessions only so leaves the knowledge of the other  *)
(* requests good.                                                          *)
LEMMA OthersStillKnow ==
    ASSUME HInv, NEW r \in Requests, NEW p, NEW m, Goto(r, p, m), Knows(at[r], loc[r])',
           Lessons \subseteq Lessons',
           \A l \in Lessons : Advances(l),
           \A k \in DOMAIN resets : k \in DOMAIN resets' /\ resets'[k] = resets[k]
    PROVE  \A q \in Requests : Knows(at[q], loc[q])'
<1> SUFFICES ASSUME NEW q \in Requests, q # r
             PROVE  Knows(at[q], loc[q])'
  OBVIOUS
<1>1. /\ at'[q] = at[q] /\ loc'[q] = loc[q]
      /\ loc[q] \in Local /\ LocalOK(at[q], loc[q]) /\ Knows(at[q], loc[q])
  BY DEF HInv, IInv, TypeOK, RequestsAreBehind, Goto
<1>2. KnowsTasks(at[q], loc[q])'
  BY <1>1, TasksKnowledgeLasts DEF Knows, KnowsTasks
<1>3. KnowsPlan(at[q], loc[q])'
  BY <1>1, PlanKnowledgeLasts DEF Knows, KnowsPlan, Addable
<1>4. KnowsSkips(at[q], loc[q])'
  BY <1>1, SkipKnowledgeLasts DEF Knows, KnowsSkips
<1>5. KnowsReply(at[q], loc[q])'
  BY <1>1, ReplyKnowledgeLasts DEF Knows, KnowsReply, Lessons
<1> QED  BY <1>2, <1>3, <1>4, <1>5 DEF Knows

-----------------------------------------------------------------------------
(* The steps that only read.  Each lemma assumes what NextIInv proves of   *)
(* the step.                                                               *)

LEMMA KnowledgeStays ==
    ASSUME NEW p, NEW m, Knows(p, m), sessions' = sessions, resets' = resets
    PROVE  Knows(p, m)'
<1>1. Lessons' = Lessons
  BY DEF Lessons
<1>2. PlannedTasks(m.lesson, m.task, m.score)' = PlannedTasks(m.lesson, m.task, m.score)
  BY PlannedTasksStay
<1> QED  BY <1>1, <1>2 DEF Knows, KnowsTasks, KnowsPlan, KnowsSkips, KnowsReply, Addable

LEMMA HReadStep ==
    ASSUME HInv, IInv', NEW r \in Requests, NEW p, NEW m, Goto(r, p, m), Knows(p, m),
           UNCHANGED db
    PROVE  HInv'
<1>1. course' = course /\ sessions' = sessions /\ resets' = resets /\ Lessons' = Lessons
  BY DEF db, Lessons
<1>2. \A l \in Lessons' : SessionOK(l)'
  BY <1>1 DEF HInv, SessionOK, TasksFollow, Logged
<1>3. Knows(at[r], loc[r])'
  <2>1. at'[r] = p /\ loc'[r] = m
    BY DEF HInv, IInv, TypeOK, Goto
  <2>2. Knows(p, m)'
    BY <1>1, KnowledgeStays
  <2> QED  BY <2>1, <2>2 DEF Knows, KnowsTasks, KnowsPlan, KnowsSkips, KnowsReply, Addable,
                             Lessons
<1>4. \A l \in Lessons : Advances(l)
  BY <1>1, UnchangedAdvances
<1>5. \A q \in Requests : Knows(at[q], loc[q])'
  BY <1>1, <1>3, <1>4, OthersStillKnow
<1> QED  BY <1>2, <1>5 DEF HInv

(* Most points need no knowledge of a session.                             *)
KnowingPoints == {"start_create"} \cup SubmitPoints \cup SkipPoints
                   \cup {"submit_reply", "complete_reply", "reset_reply"}

LEMMA NothingToKnow ==
    ASSUME NEW p, NEW m, p \notin KnowingPoints
    PROVE  Knows(p, m)
BY DEF Knows, KnowsTasks, KnowsPlan, KnowsSkips, KnowsReply, KnowingPoints, SubmitPoints,
       SkipPoints, PlanPoints

LEMMA QuietPoints ==
    ASSUME NEW p \in {"idle", "start_existing", "start_states", "start_advance",
                      "start_reread", "start_winner", "start_reply", "complete_queue",
                      "complete_outcome", "reset_existing", "reset_course", "reset_stats",
                      "reset_commit", "reset_failed"}
    PROVE  p \notin KnowingPoints
BY DEF KnowingPoints, SubmitPoints, SkipPoints

LEMMA HQuietStep ==
    ASSUME HInv, IInv', NEW r \in Requests, NEW p, NEW m, Goto(r, p, m),
           p \in {"idle", "start_existing", "start_states", "start_advance",
                  "start_reread", "start_winner", "start_reply", "complete_queue",
                  "complete_outcome", "reset_existing", "reset_course", "reset_stats",
                  "reset_commit", "reset_failed"},
           UNCHANGED db
    PROVE  HInv'
BY QuietPoints, NothingToKnow, HReadStep

LEMMA HFailStep ==
    ASSUME HInv, IInv', NEW r \in Requests, Fail(r), UNCHANGED db
    PROVE  HInv'
BY HQuietStep DEF Fail

LEMMA HStartReadStep ==
    ASSUME HInv, IInv', NEW r \in Requests,
           StartLesson(r) \/ GetStartedLesson(r) \/ PlanLesson(r)
             \/ RereadAdvancedCourse(r) \/ ReturnWinner(r)
    PROVE  HInv'
<1>1. CASE StartLesson(r) \/ GetStartedLesson(r) \/ RereadAdvancedCourse(r) \/ ReturnWinner(r)
  BY <1>1, HQuietStep, HFailStep
     DEF StartLesson, GetStartedLesson, RereadAdvancedCourse, ReturnWinner
<1>2. CASE PlanLesson(r)
  <2>1. at[r] = "start_states" /\ UNCHANGED db /\ loc[r] \in Local
    BY <1>2, Known DEF PlanLesson, HInv
  <2>2. ASSUME NEW x \in LessonPlan(loc[r].lesson),
               Goto(r, "start_create",
                    [loc[r] EXCEPT
                       !.tasks = {PrimaryTask(w) : w \in x.review \cup x.fresh},
                       !.words = x.fresh])
        PROVE  HInv'
    <3> DEFINE m == [loc[r] EXCEPT
                       !.tasks = {PrimaryTask(w) : w \in x.review \cup x.fresh},
                       !.words = x.fresh]
    <3>1. \A t \in m.tasks : Primary(t)
      BY <2>1 DEF Local, PrimaryTask, Primary
    <3> HIDE DEF m
    <3>2. Knows("start_create", m)
      BY <3>1 DEF Knows, KnowsTasks, KnowsPlan, KnowsSkips, KnowsReply, SubmitPoints,
                  SkipPoints, PlanPoints
    <3>3. Goto(r, "start_create", m)
      BY <2>2 DEF m
    <3> QED  BY <2>1, <3>2, <3>3, HReadStep
  <2> QED  BY <1>2, <2>1, <2>2, HQuietStep, HFailStep DEF PlanLesson
<1> QED  BY <1>1, <1>2

(* The reply to an answer that the log holds.                              *)
LEMMA HAnswerReplyStep ==
    ASSUME HInv, IInv', NEW r \in Requests, at[r] \in SubmitPoints,
           Logged(loc[r].lesson, loc[r].task), UNCHANGED db,
           Goto(r, "submit_reply",
                [loc[r] EXCEPT !.score = sessions[loc[r].lesson].score[loc[r].task]])
    PROVE  HInv'
<1> DEFINE m == [loc[r] EXCEPT !.score = sessions[loc[r].lesson].score[loc[r].task]]
<1>1. /\ loc[r] \in Local /\ loc[r].lesson \in Lessons /\ loc[r].task \in Task
  BY Known DEF HInv, LocalOK
<1>2. /\ m.lesson = loc[r].lesson /\ m.task = loc[r].task
      /\ m.score = sessions[loc[r].lesson].score[loc[r].task]
  BY <1>1 DEF Local
<1> HIDE DEF m
<1>3. Knows("submit_reply", m)
  BY <1>1, <1>2 DEF Knows, KnowsTasks, KnowsPlan, KnowsSkips, KnowsReply, SubmitPoints,
                    SkipPoints, PlanPoints, Logged
<1>4. Goto(r, "submit_reply", m)
  BY DEF m
<1> QED  BY <1>3, <1>4, HReadStep

(* The tasks of a word in a session are numbered without a gap, so that    *)
(* the planner's next task of a word is the first one that is absent.      *)
LEMMA NextTaskAddable ==
    ASSUME NEW l \in Lessons, TasksFollow(l), NEW w \in Words,
           sessions[l].tasks[PrimaryTask(w)] # "absent",
           TaskCount(l, w) < MaxTasksPerWord
    PROVE  ~Primary(NextTask(l, w)) /\ Addable(l, NextTask(l, w))
<1> DEFINE D == {t \in Task : t.word = w /\ sessions[l].tasks[t] # "absent"}
           N == {t.nth : t \in D}
           c == Cardinality(D)
           f == [t \in D |-> t.nth]
<1>1. N \subseteq 0 .. MaxTasksPerWord - 1
  BY DEF Task
<1>2. IsFiniteSet(N)
  <2>1. IsFiniteSet(0 .. MaxTasksPerWord - 1)
    BY BoundsAssumption, FS_Interval
  <2> QED  BY <1>1, <2>1, FS_Subset
<1>3. f \in Bijection(D, N)
  <2>1. \A t, u \in D : t.nth = u.nth => t = u
    BY DEF Task
  <2> QED  BY <2>1 DEF Bijection, Injection, Surjection, IsInjective
<1>4. IsFiniteSet(D) /\ Cardinality(N) = c /\ c \in Nat
  <2> HIDE DEF D, N, f
  <2>1. IsFiniteSet(D) /\ Cardinality(D) <= Cardinality(N)
    <3>1. f \in Injection(D, N)
      BY <1>3 DEF Bijection
    <3> QED  BY <1>2, <3>1, FS_Injection
  <2>2. Cardinality(N) = Cardinality(D)
    BY <1>3, <2>1, FS_Bijection DEF ExistsBijection
  <2> QED  BY <2>1, <2>2, FS_CardinalityType
<1>5. c = TaskCount(l, w)
  BY DEF TaskCount, CountOf
<1>6. c < MaxTasksPerWord
  BY <1>5
<1> DEFINE T(i) == [word |-> w, nth |-> i]
<1>7. \A i \in 0 .. MaxTasksPerWord - 1 : T(i) \in Task
  BY DEF Task
<1>8. \A i, j \in Nat : i <= j /\ j \in N => i \in N
  <2> SUFFICES ASSUME NEW i \in Nat, NEW j \in Nat, i < j, j \in N
               PROVE  i \in N
    OBVIOUS
  <2>1. PICK u \in D : u.nth = j
    OBVIOUS
  <2>2. T(i) \in Task /\ Follows(u, T(i))
    <3> HIDE DEF N
    <3>1. j \in 0 .. MaxTasksPerWord - 1
      BY <1>1
    <3>2. i \in 0 .. MaxTasksPerWord - 1
      BY <3>1, BoundsAssumption
    <3> QED  BY <1>7, <2>1, <3>2 DEF Follows
  <2>3. T(i) \in D
    BY <2>1, <2>2 DEF TasksFollow
  <2> QED  BY <2>3
<1>9. c \notin N
  <2> SUFFICES ASSUME c \in N PROVE FALSE
    OBVIOUS
  <2> HIDE DEF N, D, c
  <2>1. 0 .. c \subseteq N
    BY <1>4, <1>8
  <2>2. Cardinality(0 .. c) = c + 1
    BY <1>4, FS_Interval
  <2>3. Cardinality(0 .. c) <= Cardinality(N)
    BY <1>2, <2>1, FS_Subset
  <2> QED  BY <1>4, <2>2, <2>3
<1>10. N \subseteq 0 .. c - 1
  <2> HIDE DEF N, D, c
  <2> QED  BY <1>1, <1>4, <1>8, <1>9
<1>11. N = 0 .. c - 1
  <2> HIDE DEF N, D, c
  <2>1. Cardinality(0 .. c - 1) = c /\ IsFiniteSet(0 .. c - 1)
    BY <1>4, FS_Interval
  <2> QED  BY <1>4, <1>10, <2>1, FS_Subset
<1>12. c > 0
  <2>1. PrimaryTask(w) \in D /\ PrimaryTask(w).nth = 0
    BY BoundsAssumption DEF PrimaryTask, Task
  <2>2. 0 \in N
    BY <2>1
  <2> HIDE DEF N, D, c
  <2> QED  BY <1>4, <1>11, <2>2
<1>13. NextTask(l, w) = T(c) /\ T(c) \in Task
  <2> HIDE DEF D, c
  <2>1. c \in 0 .. MaxTasksPerWord - 1
    BY <1>4, <1>6, BoundsAssumption
  <2> QED  BY <1>5, <1>7, <2>1 DEF NextTask
<1>14. T(c) \notin D
  <2>1. T(c) \in D => T(c).nth \in N
    OBVIOUS
  <2> HIDE DEF D, N, c
  <2> QED  BY <1>9, <2>1
<1>15. \A t \in Task : Follows(T(c), t) => t \in D
  <2> SUFFICES ASSUME NEW t \in Task, Follows(T(c), t) PROVE t \in D
    OBVIOUS
  <2>1. t.word = w /\ t.nth < c /\ t.nth \in Nat
    BY BoundsAssumption DEF Follows, Task
  <2>2. t.nth \in N
    <3> HIDE DEF N, D, c
    <3> QED  BY <1>4, <1>11, <2>1
  <2>3. PICK u \in D : u.nth = t.nth
    BY <2>2
  <2>4. u = t
    BY <2>1, <2>3 DEF Task
  <2> QED  BY <2>4
<1> QED  BY <1>12, <1>13, <1>14, <1>15 DEF Addable, Primary

(* An answer on its way needs to know that its task exists.                *)
LEMMA KnowsSubmitted ==
    ASSUME NEW p \in SubmitPoints \ PlanPoints, NEW m,
           sessions[m.lesson].tasks[m.task] # "absent"
    PROVE  Knows(p, m)
BY DEF Knows, KnowsTasks, KnowsPlan, KnowsSkips, KnowsReply, SubmitPoints, SkipPoints,
       PlanPoints

LEMMA KnowsPlanned ==
    ASSUME HInv, NEW m, NEW l \in Lessons, NEW t \in Task, NEW score \in {"pass", "fail"},
           NEW new \in PlannedTasks(l, t, score),
           m.lesson = l, m.task = t, m.score = score, m.tasks = new,
           sessions[l].tasks[t] # "absent", sessions[l].first = t
    PROVE  Knows("submit_state", m)
<1>1. \A u \in new : ~Primary(u) /\ Addable(l, u)
  <2>1. PICK W \in SUBSET RepeatableWords(l, t) : new = {NextTask(l, w) : w \in W}
    BY DEF PlannedTasks
  <2>2. ASSUME NEW w \in W
        PROVE  ~Primary(NextTask(l, w)) /\ Addable(l, NextTask(l, w))
    <3>1. /\ w \in Words /\ TaskCount(l, w) < MaxTasksPerWord
          /\ sessions[l].tasks[PrimaryTask(w)] = "completed" \/ t = PrimaryTask(w)
      BY DEF RepeatableWords
    <3>2. TasksFollow(l) /\ sessions[l].tasks[PrimaryTask(w)] # "absent"
      BY <3>1 DEF HInv, SessionOK
    <3> QED  BY <3>1, <3>2, NextTaskAddable
  <2> QED  BY <2>1, <2>2
<1>2. KnowsTasks("submit_state", m) /\ KnowsPlan("submit_state", m)
  BY <1>1 DEF KnowsTasks, KnowsPlan, SubmitPoints, PlanPoints
<1> QED  BY <1>2 DEF Knows, KnowsSkips, KnowsReply, SkipPoints

LEMMA KnowsRow ==
    ASSUME NEW m \in Local, Knows("submit_state", m), NEW row,
           sessions[m.lesson].run <= row.run
    PROVE  Knows("submit_recheck", [m EXCEPT !.row = row])
<1> DEFINE n == [m EXCEPT !.row = row]
<1>1. /\ n.lesson = m.lesson /\ n.task = m.task /\ n.tasks = m.tasks /\ n.score = m.score
      /\ n.row = row
  BY DEF Local
<1> HIDE DEF n
<1>2. Knows("submit_recheck", n)
  BY <1>1 DEF Knows, KnowsTasks, KnowsPlan, KnowsSkips, KnowsReply, SubmitPoints, SkipPoints,
              PlanPoints
<1> QED  BY <1>2 DEF n

LEMMA HSubmitReadStep ==
    ASSUME HInv, IInv', NEW r \in Requests,
           \/ \E l \in Lessons, t \in Task : SubmitAnswer(r, l, t)
           \/ GetSubmittedAnswer(r) \/ ReadQueueSnapshot(r) \/ ReturnRacedAnswer(r)
           \/ ReadWordState(r) \/ RecheckSubmittedAnswer(r) \/ ReturnRecordedAnswer(r)
           \/ RecordAnswer(r) /\ ~MayInsertLog(r)
    PROVE  HInv'
<1>0. loc[r] \in Local /\ LocalOK(at[r], loc[r]) /\ Knows(at[r], loc[r])
  BY Known DEF HInv
<1>1. ASSUME at[r] \in SubmitPoints
      PROVE  /\ loc[r].lesson \in Lessons /\ loc[r].task \in Task
             /\ sessions[loc[r].lesson].tasks[loc[r].task] # "absent"
  BY <1>0, <1>1 DEF LocalOK, Knows, KnowsTasks
<1>2. {"submit_existing", "submit_snapshot", "submit_raced", "submit_outcome"}
        \subseteq SubmitPoints \ PlanPoints
  BY DEF SubmitPoints, PlanPoints
<1>3. ASSUME at[r] \in SubmitPoints, UNCHANGED db,
             NEW p \in {"submit_snapshot", "submit_raced", "submit_outcome"},
             Goto(r, p, loc[r])
      PROVE  HInv'
  BY <1>1, <1>2, <1>3, KnowsSubmitted, HReadStep
<1>4. CASE \E l \in Lessons, t \in Task : SubmitAnswer(r, l, t)
  <2>1. PICK l \in Lessons, t \in Task : SubmitAnswer(r, l, t)
    BY <1>4
  <2> DEFINE m == [Nothing EXCEPT !.lesson = l, !.task = t]
  <2>2. m.lesson = l /\ m.task = t
    BY DEF Nothing
  <2>3. sessions[l].tasks[t] # "absent"
    BY <2>1 DEF SubmitAnswer, TasksOf
  <2>4. Goto(r, "submit_existing", m) /\ UNCHANGED db
    BY <2>1 DEF SubmitAnswer
  <2> HIDE DEF m
  <2>5. Knows("submit_existing", m)
    BY <1>2, <2>2, <2>3, KnowsSubmitted
  <2> QED  BY <2>4, <2>5, HReadStep
<1>5. CASE GetSubmittedAnswer(r)
  <2>1. at[r] \in SubmitPoints /\ UNCHANGED db
    BY <1>5 DEF GetSubmittedAnswer, SubmitPoints
  <2> QED  BY <1>3, <1>5, <2>1, HFailStep, HAnswerReplyStep DEF GetSubmittedAnswer, AnswerOr
<1>6. CASE ReadQueueSnapshot(r)
  <2>1. at[r] \in SubmitPoints /\ UNCHANGED db
    BY <1>6 DEF ReadQueueSnapshot, SubmitPoints
  <2>2. ASSUME sessions[loc[r].lesson].first = loc[r].task,
               NEW score \in {"pass", "fail"},
               NEW new \in PlannedTasks(loc[r].lesson, loc[r].task, score),
               Goto(r, "submit_state", [loc[r] EXCEPT !.score = score, !.tasks = new])
        PROVE  HInv'
    <3> DEFINE m == [loc[r] EXCEPT !.score = score, !.tasks = new]
    <3>1. /\ m.lesson = loc[r].lesson /\ m.task = loc[r].task
          /\ m.score = score /\ m.tasks = new
      BY <1>0 DEF Local
    <3>2. Goto(r, "submit_state", m)
      BY <2>2
    <3> HIDE DEF m
    <3>3. Knows("submit_state", m)
      BY <1>1, <2>1, <2>2, <3>1, KnowsPlanned
    <3> QED  BY <2>1, <3>2, <3>3, HReadStep
  <2> QED  BY <1>3, <1>6, <2>1, <2>2 DEF ReadQueueSnapshot
<1>7. CASE ReturnRacedAnswer(r)
  <2>1. at[r] \in SubmitPoints /\ UNCHANGED db
    BY <1>7 DEF ReturnRacedAnswer, SubmitPoints
  <2> QED  BY <1>7, <2>1, HFailStep, HAnswerReplyStep DEF ReturnRacedAnswer, AnswerOr
<1>8. CASE ReadWordState(r)
  <2>1. at[r] = "submit_state" /\ at[r] \in SubmitPoints /\ UNCHANGED db
    BY <1>8 DEF ReadWordState, SubmitPoints
  <2> DEFINE row == CurrentRow(loc[r].task.word)
  <2>2. loc[r].task.word \in Words /\ loc[r].lesson \in Nat
    BY <1>0, <1>1, <2>1 DEF Task, Local
  <2>3. row \in Row
    BY <2>2, CurrentRowType DEF HInv
  <2>4. row # NoRow => row.run = course.run
    BY DEF CurrentRow
  <2>5. sessions[loc[r].lesson].run <= course.run
    BY <1>1, <2>1 DEF HInv, IInv, RunsAreFenced
  <2>6. ASSUME row # NoRow,
               NEW u \in UpdatedRows(row, loc[r].lesson, loc[r].task, loc[r].score),
               Goto(r, "submit_recheck", [loc[r] EXCEPT !.row = u])
        PROVE  HInv'
    <3> HIDE DEF row
    <3>1. u.run = row.run
      BY <2>2, <2>3, <2>6, UpdatedRowsType
    <3>2. Knows("submit_recheck", [loc[r] EXCEPT !.row = u])
      BY <1>0, <2>1, <2>4, <2>5, <2>6, <3>1, KnowsRow
    <3> QED  BY <2>1, <2>6, <3>2, HReadStep
  <2> QED  BY <1>8, <2>1, <2>6, HFailStep DEF ReadWordState
<1>9. CASE RecheckSubmittedAnswer(r)
  <2>1. at[r] = "submit_recheck" /\ at[r] \in SubmitPoints /\ UNCHANGED db
    BY <1>9 DEF RecheckSubmittedAnswer, SubmitPoints
  <2>2. Knows("submit_record", loc[r])
    BY <1>0, <2>1 DEF Knows, KnowsTasks, KnowsPlan, KnowsSkips, KnowsReply, SubmitPoints,
                      SkipPoints, PlanPoints
  <2> QED  BY <1>9, <2>1, <2>2, HReadStep, HFailStep, HAnswerReplyStep
              DEF RecheckSubmittedAnswer, AnswerOr
<1>10. CASE ReturnRecordedAnswer(r)
  <2>1. at[r] \in SubmitPoints /\ UNCHANGED db
    BY <1>10 DEF ReturnRecordedAnswer, SubmitPoints
  <2> QED  BY <1>10, <2>1, HFailStep, HAnswerReplyStep DEF ReturnRecordedAnswer, AnswerOr
<1>11. CASE RecordAnswer(r) /\ ~MayInsertLog(r)
  BY <1>3, <1>11 DEF RecordAnswer, SubmitPoints, db
<1> QED  BY <1>4, <1>5, <1>6, <1>7, <1>8, <1>9, <1>10, <1>11

LEMMA HCompleteReadStep ==
    ASSUME HInv, IInv', NEW r \in Requests,
           \/ \E l \in Lessons : CompleteLesson(r, l)
           \/ DecideCompletion(r) \/ ResolveNextLessonNo(r) \/ RecheckCompletion(r)
           \/ ReturnCompletion(r)
           \/ CommitCompletion(r) /\ ~MayComplete(loc[r].lesson)
    PROVE  HInv'
<1>0. loc[r] \in Local /\ LocalOK(at[r], loc[r]) /\ Knows(at[r], loc[r])
  BY Known DEF HInv
<1>1. ASSUME at[r] \in CompletePoints
      PROVE  loc[r].lesson \in Lessons
  BY <1>0, <1>1 DEF LocalOK
<1>2. ASSUME NEW p \in SkipPoints, NEW m, KnowsSkips(p, m)
      PROVE  Knows(p, m)
  BY <1>2 DEF Knows, KnowsTasks, KnowsPlan, KnowsReply, SkipPoints, SubmitPoints, PlanPoints
<1>3. ASSUME at[r] \in CompletePoints, UNCHANGED db,
             sessions[loc[r].lesson].status = "completed",
             Goto(r, "complete_reply", [loc[r] EXCEPT !.target = course.lesson])
      PROVE  HInv'
  <2> DEFINE m == [loc[r] EXCEPT !.target = course.lesson]
  <2>1. m.lesson = loc[r].lesson /\ m.target = course.lesson
    BY <1>0 DEF Local
  <2>2. loc[r].lesson \in Lessons /\ loc[r].lesson < course.lesson
    BY <1>1, <1>3 DEF HInv, IInv, CourseIsPastCompletedLessons
  <2> HIDE DEF m
  <2>3. Knows("complete_reply", m)
    BY <1>3, <2>1, <2>2 DEF Knows, KnowsTasks, KnowsPlan, KnowsSkips, KnowsReply,
                            SubmitPoints, SkipPoints, PlanPoints
  <2> QED  BY <1>3, <2>3, HReadStep DEF m
<1>4. CASE \E l \in Lessons : CompleteLesson(r, l)
  <2>1. PICK l \in Lessons : CompleteLesson(r, l)
    BY <1>4
  <2> DEFINE asked == [Nothing EXCEPT !.lesson = l]
             again == [asked EXCEPT !.target = l + 1]
  <2>2. again.lesson = l
    BY DEF Nothing
  <2>3. \/ Goto(r, "complete_queue", asked) /\ UNCHANGED db
        \/ /\ sessions[l].status = "completed"
           /\ Goto(r, "complete_recheck", again) /\ UNCHANGED db
    BY <2>1 DEF CompleteLesson
  <2> HIDE DEF asked, again
  <2>4. sessions[l].status = "completed" => Knows("complete_recheck", again)
    BY <1>2, <2>2 DEF KnowsSkips, SkipPoints
  <2> QED  BY <2>3, <2>4, HQuietStep, HReadStep
<1>5. CASE DecideCompletion(r)
  <2> DEFINE m == [loc[r] EXCEPT !.tasks = SkippableTasks(loc[r].lesson)]
  <2>1. m.lesson = loc[r].lesson /\ m.tasks = SkippableTasks(loc[r].lesson)
    BY <1>0 DEF Local
  <2>2. UNCHANGED db /\ (Goto(r, "complete_next", m) \/ Fail(r))
    BY <1>5 DEF DecideCompletion
  <2> HIDE DEF m
  <2>3. Knows("complete_next", m)
    BY <1>2, <2>1 DEF KnowsSkips, SkipPoints, SkippableTasks, TasksOf
  <2> QED  BY <2>2, <2>3, HReadStep, HFailStep
<1>6. CASE ResolveNextLessonNo(r)
  <2>1. PICK n : Goto(r, "complete_recheck", [loc[r] EXCEPT !.target = n])
    BY <1>6 DEF ResolveNextLessonNo
  <2> DEFINE m == [loc[r] EXCEPT !.target = n]
  <2>2. m.lesson = loc[r].lesson /\ m.tasks = loc[r].tasks
    BY <1>0 DEF Local
  <2>3. at[r] = "complete_next" /\ UNCHANGED db /\ Goto(r, "complete_recheck", m)
    BY <1>6, <2>1 DEF ResolveNextLessonNo
  <2> HIDE DEF m
  <2>4. Knows("complete_recheck", m)
    BY <1>0, <1>2, <2>2, <2>3 DEF Knows, KnowsSkips, SkipPoints
  <2> QED  BY <2>3, <2>4, HReadStep
<1>7. CASE RecheckCompletion(r)
  <2>1. at[r] = "complete_recheck" /\ at[r] \in CompletePoints /\ UNCHANGED db
    BY <1>7 DEF RecheckCompletion, CompletePoints
  <2>2. Knows("complete_commit", loc[r])
    BY <1>0, <1>2, <2>1 DEF Knows, KnowsSkips, SkipPoints
  <2>3. CASE sessions[loc[r].lesson].status = "completed"
    BY <1>3, <1>7, <2>1, <2>3 DEF RecheckCompletion
  <2>4. CASE sessions[loc[r].lesson].status # "completed"
    <3>1. Goto(r, "complete_commit", loc[r]) \/ Fail(r)
      BY <1>7, <2>4 DEF RecheckCompletion
    <3> QED  BY <2>1, <2>2, <3>1, HReadStep, HFailStep
  <2> QED  BY <2>3, <2>4
<1>8. CASE ReturnCompletion(r)
  <2>1. at[r] \in CompletePoints /\ UNCHANGED db
    BY <1>8 DEF ReturnCompletion, CompletePoints
  <2> QED  BY <1>3, <1>8, <2>1, HFailStep DEF ReturnCompletion
<1>9. CASE CommitCompletion(r) /\ ~MayComplete(loc[r].lesson)
  BY <1>9, HQuietStep DEF CommitCompletion, db
<1> QED  BY <1>4, <1>5, <1>6, <1>7, <1>8, <1>9

(* The reply to a reset whose operation the ledger holds.                  *)
LEMMA HCommittedReplyStep ==
    ASSUME HInv, IInv', NEW r \in Requests, NEW asked \in Local, NEW token \in DOMAIN resets,
           asked.token = token, Matches(token, asked.run, asked.start),
           Goto(r, "reset_reply", CommittedReset(asked, token)), UNCHANGED db
    PROVE  HInv'
<1> DEFINE m == CommittedReset(asked, token)
<1>1. /\ m.token = token /\ m.run = asked.run /\ m.start = asked.start
      /\ m.target = resets[token].toLesson /\ m.abandoned = resets[token].abandoned
  BY DEF CommittedReset, Local
<1>2. resets[token] \in ResetOperation
  BY DEF HInv, IInv, TypeOK
<1> HIDE DEF m
<1>3. resets[token] = [fromRun |-> m.run, runLesson |-> m.start,
                       toLesson |-> m.target, abandoned |-> m.abandoned]
  BY <1>1, <1>2 DEF Matches, ResetOperation
<1>4. Knows("reset_reply", m)
  BY <1>1, <1>3 DEF Knows, KnowsTasks, KnowsPlan, KnowsSkips, KnowsReply, SubmitPoints,
                    SkipPoints, PlanPoints
<1> QED  BY <1>4, HReadStep DEF m

LEMMA HResetReadStep ==
    ASSUME HInv, IInv', NEW r \in Requests,
           \/ \E token \in Tokens, run \in 1 .. MaxRun - 1, lesson \in 1 .. MaxPlayed + 1 :
                 ResetCourseProgress(r, token, run, lesson)
           \/ FindCommittedReset(r) \/ ReadCourseToReset(r) \/ ReadResetStats(r)
           \/ ReturnCommittedReset(r)
           \/ CommitReset(r) /\ ~MayReset(r)
    PROVE  HInv'
<1>0. loc[r] \in Local
  BY Known DEF HInv
<1>1. CASE \E token \in Tokens, run \in 1 .. MaxRun - 1, lesson \in 1 .. MaxPlayed + 1 :
              ResetCourseProgress(r, token, run, lesson)
  <2>1. PICK token \in Tokens, run \in 1 .. MaxRun - 1, lesson \in 1 .. MaxPlayed + 1 :
          ResetCourseProgress(r, token, run, lesson)
    BY <1>1
  <2>2. run \in Nat /\ lesson \in Nat
    BY BoundsAssumption
  <2> DEFINE asked == [Nothing EXCEPT !.token = token, !.run = run, !.start = lesson]
  <2>3. asked \in Local
    BY <2>2, NothingIsLocal DEF Local
  <2>4. asked.token = token /\ asked.run = run /\ asked.start = lesson
    BY DEF Nothing
  <2>5. /\ UNCHANGED db
        /\ \/ Goto(r, "reset_existing", asked)
           \/ /\ token \in DOMAIN resets /\ Matches(token, run, lesson)
              /\ Goto(r, "reset_reply", CommittedReset(asked, token))
    BY <2>1 DEF ResetCourseProgress
  <2> HIDE DEF asked
  <2> QED  BY <2>3, <2>4, <2>5, HQuietStep, HCommittedReplyStep
<1>2. CASE FindCommittedReset(r)
  <2>1. CASE Goto(r, "reset_course", loc[r])
    BY <1>2, <2>1, HQuietStep DEF FindCommittedReset
  <2>2. CASE ~Goto(r, "reset_course", loc[r])
    BY <1>0, <1>2, <2>2, HFailStep, HCommittedReplyStep DEF FindCommittedReset, CommittedOr
  <2> QED  BY <2>1, <2>2
<1>3. CASE ReadCourseToReset(r) \/ ReadResetStats(r)
  BY <1>3, HQuietStep, HFailStep DEF ReadCourseToReset, ReadResetStats
<1>4. CASE ReturnCommittedReset(r)
  BY <1>0, <1>4, HFailStep, HCommittedReplyStep DEF ReturnCommittedReset, CommittedOr
<1>5. CASE CommitReset(r) /\ ~MayReset(r)
  BY <1>5, HQuietStep DEF CommitReset, db
<1> QED  BY <1>1, <1>2, <1>3, <1>4, <1>5

-----------------------------------------------------------------------------
(* The steps that write.                                                   *)

LEMMA SessionStaysOK ==
    ASSUME IInv, IInv', NEW l \in Lessons, SessionOK(l), sessions'[l] = sessions[l],
           course.run <= course'.run
    PROVE  SessionOK(l)'
<1>1. sessions[l].run \in Nat /\ course.run \in Nat /\ course'.run \in Nat
  BY DEF IInv, TypeOK, Session
<1>2. sessions[l].status = "abandoned" => sessions'[l].run < course'.run
  BY <1>1 DEF SessionOK
<1> QED  BY <1>2 DEF SessionOK, TasksFollow, Logged

LEMMA NothingToKnowNext ==
    ASSUME IInv, NEW r \in Requests, NEW p, NEW m, Goto(r, p, m), p \notin KnowingPoints
    PROVE  Knows(at[r], loc[r])'
<1>1. at'[r] = p /\ loc'[r] = m
  BY DEF IInv, TypeOK, Goto
<1> QED  BY <1>1 DEF Knows, KnowsTasks, KnowsPlan, KnowsSkips, KnowsReply, KnowingPoints,
                     SubmitPoints, SkipPoints, PlanPoints

LEMMA HAdvanceStep ==
    ASSUME HInv, IInv', NEW r \in Requests, AdvanceCourseLessonNo(r)
    PROVE  HInv'
<1>1. /\ Goto(r, "start_reread", loc[r])
      /\ sessions' = sessions /\ resets' = resets /\ Lessons' = Lessons
  BY DEF AdvanceCourseLessonNo, Lessons
<1>2. course'.run = course.run /\ course.run \in Nat
  BY DEF AdvanceCourseLessonNo, HInv, IInv, TypeOK
<1>3. Knows(at[r], loc[r])'
  BY <1>1, QuietPoints, NothingToKnowNext DEF HInv
<1>4. \A l \in Lessons : Advances(l)
  BY <1>1, UnchangedAdvances
<1>5. \A q \in Requests : Knows(at[q], loc[q])'
  BY <1>1, <1>3, <1>4, OthersStillKnow
<1>6. \A l \in Lessons' : SessionOK(l)'
  BY <1>1, <1>2, SessionStaysOK DEF HInv
<1> QED  BY <1>5, <1>6 DEF HInv

(* A new session holds pending primary tasks and nothing else.             *)
LEMMA HCreateStep ==
    ASSUME HInv, IInv', NEW r \in Requests, CreateLesson(r)
    PROVE  HInv'
<1>1. CASE ~MayInsertSession(r)
  BY <1>1, HQuietStep DEF CreateLesson, db
<1>2. CASE MayInsertSession(r)
  <2>0. PICK n : n = loc[r].lesson
    OBVIOUS
  <2>1. /\ Lessons' = Lessons \cup {n}
        /\ \A l \in Lessons : sessions'[l] = sessions[l]
        /\ course' = course /\ resets' = resets
        /\ Goto(r, "start_reply", loc[r])
    BY <2>0, <1>2, CreateEffect DEF HInv
  <2>2. PICK first \in loc[r].tasks : sessions'[n] = NewSession(r, first)
    BY <2>0, <1>2, CreateEffect DEF HInv
  <2>3. Knows(at[r], loc[r])'
    BY <2>1, QuietPoints, NothingToKnowNext DEF HInv
  <2>4. \A l \in Lessons : Advances(l)
    BY <2>1, UnchangedAdvances
  <2>5. \A q \in Requests : Knows(at[q], loc[q])'
    BY <2>1, <2>3, <2>4, OthersStillKnow
  <2>6. \A t \in loc[r].tasks : Primary(t)
    BY DEF CreateLesson, HInv, Knows, KnowsTasks
  <2>7. /\ sessions'[n].status = "started"
        /\ \A t \in Task :
              /\ sessions'[n].tasks[t] = IF t \in loc[r].tasks THEN "pending" ELSE "absent"
              /\ sessions'[n].score[t] = "none"
    BY <2>0, <2>2 DEF NewSession
  <2>8. SessionOK(n)'
    <3>1. ASSUME NEW t \in Task, NEW u \in Task, Follows(u, t) PROVE u \notin loc[r].tasks
      BY <2>6, <3>1, BoundsAssumption DEF Follows, Primary, Task
    <3> QED  BY <2>7, <3>1 DEF SessionOK, TasksFollow, Logged
  <2>9. course.run \in Nat
    BY DEF HInv, IInv, TypeOK
  <2>10. \A l \in Lessons : SessionOK(l)'
    BY <2>1, <2>9, SessionStaysOK DEF HInv
  <2> QED  BY <2>1, <2>5, <2>8, <2>10 DEF HInv
<1> QED  BY <1>1, <1>2

(* An answer advances its session.                                         *)
LEMMA RecordAdvances ==
    ASSUME HInv, NEW r \in Requests, RecordAnswer(r), MayInsertLog(r)
    PROVE  \A l \in Lessons : Advances(l)
<1>0. PICK n, t, new : n = loc[r].lesson /\ t = loc[r].task /\ new = loc[r].tasks
  OBVIOUS
<1>1. /\ n \in Lessons /\ t \in Task
      /\ Lessons' = Lessons
      /\ \A l \in Lessons : l # n => sessions'[l] = sessions[l]
      /\ sessions'[n].status = "started" /\ sessions[n].status = "started"
      /\ sessions'[n].run = sessions[n].run
      /\ sessions'[n].tasks = AnsweredTasks(r)
      /\ sessions'[n].score = [sessions[n].score EXCEPT ![t] = loc[r].score]
      /\ course' = course /\ resets' = resets
      /\ Goto(r, "submit_outcome", loc[r])
  BY <1>0, AnswerEffect DEF HInv
<1>2. /\ sessions[n] \in Session /\ SessionOK(n) /\ course.run \in Nat
      /\ new \subseteq Task
  BY <1>0, <1>1, Known DEF HInv, IInv, TypeOK, Local
<1>3. sessions[n].tasks[t] = "pending" /\ sessions[n].first = t
  BY <1>0 DEF MayInsertLog
<1>4. at[r] = "submit_record" /\ Knows(at[r], loc[r])
  BY DEF RecordAnswer, HInv
<1>5. /\ loc[r].score # "none"
      /\ \A u \in new : ~Primary(u) /\ Addable(n, u)
  BY <1>0, <1>1, <1>3, <1>4 DEF Knows, KnowsTasks, KnowsPlan, PlanPoints
<1>6. t \notin new
  BY <1>3, <1>5 DEF Addable
<1>7. \A u \in Task : sessions'[n].tasks[u] = IF u = t THEN "completed"
                                             ELSE IF u \in new THEN "pending"
                                             ELSE sessions[n].tasks[u]
  BY <1>0, <1>1 DEF AnsweredTasks
<1>8. \A u \in Task : sessions'[n].score[u] = IF u = t THEN loc[r].score
                                             ELSE sessions[n].score[u]
  BY <1>0, <1>1, <1>2 DEF Session
<1>9. \A u \in Task : sessions[n].tasks[u] = "completed" <=> sessions[n].score[u] # "none"
  BY <1>2 DEF SessionOK, Logged
<1>10. Advances(n)
  <2>1. ASSUME NEW u \in Task
        PROVE  /\ sessions[n].score[u] # "none" => sessions'[n].score[u] = sessions[n].score[u]
               /\ sessions[n].tasks[u] # "absent" => sessions'[n].tasks[u] # "absent"
               /\ sessions'[n].tasks[u] = "pending"
                    /\ (sessions[n].tasks[u] # "absent" \/ Primary(u)) =>
                       sessions[n].tasks[u] = "pending"
    BY <1>3, <1>5, <1>7, <1>8, <1>9, <2>1 DEF Addable
  <2>2. sessions'[n].tasks[t] # "pending"
    BY <1>1, <1>7
  <2> QED  BY <1>1, <1>3, <2>1, <2>2 DEF Advances
<1> QED  BY <1>1, <1>10, UnchangedAdvances

(* The answer completes the first task; what was planned is added after    *)
(* the tasks of its words.                                                 *)
LEMMA HRecordStep ==
    ASSUME HInv, IInv', NEW r \in Requests, RecordAnswer(r)
    PROVE  HInv'
<1>1. CASE ~MayInsertLog(r)
  BY <1>1, HSubmitReadStep
<1>2. CASE MayInsertLog(r)
  <2>0. PICK n, t, new : n = loc[r].lesson /\ t = loc[r].task /\ new = loc[r].tasks
    OBVIOUS
  <2>1. /\ n \in Lessons /\ t \in Task
        /\ Lessons' = Lessons
        /\ \A l \in Lessons : l # n => sessions'[l] = sessions[l]
        /\ sessions'[n].status = "started" /\ sessions[n].status = "started"
        /\ sessions'[n].run = sessions[n].run
        /\ sessions'[n].tasks = AnsweredTasks(r)
        /\ sessions'[n].score = [sessions[n].score EXCEPT ![t] = loc[r].score]
        /\ course' = course /\ resets' = resets
        /\ Goto(r, "submit_outcome", loc[r])
    BY <2>0, <1>2, AnswerEffect DEF HInv
  <2>2. /\ sessions[n] \in Session /\ SessionOK(n) /\ course.run \in Nat
        /\ new \subseteq Task
    BY <2>0, <2>1, Known DEF HInv, IInv, TypeOK, Local
  <2>3. sessions[n].tasks[t] = "pending" /\ sessions[n].first = t
    BY <1>2, <2>0 DEF MayInsertLog
  <2>4. at[r] = "submit_record" /\ Knows(at[r], loc[r])
    BY DEF RecordAnswer, HInv
  <2>5. /\ loc[r].score # "none"
        /\ \A u \in new : ~Primary(u) /\ Addable(n, u)
    BY <2>0, <2>1, <2>3, <2>4 DEF Knows, KnowsTasks, KnowsPlan, PlanPoints
  <2>6. t \notin new
    BY <2>3, <2>5 DEF Addable
  <2>7. \A u \in Task : sessions'[n].tasks[u] = IF u = t THEN "completed"
                                               ELSE IF u \in new THEN "pending"
                                               ELSE sessions[n].tasks[u]
    BY <2>0, <2>1 DEF AnsweredTasks
  <2>8. \A u \in Task : sessions'[n].score[u] = IF u = t THEN loc[r].score
                                               ELSE sessions[n].score[u]
    BY <2>0, <2>1, <2>2 DEF Session
  <2>9. \A u \in Task : sessions[n].tasks[u] = "completed" <=> sessions[n].score[u] # "none"
    BY <2>2 DEF SessionOK, Logged
  <2>10. \A l \in Lessons : Advances(l)
    BY <1>2, RecordAdvances
  <2>12. SessionOK(n)'
    <3>1. \A u \in Task : sessions'[n].tasks[u] = "completed" <=> sessions'[n].score[u] # "none"
      BY <2>2, <2>5, <2>6, <2>7, <2>8, <2>9 DEF Addable, SessionOK
    <3>2. TasksFollow(n)'
      <4> SUFFICES ASSUME NEW x \in Task, NEW u \in Task, Follows(u, x),
                          sessions'[n].tasks[u] # "absent"
                   PROVE  sessions'[n].tasks[x] # "absent"
        BY DEF TasksFollow
      <4>1. CASE u \in new
        BY <2>5, <2>7, <4>1 DEF Addable
      <4>2. CASE u \notin new
        <5>1. sessions[n].tasks[u] # "absent"
          BY <2>3, <2>7, <4>2
        <5>2. sessions[n].tasks[x] # "absent"
          BY <2>2, <5>1 DEF SessionOK, TasksFollow
        <5> QED  BY <2>7, <5>2
      <4> QED  BY <4>1, <4>2
    <3>3. \A u \in Task : sessions'[n].tasks[u] = "skipped" => Primary(u)
      BY <2>2, <2>7 DEF SessionOK
    <3> QED  BY <2>1, <3>1, <3>2, <3>3 DEF SessionOK, Logged
  <2>13. \A l \in Lessons : SessionOK(l)'
    <3>1. ASSUME NEW l \in Lessons, l # n PROVE SessionOK(l)'
      BY <2>1, <2>2, <3>1, SessionStaysOK DEF HInv
    <3> QED  BY <2>12, <3>1
  <2>14. Knows(at[r], loc[r])'
    <3>1. at'[r] = "submit_outcome" /\ loc'[r] = loc[r]
      BY <2>1 DEF HInv, IInv, TypeOK, Goto
    <3>2. sessions'[n].tasks[t] # "absent"
      BY <2>1, <2>7
    <3> QED  BY <2>0, <3>1, <3>2 DEF Knows, KnowsTasks, KnowsPlan, KnowsSkips, KnowsReply,
                               SubmitPoints, SkipPoints, PlanPoints
  <2>15. \A q \in Requests : Knows(at[q], loc[q])'
    BY <2>1, <2>10, <2>14, OthersStillKnow
  <2> QED  BY <2>1, <2>13, <2>15 DEF HInv
<1> QED  BY <1>1, <1>2

(* Completion skips pending primary tasks only.                            *)
LEMMA HCompleteStep ==
    ASSUME HInv, IInv', NEW r \in Requests, CommitCompletion(r)
    PROVE  HInv'
<1>1. CASE ~MayComplete(loc[r].lesson)
  BY <1>1, HCompleteReadStep
<1>2. CASE MayComplete(loc[r].lesson)
  <2>0. PICK n : n = loc[r].lesson
    OBVIOUS
  <2>1. /\ n \in Lessons
        /\ Lessons' = Lessons
        /\ \A l \in Lessons : l # n => sessions'[l] = sessions[l]
        /\ sessions'[n].status = "completed" /\ sessions[n].status = "started"
        /\ sessions'[n].run = sessions[n].run
        /\ sessions'[n].tasks = SkippedTasks(r)
        /\ sessions'[n].score = sessions[n].score
        /\ course'.run = course.run /\ resets' = resets
        /\ Goto(r, "complete_outcome", loc[r])
    BY <2>0, <1>2, CompletionEffect DEF HInv
  <2>2. sessions[n] \in Session /\ SessionOK(n) /\ course.run \in Nat
    BY <2>1 DEF HInv, IInv, TypeOK
  <2>3. \A u \in Task : sessions[n].tasks[u] = "pending" => Primary(u)
    BY <1>2, <2>0 DEF MayComplete, CompletionAllowed, TasksOf
  <2>4. \A u \in Task :
           sessions'[n].tasks[u] = IF u \in loc[r].tasks /\ sessions[n].tasks[u] = "pending"
                                     THEN "skipped" ELSE sessions[n].tasks[u]
    BY <2>0, <2>1 DEF SkippedTasks, TasksOf
  <2>5. Advances(n)
    BY <2>1, <2>4 DEF Advances
  <2>6. \A l \in Lessons : Advances(l)
    BY <2>1, <2>5, UnchangedAdvances
  <2>7. SessionOK(n)'
    <3>1. TasksFollow(n)'
      BY <2>2, <2>4 DEF SessionOK, TasksFollow
    <3> QED  BY <2>1, <2>2, <2>3, <2>4, <3>1 DEF SessionOK, Logged
  <2>8. \A l \in Lessons : SessionOK(l)'
    <3>1. ASSUME NEW l \in Lessons, l # n PROVE SessionOK(l)'
      BY <2>1, <2>2, <3>1, SessionStaysOK DEF HInv
    <3> QED  BY <2>7, <3>1
  <2>9. Knows(at[r], loc[r])'
    BY <2>1, QuietPoints, NothingToKnowNext DEF HInv
  <2>10. \A q \in Requests : Knows(at[q], loc[q])'
    BY <2>1, <2>6, <2>9, OthersStillKnow
  <2> QED  BY <2>1, <2>8, <2>10 DEF HInv
<1> QED  BY <1>1, <1>2

(* A reset abandons the started sessions and changes nothing in them.      *)
LEMMA HResetStep ==
    ASSUME HInv, IInv', NEW r \in Requests, CommitReset(r)
    PROVE  HInv'
<1>1. CASE ~MayReset(r)
  BY <1>1, HResetReadStep
<1>2. CASE MayReset(r)
  <2>0. course' = [lesson |-> loc[r].target, run |-> course.run + 1, start |-> loc[r].target]
    BY <1>2, ResetEffect DEF HInv
  <2>1. /\ loc[r].token \notin DOMAIN resets
        /\ DOMAIN resets' = DOMAIN resets \cup {loc[r].token}
        /\ resets'[loc[r].token] = ResetRecord(r)
        /\ \A j \in DOMAIN resets : resets'[j] = resets[j]
        /\ Lessons' = Lessons
        /\ \A l \in Lessons :
              /\ IsStarted(l) => sessions'[l] = [sessions[l] EXCEPT !.status = "abandoned"]
              /\ ~IsStarted(l) => sessions'[l] = sessions[l]
        /\ course'.run = course.run + 1
        /\ Goto(r, "reset_reply", loc[r])
    BY <1>2, <2>0, ResetEffect DEF HInv
  <2>2. course.run \in Nat
    BY DEF HInv, IInv, TypeOK
  <2>3. ASSUME NEW l \in Lessons, IsStarted(l)
        PROVE  /\ sessions'[l].status = "abandoned" /\ sessions[l].status = "started"
               /\ sessions'[l].run = sessions[l].run
               /\ sessions'[l].tasks = sessions[l].tasks
               /\ sessions'[l].score = sessions[l].score
    <3>1. sessions[l] \in Session
      BY DEF HInv, IInv, TypeOK
    <3> QED  BY <2>1, <2>3, <3>1 DEF Session, IsStarted
  <2>4. \A l \in Lessons : Advances(l)
    BY <2>1, <2>3, UnchangedAdvances DEF Advances
  <2>5. \A l \in Lessons : SessionOK(l)'
    <3>1. ASSUME NEW l \in Lessons, IsStarted(l) PROVE SessionOK(l)'
      <4>1. SessionOK(l) /\ sessions[l].run \in Nat /\ sessions[l].run <= course.run
        BY DEF HInv, IInv, TypeOK, Session, RunsAreFenced
      <4>2. sessions'[l].run < course'.run
        BY <2>1, <2>2, <2>3, <3>1, <4>1
      <4> QED  BY <2>3, <3>1, <4>1, <4>2 DEF SessionOK, TasksFollow, Logged
    <3>2. ASSUME NEW l \in Lessons, ~IsStarted(l) PROVE SessionOK(l)'
      <4>1. sessions'[l] = sessions[l]
        BY <2>1, <3>2
      <4>2. course.run <= course'.run
        BY <2>1, <2>2
      <4> QED  BY <4>1, <4>2, SessionStaysOK DEF HInv
    <3> QED  BY <3>1, <3>2
  <2>6. Knows(at[r], loc[r])'
    <3>1. at'[r] = "reset_reply" /\ loc'[r] = loc[r]
      BY <2>1 DEF HInv, IInv, TypeOK, Goto
    <3> QED  BY <2>1, <3>1 DEF ResetRecord, Knows, KnowsTasks, KnowsPlan, KnowsSkips,
                               KnowsReply, SubmitPoints, SkipPoints, PlanPoints
  <2>7. \A q \in Requests : Knows(at[q], loc[q])'
    BY <2>1, <2>4, <2>6, OthersStillKnow
  <2> QED  BY <2>1, <2>5, <2>7 DEF HInv
<1> QED  BY <1>1, <1>2

-----------------------------------------------------------------------------
(* The invariant.                                                          *)

LEMMA InitHInv == Init => HInv
<1> SUFFICES ASSUME Init PROVE HInv
  OBVIOUS
<1>1. Lessons = {}
  BY DEF Init, Lessons
<1>2. \A r \in Requests : Knows(at[r], loc[r])
  BY QuietPoints, NothingToKnow DEF Init
<1> QED  BY <1>1, <1>2, InitIInv DEF HInv

LEMMA NextHInv == HInv /\ [Next]_vars => HInv'
<1> SUFFICES ASSUME HInv, [Next]_vars PROVE HInv'
  OBVIOUS
<1>0. IInv'
  BY NextIInv DEF HInv
<1>1. CASE UNCHANGED vars
  <2>1. \A l \in Lessons' : SessionOK(l)'
    BY <1>1 DEF vars, HInv, SessionOK, TasksFollow, Logged, Lessons
  <2>2. ASSUME NEW r \in Requests PROVE Knows(at[r], loc[r])'
    <3>1. PICK p, m : p = at[r] /\ m = loc[r]
      OBVIOUS
    <3>2. Knows(p, m)'
      BY <1>1, <3>1, KnowledgeStays DEF vars, HInv
    <3>3. at'[r] = p /\ loc'[r] = m
      BY <1>1, <3>1 DEF vars
    <3> QED  BY <3>2, <3>3 DEF Knows, KnowsTasks, KnowsPlan, KnowsSkips, KnowsReply, Addable,
                               Lessons
  <2> QED  BY <1>0, <2>1, <2>2 DEF HInv
<1>2. ASSUME NEW r \in Requests, Arrive(r) PROVE HInv'
  BY <1>0, <1>2, HStartReadStep, HSubmitReadStep, HCompleteReadStep, HResetReadStep DEF Arrive
<1>3. ASSUME NEW r \in Requests, Serve(r) PROVE HInv'
  <2>1. CASE GetStartedLesson(r) \/ PlanLesson(r) \/ RereadAdvancedCourse(r)
             \/ ReturnWinner(r)
    BY <1>0, <2>1, HStartReadStep
  <2>2. CASE AdvanceCourseLessonNo(r)
    BY <1>0, <2>2, HAdvanceStep
  <2>3. CASE CreateLesson(r)
    BY <1>0, <2>3, HCreateStep
  <2>4. CASE GetSubmittedAnswer(r) \/ ReadQueueSnapshot(r) \/ ReturnRacedAnswer(r)
             \/ ReadWordState(r) \/ RecheckSubmittedAnswer(r) \/ ReturnRecordedAnswer(r)
    BY <1>0, <2>4, HSubmitReadStep
  <2>5. CASE RecordAnswer(r)
    BY <1>0, <2>5, HRecordStep
  <2>6. CASE DecideCompletion(r) \/ ResolveNextLessonNo(r) \/ RecheckCompletion(r)
             \/ ReturnCompletion(r)
    BY <1>0, <2>6, HCompleteReadStep
  <2>7. CASE CommitCompletion(r)
    BY <1>0, <2>7, HCompleteStep
  <2>8. CASE FindCommittedReset(r) \/ ReadCourseToReset(r) \/ ReadResetStats(r)
             \/ ReturnCommittedReset(r)
    BY <1>0, <2>8, HResetReadStep
  <2>9. CASE CommitReset(r)
    BY <1>0, <2>9, HResetStep
  <2>10. CASE Deliver(r)
    BY <1>0, <2>10, HFailStep DEF Deliver
  <2> QED  BY <1>3, <2>1, <2>2, <2>3, <2>4, <2>5, <2>6, <2>7, <2>8, <2>9, <2>10 DEF Serve
<1>4. ASSUME NEW r \in Requests, Die(r) PROVE HInv'
  BY <1>0, <1>4, HFailStep DEF Die
<1> QED  BY <1>1, <1>2, <1>3, <1>4 DEF Next

(* What the requests know of the sessions stays true in every reachable    *)
(* state, however they interleave or die.                                  *)
THEOREM KnowledgeHolds == Spec => []HInv
BY InitHInv, NextHInv, PTL DEF Spec

(* The row is written with the learning run it was read in, and a started  *)
(* session is of the current one.                                          *)
LEMMA WrittenRowIsCurrent ==
    ASSUME HInv, NEW r \in Requests, at[r] = "submit_record", IsStarted(loc[r].lesson)
    PROVE  /\ loc[r].row \in Row
           /\ loc[r].row.run = course.run
           /\ [loc[r].row EXCEPT !.run = course.run] = loc[r].row
<1>1. /\ loc[r] \in Local /\ LocalOK(at[r], loc[r]) /\ KnowsTasks(at[r], loc[r])
      /\ course.run \in Nat
  BY Known DEF HInv, Knows
<1>2. loc[r].row \in Row
  BY <1>1 DEF Local
<1>3. loc[r].row.run <= course.run /\ sessions[loc[r].lesson].run <= loc[r].row.run
  BY <1>1 DEF LocalOK, KnowsTasks
<1>4. sessions[loc[r].lesson].run = course.run
  BY DEF IsStarted, HInv, IInv, RunsAreFenced
<1>5. loc[r].row.run = course.run
  BY <1>1, <1>2, <1>3, <1>4 DEF Row
<1> QED  BY <1>2, <1>5 DEF Row

-----------------------------------------------------------------------------
(* What never changes.                                                     *)

LEMMA StepKeepsHistory ==
    ASSUME HInv, [Next]_vars, NEW l \in Lessons
    PROVE  /\ sessions[l].status # "started" => sessions'[l] = sessions[l]
           /\ \A t \in Task : Logged(l, t) => sessions'[l].score[t] = sessions[l].score[t]
<1>0. IInv /\ sessions[l] \in Session
  BY DEF HInv, IInv, TypeOK
<1>1. CASE sessions'[l] = sessions[l]
  BY <1>1
<1>2. ASSUME NEW r \in Requests, RecordAnswer(r), MayInsertLog(r), l = loc[r].lesson
      PROVE  /\ sessions[l].status = "started"
             /\ \A t \in Task : Logged(l, t) => sessions'[l].score[t] = sessions[l].score[t]
  <2>1. /\ sessions[l].status = "started" /\ loc[r].task \in Task
        /\ sessions'[l].score = [sessions[l].score EXCEPT ![loc[r].task] = loc[r].score]
    BY <1>0, <1>2, AnswerEffect
  <2>2. sessions[l].tasks[loc[r].task] = "pending"
    BY <1>2 DEF MayInsertLog
  <2>3. ~Logged(l, loc[r].task)
    BY <2>1, <2>2 DEF HInv, SessionOK
  <2> QED  BY <1>0, <2>1, <2>3 DEF Session
<1>3. ASSUME NEW r \in Requests, RecordAnswer(r), MayInsertLog(r), l # loc[r].lesson
      PROVE  sessions'[l] = sessions[l]
  BY <1>0, <1>3, AnswerEffect
<1>4. ASSUME NEW r \in Requests, CommitCompletion(r), MayComplete(loc[r].lesson)
      PROVE  \/ sessions'[l] = sessions[l]
             \/ sessions[l].status = "started" /\ sessions'[l].score = sessions[l].score
  BY <1>0, <1>4, CompletionEffect
<1>5. ASSUME NEW r \in Requests, CommitReset(r), MayReset(r)
      PROVE  \/ sessions'[l] = sessions[l]
             \/ sessions[l].status = "started" /\ sessions'[l].score = sessions[l].score
  <2>1. /\ IsStarted(l) => sessions'[l] = [sessions[l] EXCEPT !.status = "abandoned"]
        /\ ~IsStarted(l) => sessions'[l] = sessions[l]
    BY <1>0, <1>5, ResetEffect
  <2> QED  BY <1>0, <2>1 DEF IsStarted, Session
<1>6. ASSUME NEW r \in Requests, CreateLesson(r), MayInsertSession(r)
      PROVE  sessions'[l] = sessions[l]
  BY <1>0, <1>6, CreateEffect
<1>7. CASE UNCHANGED db
  BY <1>7, <1>1 DEF db
<1>8. CASE \E r \in Requests : RecordAnswer(r) /\ MayInsertLog(r)
  BY <1>1, <1>2, <1>3, <1>8
<1>9. CASE \/ \E r \in Requests : CommitCompletion(r) /\ MayComplete(loc[r].lesson)
           \/ \E r \in Requests : CommitReset(r) /\ MayReset(r)
  <2>1. \/ sessions'[l] = sessions[l]
        \/ sessions[l].status = "started" /\ sessions'[l].score = sessions[l].score
    BY <1>4, <1>5, <1>9
  <2> QED  BY <1>1, <2>1
<1>10. CASE \/ \E r \in Requests : AdvanceCourseLessonNo(r)
            \/ \E r \in Requests : CreateLesson(r) /\ MayInsertSession(r)
  <2>1. sessions'[l] = sessions[l]
    BY <1>6, <1>10 DEF AdvanceCourseLessonNo
  <2> QED  BY <1>1, <2>1
<1> QED  BY <1>1, <1>7, <1>8, <1>9, <1>10, DatabaseSteps

(* The runs that were archived are the ones before the current, so that    *)
(* a reset archives a run for the first time.                              *)
ArchiveIsOld == 1 <= course.run /\ \A n \in DOMAIN archive : n < course.run

LEMMA NextArchiveIsOld ==
    ASSUME IInv, [Next]_vars, ArchiveIsOld
    PROVE  ArchiveIsOld'
<1>1. CASE \E r \in Requests : CommitReset(r) /\ MayReset(r)
  <2>1. PICK run : run = course.run
    OBVIOUS
  <2>2. course'.run = run + 1 /\ DOMAIN archive' = DOMAIN archive \cup {run}
    <3>1. PICK r \in Requests : CommitReset(r) /\ MayReset(r)
      BY <1>1
    <3>2. /\ course' = [lesson |-> loc[r].target, run |-> course.run + 1,
                        start |-> loc[r].target]
          /\ archive' = [n \in DOMAIN archive \cup {course.run} |->
                            IF n = course.run THEN [w \in Words |-> CurrentRow(w)]
                                              ELSE archive[n]]
      BY <3>1, ResetEffect
    <3> QED  BY <2>1, <3>2
  <2>3. run \in Nat /\ DOMAIN archive \subseteq Nat
    BY <2>1 DEF IInv, TypeOK
  <2> QED  BY <2>1, <2>2, <2>3 DEF ArchiveIsOld
<1>2. CASE ~\E r \in Requests : CommitReset(r) /\ MayReset(r)
  <2>1. course'.run = course.run /\ archive' = archive
    <3>1. CASE UNCHANGED db \/ \E r \in Requests : AdvanceCourseLessonNo(r)
      BY <3>1 DEF db, AdvanceCourseLessonNo, IInv, TypeOK
    <3>2. CASE \E r \in Requests : CreateLesson(r) /\ MayInsertSession(r)
      BY <3>2, CreateEffect
    <3>3. CASE \E r \in Requests : RecordAnswer(r) /\ MayInsertLog(r)
      BY <3>3, AnswerEffect
    <3>4. CASE \E r \in Requests : CommitCompletion(r) /\ MayComplete(loc[r].lesson)
      BY <3>4, CompletionEffect
    <3> QED  BY <1>2, <3>1, <3>2, <3>3, <3>4, DatabaseSteps
  <2> QED  BY <2>1 DEF ArchiveIsOld
<1> QED  BY <1>1, <1>2

THEOREM RunsAreArchivedOnce == Spec => []ArchiveIsOld
<1>1. Init => ArchiveIsOld
  BY DEF Init, ArchiveIsOld
<1> QED  BY <1>1, NextArchiveIsOld, InvariantHolds, PTL DEF Spec

LEMMA StepKeepsLedger ==
    ASSUME IInv, [Next]_vars, ArchiveIsOld
    PROVE  /\ \A n \in DOMAIN archive : n \in DOMAIN archive' /\ archive'[n] = archive[n]
           /\ \A k \in DOMAIN resets : k \in DOMAIN resets' /\ resets'[k] = resets[k]
<1>1. CASE \E r \in Requests : CommitReset(r) /\ MayReset(r)
  <2>1. PICK r \in Requests : CommitReset(r) /\ MayReset(r)
    BY <1>1
  <2>2. PICK run, now : run = course.run /\ now = [w \in Words |-> CurrentRow(w)]
    OBVIOUS
  <2>3. archive' = [n \in DOMAIN archive \cup {run} |-> IF n = run THEN now ELSE archive[n]]
    BY <2>1, <2>2, ResetEffect
  <2>4. \A n \in DOMAIN archive : n # run
    BY <2>2 DEF ArchiveIsOld, IInv, TypeOK
  <2>5. \A k \in DOMAIN resets : k \in DOMAIN resets' /\ resets'[k] = resets[k]
    BY <2>1, ResetEffect
  <2> QED  BY <2>3, <2>4, <2>5
<1>2. CASE ~\E r \in Requests : CommitReset(r) /\ MayReset(r)
  <2>1. archive' = archive /\ resets' = resets
    <3>1. CASE UNCHANGED db \/ \E r \in Requests : AdvanceCourseLessonNo(r)
      BY <3>1 DEF db, AdvanceCourseLessonNo
    <3>2. CASE \E r \in Requests : CreateLesson(r) /\ MayInsertSession(r)
      BY <3>2, CreateEffect
    <3>3. CASE \E r \in Requests : RecordAnswer(r) /\ MayInsertLog(r)
      BY <3>3, AnswerEffect
    <3>4. CASE \E r \in Requests : CommitCompletion(r) /\ MayComplete(loc[r].lesson)
      BY <3>4, CompletionEffect
    <3> QED  BY <1>2, <3>1, <3>2, <3>3, <3>4, DatabaseSteps
  <2> QED  BY <2>1
<1> QED  BY <1>1, <1>2

(* No request, however late, changes a lesson that was completed or        *)
(* abandoned, and no request overwrites an answer in the log with another: *)
(* recordAnswer, completeLesson and the reset write under guards that hold *)
(* of started sessions and pending tasks only.  A reset archives the run   *)
(* it ends and records its token, both for the first time: no later one    *)
(* writes either again.                                                    *)
THEOREM HistoryStaysFinal == Spec => HistoryIsFinal
<1> DEFINE SessionsKept ==
      \A l \in Lessons :
          /\ sessions[l].status # "started" => sessions'[l] = sessions[l]
          /\ \A t \in Task : Logged(l, t) => sessions'[l].score[t] = sessions[l].score[t]
    LedgerKept ==
      /\ \A n \in DOMAIN archive : n \in DOMAIN archive' /\ archive'[n] = archive[n]
      /\ \A k \in DOMAIN resets : k \in DOMAIN resets' /\ resets'[k] = resets[k]
<1>1. HInv /\ [Next]_vars => SessionsKept
  BY StepKeepsHistory
<1>2. IInv /\ ArchiveIsOld /\ [Next]_vars => LedgerKept
  BY StepKeepsLedger
<1>3. HInv => IInv
  BY DEF HInv
<1>4. SessionsKept /\ LedgerKept <=>
        /\ \A l \in Lessons :
              /\ sessions[l].status # "started" => sessions'[l] = sessions[l]
              /\ \A t \in Task : Logged(l, t) => sessions'[l].score[t] = sessions[l].score[t]
        /\ \A n \in DOMAIN archive : n \in DOMAIN archive' /\ archive'[n] = archive[n]
        /\ \A k \in DOMAIN resets : k \in DOMAIN resets' /\ resets'[k] = resets[k]
  OBVIOUS
<1> HIDE DEF SessionsKept, LedgerKept
<1> QED  BY <1>1, <1>2, <1>3, <1>4, KnowledgeHolds, RunsAreArchivedOnce, PTL
         DEF Spec, HistoryIsFinal

(* The reply to an answer, a completion or a reset says what the database  *)
(* holds, also after a lost race or a retry, and keeps saying so until it  *)
(* is delivered.                                                           *)
THEOREM RepliesStayRecorded == Spec => []RepliesAreRecorded
<1>1. HInv => RepliesAreRecorded
  BY DEF HInv, Knows, KnowsReply, RepliesAreRecorded
<1> QED  BY <1>1, KnowledgeHolds, PTL

-----------------------------------------------------------------------------
(* Completed lessons.                                                      *)
Closed(l) ==
    /\ TasksOf(l, "pending") = {}
    /\ 5 * CountOf({t \in PrimaryTasks(l) : Logged(l, t)}) >= 4 * CountOf(PrimaryTasks(l))
    /\ \A t \in TasksOf(l, "skipped") : Primary(t) /\ ~Logged(l, t)

LEMMA ClosedStaysClosed ==
    ASSUME NEW l, Closed(l), sessions'[l] = sessions[l]
    PROVE  Closed(l)'
<1>1. PrimaryTasks(l)' = PrimaryTasks(l)
  BY DEF PrimaryTasks
<1>2. {t \in PrimaryTasks(l) : Logged(l, t)}' = {t \in PrimaryTasks(l) : Logged(l, t)}
  BY <1>1 DEF Logged
<1>3. TasksOf(l, "pending")' = TasksOf(l, "pending")
  BY DEF TasksOf
<1>4. TasksOf(l, "skipped")' = TasksOf(l, "skipped")
  BY DEF TasksOf
<1> QED  BY <1>1, <1>2, <1>3, <1>4 DEF Closed, Logged

(* The guards of the completing batch repeat the decision, and what is     *)
(* skipped includes all that is pending.                                   *)
LEMMA CompletionCloses ==
    ASSUME HInv, HInv', NEW r \in Requests, NEW l, l = loc[r].lesson,
           CommitCompletion(r), MayComplete(l)
    PROVE  Closed(l)'
<1>1. /\ l \in Lessons /\ Lessons' = Lessons
      /\ sessions[l].status = "started"
      /\ sessions'[l].tasks = SkippedTasks(r) /\ sessions'[l].score = sessions[l].score
  BY CompletionEffect DEF HInv
<1>2. \A t \in Task : sessions[l].tasks[t] = "pending" => Primary(t) /\ t \in loc[r].tasks
  <2>1. \A t \in Task : sessions[l].tasks[t] = "pending" => Primary(t)
    BY DEF MayComplete, CompletionAllowed, TasksOf
  <2>2. at[r] = "complete_commit" /\ KnowsSkips(at[r], loc[r])
    BY DEF CommitCompletion, HInv, Knows
  <2> QED  BY <1>1, <2>1, <2>2 DEF KnowsSkips, SkipPoints
<1>3. \A t \in Task : sessions'[l].tasks[t] =
                         IF sessions[l].tasks[t] = "pending" THEN "skipped"
                         ELSE sessions[l].tasks[t]
  BY <1>1, <1>2 DEF SkippedTasks, TasksOf
<1>4. SessionOK(l)' /\ SessionOK(l)
  BY <1>1 DEF HInv
<1>5. TasksOf(l, "pending")' = {}
  BY <1>3 DEF TasksOf
<1>6. PrimaryTasks(l)' = PrimaryTasks(l)
  BY <1>3 DEF PrimaryTasks
<1>7. {t \in PrimaryTasks(l) : Logged(l, t)}' = PrimaryTasks(l) \cap TasksOf(l, "completed")
  <2>1. \A t \in Task : Logged(l, t)' <=> sessions[l].tasks[t] = "completed"
    BY <1>1, <1>4 DEF SessionOK, Logged
  <2> QED  BY <1>6, <2>1 DEF PrimaryTasks, TasksOf
<1>8. 5 * CountOf(PrimaryTasks(l) \cap TasksOf(l, "completed")) >= 4 * CountOf(PrimaryTasks(l))
  BY DEF MayComplete, CompletionAllowed
<1>9. (\A t \in TasksOf(l, "skipped") : Primary(t) /\ ~Logged(l, t))'
  BY <1>4 DEF SessionOK, TasksOf
<1>10. Closed(l)' <=> /\ TasksOf(l, "pending")' = {}
                      /\ 5 * CountOf({t \in PrimaryTasks(l) : Logged(l, t)}')
                            >= 4 * CountOf(PrimaryTasks(l)')
                      /\ (\A t \in TasksOf(l, "skipped") : Primary(t) /\ ~Logged(l, t))'
  BY DEF Closed, CountOf
<1> QED  BY <1>5, <1>6, <1>7, <1>8, <1>9, <1>10

LEMMA NextCloses ==
    ASSUME HInv, HInv', [Next]_vars, CompletedLessonIsClosed
    PROVE  CompletedLessonIsClosed'
<1> SUFFICES ASSUME NEW l \in Lessons', sessions'[l].status = "completed"
             PROVE  Closed(l)'
  BY DEF CompletedLessonIsClosed, Closed
<1>0. \A m \in Lessons : sessions[m].status = "completed" => Closed(m)
  BY DEF CompletedLessonIsClosed, Closed
<1>1. CASE l \in Lessons /\ sessions'[l] = sessions[l]
  BY <1>0, <1>1, ClosedStaysClosed
<1>2. CASE \E r \in Requests : /\ CommitCompletion(r) /\ MayComplete(loc[r].lesson)
                               /\ l = loc[r].lesson
  BY <1>2, CompletionCloses
<1>3. \/ l \in Lessons /\ sessions'[l] = sessions[l]
      \/ \E r \in Requests : /\ CommitCompletion(r) /\ MayComplete(loc[r].lesson)
                             /\ l = loc[r].lesson
  <2>0. IInv
    BY DEF HInv
  <2>1. CASE UNCHANGED db \/ \E r \in Requests : AdvanceCourseLessonNo(r)
    BY <2>1 DEF db, AdvanceCourseLessonNo, Lessons
  <2>2. CASE \E r \in Requests : CreateLesson(r) /\ MayInsertSession(r)
    <3>1. PICK r \in Requests : CreateLesson(r) /\ MayInsertSession(r)
      BY <2>2
    <3>2. \A first : NewSession(r, first).status = "started"
      BY DEF NewSession
    <3> QED  BY <2>0, <3>1, <3>2, CreateEffect
  <2>3. CASE \E r \in Requests : RecordAnswer(r) /\ MayInsertLog(r)
    BY <2>0, <2>3, AnswerEffect
  <2>4. CASE \E r \in Requests : CommitCompletion(r) /\ MayComplete(loc[r].lesson)
    BY <2>0, <2>4, CompletionEffect
  <2>5. CASE \E r \in Requests : CommitReset(r) /\ MayReset(r)
    <3>1. PICK r \in Requests : CommitReset(r) /\ MayReset(r)
      BY <2>5
    <3>2. /\ l \in Lessons /\ sessions[l] \in Session
          /\ IsStarted(l) => sessions'[l] = [sessions[l] EXCEPT !.status = "abandoned"]
          /\ ~IsStarted(l) => sessions'[l] = sessions[l]
      BY <2>0, <3>1, ResetEffect DEF IInv, TypeOK
    <3> QED  BY <3>2 DEF Session
  <2> QED  BY <2>1, <2>2, <2>3, <2>4, <2>5, DatabaseSteps
<1> QED  BY <1>1, <1>2, <1>3

(* A lesson is completed with 80% of its primary tasks answered, nothing   *)
(* pending and only unanswered primary tasks skipped, although the request *)
(* decided all this two reads before its batch: an answer recorded in      *)
(* between can neither be lost nor leave a task open.                      *)
THEOREM CompletedLessonsAreClosed == Spec => []CompletedLessonIsClosed
<1>1. Init => CompletedLessonIsClosed
  BY DEF Init, Lessons, CompletedLessonIsClosed
<1> QED  BY <1>1, NextCloses, KnowledgeHolds, PTL DEF Spec

-----------------------------------------------------------------------------
(* The ledger of the resets.                                               *)
ResetsOf(n) == {k \in DOMAIN resets : resets[k].fromRun = n}
AbandonedIn(n) == {l \in Lessons : sessions[l].run = n /\ sessions[l].status = "abandoned"}

LedgerOK ==
    /\ \A n \in 1 .. course.run - 1 : CountOf(ResetsOf(n)) = 1
    /\ \A k \in DOMAIN resets :
        /\ resets[k].fromRun < course.run
        /\ resets[k].abandoned = CountOf(AbandonedIn(resets[k].fromRun))

(* A step that ends no run.                                                *)
LEMMA LedgerStaysOK ==
    ASSUME LedgerOK, course'.run = course.run, resets' = resets,
           \A n : AbandonedIn(n)' = AbandonedIn(n)
    PROVE  LedgerOK'
<1>1. \A n : ResetsOf(n)' = ResetsOf(n)
  BY DEF ResetsOf
<1> QED  BY <1>1 DEF LedgerOK, CountOf

LEMMA ResetKeepsLedger ==
    ASSUME HInv, LedgerOK, NEW r \in Requests, CommitReset(r), MayReset(r)
    PROVE  LedgerOK'
<1>0. PICK k, run : k = loc[r].token /\ run = course.run
  OBVIOUS
<1>1. /\ k \notin DOMAIN resets
      /\ DOMAIN resets' = DOMAIN resets \cup {k}
      /\ resets'[k] = ResetRecord(r)
      /\ \A j \in DOMAIN resets : resets'[j] = resets[j]
      /\ Lessons' = Lessons
      /\ \A l \in Lessons :
            /\ IsStarted(l) => sessions'[l] = [sessions[l] EXCEPT !.status = "abandoned"]
            /\ ~IsStarted(l) => sessions'[l] = sessions[l]
      /\ StartedInRun(run) = {l \in Lessons : IsStarted(l)}
      /\ loc[r].run = run
  BY <1>0, ResetEffect DEF HInv
<1>2. course'.run = run + 1 /\ run \in Nat
  <2>1. course' = [lesson |-> loc[r].target, run |-> course.run + 1, start |-> loc[r].target]
    BY ResetEffect DEF HInv
  <2> QED  BY <1>0, <2>1 DEF HInv, IInv, TypeOK
<1>3. resets'[k].fromRun = run /\ resets'[k].abandoned = CountOf(StartedInRun(run))
  BY <1>0, <1>1 DEF ResetRecord, MayReset
<1>4. \A l \in Lessons :
         /\ sessions'[l].run = sessions[l].run
         /\ sessions'[l].status = "abandoned" <=>
               IsStarted(l) \/ sessions[l].status = "abandoned"
         /\ IsStarted(l) => sessions[l].run = run
         /\ sessions[l].status = "abandoned" => sessions[l].run < run
  <2> SUFFICES ASSUME NEW l \in Lessons
               PROVE  /\ sessions'[l].run = sessions[l].run
                      /\ sessions'[l].status = "abandoned" <=>
                            IsStarted(l) \/ sessions[l].status = "abandoned"
                      /\ IsStarted(l) => sessions[l].run = run
                      /\ sessions[l].status = "abandoned" => sessions[l].run < run
    OBVIOUS
  <2>1. sessions[l] \in Session /\ SessionOK(l)
    BY DEF HInv, IInv, TypeOK
  <2>2. /\ IsStarted(l) => sessions'[l] = [sessions[l] EXCEPT !.status = "abandoned"]
        /\ ~IsStarted(l) => sessions'[l] = sessions[l]
    BY <1>1
  <2>3. IsStarted(l) => sessions[l].run = run
    BY <1>0 DEF HInv, IInv, RunsAreFenced, IsStarted
  <2> QED  BY <1>0, <2>1, <2>2, <2>3 DEF Session, SessionOK, IsStarted
<1>5. \A n \in Nat : n < run => AbandonedIn(n)' = AbandonedIn(n)
  BY <1>1, <1>2, <1>4 DEF AbandonedIn
<1>6. AbandonedIn(run)' = StartedInRun(run)
  BY <1>1, <1>2, <1>4 DEF AbandonedIn
<1>7. \A n \in Nat : n < run => ResetsOf(n)' = ResetsOf(n)
  BY <1>1, <1>2, <1>3 DEF ResetsOf
<1>8. ResetsOf(run)' = {k}
  <2>1. \A j \in DOMAIN resets : resets[j].fromRun # run
    <3>1. \A j \in DOMAIN resets : resets[j].fromRun < run /\ resets[j].fromRun \in Nat
      BY <1>0 DEF LedgerOK, HInv, IInv, TypeOK, ResetOperation
    <3> QED  BY <1>2, <3>1
  <2> QED  BY <1>1, <1>3, <2>1 DEF ResetsOf
<1>9. ASSUME NEW n \in 1 .. course'.run - 1 PROVE Cardinality(ResetsOf(n)') = 1
  <2>1. CASE n = run
    BY <1>8, <2>1, FS_Singleton
  <2>2. CASE n # run
    <3>1. n \in Nat /\ n < run /\ n \in 1 .. course.run - 1
      BY <1>0, <1>2, <2>2
    <3> QED  BY <1>7, <3>1 DEF LedgerOK, CountOf
  <2> QED  BY <2>1, <2>2
<1>10. ASSUME NEW j \in DOMAIN resets'
       PROVE  /\ resets'[j].fromRun < course'.run
              /\ \A n : n = resets'[j].fromRun =>
                    resets'[j].abandoned = Cardinality(AbandonedIn(n)')
  <2>1. CASE j = k
    BY <1>2, <1>3, <1>6, <2>1 DEF CountOf
  <2>2. CASE j # k
    <3>1. j \in DOMAIN resets /\ resets'[j] = resets[j]
      BY <1>1, <2>2
    <3>2. resets[j].fromRun \in Nat
      BY <3>1 DEF HInv, IInv, TypeOK, ResetOperation
    <3>3. resets[j].fromRun < run /\ resets[j].abandoned = CountOf(AbandonedIn(resets[j].fromRun))
      BY <1>0, <3>1 DEF LedgerOK
    <3> QED  BY <1>2, <1>5, <3>1, <3>2, <3>3 DEF CountOf
  <2> QED  BY <2>1, <2>2
<1> QED  BY <1>9, <1>10 DEF LedgerOK, CountOf

LEMMA NextLedgerOK ==
    ASSUME HInv, [Next]_vars, LedgerOK
    PROVE  LedgerOK'
<1>0. IInv
  BY DEF HInv
<1>1. CASE \E r \in Requests : CommitReset(r) /\ MayReset(r)
  BY <1>1, ResetKeepsLedger
<1>2. CASE ~\E r \in Requests : CommitReset(r) /\ MayReset(r)
  <2>1. /\ course'.run = course.run /\ resets' = resets /\ Lessons \subseteq Lessons'
        /\ \A l \in Lessons' \ Lessons : sessions'[l].status # "abandoned"
        /\ \A l \in Lessons :
              /\ sessions'[l].run = sessions[l].run
              /\ sessions'[l].status = "abandoned" <=> sessions[l].status = "abandoned"
    <3>1. CASE UNCHANGED db \/ \E r \in Requests : AdvanceCourseLessonNo(r)
      BY <1>0, <3>1 DEF db, AdvanceCourseLessonNo, Lessons, IInv, TypeOK
    <3>2. CASE \E r \in Requests : CreateLesson(r) /\ MayInsertSession(r)
      <4>1. PICK r \in Requests : CreateLesson(r) /\ MayInsertSession(r)
        BY <3>2
      <4>2. \A first : NewSession(r, first).status = "started"
        BY DEF NewSession
      <4> QED  BY <1>0, <4>1, <4>2, CreateEffect
    <3>3. CASE \E r \in Requests : RecordAnswer(r) /\ MayInsertLog(r)
      <4>1. PICK r \in Requests : RecordAnswer(r) /\ MayInsertLog(r)
        BY <3>3
      <4> QED  BY <1>0, <4>1, AnswerEffect
    <3>4. CASE \E r \in Requests : CommitCompletion(r) /\ MayComplete(loc[r].lesson)
      <4>1. PICK r \in Requests : CommitCompletion(r) /\ MayComplete(loc[r].lesson)
        BY <3>4
      <4> QED  BY <1>0, <4>1, CompletionEffect
    <3> QED  BY <1>2, <3>1, <3>2, <3>3, <3>4, DatabaseSteps
  <2>2. \A n : AbandonedIn(n)' = AbandonedIn(n)
    BY <2>1 DEF AbandonedIn
  <2> QED  BY <2>1, <2>2, LedgerStaysOK
<1> QED  BY <1>1, <1>2

(* Every learning run but the first was begun by exactly one operation of  *)
(* the reset ledger, and the operation counts the lessons that are         *)
(* abandoned in the run it ended: a repeated, raced or retried reset       *)
(* request neither starts a run twice nor leaves a started lesson behind.  *)
THEOREM LedgerAccountsForRuns == Spec => []ResetsAccountForRuns
<1>1. Init => LedgerOK
  BY DEF Init, LedgerOK
<1>2. Spec => []LedgerOK
  BY <1>1, NextLedgerOK, KnowledgeHolds, PTL DEF Spec
<1>3. LedgerOK => ResetsAccountForRuns
  BY DEF LedgerOK, ResetsAccountForRuns, ResetsOf, AbandonedIn
<1> QED  BY <1>2, <1>3, PTL
=============================================================================
