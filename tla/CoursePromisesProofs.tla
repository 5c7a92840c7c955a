------------------------- MODULE CoursePromisesProofs -------------------------
(***************************************************************************)
(* What the requests of CourseRuntime promise, proved from what            *)
(* CourseRuntimeProofs says of them: that they act as the repository in    *)
(* memory does, that every lesson implements LessonQueuePromise, that the  *)
(* progress of a word is earned by answers however many lessons are open,  *)
(* and that two devices which log in at once are slowed down.              *)
(***************************************************************************)
EXTENDS Sequences, CourseStorage, CourseLessons, MCTwoDevices, CourseRuntimeProofs

-----------------------------------------------------------------------------
(* The requests implement the one-step operations of the repository in     *)
(* memory: one lemma per operation maps the batch that performs it to the  *)
(* operation.                                                              *)

LEMMA SameCardinality ==
    ASSUME NEW S
    PROVE  Memory!Cardinality(S) = Cardinality(S)
BY DEF Memory!Cardinality, Cardinality

LEMMA AdvanceAgrees ==
    ASSUME HInv, NEW r \in Requests, AdvanceCourseLessonNo(r)
    PROVE  UNCHANGED db \/ Memory!MemoryNext
<1>1. /\ at[r] = "start_advance" /\ LocalOK(at[r], loc[r])
      /\ course \in [lesson : Nat, run : Nat, start : Nat]
  BY Known DEF HInv, AdvanceCourseLessonNo
<1>2. loc[r].lesson < loc[r].target
  BY <1>1 DEF LocalOK
<1>3. CASE course.lesson # loc[r].lesson
  BY <1>3 DEF AdvanceCourseLessonNo, db
<1>4. CASE course.lesson = loc[r].lesson
  <2>1. /\ course' = [course EXCEPT !.lesson = loc[r].target]
        /\ UNCHANGED <<sessions, rows, archive, resets>>
    BY <1>4 DEF AdvanceCourseLessonNo
  <2>2. course'.lesson = loc[r].target
    BY <1>1, <2>1
  <2>3. Memory!AdvanceCourseLessonNo(course'.lesson)
    BY <1>2, <1>4, <2>1, <2>2 DEF Memory!AdvanceCourseLessonNo, Lessons
  <2> QED  BY <2>3 DEF Memory!MemoryNext
<1> QED  BY <1>3, <1>4

LEMMA CreateAgrees ==
    ASSUME HInv, NEW r \in Requests, CreateLesson(r), MayInsertSession(r)
    PROVE  Memory!MemoryNext
<1>0. PICK n : n = loc[r].lesson
  OBVIOUS
<1>1. /\ n \notin Lessons
      /\ loc[r].tasks \subseteq Task /\ loc[r].words \subseteq Words
  BY <1>0, Known DEF MayInsertSession, HInv, Local
<1>2. PICK first \in loc[r].tasks :
        sessions' = [l \in Lessons \cup {n} |->
                        IF l = n THEN NewSession(r, first) ELSE sessions[l]]
  BY <1>0 DEF CreateLesson
<1>3. /\ Lessons' = Lessons \cup {n}
      /\ sessions'[n] = NewSession(r, first)
      /\ sessions' = [q \in Lessons \cup {n} |-> IF q = n THEN sessions'[n] ELSE sessions[q]]
  BY <1>2 DEF Lessons
<1>4. /\ sessions'[n].status = "started" /\ sessions'[n].first = first
      /\ sessions'[n].run = loc[r].run
      /\ \A t \in Task :
            /\ sessions'[n].score[t] = "none"
            /\ sessions'[n].tasks[t] = IF t \in loc[r].tasks THEN "pending" ELSE "absent"
  BY <1>3 DEF NewSession
<1>5. Memory!IsFirstOf(sessions'[n].first, sessions'[n].tasks)
  BY <1>1, <1>4 DEF Memory!IsFirstOf
<1>6. \E words \in SUBSET Words :
         rows' = [w \in Words |->
                    IF w \in words
                      THEN [run |-> sessions'[n].run, due |-> n, attempts |-> 0]
                      ELSE rows[w]]
  BY <1>0, <1>1, <1>4 DEF CreateLesson, InitialRow
<1>7. n \in DOMAIN sessions' \ DOMAIN sessions
  BY <1>1, <1>3 DEF Lessons
<1> DEFINE Creates(s) == Memory!CreateLesson(s, [l \in Lessons |-> l]'[s], sessions'[s])
<1>8. Creates(n)
  BY <1>1, <1>3, <1>4, <1>5, <1>6
     DEF Memory!CreateLesson, Memory!IsOpen, Lessons, CreateLesson
<1>9. \E s \in DOMAIN sessions' \ DOMAIN sessions : Creates(s)
  <2> HIDE DEF Creates
  <2> QED  BY <1>7, <1>8
<1> QED  BY <1>9 DEF Memory!MemoryNext

LEMMA RecordAgrees ==
    ASSUME HInv, NEW r \in Requests, RecordAnswer(r), MayInsertLog(r)
    PROVE  Memory!MemoryNext
<1>0. PICK n, t, wrote : n = loc[r].lesson /\ t = loc[r].task /\ wrote = loc[r].row
  OBVIOUS
<1>1. /\ n \in Lessons /\ t \in Task /\ Lessons' = Lessons
      /\ \A l \in Lessons : l # n => sessions'[l] = sessions[l]
      /\ sessions[n].status = "started"
      /\ sessions'[n].tasks = AnsweredTasks(r)
      /\ sessions'[n].score = [sessions[n].score EXCEPT ![t] = loc[r].score]
      /\ sessions'[n].first \in FirstOf(AnsweredTasks(r))
      /\ course' = course /\ archive' = archive /\ resets' = resets
  BY <1>0, AnswerEffect DEF HInv
<1>2. PICK first :
        sessions' = [sessions EXCEPT ![n] =
                      [@ EXCEPT !.tasks = AnsweredTasks(r),
                                !.score[t] = loc[r].score,
                                !.first = first]]
  BY <1>0 DEF RecordAnswer
<1>3. sessions[n] \in Session /\ SessionOK(n) /\ sessions[n].run = course.run
  BY <1>1 DEF HInv, IInv, TypeOK, RunsAreFenced
<1>4. sessions[n].tasks[t] = "pending" /\ sessions[n].first = t /\ sessions[n].score[t] = "none"
  BY <1>0, <1>1, <1>3 DEF MayInsertLog, SessionOK, Logged
<1>5. Memory!MayRecord(n, t)
  BY <1>1, <1>3, <1>4 DEF Memory!MayRecord, Memory!IsOpen
<1>6. PICK new : new = {u \in Task : sessions'[n].tasks[u] = "pending"}
  OBVIOUS
<1>7. AnsweredTasks(r) = Memory!AnsweredTasks(n, t, new)
  <2>1. \A u \in Task : sessions'[n].tasks[u] = IF u = t THEN "completed"
                                               ELSE IF u \in loc[r].tasks THEN "pending"
                                               ELSE sessions[n].tasks[u]
    BY <1>0, <1>1 DEF AnsweredTasks
  <2>2. \A u \in Task : u \in new <=> u # t /\ (u \in loc[r].tasks \/ sessions[n].tasks[u] = "pending")
    BY <1>6, <2>1
  <2> QED  BY <1>0, <2>1, <2>2 DEF AnsweredTasks, Memory!AnsweredTasks
<1>8. sessions'[n].score[t] = loc[r].score /\ sessions'[n].first = first
  <2>1. sessions'[n] = [sessions[n] EXCEPT !.tasks = AnsweredTasks(r),
                                           !.score[t] = loc[r].score,
                                           !.first = first]
    BY <1>1, <1>2 DEF Lessons
  <2> QED  BY <1>1, <1>3, <2>1 DEF Session
<1>9. Memory!IsFirstOf(first, Memory!AnsweredTasks(n, t, new))
  BY <1>1, <1>7, <1>8 DEF FirstOf, Memory!IsFirstOf
<1>10. rows' = rows \/ rows' = [rows EXCEPT ![[u \in Task |-> u.word][t]] =
                                  [rows'[[u \in Task |-> u.word][t]] EXCEPT !.run = course.run]]
  <2>1. rows' = rows \/ rows' = [rows EXCEPT ![t.word] = wrote]
    BY <1>0 DEF RecordAnswer
  <2>2. [wrote EXCEPT !.run = course.run] = wrote
    BY <1>0, WrittenRowIsCurrent DEF RecordAnswer, MayInsertLog
  <2>3. t.word \in DOMAIN rows
    BY <1>1 DEF HInv, IInv, TypeOK, Task
  <2>4. [u \in Task |-> u.word][t] = t.word
    BY <1>1
  <2> QED  BY <2>1, <2>2, <2>3, <2>4
<1> DEFINE Records(s, u) ==
      Memory!RecordAnswer(s, u, {v \in Task : sessions'[s].tasks[v] = "pending"},
                          sessions'[s].score[u], sessions'[s].first,
                          rows'[[v \in Task |-> v.word][u]])
<1>11. Records(n, t)
  <2>1. sessions' = [sessions EXCEPT ![n] =
                      [@ EXCEPT !.tasks = Memory!AnsweredTasks(n, t, new),
                                !.score[t] = sessions'[n].score[t],
                                !.first = sessions'[n].first]]
    BY <1>2, <1>7, <1>8
  <2> QED  BY <1>1, <1>5, <1>6, <1>8, <1>9, <1>10, <2>1 DEF Memory!RecordAnswer
<1>12. \E s \in DOMAIN sessions, u \in Task : Records(s, u)
  <2>1. n \in DOMAIN sessions
    BY <1>1 DEF Lessons
  <2> HIDE DEF Records
  <2> QED  BY <1>1, <1>11, <2>1
<1> QED  BY <1>12 DEF Memory!MemoryNext

LEMMA CompletionAgrees ==
    ASSUME HInv, NEW r \in Requests, CommitCompletion(r), MayComplete(loc[r].lesson)
    PROVE  Memory!MemoryNext \/ CompletesLeftLesson
<1>0. PICK n : n = loc[r].lesson
  OBVIOUS
<1>1. /\ n \in Lessons /\ Lessons' = Lessons
      /\ sessions[n].status = "started"
      /\ sessions'[n].tasks = SkippedTasks(r)
      /\ course' = AdvancedCourse(r)
      /\ rows' = rows /\ archive' = archive /\ resets' = resets
  BY <1>0, CompletionEffect DEF HInv
<1>2. PICK first \in FirstOf(SkippedTasks(r)) :
        sessions' = [sessions EXCEPT ![n] =
                      [@ EXCEPT !.status = "completed",
                                !.tasks = SkippedTasks(r),
                                !.first = first]]
  BY <1>0 DEF CommitCompletion
<1>3. sessions[n].run = course.run
  BY <1>1 DEF HInv, IInv, RunsAreFenced
<1>4. \A u \in Task : sessions[n].tasks[u] = "pending" => Primary(u) /\ u \in loc[r].tasks
  <2>1. \A u \in Task : sessions[n].tasks[u] = "pending" => Primary(u)
    BY <1>0 DEF MayComplete, CompletionAllowed, TasksOf
  <2>2. at[r] = "complete_commit" /\ KnowsSkips(at[r], loc[r])
    BY DEF CommitCompletion, HInv, Knows
  <2> QED  BY <1>0, <1>1, <2>1, <2>2 DEF KnowsSkips, SkipPoints
<1>5. SkippedTasks(r) = [u \in Task |->
                           IF u \in {v \in Task : Primary(v)} \cap Memory!TasksIn(n, "pending")
                             THEN "skipped"
                             ELSE sessions[n].tasks[u]]
  BY <1>0, <1>4 DEF SkippedTasks, TasksOf, Memory!TasksIn
<1>6. first = NoTask
  <2>1. \A u \in Task : SkippedTasks(r)[u] # "pending"
    BY <1>4, <1>5 DEF Memory!TasksIn
  <2> QED  BY <1>2, <2>1 DEF FirstOf
<1>7. Memory!CanComplete(n)
  <2>1. {v \in {u \in Task : Primary(u)} : sessions[n].tasks[v] # "absent"} = PrimaryTasks(n)
    BY DEF PrimaryTasks
  <2>2. Memory!TasksIn(n, "completed") = TasksOf(n, "completed")
        /\ Memory!TasksIn(n, "pending") = TasksOf(n, "pending")
    BY DEF TasksOf, Memory!TasksIn
  <2>3. CompletionAllowed(n)
    BY <1>0 DEF MayComplete
  <2>4. /\ PrimaryTasks(n) # {}
        /\ 5 * Cardinality(PrimaryTasks(n) \cap TasksOf(n, "completed"))
              >= 4 * Cardinality(PrimaryTasks(n))
        /\ TasksOf(n, "pending") \subseteq {u \in Task : Primary(u)}
    BY <2>3 DEF CompletionAllowed, CountOf, TasksOf
  <2> QED  BY <2>1, <2>2, <2>4, SameCardinality DEF Memory!CanComplete
<1>8. Memory!Closes(n)
  <2>1. Memory!IsOpen(n)
    BY <1>1 DEF Memory!IsOpen
  <2>2. sessions' = [sessions EXCEPT ![n] =
            [@ EXCEPT !.status = "completed",
                      !.tasks = [u \in Task |->
                           IF u \in {v \in Task : Primary(v)} \cap Memory!TasksIn(n, "pending")
                             THEN "skipped"
                             ELSE sessions[n].tasks[u]],
                      !.first = NoTask]]
    BY <1>2, <1>5, <1>6
  <2> QED  BY <1>1, <1>3, <1>7, <2>1, <2>2 DEF Memory!Closes
<1>9. CASE course.lesson # n
  BY <1>0, <1>1, <1>8, <1>9 DEF AdvancedCourse, CompletesLeftLesson
<1>10. CASE course.lesson = n
  <2>1. /\ at[r] = "complete_commit" /\ LocalOK(at[r], loc[r]) /\ loc[r] \in Local
        /\ course \in [lesson : Nat, run : Nat, start : Nat]
    BY Known DEF CommitCompletion, HInv
  <2>2. course' = [course EXCEPT !.lesson = loc[r].target]
    BY <1>0, <1>1, <1>10 DEF AdvancedCourse
  <2>3. course'.lesson = loc[r].target /\ n < course'.lesson
    BY <1>0, <2>1, <2>2 DEF LocalOK
  <2> DEFINE Completes(s) == Memory!CompleteLesson(s, course'.lesson)
  <2>4. Completes(n)
    BY <1>1, <1>8, <1>10, <2>2, <2>3 DEF Memory!CompleteLesson
  <2>5. \E s \in DOMAIN sessions : Completes(s)
    <3>1. n \in DOMAIN sessions
      BY <1>1 DEF Lessons
    <3> HIDE DEF Completes
    <3> QED  BY <2>4, <3>1
  <2> QED  BY <2>5 DEF Memory!MemoryNext
<1> QED  BY <1>9, <1>10

LEMMA ResetAgrees ==
    ASSUME HInv, NEW r \in Requests, CommitReset(r), MayReset(r)
    PROVE  Memory!MemoryNext
<1>0. PICK k, to : k = loc[r].token /\ to = loc[r].target
  OBVIOUS
<1>1. /\ k \notin DOMAIN resets /\ Lessons' = Lessons
      /\ StartedInRun(course.run) = {l \in Lessons : IsStarted(l)}
      /\ course' = [lesson |-> to, run |-> course.run + 1, start |-> to]
      /\ loc[r].run = course.run
      /\ archive' = [n \in DOMAIN archive \cup {course.run} |->
                        IF n = course.run THEN [w \in Words |-> CurrentRow(w)]
                                          ELSE archive[n]]
      /\ rows' = rows
  BY <1>0, ResetEffect DEF HInv
<1>2. /\ loc[r].start = course.lesson - course.start + 1
      /\ loc[r].abandoned = Cardinality(StartedInRun(course.run))
      /\ IsNextPhysicalLesson(to, course.lesson)
  BY <1>0 DEF MayReset, RunLessonNo, CountOf
<1>3. Memory!StartedNow = StartedInRun(course.run)
  BY DEF Memory!StartedNow, Memory!IsOpen, StartedInRun, IsStarted, Lessons
<1>4. Memory!IsPastAllLessons(course'.lesson)
  <2>1. /\ course.lesson \in Nat /\ to \in Nat /\ Lessons \subseteq Nat
    BY <1>0, Known DEF HInv, IInv, TypeOK, Local
  <2>2. /\ to - 1 \in Lessons \cup {course.lesson}
        /\ \A m \in Lessons \cup {course.lesson} : m <= to - 1
    BY <1>2 DEF IsNextPhysicalLesson, IsGreatest
  <2>3. \A l \in Lessons : l < to
    BY <2>1, <2>2
  <2>4. course.lesson < to
    BY <2>1, <2>2
  <2> QED  BY <1>1, <2>2, <2>3, <2>4 DEF Memory!IsPastAllLessons, Lessons
<1>5. resets' = [j \in DOMAIN resets \cup {k} |->
            IF j = k
              THEN [fromRun |-> course.run, runLesson |-> course.lesson - course.start + 1,
                    toLesson |-> to, abandoned |-> Memory!Cardinality(Memory!StartedNow)]
              ELSE resets[j]]
  BY <1>0, <1>1, <1>2, <1>3, SameCardinality DEF CommitReset, ResetRecord
<1>6. sessions' = [s \in DOMAIN sessions |->
            IF s \in Memory!StartedNow THEN [sessions[s] EXCEPT !.status = "abandoned"]
                                       ELSE sessions[s]]
  BY <1>1, <1>3 DEF CommitReset, AbandonedSessions, Lessons
<1>7. archive' = [n \in DOMAIN archive \cup {course.run} |->
            IF n = course.run THEN [w \in Words |-> Memory!CurrentRow(w)] ELSE archive[n]]
  <2>1. \A w \in Words : Memory!CurrentRow(w) = CurrentRow(w)
    BY DEF Memory!CurrentRow, Memory!NoRow, CurrentRow, NoRow
  <2> QED  BY <1>1, <2>1
<1>8. course'.lesson = to /\ [l \in Lessons |-> l]' = [l \in Lessons |-> l]
  BY <1>1
<1> DEFINE Resets(token) == Memory!ResetCourseProgress(token, course'.lesson)
<1>9. Resets(k)
  BY <1>1, <1>4, <1>5, <1>6, <1>7, <1>8 DEF Memory!ResetCourseProgress
<1>10. \E token \in DOMAIN resets' : Resets(token)
  <2>1. k \in DOMAIN resets'
    BY <1>5
  <2> HIDE DEF Resets
  <2> QED  BY <1>9, <2>1
<1> QED  BY <1>10 DEF Memory!MemoryNext

LEMMA InitAgrees == Init => Memory!MemoryInit
BY DEF Init, Lessons, NoRow, Memory!MemoryInit

LEMMA NextAgrees ==
    ASSUME HInv, [Next]_vars
    PROVE  UNCHANGED db \/ Memory!MemoryNext \/ CompletesLeftLesson
<1>1. CASE \E r \in Requests : AdvanceCourseLessonNo(r)
  BY <1>1, AdvanceAgrees
<1>2. CASE \E r \in Requests : CreateLesson(r) /\ MayInsertSession(r)
  BY <1>2, CreateAgrees
<1>3. CASE \E r \in Requests : RecordAnswer(r) /\ MayInsertLog(r)
  BY <1>3, RecordAgrees
<1>4. CASE \E r \in Requests : CommitCompletion(r) /\ MayComplete(loc[r].lesson)
  BY <1>4, CompletionAgrees
<1>5. CASE \E r \in Requests : CommitReset(r) /\ MayReset(r)
  BY <1>5, ResetAgrees
<1> QED  BY <1>1, <1>2, <1>3, <1>4, <1>5, DatabaseSteps

(* The database starts as the repository in memory does, and every batch   *)
(* of a start, an answer, a completion or a reset changes it as the whole  *)
(* method of the repository in memory would at that moment, although its   *)
(* request computed what it writes from earlier reads.  The one difference *)
(* is the completion of a started lesson that the course has left.         *)
THEOREM RequestsActAsInMemory == Spec => Memory!MemoryInit /\ AgreesWithMemory
<1>1. HInv /\ [Next]_vars => [Memory!MemoryNext \/ CompletesLeftLesson]_db
  BY NextAgrees
<1>2. Spec => Memory!MemoryInit
  BY InitAgrees, PTL DEF Spec
<1>3. Spec => AgreesWithMemory
  BY <1>1, KnowledgeHolds, PTL DEF Spec, AgreesWithMemory
<1> QED  BY <1>2, <1>3

-----------------------------------------------------------------------------
(* Every lesson implements LessonQueuePromise: the batch that starts it,   *)
(* the one that records an answer, the one that completes it and the reset *)
(* that abandons it are steps of the promise, and nothing else touches it. *)
(* What a request computed earlier still fits when it is written, because  *)
(* the invariant of CourseRuntimeProofs says what it knows of the session. *)

LEMMA SameCardinal ==
    ASSUME NEW l, NEW S
    PROVE  Queue(l)!Cardinality(S) = Cardinality(S)
BY DEF Queue!Cardinality, Cardinality

LEMMA SameTask ==
    ASSUME NEW l
    PROVE  Queue(l)!Task = Task
BY DEF Queue!Task, Task

LEMMA TaskIsFinite == IsFiniteSet(Task)
<1> DEFINE P == Words \X (0 .. MaxTasksPerWord - 1)
           f == [t \in Task |-> <<t.word, t.nth>>]
<1>1. f \in Injection(Task, P)
  <2>1. \A t \in Task : t.word \in Words /\ t.nth \in 0 .. MaxTasksPerWord - 1
    BY DEF Task
  <2>2. \A t, u \in Task : t.word = u.word /\ t.nth = u.nth => t = u
    BY DEF Task
  <2> QED  BY <2>1, <2>2 DEF Injection, IsInjective
<1>2. IsFiniteSet(P)
  <2>1. IsFiniteSet(0 .. MaxTasksPerWord - 1)
    BY BoundsAssumption, FS_Interval
  <2> QED  BY <2>1, WordsAssumption, FS_Product
<1> QED  BY ONLY <1>1, <1>2, FS_Injection

LEMMA PlanIsSmall ==
    ASSUME NEW l, NEW t, NEW score, NEW new \in PlannedTasks(l, t, score)
    PROVE  \E W \in SUBSET RepeatableWords(l, t) :
              /\ new = {NextTask(l, w) : w \in W}
              /\ Cardinality(new) <= MaxPlanned
              /\ score = "pass" => Cardinality(new) <= 1 /\ t.word \notin W
<1>1. PICK W \in SUBSET RepeatableWords(l, t) :
        /\ new = {NextTask(l, w) : w \in W}
        /\ Cardinality(W) <= MaxPlanned
        /\ score = "pass" => Cardinality(W) <= 1 /\ t.word \notin W
  BY DEF PlannedTasks, CountOf
<1> DEFINE f == [w \in W |-> NextTask(l, w)]
<1>2. f \in Bijection(W, new)
  <2>1. \A v, w \in W : NextTask(l, v) = NextTask(l, w) => v = w
    BY DEF NextTask
  <2> QED  BY <1>1, <2>1 DEF Bijection, Injection, Surjection, IsInjective
<1>3. IsFiniteSet(W)
  <2>1. W \subseteq Words
    BY DEF RepeatableWords
  <2> QED  BY <2>1, WordsAssumption, FS_Subset
<1>4. Cardinality(new) = Cardinality(W)
  <2> HIDE DEF f
  <2> QED  BY <1>2, <1>3, FS_Bijection DEF ExistsBijection
<1> QED  BY <1>1, <1>4

-----------------------------------------------------------------------------
(* What a step does to one lesson.                                         *)

LEMMA OtherLesson ==
    ASSUME NEW l, l \in Lessons' <=> l \in Lessons,
           l \in Lessons => /\ sessions'[l].status = sessions[l].status
                            /\ sessions'[l].tasks = sessions[l].tasks
                            /\ sessions'[l].first = sessions[l].first
    PROVE  UNCHANGED Queue(l)!vars
<1>1. UNCHANGED <<LessonStatus(l), LessonTasks(l), LessonFirst(l)>>
  BY DEF LessonStatus, LessonTasks, LessonFirst
<1> QED  BY <1>1 DEF Queue!vars

LEMMA StartKeepsPromise ==
    ASSUME HInv, NEW r \in Requests, CreateLesson(r), MayInsertSession(r), NEW l, l = loc[r].lesson
    PROVE  Queue(l)!Start
<1>0. PICK new : new = loc[r].tasks
  OBVIOUS
<1>1. /\ l \notin Lessons /\ new \subseteq Task
      /\ \A t \in new : t.nth = 0
  <2>1. at[r] = "start_create" /\ Knows(at[r], loc[r]) /\ loc[r] \in Local
    BY Known DEF CreateLesson, HInv
  <2> QED  BY <1>0, <2>1 DEF MayInsertSession, Knows, KnowsTasks, Primary, Local
<1>2. l \in Lessons'
  BY CreateEffect DEF HInv
<1>3. PICK first \in new : sessions'[l] = NewSession(r, first)
  BY <1>0, CreateEffect DEF HInv
<1>4. /\ sessions'[l].status = "started" /\ sessions'[l].first = first
      /\ \A t \in Task : sessions'[l].tasks[t] = IF t \in new THEN "pending" ELSE "absent"
  BY <1>0, <1>3 DEF NewSession
<1>5. LessonStatus(l) = "none" /\ LessonStatus(l)' = "started" /\ LessonFirst(l)' = first
  BY <1>1, <1>2, <1>4 DEF LessonStatus, LessonFirst
<1>6. LessonTasks(l)' = [t \in Task |-> IF t \in new THEN "pending" ELSE "absent"]
  BY <1>2, <1>4 DEF LessonTasks
<1>7. first \in Task
  BY <1>1
<1>8. Queue(l)!IsFresh(LessonTasks(l)')
  BY <1>1, <1>6, <1>7, SameTask DEF Queue!IsFresh
<1>9. Queue(l)!ShowSome
  BY <1>1, <1>5, <1>6, <1>7, SameTask DEF Queue!ShowSome
<1> QED  BY <1>5, <1>8, <1>9 DEF Queue!Start

LEMMA ResetKeepsPromise ==
    ASSUME HInv, NEW r \in Requests, CommitReset(r), MayReset(r), NEW l
    PROVE  Queue(l)!Abandon \/ UNCHANGED Queue(l)!vars
<1>1. /\ Lessons' = Lessons
      /\ l \in Lessons =>
            /\ IsStarted(l) => sessions'[l] = [sessions[l] EXCEPT !.status = "abandoned"]
            /\ ~IsStarted(l) => sessions'[l] = sessions[l]
  BY ResetEffect DEF HInv
<1>2. CASE ~IsStarted(l)
  BY <1>1, <1>2, OtherLesson
<1>3. CASE IsStarted(l)
  <2>1. /\ l \in Lessons /\ sessions[l] \in Session /\ sessions[l].status = "started"
        /\ sessions'[l] = [sessions[l] EXCEPT !.status = "abandoned"]
    BY <1>1, <1>3 DEF IsStarted, HInv, IInv, TypeOK
  <2>2. /\ sessions'[l].status = "abandoned"
        /\ sessions'[l].tasks = sessions[l].tasks
        /\ sessions'[l].first = sessions[l].first
    BY <2>1 DEF Session
  <2>3. /\ LessonStatus(l) = "started" /\ LessonStatus(l)' = "abandoned"
        /\ UNCHANGED <<LessonTasks(l), LessonFirst(l)>>
    BY <1>1, <2>1, <2>2 DEF LessonStatus, LessonTasks, LessonFirst
  <2> QED  BY <2>3 DEF Queue!Abandon
<1> QED  BY <1>2, <1>3

LEMMA AnswerKeepsPromise ==
    ASSUME HInv, NEW r \in Requests, RecordAnswer(r), MayInsertLog(r), NEW l, l = loc[r].lesson
    PROVE  Queue(l)!AnswerRight \/ Queue(l)!AnswerWrong
<1>0. PICK t, new, score : t = loc[r].task /\ new = loc[r].tasks /\ score = loc[r].score
  OBVIOUS
<1>1. /\ l \in Lessons /\ l \in Lessons' /\ t \in Task
      /\ sessions[l].status = "started" /\ sessions'[l].status = "started"
      /\ sessions'[l].tasks = AnsweredTasks(r)
      /\ sessions'[l].first \in FirstOf(AnsweredTasks(r))
  BY <1>0, AnswerEffect DEF HInv
<1>2. sessions[l].tasks[t] = "pending" /\ sessions[l].first = t
  BY <1>0 DEF MayInsertLog
<1>3. /\ score # "none" /\ new \in PlannedTasks(l, t, score)
      /\ \A u \in new : sessions[l].tasks[u] = "absent"
      /\ new \subseteq Task /\ score \in Score
  <2>1. /\ at[r] = "submit_record" /\ KnowsTasks(at[r], loc[r]) /\ KnowsPlan(at[r], loc[r])
        /\ loc[r] \in Local
    BY Known DEF RecordAnswer, HInv, Knows
  <2> QED  BY <1>0, <1>1, <1>2, <2>1 DEF KnowsTasks, KnowsPlan, PlanPoints, Addable, Local
<1>4. PICK W \in SUBSET RepeatableWords(l, t) :
        /\ new = {NextTask(l, w) : w \in W}
        /\ Cardinality(new) <= MaxPlanned
        /\ score = "pass" => Cardinality(new) <= 1 /\ t.word \notin W
  BY <1>3, PlanIsSmall
<1>5. \A u \in Task : AnsweredTasks(r)[u] = IF u = t THEN "completed"
                                            ELSE IF u \in new THEN "pending"
                                            ELSE sessions[l].tasks[u]
  BY <1>0 DEF AnsweredTasks
<1>6. /\ LessonStatus(l) = "started" /\ LessonStatus(l)' = "started"
      /\ LessonFirst(l) = t /\ LessonFirst(l)' = sessions'[l].first
      /\ \A u \in Task : /\ LessonTasks(l)[u] = sessions[l].tasks[u]
                         /\ LessonTasks(l)'[u] = AnsweredTasks(r)[u]
      /\ DOMAIN LessonTasks(l)' = Task
  BY <1>1, <1>2 DEF LessonStatus, LessonFirst, LessonTasks
<1>7. Queue(l)!Added = new
  <2>1. Queue(l)!Added = {u \in Task : LessonTasks(l)[u] = "absent" /\ LessonTasks(l)'[u] # "absent"}
    BY SameTask DEF Queue!Added
  <2> QED  BY <1>2, <1>3, <1>5, <1>6, <2>1
<1>8. Queue(l)!ShowSome
  <2>1. \A u \in Task : LessonTasks(l)'[u] = "pending" <=> AnsweredTasks(r)[u] = "pending"
    BY <1>6
  <2>2. LessonFirst(l)' \in IF \E u \in Task : LessonTasks(l)'[u] = "pending"
                              THEN {u \in Task : LessonTasks(l)'[u] = "pending"}
                              ELSE {NoTask}
    BY <1>1, <1>6, <2>1 DEF FirstOf
  <2> QED  BY <2>2, SameTask DEF Queue!ShowSome
<1>9. Queue(l)!AnswerFirst
  <2>1. LessonFirst(l) # NoTask
    BY <1>1, <1>6, NoValueAssumption
  <2>2. \A u \in Task : LessonTasks(l)'[u] =
           IF u = LessonFirst(l) THEN "completed"
           ELSE IF LessonTasks(l)[u] = "absent" /\ LessonTasks(l)'[u] # "absent"
             THEN "pending" ELSE LessonTasks(l)[u]
    BY <1>3, <1>5, <1>6
  <2>3. UNCHANGED LessonStatus(l)
    BY <1>6
  <2> QED  BY <1>6, <1>8, <2>1, <2>2, <2>3, SameTask DEF Queue!AnswerFirst
<1>10. ASSUME NEW w \in W
       PROVE  w \in Queue(l)!Repeatable /\ Queue(l)!TaskCount(w) = TaskCount(l, w)
  <2>1. /\ w \in Words /\ TaskCount(l, w) < MaxTasksPerWord
        /\ \A u \in TasksOf(l, "pending") : u.word = w => u = t
        /\ sessions[l].tasks[PrimaryTask(w)] = "completed" \/ t = PrimaryTask(w)
    BY DEF RepeatableWords
  <2> DEFINE D == {u \in Task : u.word = w /\ sessions[l].tasks[u] # "absent"}
  <2>2. {u \in Queue(l)!Task : u.word = w /\ LessonTasks(l)[u] # "absent"} = D
    BY <1>6, SameTask
  <2>3. Queue(l)!TaskCount(w) = Cardinality(D) /\ TaskCount(l, w) = Cardinality(D)
    BY <2>2, SameCardinal DEF Queue!TaskCount, TaskCount, CountOf
  <2>4. Cardinality(D) \in Nat /\ Cardinality(D) # 0
    <3>1. IsFiniteSet(D)
      BY TaskIsFinite, FS_Subset
    <3>2. PrimaryTask(w) \in D
      BY <1>2, <2>1, BoundsAssumption DEF PrimaryTask, Task
    <3> HIDE DEF D
    <3> QED  BY <3>1, <3>2, FS_EmptySet, FS_CardinalityType
  <2>5. Queue(l)!TaskCount(w) \in 1 .. MaxTasksPerWord - 1
    <3> HIDE DEF D
    <3> QED  BY <2>1, <2>3, <2>4, BoundsAssumption
  <2>6. \A u \in Queue(l)!TasksOf("pending") : u.word = w => u = LessonFirst(l)
    BY <1>6, <2>1, SameTask DEF Queue!TasksOf, TasksOf
  <2> QED  BY <2>1, <2>3, <2>5, <2>6 DEF Queue!Repeatable
<1>11. new = Queue(l)!Repetitions(W)
  BY <1>4, <1>10 DEF Queue!Repetitions, NextTask
<1>12. ASSUME NEW V, W \subseteq V PROVE new \subseteq Queue(l)!Repetitions(V)
  BY <1>11, <1>12 DEF Queue!Repetitions
<1>13. CASE score = "pass"
  <2>1. W \subseteq Queue(l)!Repeatable \ {LessonFirst(l).word}
    BY <1>4, <1>6, <1>10, <1>13
  <2> QED  BY <1>4, <1>7, <1>9, <1>12, <1>13, <2>1, SameCardinal DEF Queue!AnswerRight
<1>14. CASE score = "fail"
  <2>1. W \subseteq Queue(l)!Repeatable
    BY <1>10
  <2> QED  BY <1>4, <1>7, <1>9, <1>12, <2>1, SameCardinal DEF Queue!AnswerWrong
<1> QED  BY <1>3, <1>13, <1>14 DEF Score

LEMMA CompletionKeepsPromise ==
    ASSUME HInv, NEW r \in Requests, CommitCompletion(r), NEW l, l = loc[r].lesson,
           MayComplete(l)
    PROVE  Queue(l)!Complete
<1>1. /\ l \in Lessons /\ l \in Lessons'
      /\ sessions[l].status = "started" /\ sessions'[l].status = "completed"
      /\ sessions'[l].tasks = SkippedTasks(r)
      /\ sessions'[l].first \in FirstOf(SkippedTasks(r))
  BY CompletionEffect DEF HInv
<1>2. \A t \in Task : sessions[l].tasks[t] = "pending" => Primary(t) /\ t \in loc[r].tasks
  <2>1. \A t \in Task : sessions[l].tasks[t] = "pending" => Primary(t)
    BY DEF MayComplete, CompletionAllowed, TasksOf
  <2>2. at[r] = "complete_commit" /\ KnowsSkips(at[r], loc[r])
    BY DEF CommitCompletion, HInv, Knows
  <2> QED  BY <1>1, <2>1, <2>2 DEF KnowsSkips, SkipPoints
<1>3. \A t \in Task : SkippedTasks(r)[t] = IF sessions[l].tasks[t] = "pending" THEN "skipped"
                                           ELSE sessions[l].tasks[t]
  BY <1>2 DEF SkippedTasks, TasksOf
<1>4. sessions'[l].first = NoTask
  BY <1>1, <1>3 DEF FirstOf
<1>5. /\ LessonStatus(l) = "started" /\ LessonStatus(l)' = "completed"
      /\ LessonFirst(l)' = NoTask
      /\ \A t \in Task : LessonTasks(l)[t] = sessions[l].tasks[t]
      /\ LessonTasks(l)' = [t \in Task |-> SkippedTasks(r)[t]]
  BY <1>1, <1>4 DEF LessonStatus, LessonFirst, LessonTasks
<1>6. LessonTasks(l)' = [t \in Task |-> IF LessonTasks(l)[t] = "pending" THEN "skipped"
                                        ELSE LessonTasks(l)[t]]
  BY <1>3, <1>5
<1>7. Queue(l)!MayComplete
  <2>1. Queue(l)!Primaries = PrimaryTasks(l)
    BY <1>5, SameTask DEF Queue!Primaries, PrimaryTasks, Primary
  <2>2. \A s : Queue(l)!TasksOf(s) = TasksOf(l, s)
    BY <1>5, SameTask DEF Queue!TasksOf, TasksOf
  <2>3. /\ 5 * Cardinality(PrimaryTasks(l) \cap TasksOf(l, "completed"))
              >= 4 * Cardinality(PrimaryTasks(l))
        /\ \A t \in TasksOf(l, "pending") : Primary(t)
    BY DEF MayComplete, CompletionAllowed, CountOf
  <2>4. TasksOf(l, "pending") \subseteq PrimaryTasks(l)
    BY <2>3 DEF TasksOf, PrimaryTasks
  <2>5. /\ Cardinality(PrimaryTasks(l)) \in Nat
        /\ Cardinality(PrimaryTasks(l) \cap TasksOf(l, "completed")) \in Nat
    <3>1. /\ IsFiniteSet(PrimaryTasks(l))
          /\ IsFiniteSet(PrimaryTasks(l) \cap TasksOf(l, "completed"))
      BY TaskIsFinite, FS_Subset DEF PrimaryTasks
    <3> QED  BY <3>1, FS_CardinalityType
  <2>6. Cardinality(PrimaryTasks(l) \cap TasksOf(l, "completed")) * 5
           >= Cardinality(PrimaryTasks(l)) * 4
    BY <2>3, <2>5
  <2> QED  BY <2>1, <2>2, <2>4, <2>6, SameCardinal DEF Queue!MayComplete
<1> QED  BY <1>5, <1>6, <1>7, SameTask DEF Queue!Complete

-----------------------------------------------------------------------------
(* The refinement.                                                         *)

LEMMA InitKeepsPromise ==
    ASSUME Init, NEW l
    PROVE  Queue(l)!Init
<1>1. l \notin Lessons
  BY DEF Init, Lessons
<1>2. /\ LessonStatus(l) = "none" /\ LessonFirst(l) = NoTask
      /\ LessonTasks(l) = [t \in Task |-> "absent"]
  BY <1>1 DEF LessonStatus, LessonFirst, LessonTasks
<1> QED  BY <1>2, SameTask DEF Queue!Init

LEMMA NextKeepsPromise ==
    ASSUME HInv, [Next]_vars, NEW l
    PROVE  [Queue(l)!Next]_(Queue(l)!vars)
<1>1. CASE UNCHANGED db
  BY <1>1, OtherLesson DEF db, Lessons
<1>2. ASSUME NEW r \in Requests, AdvanceCourseLessonNo(r)
      PROVE  UNCHANGED Queue(l)!vars
  BY <1>2, OtherLesson DEF AdvanceCourseLessonNo, Lessons
<1>3. ASSUME NEW r \in Requests, CreateLesson(r), MayInsertSession(r)
      PROVE  Queue(l)!Start \/ UNCHANGED Queue(l)!vars
  <2>1. CASE l = loc[r].lesson
    BY <1>3, <2>1, StartKeepsPromise
  <2>2. CASE l # loc[r].lesson
    <3>1. /\ Lessons' = Lessons \cup {loc[r].lesson}
          /\ l \in Lessons => sessions'[l] = sessions[l]
      BY <1>3, CreateEffect DEF HInv
    <3> QED  BY <2>2, <3>1, OtherLesson
  <2> QED  BY <2>1, <2>2
<1>4. ASSUME NEW r \in Requests, RecordAnswer(r), MayInsertLog(r)
      PROVE  Queue(l)!AnswerRight \/ Queue(l)!AnswerWrong \/ UNCHANGED Queue(l)!vars
  <2>1. CASE l = loc[r].lesson
    BY <1>4, <2>1, AnswerKeepsPromise
  <2>2. CASE l # loc[r].lesson
    <3>1. /\ Lessons' = Lessons
          /\ l \in Lessons => sessions'[l] = sessions[l]
      BY <1>4, <2>2, AnswerEffect DEF HInv
    <3> QED  BY <3>1, OtherLesson
  <2> QED  BY <2>1, <2>2
<1>5. ASSUME NEW r \in Requests, CommitCompletion(r), MayComplete(loc[r].lesson)
      PROVE  Queue(l)!Complete \/ UNCHANGED Queue(l)!vars
  <2>1. CASE l = loc[r].lesson
    BY <1>5, <2>1, CompletionKeepsPromise
  <2>2. CASE l # loc[r].lesson
    <3>1. /\ Lessons' = Lessons
          /\ l \in Lessons => sessions'[l] = sessions[l]
      BY <1>5, <2>2, CompletionEffect DEF HInv
    <3> QED  BY <3>1, OtherLesson
  <2> QED  BY <2>1, <2>2
<1>6. ASSUME NEW r \in Requests, CommitReset(r), MayReset(r)
      PROVE  Queue(l)!Abandon \/ UNCHANGED Queue(l)!vars
  BY <1>6, ResetKeepsPromise
<1> QED  BY <1>1, <1>2, <1>3, <1>4, <1>5, <1>6, DatabaseSteps DEF Queue!Next

(* Every lesson of a course, whatever its number, takes only the steps     *)
(* that the planner of the lesson queue promises: what requests plan on an *)
(* old snapshot and write later is as if each had happened at once.        *)
THEOREM EveryLessonKeepsPromise ==
    ASSUME NEW l
    PROVE  Spec => Queue(l)!Init /\ [][Queue(l)!Next]_(Queue(l)!vars)
<1>1. Init => Queue(l)!Init
  BY InitKeepsPromise
<1>2. HInv /\ [Next]_vars => [Queue(l)!Next]_(Queue(l)!vars)
  BY NextKeepsPromise
<1> QED  BY <1>1, <1>2, KnowledgeHolds, PTL DEF Spec

(* In particular the two lessons that TLC looks at.                        *)
THEOREM TwoLessonsKeepPromise == Spec => LessonsKeepPromise
<1>1. Init => Queue(1)!Init /\ Queue(2)!Init
  BY InitKeepsPromise
<1>2. HInv /\ [Next]_vars =>
         [Queue(1)!Next]_(Queue(1)!vars) /\ [Queue(2)!Next]_(Queue(2)!vars)
  BY NextKeepsPromise
<1> QED  BY <1>1, <1>2, KnowledgeHolds, PTL DEF Spec, LessonsKeepPromise

-----------------------------------------------------------------------------
(* What the rows tell of a run was logged, whatever starts, answers,       *)
(* completions and resets interleave: with two lessons open too.           *)

LEMMA PrimaryTaskType ==
    ASSUME NEW w \in Words
    PROVE  PrimaryTask(w) \in Task /\ Primary(PrimaryTask(w)) /\ PrimaryTask(w).word = w
BY BoundsAssumption DEF PrimaryTask, Primary, Task

LogsOf(w, run) == {l \in Lessons : sessions[l].run = run /\ Logged(l, PrimaryTask(w))}

(* A start that is about to write.  If the run is over, so is its lesson   *)
(* number.  Otherwise the course is where it was read, or a session of the *)
(* lesson that was read exists, or every group of words is activated: the  *)
(* course moves from a lesson without a session in the last case only.     *)
(* The words it found new are still the next group as long as it may       *)
(* insert its session.                                                     *)
StartWrites == {"start_states", "start_advance", "start_create"}

KnowsPlace(p, m) ==
    /\ p \in StartWrites \cup {"start_existing"} =>
          /\ m.run <= course.run
          /\ m.run < course.run => m.lesson < course.start
          /\ m.run = course.run =>
                m.lesson = course.lesson \/ m.lesson \in Lessons \/ NextGroupWords = {}
    /\ p = "start_advance" /\ m.run = course.run => NextGroupWords = {}
    /\ p = "start_create" /\ m.run = course.run /\ m.lesson \notin Lessons =>
          m.words \in {{}, NextGroupWords}

(* An answer that is about to write a row of the current run: the row it   *)
(* computed counts at most the answers that are logged and its own.        *)
RowPoints == {"submit_recheck", "submit_record"}

KnowsAttempts(p, m) ==
    p \in RowPoints /\ m.row.run = course.run =>
        /\ m.task.word \in Activated
        /\ m.row.attempts <= LoggedPrimaries(m.task.word, course.run)
                                + (IF Primary(m.task) THEN 1 ELSE 0)

KnowsProgress(p, m) == KnowsPlace(p, m) /\ KnowsAttempts(p, m)

PInv ==
    /\ HInv
    /\ ArchiveIsOld
    /\ AttemptsAreLogged
    /\ \A r \in Requests : KnowsProgress(at[r], loc[r])

LEMMA NextGroupIsNew == NextGroupWords \cap Activated = {}
BY DEF NextGroupWords, UnactivatedGroups

LEMMA SameNextGroup ==
    ASSUME Activated' = Activated
    PROVE  NextGroupWords' = NextGroupWords
<1>1. UnactivatedGroups' = UnactivatedGroups
  BY DEF UnactivatedGroups
<1> QED  BY <1>1 DEF NextGroupWords

(* Sessions stay, and the logs only grow.                                  *)
LEMMA LessonsStay ==
    ASSUME HInv, [Next]_vars, NEW l \in Lessons
    PROVE  l \in Lessons' /\ sessions'[l].run = sessions[l].run
<1>0. IInv /\ sessions[l] \in Session
  BY DEF HInv, IInv, TypeOK
<1>1. CASE UNCHANGED db \/ \E r \in Requests : AdvanceCourseLessonNo(r)
  BY <1>1 DEF db, AdvanceCourseLessonNo, Lessons
<1>2. CASE \E r \in Requests : CreateLesson(r) /\ MayInsertSession(r)
  BY <1>0, <1>2, CreateEffect
<1>3. CASE \E r \in Requests : RecordAnswer(r) /\ MayInsertLog(r)
  BY <1>0, <1>3, AnswerEffect
<1>4. CASE \E r \in Requests : CommitCompletion(r) /\ MayComplete(loc[r].lesson)
  BY <1>0, <1>4, CompletionEffect
<1>5. CASE \E r \in Requests : CommitReset(r) /\ MayReset(r)
  <2>1. /\ Lessons' = Lessons
        /\ IsStarted(l) => sessions'[l] = [sessions[l] EXCEPT !.status = "abandoned"]
        /\ ~IsStarted(l) => sessions'[l] = sessions[l]
    BY <1>0, <1>5, ResetEffect
  <2> QED  BY <1>0, <2>1 DEF Session
<1> QED  BY <1>1, <1>2, <1>3, <1>4, <1>5, DatabaseSteps

LEMMA LogsGrow ==
    ASSUME HInv, HInv', [Next]_vars, NEW w \in Words, NEW k
    PROVE  /\ LogsOf(w, k) \subseteq LogsOf(w, k)'
           /\ IsFiniteSet(LogsOf(w, k))
           /\ LoggedPrimaries(w, k) = Cardinality(LogsOf(w, k))
           /\ LoggedPrimaries(w, k)' = Cardinality(LogsOf(w, k)')
           /\ LoggedPrimaries(w, k) \in Nat /\ LoggedPrimaries(w, k)' \in Nat
           /\ LoggedPrimaries(w, k) <= LoggedPrimaries(w, k)'
<1>1. LogsOf(w, k) \subseteq Lessons /\ LogsOf(w, k)' \subseteq Lessons'
  BY DEF LogsOf
<1>2. IsFiniteSet(Lessons) /\ IsFiniteSet(Lessons')
  BY DEF HInv, IInv, RequestsAreBehind
<1>3. IsFiniteSet(LogsOf(w, k)) /\ IsFiniteSet(LogsOf(w, k)')
  BY <1>1, <1>2, FS_Subset
<1>4. ASSUME NEW l \in LogsOf(w, k) PROVE l \in LogsOf(w, k)'
  <2>1. l \in Lessons /\ sessions[l].run = k /\ Logged(l, PrimaryTask(w))
    BY DEF LogsOf
  <2>2. sessions'[l].score[PrimaryTask(w)] = sessions[l].score[PrimaryTask(w)]
    BY <2>1, PrimaryTaskType, StepKeepsHistory
  <2>3. l \in Lessons' /\ sessions'[l].run = k
    BY <2>1, LessonsStay
  <2> QED  BY <2>1, <2>2, <2>3 DEF LogsOf, Logged
<1>5. /\ LoggedPrimaries(w, k) = Cardinality(LogsOf(w, k))
      /\ LoggedPrimaries(w, k)' = Cardinality(LogsOf(w, k)')
  BY DEF LoggedPrimaries, LogsOf, CountOf
<1>6. LogsOf(w, k) \subseteq LogsOf(w, k)'
  BY <1>4
<1>7. Cardinality(LogsOf(w, k)) <= Cardinality(LogsOf(w, k)')
  BY <1>3, <1>6, FS_Subset
<1> QED  BY <1>3, <1>5, <1>6, <1>7, FS_CardinalityType

(* What a recorded answer writes.                                          *)
LEMMA RecordedProgress ==
    ASSUME PInv, NEW r \in Requests, RecordAnswer(r), MayInsertLog(r),
           NEW n, NEW t, n = loc[r].lesson, t = loc[r].task
    PROVE  /\ n \in Lessons /\ sessions[n].run = course.run
           /\ t \in Task /\ t.word \in Words /\ t.word \in Activated
           /\ ~Logged(n, t) /\ sessions'[n].score[t] # "none"
           /\ loc[r].row \in Row /\ loc[r].row.run = course.run
           /\ loc[r].row.attempts <= LoggedPrimaries(t.word, course.run)
                                        + (IF Primary(t) THEN 1 ELSE 0)
           /\ rows' = IF PersistsWordState(r) THEN [rows EXCEPT ![t.word] = loc[r].row]
                                              ELSE rows
           /\ course' = course /\ archive' = archive /\ Lessons' = Lessons
           /\ Activated' = Activated
<1>1. /\ n \in Lessons /\ t \in Task /\ Lessons' = Lessons
      /\ course' = course /\ archive' = archive
      /\ sessions[n].status = "started"
      /\ sessions'[n].score = [sessions[n].score EXCEPT ![t] = loc[r].score]
  BY AnswerEffect DEF PInv, HInv
<1>2. /\ at[r] = "submit_record" /\ IsStarted(n) /\ sessions[n].tasks[t] = "pending"
      /\ rows' = IF PersistsWordState(r) THEN [rows EXCEPT ![t.word] = loc[r].row] ELSE rows
  BY DEF RecordAnswer, MayInsertLog
<1>3. loc[r].row \in Row /\ loc[r].row.run = course.run
  BY <1>2, WrittenRowIsCurrent DEF PInv
<1>4. sessions[n].run = course.run
  BY <1>1 DEF PInv, HInv, IInv, RunsAreFenced
<1>5. KnowsTasks(at[r], loc[r]) /\ KnowsAttempts(at[r], loc[r])
  BY DEF PInv, HInv, Knows, KnowsProgress
<1>6. /\ t.word \in Activated
      /\ loc[r].row.attempts <= LoggedPrimaries(t.word, course.run)
                                   + (IF Primary(t) THEN 1 ELSE 0)
  BY <1>2, <1>3, <1>5 DEF KnowsAttempts, RowPoints
<1>7. sessions[n] \in Session /\ SessionOK(n) /\ rows \in [Words -> Row]
  BY <1>1 DEF PInv, HInv, IInv, TypeOK
<1>8. ~Logged(n, t)
  BY <1>1, <1>2, <1>7 DEF SessionOK
<1>9. loc[r].score # "none"
  BY <1>2, <1>5 DEF KnowsTasks, PlanPoints
<1>10. sessions'[n].score[t] # "none"
  BY <1>1, <1>7, <1>9 DEF Session
<1>11. t.word \in Words
  BY <1>1 DEF Task
<1>12. Activated' = Activated
  <2>1. \A w \in Words : rows'[w].run = course.run <=> rows[w].run = course.run
    <3>1. CASE PersistsWordState(r)
      <4>1. \A w \in Words : rows'[w] = IF w = t.word THEN loc[r].row ELSE rows[w]
        BY <1>2, <1>7, <3>1
      <4>2. rows[t.word].run = course.run
        BY <1>6 DEF Activated
      <4> QED  BY <1>3, <4>1, <4>2
    <3>2. CASE ~PersistsWordState(r)
      BY <1>2, <3>2
    <3> QED  BY <3>1, <3>2
  <2> QED  BY <1>1, <2>1 DEF Activated
<1> QED  BY <1>1, <1>2, <1>3, <1>4, <1>6, <1>8, <1>10, <1>11, <1>12

(* What a created lesson writes: rows of words that were not activated,    *)
(* and none once every group is.                                           *)
LEMMA CreatedProgress ==
    ASSUME PInv, NEW r \in Requests, CreateLesson(r), MayInsertSession(r),
           NEW n, NEW words, n = loc[r].lesson, words = loc[r].words
    PROVE  /\ n \notin Lessons /\ Lessons' = Lessons \cup {n}
           /\ course' = course /\ archive' = archive
           /\ words \in {{}, NextGroupWords} /\ words \subseteq Words
           /\ n = course.lesson \/ NextGroupWords = {}
           /\ \A w \in Words : /\ w \in words => /\ rows'[w].run = course.run
                                                 /\ rows'[w].attempts = 0
                               /\ w \notin words => rows'[w] = rows[w]
           /\ Activated' = Activated \cup words
<1>1. /\ Lessons' = Lessons \cup {n}
      /\ rows' = [w \in Words |-> IF w \in words THEN InitialRow(r, w) ELSE rows[w]]
      /\ course' = course /\ archive' = archive
  BY CreateEffect DEF PInv, HInv
<1>2. n \notin Lessons /\ loc[r].run = course.run /\ at[r] = "start_create"
  BY DEF MayInsertSession, CreateLesson
<1>3. KnowsPlace(at[r], loc[r]) /\ loc[r] \in Local
  BY Known DEF PInv, HInv, KnowsProgress
<1>4. words \in {{}, NextGroupWords} /\ (n = course.lesson \/ NextGroupWords = {})
  BY <1>2, <1>3 DEF KnowsPlace, StartWrites
<1>5. words \subseteq Words
  BY <1>3 DEF Local
<1>6. \A w \in Words : /\ w \in words => rows'[w].run = course.run /\ rows'[w].attempts = 0
                       /\ w \notin words => rows'[w] = rows[w]
  BY <1>1, <1>2 DEF InitialRow
<1>7. Activated' = Activated \cup words
  BY <1>1, <1>4, <1>5, <1>6, NextGroupIsNew DEF Activated
<1> QED  BY <1>1, <1>2, <1>4, <1>5, <1>6, <1>7

(* A start moves the course only when every group is activated.            *)
LEMMA AdvancedProgress ==
    ASSUME PInv, NEW r \in Requests, AdvanceCourseLessonNo(r)
    PROVE  /\ course'.run = course.run /\ course'.start = course.start
           /\ course'.lesson = course.lesson \/ NextGroupWords = {}
           /\ Activated' = Activated
<1>1. /\ course \in [lesson : Nat, run : Nat, start : Nat] /\ course.start <= course.lesson
      /\ loc[r] \in Local /\ at[r] = "start_advance" /\ KnowsPlace(at[r], loc[r])
  BY Known DEF AdvanceCourseLessonNo, PInv, HInv, KnowsProgress
<1>2. /\ course'.run = course.run /\ course'.start = course.start
      /\ course.lesson # loc[r].lesson => course'.lesson = course.lesson
  BY <1>1 DEF AdvanceCourseLessonNo
<1>3. rows' = rows
  BY DEF AdvanceCourseLessonNo
<1>4. ASSUME course.lesson = loc[r].lesson PROVE NextGroupWords = {}
  <2>1. ~(loc[r].run < course.run)
    BY <1>1, <1>4 DEF KnowsPlace, StartWrites, Local
  <2>2. loc[r].run = course.run
    BY <1>1, <2>1 DEF KnowsPlace, StartWrites, Local
  <2> QED  BY <1>1, <2>2 DEF KnowsPlace
<1> QED  BY <1>2, <1>3, <1>4 DEF Activated

(* A reset ends the run of every request that knows it.                    *)
LEMMA ResetProgressMade ==
    ASSUME IInv, NEW r \in Requests, CommitReset(r), MayReset(r)
    PROVE  /\ Lessons' = Lessons
           /\ course.run \in Nat /\ course'.run = course.run + 1
           /\ course.lesson \in Nat /\ course'.start \in Nat
           /\ course.lesson < course'.start
           /\ Activated' = {}
           /\ archive' = [k \in DOMAIN archive \cup {course.run} |->
                             IF k = course.run THEN [w \in Words |-> CurrentRow(w)]
                                               ELSE archive[k]]
<1>0. course' = [lesson |-> loc[r].target, run |-> course.run + 1, start |-> loc[r].target]
  BY ResetEffect
<1>1. /\ Lessons' = Lessons
      /\ course'.run = course.run + 1 /\ course'.start = loc[r].target
      /\ archive' = [k \in DOMAIN archive \cup {course.run} |->
                        IF k = course.run THEN [w \in Words |-> CurrentRow(w)]
                                          ELSE archive[k]]
      /\ rows' = rows
  BY <1>0, ResetEffect
<1>2. /\ course.run \in Nat /\ course.lesson \in Nat
      /\ loc[r].target \in Nat
      /\ rows \in [Words -> Row]
      /\ \A w \in Words : rows[w].run <= course.run
  BY DEF IInv, TypeOK, RunsAreFenced, Local
<1>3. course.lesson < course'.start
  <2>1. course.lesson <= loc[r].target - 1
    BY DEF MayReset, IsNextPhysicalLesson, IsGreatest
  <2> QED  BY <1>1, <1>2, <2>1
<1>4. Activated' = {}
  <2>1. \A w \in Words : rows'[w].run # course'.run
    BY <1>1, <1>2 DEF Row
  <2> QED  BY <2>1 DEF Activated
<1> QED  BY <1>1, <1>2, <1>3, <1>4

(* The steps that end no run: what happens to the lessons, to the course   *)
(* and to the words that are activated.                                    *)
LEMMA ProgressSteps ==
    ASSUME PInv, [Next]_vars, ~\E r \in Requests : CommitReset(r) /\ MayReset(r)
    PROVE  /\ course'.run = course.run /\ course'.start = course.start
           /\ archive' = archive
           /\ Lessons \subseteq Lessons' /\ Activated \subseteq Activated'
           /\ \/ /\ NextGroupWords' = NextGroupWords
                 /\ \/ course'.lesson = course.lesson
                    \/ course.lesson \in Lessons
                    \/ NextGroupWords = {}
              \/ /\ NextGroupWords # {}
                 /\ course' = course /\ course.lesson \in Lessons'
<1>0. IInv
  BY DEF PInv, HInv
<1>1. CASE UNCHANGED db
  <2>1. /\ course' = course /\ archive' = archive /\ Lessons' = Lessons
        /\ Activated' = Activated
    BY <1>1 DEF db, Lessons, Activated
  <2> QED  BY <2>1, SameNextGroup
<1>2. ASSUME NEW r \in Requests, AdvanceCourseLessonNo(r)
      PROVE  /\ course'.run = course.run /\ course'.start = course.start
             /\ archive' = archive /\ Lessons' = Lessons /\ Activated' = Activated
             /\ course'.lesson = course.lesson \/ NextGroupWords = {}
  BY <1>2, AdvancedProgress DEF AdvanceCourseLessonNo, Lessons
<1>3. ASSUME NEW r \in Requests, CreateLesson(r), MayInsertSession(r)
      PROVE  /\ course' = course /\ archive' = archive
             /\ Lessons \subseteq Lessons' /\ Activated \subseteq Activated'
             /\ \/ Activated' = Activated
                \/ NextGroupWords # {} /\ course.lesson \in Lessons'
  <2>1. PICK n, words : n = loc[r].lesson /\ words = loc[r].words
    OBVIOUS
  <2>2. /\ Lessons' = Lessons \cup {n}
        /\ course' = course /\ archive' = archive
        /\ words \in {{}, NextGroupWords}
        /\ n = course.lesson \/ NextGroupWords = {}
        /\ Activated' = Activated \cup words
    BY <1>3, <2>1, CreatedProgress
  <2> QED  BY <2>2
<1>4. ASSUME NEW r \in Requests, RecordAnswer(r), MayInsertLog(r)
      PROVE  /\ course' = course /\ archive' = archive /\ Lessons' = Lessons
             /\ Activated' = Activated
  BY <1>4, RecordedProgress
<1>5. ASSUME NEW r \in Requests, CommitCompletion(r), MayComplete(loc[r].lesson)
      PROVE  /\ course'.run = course.run /\ course'.start = course.start
             /\ archive' = archive /\ Lessons' = Lessons /\ Activated' = Activated
             /\ course'.lesson = course.lesson \/ course.lesson \in Lessons
  <2>1. /\ course'.run = course.run /\ course'.start = course.start
        /\ archive' = archive /\ Lessons' = Lessons /\ rows' = rows
        /\ loc[r].lesson \in Lessons /\ course' = AdvancedCourse(r)
    BY <1>0, <1>5, CompletionEffect
  <2>2. course'.lesson = course.lesson \/ course.lesson \in Lessons
    BY <2>1 DEF AdvancedCourse
  <2>3. Activated' = Activated
    BY <2>1 DEF Activated
  <2> QED  BY <2>1, <2>2, <2>3
<1>6. CASE \E r \in Requests : AdvanceCourseLessonNo(r)
  BY <1>2, <1>6, SameNextGroup
<1>7. CASE \E r \in Requests : CreateLesson(r) /\ MayInsertSession(r)
  BY <1>3, <1>7, SameNextGroup
<1>8. CASE \E r \in Requests : RecordAnswer(r) /\ MayInsertLog(r)
  BY <1>4, <1>8, SameNextGroup
<1>9. CASE \E r \in Requests : CommitCompletion(r) /\ MayComplete(loc[r].lesson)
  BY <1>5, <1>9, SameNextGroup
<1> QED  BY <1>1, <1>6, <1>7, <1>8, <1>9, DatabaseSteps

(* What a request knows of the progress stays true.                        *)
LEMMA ProgressKnowledgeLasts ==
    ASSUME PInv, HInv', [Next]_vars,
           NEW p, NEW m \in Local, LocalOK(p, m), KnowsProgress(p, m),
           p \in SubmitPoints => m.task.word \in Words
    PROVE  KnowsProgress(p, m)'
<1>0. /\ KnowsPlace(p, m) /\ KnowsAttempts(p, m)
      /\ m.run \in Nat /\ m.lesson \in Nat /\ m.row \in Row
      /\ IInv /\ course \in [lesson : Nat, run : Nat, start : Nat]
  BY DEF KnowsProgress, Local, PInv, HInv, IInv, TypeOK
<1>1. CASE \E r \in Requests : CommitReset(r) /\ MayReset(r)
  <2>1. /\ course'.run = course.run + 1 /\ course'.start \in Nat
        /\ course.lesson < course'.start
    BY <1>0, <1>1, ResetProgressMade
  <2>2. KnowsPlace(p, m)'
    <3>1. ASSUME p \in StartWrites \cup {"start_existing"}
          PROVE  m.run < course'.run /\ m.lesson < course'.start
      <4>1. m.run <= course.run /\ m.lesson <= course.lesson
        BY <1>0, <3>1 DEF KnowsPlace, LocalOK, StartPoints, StartWrites
      <4> QED  BY <1>0, <2>1, <4>1
    <3>2. m.run < course'.run => m.run <= course'.run /\ m.run # course'.run
      BY <1>0, <2>1
    <3> QED  BY <3>1, <3>2 DEF KnowsPlace, StartWrites
  <2>3. KnowsAttempts(p, m)'
    <3>1. p \in RowPoints => m.row.run <= course.run
      BY DEF LocalOK, RowPoints
    <3>2. m.row.run \in Nat
      BY <1>0 DEF Row
    <3>3. p \in RowPoints => m.row.run # course'.run
      BY <1>0, <2>1, <3>1, <3>2
    <3> QED  BY <3>3 DEF KnowsAttempts
  <2> QED  BY <2>2, <2>3 DEF KnowsProgress
<1>2. CASE ~\E r \in Requests : CommitReset(r) /\ MayReset(r)
  <2>1. /\ course'.run = course.run /\ course'.start = course.start
        /\ Lessons \subseteq Lessons' /\ Activated \subseteq Activated'
        /\ \/ /\ NextGroupWords' = NextGroupWords
              /\ \/ course'.lesson = course.lesson
                 \/ course.lesson \in Lessons
                 \/ NextGroupWords = {}
           \/ /\ NextGroupWords # {}
              /\ course' = course /\ course.lesson \in Lessons'
    BY <1>2, ProgressSteps
  <2>2. KnowsPlace(p, m)'
    <3>1. CASE /\ NextGroupWords' = NextGroupWords
               /\ \/ course'.lesson = course.lesson
                  \/ course.lesson \in Lessons
                  \/ NextGroupWords = {}
      BY <1>0, <2>1, <3>1 DEF KnowsPlace
    <3>2. CASE /\ NextGroupWords # {}
               /\ course' = course /\ course.lesson \in Lessons'
      BY <1>0, <2>1, <3>2 DEF KnowsPlace, StartWrites
    <3> QED  BY <2>1, <3>1, <3>2
  <2>3. ASSUME p \in RowPoints, m.row.run = course'.run
        PROVE  /\ m.task.word \in Activated'
               /\ m.row.attempts <= LoggedPrimaries(m.task.word, course.run)'
                                       + (IF Primary(m.task) THEN 1 ELSE 0)
    <3>1. PICK w, k : w = m.task.word /\ k = course.run
      OBVIOUS
    <3>2. /\ w \in Activated /\ w \in Words
          /\ m.row.attempts <= LoggedPrimaries(w, k) + (IF Primary(m.task) THEN 1 ELSE 0)
      BY <1>0, <2>1, <2>3, <3>1 DEF KnowsAttempts, RowPoints, SubmitPoints
    <3>3. /\ LoggedPrimaries(w, k) \in Nat /\ LoggedPrimaries(w, k)' \in Nat
          /\ LoggedPrimaries(w, k) <= LoggedPrimaries(w, k)'
      BY <3>2, LogsGrow DEF PInv
    <3>4. LoggedPrimaries(m.task.word, course.run)' = LoggedPrimaries(w, k)'
      BY <2>1, <3>1 DEF LoggedPrimaries
    <3>5. m.row.attempts \in Nat
      BY <1>0 DEF Row
    <3> QED  BY <2>1, <3>1, <3>2, <3>3, <3>4, <3>5
  <2>4. KnowsAttempts(p, m)'
    BY <2>3 DEF KnowsAttempts, Primary
  <2> QED  BY <2>2, <2>4 DEF KnowsProgress
<1> QED  BY <1>1, <1>2


(* What a start knows of the course when it reads it, when it has planned  *)
(* a lesson and when it has found nothing due.                             *)
ProgressPoints == StartWrites \cup {"start_existing"} \cup RowPoints

LEMMA NothingOfProgress ==
    ASSUME NEW p, NEW m, p \notin ProgressPoints
    PROVE  KnowsProgress(p, m)
BY DEF KnowsProgress, KnowsPlace, KnowsAttempts, ProgressPoints, StartWrites, RowPoints

LEMMA CourseReadKnows ==
    ASSUME IInv, NEW m, m.run = course.run, m.lesson = course.lesson
    PROVE  KnowsProgress("start_existing", m)
<1>1. course.run \in Nat
  BY DEF IInv, TypeOK
<1> QED  BY <1>1 DEF KnowsProgress, KnowsPlace, KnowsAttempts, StartWrites, RowPoints

LEMMA PlannedKnows ==
    ASSUME NEW m \in Local, KnowsProgress("start_states", m),
           NEW x \in LessonPlan(m.lesson), NEW tasks
    PROVE  KnowsProgress("start_create", [m EXCEPT !.tasks = tasks, !.words = x.fresh])
<1> DEFINE n == [m EXCEPT !.tasks = tasks, !.words = x.fresh]
<1>1. n.lesson = m.lesson /\ n.run = m.run /\ n.words = x.fresh
  BY DEF Local
<1>2. x.fresh \in {{}, NextGroupWords}
  BY DEF LessonPlan
<1> HIDE DEF n
<1>3. KnowsProgress("start_create", n)
  BY <1>1, <1>2 DEF KnowsProgress, KnowsPlace, KnowsAttempts, StartWrites, RowPoints
<1> QED  BY <1>3 DEF n

LEMMA NothingDueKnows ==
    ASSUME NEW m \in Local, KnowsProgress("start_states", m), LessonPlan(m.lesson) = {},
           NEW target
    PROVE  KnowsProgress("start_advance", [m EXCEPT !.target = target])
<1> DEFINE n == [m EXCEPT !.target = target]
<1>1. n.lesson = m.lesson /\ n.run = m.run
  BY DEF Local
<1>2. NextGroupWords = {}
  <2>1. SUFFICES ASSUME NextGroupWords # {} PROVE FALSE
    OBVIOUS
  <2> DEFINE x == [review |-> {}, fresh |-> NextGroupWords]
  <2>2. x \in [review : SUBSET Due(m.lesson), fresh : {{}, NextGroupWords}]
    OBVIOUS
  <2>3. x \in LessonPlan(m.lesson)
    BY <2>1, <2>2 DEF LessonPlan
  <2> QED  BY <2>3
<1> HIDE DEF n
<1>3. KnowsProgress("start_advance", n)
  BY <1>1, <1>2 DEF KnowsProgress, KnowsPlace, KnowsAttempts, StartWrites, RowPoints
<1> QED  BY <1>3 DEF n

(* The row an answer computes: it counts one more than the stored row if   *)
(* the task is primary.                                                    *)
LEMMA ComputedRowKnows ==
    ASSUME PInv, NEW m \in Local, m.task.word \in Words,
           CurrentRow(m.task.word) # NoRow,
           NEW u \in UpdatedRows(CurrentRow(m.task.word), m.lesson, m.task, m.score)
    PROVE  KnowsProgress("submit_recheck", [m EXCEPT !.row = u])
<1> DEFINE n == [m EXCEPT !.row = u]
<1>1. n.task = m.task /\ n.row = u
  BY DEF Local
<1>2. PICK w, old : w = m.task.word /\ old = rows[w]
  OBVIOUS
<1>3. /\ w \in Words /\ w \in Activated
      /\ old \in Row /\ CurrentRow(w) = old
  BY <1>2 DEF CurrentRow, Activated, PInv, HInv, IInv, TypeOK
<1>4. old.attempts <= LoggedPrimaries(w, course.run)
  BY <1>2, <1>3 DEF PInv, AttemptsAreLogged
<1>5. old.attempts \in Nat /\ LoggedPrimaries(w, course.run) \in Nat
  <2>1. IsFiniteSet(Lessons)
    BY DEF PInv, HInv, IInv, RequestsAreBehind
  <2>2. IsFiniteSet({l \in Lessons : sessions[l].run = course.run
                                       /\ Logged(l, PrimaryTask(w))})
    BY <2>1, FS_Subset
  <2> QED  BY <1>3, <2>2, FS_CardinalityType DEF Row, LoggedPrimaries, CountOf
<1>6. u.attempts <= old.attempts + (IF Primary(m.task) THEN 1 ELSE 0)
  <2>0. u \in UpdatedRows(old, m.lesson, m.task, m.score)
    BY <1>2, <1>3
  <2>1. CASE Primary(m.task)
    <3>1. PICK g : u = [old EXCEPT !.due = m.lesson + g, !.attempts = old.attempts + 1]
      BY <2>0, <2>1 DEF UpdatedRows
    <3>2. u.attempts = old.attempts + 1
      BY <1>3, <3>1 DEF Row
    <3> QED  BY <1>5, <2>1, <3>2
  <2>2. CASE ~Primary(m.task)
    <3>1. u.attempts = old.attempts
      BY <1>3, <2>0, <2>2 DEF UpdatedRows, Row
    <3> QED  BY <1>5, <2>2, <3>1
  <2> QED  BY <2>1, <2>2
<1>7. u.attempts \in Nat
  <2>1. m.lesson \in Nat
    BY DEF Local
  <2> QED  BY <1>2, <1>3, <2>1, UpdatedRowsType DEF Row
<1>8. u.attempts <= LoggedPrimaries(w, course.run) + (IF Primary(m.task) THEN 1 ELSE 0)
  <2>1. CASE Primary(m.task)
    BY <1>4, <1>5, <1>6, <1>7, <2>1
  <2>2. CASE ~Primary(m.task)
    BY <1>4, <1>5, <1>6, <1>7, <2>2
  <2> QED  BY <2>1, <2>2
<1> HIDE DEF n
<1>9. KnowsProgress("submit_recheck", n)
  BY <1>1, <1>2, <1>3, <1>8
     DEF KnowsProgress, KnowsPlace, KnowsAttempts, StartWrites, RowPoints
<1> QED  BY <1>9 DEF n

(* A step of a request leaves it where it needs no such knowledge, or it   *)
(* reads what it then knows.                                               *)
Learns(r) ==
    \/ \E p, m : Goto(r, p, m) /\ p \notin ProgressPoints
    \/ \E p, m : Goto(r, p, m) /\ KnowsProgress(p, m) /\ UNCHANGED db

LEMMA StartLearns ==
    ASSUME PInv, NEW r \in Requests,
           StartLesson(r) \/ GetStartedLesson(r) \/ PlanLesson(r)
             \/ RereadAdvancedCourse(r) \/ ReturnWinner(r)
    PROVE  Learns(r)
<1>0. IInv /\ loc[r] \in Local /\ KnowsProgress(at[r], loc[r])
  BY Known DEF PInv, HInv
<1>1. {"idle", "start_reply", "start_winner", "start_reread"} \cap ProgressPoints = {}
  BY DEF ProgressPoints, StartWrites, RowPoints
<1>2. ASSUME NEW p, NEW m, Goto(r, p, m), KnowsProgress(p, m), UNCHANGED db
      PROVE  Learns(r)
  BY <1>2 DEF Learns
<1>3. ASSUME NEW p, NEW m, Goto(r, p, m), p \notin ProgressPoints PROVE Learns(r)
  BY <1>3 DEF Learns
<1>4. CASE StartLesson(r) \/ RereadAdvancedCourse(r)
  <2> DEFINE m == [Nothing EXCEPT !.lesson = course.lesson,
                                  !.run    = course.run,
                                  !.start  = course.start]
  <2>1. m.run = course.run /\ m.lesson = course.lesson
    BY DEF Nothing
  <2>2. Goto(r, "start_existing", m) \/ Fail(r)
    BY <1>4 DEF StartLesson, RereadAdvancedCourse
  <2>3. UNCHANGED db
    BY <1>4 DEF StartLesson, RereadAdvancedCourse
  <2> HIDE DEF m
  <2>4. KnowsProgress("start_existing", m)
    BY <1>0, <2>1, CourseReadKnows
  <2> QED  BY <1>1, <1>2, <1>3, <2>2, <2>3, <2>4 DEF Fail
<1>5. CASE GetStartedLesson(r)
  <2>1. KnowsProgress("start_states", loc[r])
    BY <1>0, <1>5 DEF GetStartedLesson, KnowsProgress, KnowsPlace, KnowsAttempts,
                      StartWrites, RowPoints
  <2> QED  BY <1>1, <1>2, <1>3, <1>5, <2>1 DEF GetStartedLesson
<1>6. CASE PlanLesson(r)
  <2>1. at[r] = "start_states" /\ UNCHANGED db
    BY <1>6 DEF PlanLesson
  <2>2. ASSUME NEW x \in LessonPlan(loc[r].lesson),
               Goto(r, "start_create",
                    [loc[r] EXCEPT
                       !.tasks = {PrimaryTask(w) : w \in x.review \cup x.fresh},
                       !.words = x.fresh])
        PROVE  Learns(r)
    <3>1. PICK tasks : tasks = {PrimaryTask(w) : w \in x.review \cup x.fresh}
      OBVIOUS
    <3>2. KnowsProgress("start_create", [loc[r] EXCEPT !.tasks = tasks, !.words = x.fresh])
      BY <1>0, <2>1, PlannedKnows
    <3> QED  BY <1>2, <2>1, <2>2, <3>1, <3>2
  <2>3. ASSUME LessonPlan(loc[r].lesson) = {}, NEW target,
               Goto(r, "start_advance", [loc[r] EXCEPT !.target = target])
        PROVE  Learns(r)
    <3>1. KnowsProgress("start_advance", [loc[r] EXCEPT !.target = target])
      BY <1>0, <2>1, <2>3, NothingDueKnows
    <3> QED  BY <1>2, <2>1, <2>3, <3>1
  <2> QED  BY <1>1, <1>3, <1>6, <2>2, <2>3 DEF PlanLesson, Fail
<1>7. CASE ReturnWinner(r)
  BY <1>1, <1>3, <1>7 DEF ReturnWinner, Fail
<1> QED  BY <1>4, <1>5, <1>6, <1>7

LEMMA AnswerLearns ==
    ASSUME PInv, NEW r \in Requests,
           \/ \E l \in Lessons, t \in Task : SubmitAnswer(r, l, t)
           \/ GetSubmittedAnswer(r) \/ ReadQueueSnapshot(r) \/ ReturnRacedAnswer(r)
           \/ ReadWordState(r) \/ RecheckSubmittedAnswer(r) \/ ReturnRecordedAnswer(r)
    PROVE  Learns(r)
<1>0. loc[r] \in Local /\ LocalOK(at[r], loc[r]) /\ KnowsProgress(at[r], loc[r])
  BY Known DEF PInv, HInv
<1>1. {"idle", "submit_reply", "submit_existing", "submit_snapshot", "submit_raced",
       "submit_state"} \cap ProgressPoints = {}
  BY DEF ProgressPoints, StartWrites, RowPoints
<1>2. ASSUME NEW p, NEW m, Goto(r, p, m), KnowsProgress(p, m), UNCHANGED db
      PROVE  Learns(r)
  BY <1>2 DEF Learns
<1>3. ASSUME NEW p, NEW m, Goto(r, p, m), p \notin ProgressPoints PROVE Learns(r)
  BY <1>3 DEF Learns
<1>4. CASE \E l \in Lessons, t \in Task : SubmitAnswer(r, l, t)
  BY <1>1, <1>3, <1>4 DEF SubmitAnswer
<1>5. CASE GetSubmittedAnswer(r) \/ ReturnRacedAnswer(r) \/ ReturnRecordedAnswer(r)
  BY <1>1, <1>3, <1>5
     DEF GetSubmittedAnswer, ReturnRacedAnswer, ReturnRecordedAnswer, AnswerOr, Fail
<1>6. CASE ReadQueueSnapshot(r)
  BY <1>1, <1>3, <1>6 DEF ReadQueueSnapshot
<1>7. CASE ReadWordState(r)
  <2>1. at[r] = "submit_state" /\ UNCHANGED db
    BY <1>7 DEF ReadWordState
  <2>2. loc[r].task.word \in Words
    BY <1>0, <2>1 DEF LocalOK, SubmitPoints, Task
  <2>3. ASSUME CurrentRow(loc[r].task.word) # NoRow,
               NEW u \in UpdatedRows(CurrentRow(loc[r].task.word), loc[r].lesson,
                                     loc[r].task, loc[r].score),
               Goto(r, "submit_recheck", [loc[r] EXCEPT !.row = u])
        PROVE  Learns(r)
    <3>1. KnowsProgress("submit_recheck", [loc[r] EXCEPT !.row = u])
      BY <1>0, <2>2, <2>3, ComputedRowKnows
    <3> QED  BY <1>2, <2>1, <2>3, <3>1
  <2> QED  BY <1>1, <1>3, <1>7, <2>3 DEF ReadWordState, Fail
<1>8. CASE RecheckSubmittedAnswer(r)
  <2>1. at[r] = "submit_recheck" /\ UNCHANGED db
    BY <1>8 DEF RecheckSubmittedAnswer
  <2>2. KnowsProgress("submit_record", loc[r])
    BY <1>0, <2>1 DEF KnowsProgress, KnowsPlace, KnowsAttempts, StartWrites, RowPoints
  <2> QED  BY <1>1, <1>2, <1>3, <1>8, <2>1, <2>2 DEF RecheckSubmittedAnswer, AnswerOr, Fail
<1> QED  BY <1>4, <1>5, <1>6, <1>7, <1>8

LEMMA OtherStepsLearn ==
    ASSUME NEW r \in Requests,
           \/ AdvanceCourseLessonNo(r) \/ CreateLesson(r) \/ RecordAnswer(r)
           \/ \E l \in Lessons : CompleteLesson(r, l)
           \/ DecideCompletion(r) \/ ResolveNextLessonNo(r) \/ RecheckCompletion(r)
           \/ CommitCompletion(r) \/ ReturnCompletion(r)
           \/ \E token \in Tokens, run \in 1 .. MaxRun - 1, lesson \in 1 .. MaxPlayed + 1 :
                ResetCourseProgress(r, token, run, lesson)
           \/ FindCommittedReset(r) \/ ReadCourseToReset(r) \/ ReadResetStats(r)
           \/ CommitReset(r) \/ ReturnCommittedReset(r)
           \/ Deliver(r) \/ Die(r)
    PROVE  Learns(r)
<1>1. {"idle", "start_reread", "start_reply", "start_winner", "submit_outcome",
       "complete_queue", "complete_next", "complete_recheck", "complete_commit",
       "complete_outcome", "complete_reply", "reset_existing", "reset_course",
       "reset_stats", "reset_commit", "reset_failed", "reset_reply"} \cap ProgressPoints = {}
  BY DEF ProgressPoints, StartWrites, RowPoints
<1>2. ASSUME NEW p, NEW m, Goto(r, p, m), p \notin ProgressPoints PROVE Learns(r)
  BY <1>2 DEF Learns
<1>3. CASE AdvanceCourseLessonNo(r) \/ CreateLesson(r) \/ RecordAnswer(r)
  BY <1>1, <1>2, <1>3 DEF AdvanceCourseLessonNo, CreateLesson, RecordAnswer
<1>4. CASE \/ \E l \in Lessons : CompleteLesson(r, l)
           \/ DecideCompletion(r) \/ ResolveNextLessonNo(r) \/ RecheckCompletion(r)
           \/ CommitCompletion(r) \/ ReturnCompletion(r)
  BY <1>1, <1>2, <1>4
     DEF CompleteLesson, DecideCompletion, ResolveNextLessonNo, RecheckCompletion,
         CommitCompletion, ReturnCompletion, Fail
<1>5. CASE \/ \E token \in Tokens, run \in 1 .. MaxRun - 1, lesson \in 1 .. MaxPlayed + 1 :
                ResetCourseProgress(r, token, run, lesson)
           \/ FindCommittedReset(r) \/ ReadCourseToReset(r) \/ ReadResetStats(r)
           \/ CommitReset(r) \/ ReturnCommittedReset(r)
  BY <1>1, <1>2, <1>5
     DEF ResetCourseProgress, FindCommittedReset, ReadCourseToReset, ReadResetStats,
         CommitReset, ReturnCommittedReset, CommittedOr, Fail
<1>6. CASE Deliver(r) \/ Die(r)
  BY <1>1, <1>2, <1>6 DEF Deliver, Die, Fail
<1> QED  BY <1>3, <1>4, <1>5, <1>6

LEMMA KnowledgeMoves ==
    ASSUME PInv, [Next]_vars
    PROVE  UNCHANGED <<at, loc>> \/ \E r \in Requests : Learns(r)
<1>1. CASE UNCHANGED vars
  BY <1>1 DEF vars
<1>2. ASSUME NEW r \in Requests, Arrive(r) \/ Serve(r) \/ Die(r) PROVE Learns(r)
  <2>1. CASE Arrive(r)
    BY <2>1, StartLearns, AnswerLearns, OtherStepsLearn DEF Arrive
  <2>2. CASE Serve(r)
    BY <2>2, StartLearns, AnswerLearns, OtherStepsLearn DEF Serve
  <2>3. CASE Die(r)
    BY <2>3, OtherStepsLearn
  <2> QED  BY <1>2, <2>1, <2>2, <2>3
<1> QED  BY <1>1, <1>2 DEF Next

LEMMA ProgressKnown ==
    ASSUME PInv, HInv', [Next]_vars, NEW q \in Requests
    PROVE  KnowsProgress(at[q], loc[q])'
<1>0. /\ at \in [Requests -> Point] /\ loc \in [Requests -> Local]
      /\ LocalOK(at[q], loc[q]) /\ KnowsProgress(at[q], loc[q])
  BY DEF PInv, HInv, IInv, TypeOK, RequestsAreBehind
<1>1. ASSUME at'[q] = at[q], loc'[q] = loc[q] PROVE KnowsProgress(at[q], loc[q])'
  <2>1. PICK p, m : p = at[q] /\ m = loc[q]
    OBVIOUS
  <2>2. p \in SubmitPoints => m.task.word \in Words
    BY <1>0, <2>1 DEF LocalOK, Task
  <2>3. KnowsProgress(p, m)'
    BY <1>0, <2>1, <2>2, ProgressKnowledgeLasts
  <2>4. at'[q] = p /\ loc'[q] = m
    BY <1>1, <2>1
  <2> QED  BY <2>3, <2>4 DEF KnowsProgress, KnowsPlace, KnowsAttempts, LoggedPrimaries, CountOf
<1>2. CASE UNCHANGED <<at, loc>>
  BY <1>1, <1>2
<1>3. ASSUME NEW r \in Requests, Learns(r), q # r PROVE KnowsProgress(at[q], loc[q])'
  <2>1. at'[q] = at[q] /\ loc'[q] = loc[q]
    BY <1>0, <1>3 DEF Learns, Goto
  <2> QED  BY <1>1, <2>1
<1>4. ASSUME Learns(q) PROVE KnowsProgress(at[q], loc[q])'
  <2>1. ASSUME NEW p, NEW m, Goto(q, p, m), p \notin ProgressPoints
        PROVE  KnowsProgress(at[q], loc[q])'
    <3>1. at'[q] = p
      BY <1>0, <2>1 DEF Goto
    <3> QED  BY <2>1, <3>1 DEF KnowsProgress, KnowsPlace, KnowsAttempts, ProgressPoints,
                               StartWrites, RowPoints
  <2>2. ASSUME NEW p, NEW m, Goto(q, p, m), KnowsProgress(p, m), UNCHANGED db
        PROVE  KnowsProgress(at[q], loc[q])'
    <3>1. at'[q] = p /\ loc'[q] = m
      BY <1>0, <2>2 DEF Goto
    <3>2. course' = course /\ sessions' = sessions /\ Lessons' = Lessons /\ Activated' = Activated
      BY <2>2 DEF db, Lessons, Activated
    <3>3. NextGroupWords' = NextGroupWords
      BY <3>2, SameNextGroup
    <3>4. \A w, k : LoggedPrimaries(w, k)' = LoggedPrimaries(w, k)
      BY <3>2 DEF LoggedPrimaries, Logged, CountOf
    <3> QED  BY <2>2, <3>1, <3>2, <3>3, <3>4 DEF KnowsProgress, KnowsPlace, KnowsAttempts
  <2> QED  BY <1>4, <2>1, <2>2 DEF Learns
<1> QED  BY <1>2, <1>3, <1>4, KnowledgeMoves

(* A row changes when it is created, counting nothing, or together with    *)
(* the log of an answer to its word.                                       *)
LoggedWith(w, n, t) ==
    /\ t.word = w /\ ~Logged(n, t) /\ sessions'[n].score[t] # "none"
    /\ sessions[n].run = course.run
    /\ rows'[w].attempts <= LoggedPrimaries(w, course.run) + (IF Primary(t) THEN 1 ELSE 0)

LEMMA RowChanges ==
    ASSUME PInv, [Next]_vars, NEW w \in Words
    PROVE  \/ rows'[w] = rows[w]
           \/ w \notin Activated /\ rows'[w].attempts = 0
           \/ \E n \in Lessons, t \in Task : LoggedWith(w, n, t)
<1>0. IInv /\ rows \in [Words -> Row]
  BY DEF PInv, HInv, IInv, TypeOK
<1>1. CASE UNCHANGED db \/ \E r \in Requests : AdvanceCourseLessonNo(r)
  BY <1>1 DEF db, AdvanceCourseLessonNo
<1>2. ASSUME NEW r \in Requests, CreateLesson(r), MayInsertSession(r)
      PROVE  rows'[w] = rows[w] \/ (w \notin Activated /\ rows'[w].attempts = 0)
  <2>1. PICK n, words : n = loc[r].lesson /\ words = loc[r].words
    OBVIOUS
  <2>2. /\ words \in {{}, NextGroupWords}
        /\ w \in words => rows'[w].attempts = 0
        /\ w \notin words => rows'[w] = rows[w]
    BY <1>2, <2>1, CreatedProgress
  <2>3. w \in words => w \notin Activated
    BY <2>2, NextGroupIsNew
  <2> QED  BY <2>2, <2>3
<1>3. ASSUME NEW r \in Requests, RecordAnswer(r), MayInsertLog(r)
      PROVE  rows'[w] = rows[w] \/ \E n \in Lessons, t \in Task : LoggedWith(w, n, t)
  <2>1. PICK n, t : n = loc[r].lesson /\ t = loc[r].task
    OBVIOUS
  <2>2. /\ n \in Lessons /\ sessions[n].run = course.run
        /\ t \in Task /\ ~Logged(n, t) /\ sessions'[n].score[t] # "none"
        /\ loc[r].row.attempts <= LoggedPrimaries(t.word, course.run)
                                     + (IF Primary(t) THEN 1 ELSE 0)
        /\ rows' = IF PersistsWordState(r) THEN [rows EXCEPT ![t.word] = loc[r].row]
                                           ELSE rows
    BY <1>3, <2>1, RecordedProgress
  <2>3. rows'[w] = rows[w] \/ (t.word = w /\ rows'[w] = loc[r].row)
    <3>1. PICK v, new : v = t.word /\ new = loc[r].row
      OBVIOUS
    <3>2. rows' = [rows EXCEPT ![v] = new] \/ rows' = rows
      BY <2>2, <3>1
    <3>3. rows'[w] = rows[w] \/ (v = w /\ rows'[w] = new)
      BY <1>0, <3>2
    <3> QED  BY <3>1, <3>3
  <2>4. t.word = w /\ rows'[w] = loc[r].row => LoggedWith(w, n, t)
    BY <2>2 DEF LoggedWith
  <2> QED  BY <2>2, <2>3, <2>4
<1>4. CASE \E r \in Requests : CommitCompletion(r) /\ MayComplete(loc[r].lesson)
  BY <1>0, <1>4, CompletionEffect
<1>5. CASE \E r \in Requests : CommitReset(r) /\ MayReset(r)
  BY <1>0, <1>5, ResetEffect
<1>6. CASE \E r \in Requests : CreateLesson(r) /\ MayInsertSession(r)
  BY <1>2, <1>6
<1>7. CASE \E r \in Requests : RecordAnswer(r) /\ MayInsertLog(r)
  BY <1>3, <1>7
<1> QED  BY <1>1, <1>4, <1>5, <1>6, <1>7, DatabaseSteps

(* The log of a primary answer makes room for one more attempt.            *)
LEMMA LoggedAttempt ==
    ASSUME PInv, HInv', [Next]_vars, NEW w \in Words,
           NEW n \in Lessons, NEW t \in Task, LoggedWith(w, n, t)
    PROVE  rows'[w].attempts <= LoggedPrimaries(w, course.run)'
                \/ course'.run # course.run
<1> SUFFICES ASSUME course'.run = course.run
             PROVE  rows'[w].attempts <= LoggedPrimaries(w, course.run)'
  OBVIOUS
<1>1. PICK k : k = course.run
  OBVIOUS
<1>2. /\ LogsOf(w, k) \subseteq LogsOf(w, k)'
      /\ LoggedPrimaries(w, k) = Cardinality(LogsOf(w, k))
      /\ LoggedPrimaries(w, k)' = Cardinality(LogsOf(w, k)')
      /\ LoggedPrimaries(w, k) \in Nat /\ LoggedPrimaries(w, k)' \in Nat
      /\ LoggedPrimaries(w, k) <= LoggedPrimaries(w, k)'
      /\ IsFiniteSet(LogsOf(w, k))
  BY LogsGrow DEF PInv
<1>3. LoggedPrimaries(w, course.run)' = LoggedPrimaries(w, k)'
  BY <1>1 DEF LoggedPrimaries
<1>4. rows'[w].attempts \in Nat
  BY DEF HInv, IInv, TypeOK, Row
<1>5. CASE ~Primary(t)
  BY <1>1, <1>2, <1>3, <1>4, <1>5 DEF LoggedWith
<1>6. CASE Primary(t)
  <2>1. t = PrimaryTask(w)
    BY <1>6 DEF LoggedWith, Primary, PrimaryTask, Task
  <2>2. n \notin LogsOf(w, k)
    BY <2>1 DEF LoggedWith, LogsOf
  <2>3. n \in LogsOf(w, k)'
    <3>1. n \in Lessons' /\ sessions'[n].run = k
      BY <1>1, LessonsStay DEF LoggedWith, PInv
    <3> QED  BY <2>1, <3>1 DEF LoggedWith, LogsOf, Logged
  <2>4. PICK S, T : S = LogsOf(w, k) /\ T = LogsOf(w, k)'
    OBVIOUS
  <2>5. /\ IsFiniteSet(S \cup {n})
        /\ Cardinality(S \cup {n}) = Cardinality(S) + 1
    BY <1>2, <2>2, <2>4, FS_AddElement
  <2>6. IsFiniteSet(T)
    <3>1. IsFiniteSet(Lessons') /\ T \subseteq Lessons'
      BY <2>4 DEF HInv, IInv, RequestsAreBehind, LogsOf
    <3> QED  BY <3>1, FS_Subset
  <2>7. Cardinality(S \cup {n}) <= Cardinality(T)
    BY <1>2, <2>3, <2>4, <2>6, FS_Subset
  <2>8. LoggedPrimaries(w, k) + 1 <= LoggedPrimaries(w, k)'
    BY <1>2, <2>4, <2>5, <2>7
  <2> QED  BY <1>1, <1>2, <1>3, <1>4, <1>6, <2>8 DEF LoggedWith
<1> QED  BY <1>5, <1>6

LEMMA AttemptsStayLogged ==
    ASSUME PInv, HInv', [Next]_vars
    PROVE  AttemptsAreLogged'
<1>0. /\ IInv /\ course.run \in Nat /\ rows \in [Words -> Row]
      /\ \A k \in DOMAIN archive : archive[k] \in [Words -> Row]
  BY DEF PInv, HInv, IInv, TypeOK
<1>1. ASSUME NEW w \in Words, NEW k
      PROVE  /\ LoggedPrimaries(w, k) \in Nat /\ LoggedPrimaries(w, k)' \in Nat
             /\ LoggedPrimaries(w, k) <= LoggedPrimaries(w, k)'
  BY LogsGrow DEF PInv
<1>2. ASSUME NEW w \in Words, NEW k \in DOMAIN archive, archive[k][w].run = k
      PROVE  archive'[k][w].attempts <= LoggedPrimaries(w, k)'
  <2>1. archive'[k] = archive[k]
    BY <1>0, StepKeepsLedger DEF PInv
  <2>2. archive[k][w].attempts <= LoggedPrimaries(w, k) /\ archive[k][w].attempts \in Nat
    BY <1>0, <1>2 DEF PInv, AttemptsAreLogged, Row
  <2> QED  BY <1>1, <2>1, <2>2
<1>3. CASE \E r \in Requests : CommitReset(r) /\ MayReset(r)
  <2>1. PICK run : run = course.run
    OBVIOUS
  <2>2. /\ Activated' = {}
        /\ archive' = [k \in DOMAIN archive \cup {run} |->
                          IF k = run THEN [w \in Words |-> CurrentRow(w)] ELSE archive[k]]
    BY <1>0, <1>3, <2>1, ResetProgressMade
  <2>3. ASSUME NEW w \in Words, CurrentRow(w).run = run
        PROVE  CurrentRow(w).attempts <= LoggedPrimaries(w, run)'
    <3>1. run # 0
      BY <1>0, <2>1 DEF PInv, ArchiveIsOld
    <3>2. CurrentRow(w) = rows[w] /\ w \in Activated
      BY <2>1, <2>3, <3>1 DEF CurrentRow, NoRow, Activated
    <3>3. rows[w].attempts <= LoggedPrimaries(w, run) /\ rows[w].attempts \in Nat
      BY <1>0, <2>1, <3>2 DEF PInv, AttemptsAreLogged, Row
    <3> QED  BY <1>1, <3>2, <3>3
  <2>4. ASSUME NEW w \in Words, NEW k \in DOMAIN archive', archive'[k][w].run = k
        PROVE  archive'[k][w].attempts <= LoggedPrimaries(w, k)'
    <3>1. CASE k = run
      BY <2>2, <2>3, <2>4, <3>1
    <3>2. CASE k # run
      <4>1. k \in DOMAIN archive /\ archive'[k] = archive[k]
        BY <2>2, <3>2
      <4> QED  BY <1>2, <2>4, <4>1
    <3> QED  BY <3>1, <3>2
  <2> QED  BY <2>2, <2>4 DEF AttemptsAreLogged
<1>4. CASE ~\E r \in Requests : CommitReset(r) /\ MayReset(r)
  <2>1. course'.run = course.run /\ archive' = archive /\ Activated \subseteq Activated'
    BY <1>4, ProgressSteps
  <2>2. ASSUME NEW w \in Words, w \in Activated'
        PROVE  rows'[w].attempts <= LoggedPrimaries(w, course.run)'
    <3>1. PICK run : run = course.run
      OBVIOUS
    <3>2. LoggedPrimaries(w, course.run)' = LoggedPrimaries(w, run)'
      BY <2>1, <3>1 DEF LoggedPrimaries
    <3>3. CASE rows'[w] = rows[w]
      <4>1. w \in Activated
        BY <2>1, <2>2, <3>3 DEF Activated
      <4>2. rows[w].attempts <= LoggedPrimaries(w, run) /\ rows[w].attempts \in Nat
        BY <1>0, <3>1, <4>1 DEF PInv, AttemptsAreLogged, Row
      <4> QED  BY <1>1, <3>2, <3>3, <4>2
    <3>4. CASE rows'[w].attempts = 0
      BY <1>1, <3>2, <3>4
    <3>5. CASE \E n \in Lessons, t \in Task : LoggedWith(w, n, t)
      BY <2>1, <3>5, LoggedAttempt
    <3> QED  BY <3>3, <3>4, <3>5, RowChanges
  <2>3. \A w \in Words : \A k \in DOMAIN archive' :
          archive'[k][w].run = k => archive'[k][w].attempts <= LoggedPrimaries(w, k)'
    BY <1>2, <2>1
  <2> QED  BY <2>2, <2>3 DEF AttemptsAreLogged
<1> QED  BY <1>3, <1>4

LEMMA InitPInv == Init => PInv
<1> SUFFICES ASSUME Init PROVE PInv
  OBVIOUS
<1>1. ArchiveIsOld
  BY DEF Init, ArchiveIsOld
<1>2. AttemptsAreLogged
  <2>1. Activated = {} /\ DOMAIN archive = {}
    BY DEF Init, Activated, NoRow
  <2> QED  BY <2>1 DEF AttemptsAreLogged
<1>3. \A r \in Requests : KnowsProgress(at[r], loc[r])
  BY DEF Init, KnowsProgress, KnowsPlace, KnowsAttempts, StartWrites, RowPoints
<1> QED  BY <1>1, <1>2, <1>3, InitHInv DEF PInv

LEMMA NextPInv == PInv /\ [Next]_vars => PInv'
<1> SUFFICES ASSUME PInv, [Next]_vars PROVE PInv'
  OBVIOUS
<1>1. HInv'
  BY NextHInv DEF PInv
<1>2. ArchiveIsOld'
  BY NextArchiveIsOld DEF PInv, HInv
<1> QED  BY <1>1, <1>2, AttemptsStayLogged, ProgressKnown DEF PInv

THEOREM ProgressKnowledgeHolds == Spec => []PInv
BY InitPInv, NextPInv, PTL DEF Spec

LEMMA RowsChangeWithLogs ==
    ASSUME PInv, [Next]_vars, NEW w \in Activated, rows'[w] # rows[w]
    PROVE  LogsNow(w)
<1>1. PICK n \in Lessons, t \in Task : LoggedWith(w, n, t)
  BY RowChanges DEF Activated
<1> QED  BY <1>1 DEF LoggedWith, LogsNow

(* However many lessons are open, and whatever starts, answers,            *)
(* completions and resets interleave: a row counts no answer the logs do   *)
(* not hold, and a row of the current run changes only with the log of an  *)
(* answer to its word.                                                     *)
THEOREM ProgressStaysEarned == Spec => ProgressIsEarned
<1> DEFINE RowsEarned == \A w \in Activated : rows'[w] # rows[w] => LogsNow(w)
           Earned == AttemptsAreLogged' /\ RowsEarned
<1>1. PInv /\ [Next]_vars => RowsEarned
  BY RowsChangeWithLogs
<1>2. PInv /\ [Next]_vars => AttemptsAreLogged'
  BY NextPInv DEF PInv
<1>3. PInv /\ [Next]_vars => Earned
  BY <1>1, <1>2
<1>4. Earned <=> /\ AttemptsAreLogged'
                 /\ \A w \in Activated : rows'[w] # rows[w] => LogsNow(w)
  OBVIOUS
<1> HIDE DEF Earned
<1> QED  BY <1>3, <1>4, ProgressKnowledgeHolds, PTL DEF Spec, ProgressIsEarned

-----------------------------------------------------------------------------
(* Two devices that log in: the visits of MCTwoDevices are those that      *)
(* LoginThrottleProofs is about.                                           *)

Throttle == INSTANCE LoginThrottleProofs WITH
    Requests <- {r1, r2},
    sessions <- logins,
    at <- loginAt,
    loc <- loginLoc

LEMMA SameThrottle ==
    /\ Login!Init <=> Throttle!Init
    /\ Login!Next <=> Throttle!Next
    /\ Login!vars = Throttle!vars
    /\ Login!TypeOK <=> Throttle!TypeOK
    /\ Login!AttemptsAreBounded <=> Throttle!AttemptsAreBounded
<1>1. Login!Init <=> Throttle!Init
  BY DEF Login!Init, Throttle!Init, Login!NoRow, Throttle!NoRow,
         Login!Nothing, Throttle!Nothing
<1>2. Login!vars = Throttle!vars
  BY DEF Login!vars, Throttle!vars
<1>0. ASSUME NEW S
      PROVE  Login!Cardinality(S) = Throttle!Cardinality(S)
  BY DEF Login!Cardinality, Throttle!Cardinality
<1>3. Login!Next <=> Throttle!Next
  <2>1. Login!Cardinality(DOMAIN logins) = Throttle!Cardinality(DOMAIN logins)
    BY <1>0
  <2>2. \A r : Login!Create(r) <=> Throttle!Create(r)
    BY <2>1 DEF Login!Create, Throttle!Create, Login!Goto, Throttle!Goto
  <2>3. Login!Tick <=> Throttle!Tick
    BY DEF Login!Tick, Throttle!Tick, Login!db, Throttle!db
  <2>4. \A n : Login!Logout(n) <=> Throttle!Logout(n)
    BY DEF Login!Logout, Throttle!Logout
  <2>5. \A r, right : Login!Login(r, right) <=> Throttle!Login(r, right)
    BY DEF Login!Login, Throttle!Login, Login!Goto, Throttle!Goto,
           Login!Nothing, Throttle!Nothing, Login!db, Throttle!db
  <2>6. \A r : Login!CleanupSessions(r) <=> Throttle!CleanupSessions(r)
    BY DEF Login!CleanupSessions, Throttle!CleanupSessions, Login!Goto,
           Throttle!Goto, Login!IsSessionExpired, Throttle!IsSessionExpired
  <2>7. \A r : Login!CleanupRow(r) <=> Throttle!CleanupRow(r)
    BY DEF Login!CleanupRow, Throttle!CleanupRow, Login!Goto, Throttle!Goto,
           Login!NoRow, Throttle!NoRow, Login!IsRowExpired,
           Throttle!IsRowExpired
  <2>8. \A now : /\ Login!MayReserve(now) <=> Throttle!MayReserve(now)
                 /\ Login!Reserved(now) = Throttle!Reserved(now)
    BY DEF Login!MayReserve, Throttle!MayReserve, Login!Reserved,
           Throttle!Reserved, Login!StartsAgain, Throttle!StartsAgain,
           Login!ReachesMaximum, Throttle!ReachesMaximum, Login!IsWindowOver,
           Throttle!IsWindowOver, Login!IsBlockOver, Throttle!IsBlockOver,
           Login!NoRow, Throttle!NoRow
  <2>9. \A r : Login!ReserveAttempt(r) <=> Throttle!ReserveAttempt(r)
    BY <2>8 DEF Login!ReserveAttempt, Throttle!ReserveAttempt, Login!Goto,
                Throttle!Goto
  <2>10. \A r : Login!ReadCooldown(r) <=> Throttle!ReadCooldown(r)
    BY DEF Login!ReadCooldown, Throttle!ReadCooldown, Login!Goto,
           Throttle!Goto, Login!Fail, Throttle!Fail, Login!Nothing,
           Throttle!Nothing, Login!db, Throttle!db
  <2>11. \A r : Login!Clear(r) <=> Throttle!Clear(r)
    BY DEF Login!Clear, Throttle!Clear, Login!Goto, Throttle!Goto, Login!NoRow,
           Throttle!NoRow
  <2>12. \A r : /\ Login!Deliver(r) <=> Throttle!Deliver(r)
                /\ Login!Die(r) <=> Throttle!Die(r)
    BY DEF Login!Deliver, Throttle!Deliver, Login!Die, Throttle!Die,
           Login!Goto, Throttle!Goto, Login!Fail, Throttle!Fail, Login!Nothing,
           Throttle!Nothing, Login!Replies, Throttle!Replies, Login!db,
           Throttle!db
  <2>13. \A r : Login!Serve(r) <=> Throttle!Serve(r)
    BY <2>2, <2>6, <2>7, <2>9, <2>10, <2>11, <2>12 DEF Login!Serve,
                                                       Throttle!Serve
  <2>14. QED
    BY <2>3, <2>4, <2>5, <2>12, <2>13 DEF Login!Next, Throttle!Next
<1>4. Login!TypeOK <=> Throttle!TypeOK
  BY DEF Login!TypeOK, Throttle!TypeOK, Login!Time, Throttle!Time, Login!NoRow,
         Throttle!NoRow, Login!Row, Throttle!Row, Login!Replies, Throttle!Replies,
         Login!Point, Throttle!Point
<1>5. Login!AttemptsAreBounded <=> Throttle!AttemptsAreBounded
  BY <1>0 DEF Login!AttemptsAreBounded, Throttle!AttemptsAreBounded, Login!Time,
         Throttle!Time, Login!AdmittedFrom, Throttle!AdmittedFrom
<1>6. QED  BY <1>1, <1>2, <1>3, <1>4, <1>5

LEMMA VisitsAreThrottled == VisitSpec => Throttle!Spec
<1>1. VisitInit => Throttle!Init
  BY SameThrottle DEF VisitInit
<1>2. [VisitNext]_<<vars, loginVars, shown>> => [Throttle!Next]_Throttle!vars
  <2>1. UNCHANGED loginVars => UNCHANGED Throttle!vars
    BY DEF loginVars, Throttle!vars
  <2>2. QED  BY <2>1, SameThrottle DEF VisitNext
<1>3. QED  BY <1>1, <1>2, PTL DEF VisitSpec, Throttle!Spec

(* Two devices that log in together get fewer than twice the maximum of    *)
(* guesses in a window, between two logins that succeed.                   *)
THEOREM DevicesGuessSlowly == VisitSpec => []AttemptsAreBounded
<1>1. Throttle!Spec => []Throttle!AttemptsAreBounded
  BY Throttle!GuessingStaysSlow, ThrottleAssumption
<1>2. Throttle!Spec => []Throttle!TypeOK
  BY Throttle!ThrottleTypesHold, ThrottleAssumption
<1>3. Throttle!AttemptsAreBounded /\ Throttle!TypeOK => AttemptsAreBounded
  BY SameThrottle DEF AttemptsAreBounded
<1>4. QED  BY <1>1, <1>2, <1>3, VisitsAreThrottled, PTL

(* Nor does either of them get around a cooldown, or see a session end     *)
(* that was neither logged out nor over.                                   *)
THEOREM DevicesServeCooldowns == VisitSpec => CooldownIsServed
<1>1. Throttle!Spec => Throttle!CooldownIsServed
  BY Throttle!CooldownStaysServed, ThrottleAssumption
<1>2. Throttle!Spec => Throttle!SessionsEndOnce
  BY Throttle!SessionsStayEnded, ThrottleAssumption
<1> DEFINE Served == \A n \in 1 .. Len(admitted') :
                        n > Len(admitted) => admitted'[n] >= cooldown
           Ends == \A n \in DOMAIN logins :
              /\ Throttle!IsActive(n) /\ ~Throttle!IsActive(n)' =>
                    logins'[n].status = "revoked" \/ logins[n].expires <= clock'
              /\ ~Throttle!IsActive(n) => ~Throttle!IsActive(n)'
           Ended == \A n \in DOMAIN logins :
              /\ Login!IsActive(n) /\ ~Login!IsActive(n)' =>
                    logins'[n].status = "revoked" \/ logins[n].expires <= clock'
              /\ ~Login!IsActive(n) => ~Login!IsActive(n)'
<1>3. Throttle!CooldownIsServed => Login!CooldownIsServed
  <2>1. [Served]_Throttle!vars => [Served]_Login!vars
    BY DEF Login!vars, Throttle!vars
  <2>2. QED  BY <2>1, PTL DEF Login!CooldownIsServed, Throttle!CooldownIsServed
<1>4. Throttle!SessionsEndOnce => Login!SessionsEndOnce
  <2>1. Ends => Ended
    BY DEF Login!IsActive, Throttle!IsActive
  <2>2. [Ends]_Throttle!vars => [Ended]_Login!vars
    BY <2>1 DEF Login!vars, Throttle!vars
  <2>3. QED  BY <2>2, PTL DEF Login!SessionsEndOnce, Throttle!SessionsEndOnce
<1>5. QED  BY <1>1, <1>2, <1>3, <1>4, VisitsAreThrottled, PTL DEF CooldownIsServed
=============================================================================
