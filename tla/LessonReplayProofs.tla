--------------------------- MODULE LessonReplayProofs ---------------------------
(***************************************************************************)
(* That replays do what LessonTasks promises, for every lesson, every      *)
(* number of requests and however their statements interleave or fail.     *)
(*                                                                         *)
(* A replay only moves on: an answered task stays as it is, a draft that   *)
(* was fixed stays fixed, a completed replay stays completed.  So what a   *)
(* request checked when it read the replay (the tasks before its own are   *)
(* answered, the draft is the one its answer is about) still holds when it *)
(* writes, and the conditions of the write itself, which are few, are      *)
(* enough.                                                                 *)
(***************************************************************************)
EXTENDS LessonReplay, LessonPages, SequenceTheorems, FiniteSetTheorems,
        WellFoundedInduction, TLAPS

Places == DOMAIN SourceTasks

(* A replay has the tasks of its lesson, in their order; only sentences    *)
(* have a draft; when it is completed nothing is pending.                  *)
Replays == [status : {"started", "completed"}, tasks : [Places -> Task]]

IsReplay(x) ==
    /\ x \in Replays
    /\ \A t \in Places : /\ x.tasks[t].kind = SourceTasks[t]
                         /\ SourceTasks[t] = "plain" => x.tasks[t].draft = NoDraft
    /\ x.status = "completed" => IsDone(x)

(* How a replay may change.                                                *)
Follows(x, y) ==
    /\ x.status = "completed" => y = x
    /\ \A t \in Places :
          /\ ~IsPending(x.tasks[t]) => y.tasks[t] = x.tasks[t]
          /\ x.tasks[t].draft # NoDraft => y.tasks[t].draft = x.tasks[t].draft

(* The counters are those of the tasks.                                    *)
IsCounted(c, tasks) ==
    c = [completed |-> Cardinality(Answered(tasks)),
         correct   |-> Cardinality({t \in Answered(tasks) : tasks[t].score = "right"}),
         wrong     |-> Cardinality({t \in Answered(tasks) : tasks[t].score = "wrong"})]

IsTaken(drafts, tasks) ==
    \A t \in Places : ~IsPending(tasks[t]) => drafts[t] = tasks[t].draft

StorageOK ==
    /\ sessions \in Seq(Replays)
    /\ DOMAIN counts = DOMAIN sessions /\ DOMAIN taken = DOMAIN sessions
    /\ counts \in Seq([completed : Nat, correct : Nat, wrong : Nat])
    /\ taken \in Seq([Places -> Drafts \cup {NoDraft}])
    /\ \A s \in DOMAIN sessions :
          /\ IsReplay(sessions[s])
          /\ IsCounted(counts[s], sessions[s].tasks)
          /\ IsTaken(taken[s], sessions[s].tasks)
    /\ lesson \in [started : BOOLEAN, task : Task]

Memory == [op : Operations \cup {"none"}, s : Nat, t : Nat, draft : Drafts \cup {NoDraft},
           score : Scores \cup {"none"}, reply : {"none", "ok"}]

(* What was asked for exists.                                              *)
IsAsked(point, m) ==
    /\ point = "idle" <=> m.op = "none"
    /\ point = "idle" => m = Nothing
    /\ point = "reply" <=> m.reply = "ok"
    /\ m.s \in 0 .. Len(sessions)
    /\ m.op \in {"preview", "answer", "complete"} => m.s # 0
    /\ m.op = "start" /\ point \in {"create_reread", "reply"} => m.s # 0
    /\ point = "raced" => m.op \in {"preview", "answer", "preview_lesson"}
    /\ m.op \in {"preview", "answer"} => m.t \in Places
    /\ m.op = "preview" => SourceTasks[m.t] = "sentence"
    /\ m.op \in {"preview", "preview_lesson"} => m.draft \in Drafts
    /\ m.op = "answer" =>
          /\ m.score \in Scores
          /\ IF SourceTasks[m.t] = "sentence" THEN m.draft \in Drafts ELSE m.draft = NoDraft

(* What a request at a point has seen, with x as its replay now.           *)
HasSeen(point, m, x) ==
    /\ point \in {"task", "write"} /\ m.op \in {"preview", "answer"} =>
          \A u \in 1 .. m.t - 1 : ~IsPending(x.tasks[u])
    /\ point \in {"task", "write"} /\ m.op = "answer" /\ SourceTasks[m.t] = "sentence" =>
          x.tasks[m.t].draft = m.draft
    /\ point = "reread" /\ m.op = "answer" => ~IsPending(x.tasks[m.t])
    /\ point = "reply" /\ m.op = "answer" => x.tasks[m.t].score = m.score
    /\ point \in {"reread", "reply"} /\ m.op = "preview" => x.tasks[m.t].draft = m.draft
    /\ point = "reply" /\ m.op = "complete" => x.status = "completed"

Fits(point, m) ==
    /\ IsAsked(point, m)
    /\ m.op \in {"preview", "answer", "complete"} => HasSeen(point, m, sessions[m.s])
    /\ point = "reply" /\ m.op = "preview_lesson" => lesson.task.draft = m.draft

(* What is stored only moves on.                                           *)
MovesOn ==
    /\ Len(sessions) =< Len(sessions')
    /\ \A s \in DOMAIN sessions : Follows(sessions[s], sessions'[s])
    /\ lesson.task.draft # NoDraft => lesson'.task.draft = lesson.task.draft

MemoryOK == at \in [Requests -> Point] /\ loc \in [Requests -> Memory]

RInv == StorageOK /\ MemoryOK /\ \A r \in Requests : Fits(at[r], loc[r])

-----------------------------------------------------------------------------
(* Sequences of sessions.                                                  *)
LEMMA PlacesAre ==
    /\ Places = 1 .. Len(SourceTasks) /\ Len(SourceTasks) \in Nat
    /\ \A t \in Places : SourceTasks[t] \in Kinds
BY TasksAssumption, LenProperties, ElementOfSeq DEF Places

LEMMA SessionsAre ==
    ASSUME StorageOK
    PROVE  /\ Len(sessions) \in Nat /\ DOMAIN sessions = 1 .. Len(sessions)
           /\ \A s \in 1 .. Len(sessions) : sessions[s] \in Replays /\ IsReplay(sessions[s])
BY LenProperties, ElementOfSeq DEF StorageOK

(* What follows a replay and is followed has seen the same and more.       *)
LEMMA SeenStays ==
    ASSUME NEW x, IsReplay(x), NEW y, IsReplay(y), Follows(x, y),
           NEW point, NEW m, IsAsked(point, m), m.op \in {"preview", "answer", "complete"},
           HasSeen(point, m, x)
    PROVE  HasSeen(point, m, y)
<1>1. m.op \in {"preview", "answer"} => m.t \in Places /\ 1 .. m.t - 1 \subseteq Places
  BY PlacesAre DEF IsAsked
<1>2. \A u \in Places : ~IsPending(x.tasks[u]) => y.tasks[u] = x.tasks[u]
  BY DEF Follows
<1>3. \A u \in Places : x.tasks[u].draft # NoDraft => y.tasks[u].draft = x.tasks[u].draft
  BY DEF Follows
<1>4. x.status = "completed" => y.status = "completed"
  BY DEF Follows
<1>5. m.op = "preview" => m.draft # NoDraft
  BY TasksAssumption DEF IsAsked
<1>6. /\ m.op = "answer" => m.score # "none"
      /\ m.op = "answer" /\ SourceTasks[m.t] = "sentence" => m.draft # NoDraft
  BY TasksAssumption DEF IsAsked, Scores
<1> QED  BY <1>1, <1>2, <1>3, <1>4, <1>5, <1>6 DEF HasSeen, IsPending

LEMMA SessionsGrow ==
    ASSUME StorageOK, StorageOK', MovesOn
    PROVE  /\ Len(sessions) \in Nat /\ DOMAIN sessions = 1 .. Len(sessions)
           /\ Len(sessions') \in Nat /\ DOMAIN sessions' = 1 .. Len(sessions')
           /\ Len(sessions) =< Len(sessions')
BY LenProperties DEF StorageOK, MovesOn, Replays, Places, Task

LEMMA AskedStays ==
    ASSUME StorageOK, StorageOK', MovesOn, NEW point, NEW m \in Memory, IsAsked(point, m)
    PROVE  IsAsked(point, m)'
BY SessionsGrow DEF IsAsked, Places, Memory, Nothing

LEMMA FitsStays ==
    ASSUME StorageOK, StorageOK', MovesOn, NEW point, NEW m \in Memory, Fits(point, m)
    PROVE  Fits(point, m)'
<1>1. IsAsked(point, m)'
  BY AskedStays DEF Fits
<1>2. ASSUME m.op \in {"preview", "answer", "complete"}
      PROVE  HasSeen(point, m, sessions[m.s])'
  <2>1. m.s \in DOMAIN sessions /\ m.s \in DOMAIN sessions'
    BY <1>2, SessionsGrow DEF Fits, IsAsked
  <2>2. PICK x, y : x = sessions[m.s] /\ y = sessions'[m.s]
    OBVIOUS
  <2>3. IsReplay(x) /\ IsReplay(y) /\ Follows(x, y)
    <3>1. IsReplay(sessions[m.s]) /\ IsReplay(sessions[m.s])'
      BY <2>1 DEF StorageOK
    <3>2. IsReplay(y)
      BY <2>2, <3>1 DEF IsReplay, IsDone, IsPending, Replays, Places, Task
    <3> QED  BY <2>1, <2>2, <3>1, <3>2 DEF MovesOn
  <2>4. HasSeen(point, m, x)
    BY <1>2, <2>2 DEF Fits
  <2>5. HasSeen(point, m, y)
    BY <1>2, <2>3, <2>4, SeenStays DEF Fits
  <2>6. HasSeen(point, m, sessions[m.s])' <=> HasSeen(point, m, y)
    BY <2>2 DEF HasSeen, IsPending
  <2> QED  BY <2>5, <2>6
<1>3. point = "reply" /\ m.op = "preview_lesson" => lesson'.task.draft = m.draft
  BY TasksAssumption DEF Fits, IsAsked, MovesOn
<1> QED  BY <1>1, <1>2, <1>3 DEF Fits

LEMMA RequestStep ==
    ASSUME RInv, StorageOK', MovesOn,
           NEW r \in Requests, NEW point \in Point, NEW m \in Memory,
           Goto(r, point, m), Fits(point, m)'
    PROVE  RInv'
<1>1. MemoryOK'
  BY DEF RInv, MemoryOK, Goto
<1>2. ASSUME NEW q \in Requests
      PROVE  Fits(at[q], loc[q])'
  <2>1. PICK p \in Point, k \in Memory : p = at[q] /\ k = loc[q]
    BY DEF RInv, MemoryOK
  <2>2. CASE q = r
    BY <2>2 DEF Goto, RInv, MemoryOK
  <2>3. CASE q # r
    <3>1. at'[q] = p /\ loc'[q] = k
      BY <2>1, <2>3 DEF Goto, RInv, MemoryOK
    <3>2. Fits(p, k)
      BY <2>1 DEF RInv
    <3>3. Fits(p, k)'
      BY <3>2, FitsStays DEF RInv
    <3> QED  BY <3>1, <3>3
  <2> QED  BY <2>2, <2>3
<1> QED  BY <1>1, <1>2 DEF RInv

LEMMA StorageStays ==
    ASSUME StorageOK, UNCHANGED db
    PROVE  StorageOK' /\ MovesOn
<1>1. /\ sessions' = sessions /\ counts' = counts /\ taken' = taken /\ lesson' = lesson
  BY DEF db
<1>2. \A s \in DOMAIN sessions :
         /\ IsReplay(sessions[s])' <=> IsReplay(sessions[s])
         /\ IsCounted(counts[s], sessions[s].tasks)' <=> IsCounted(counts[s], sessions[s].tasks)
         /\ IsTaken(taken[s], sessions[s].tasks)' <=> IsTaken(taken[s], sessions[s].tasks)
  BY <1>1 DEF IsReplay, IsCounted, IsTaken, Places, Replays, Task, IsDone, IsPending, Answered
<1>3. StorageOK'
  BY <1>1, <1>2 DEF StorageOK, Replays, Places, Task
<1> QED  BY <1>1, <1>3, SessionsAre DEF MovesOn, Follows

(* A step that writes nothing.                                             *)
LEMMA ReadStep ==
    ASSUME RInv, UNCHANGED db, NEW r \in Requests, NEW point \in Point, NEW m \in Memory,
           Goto(r, point, m), Fits(point, m)
    PROVE  RInv'
BY StorageStays, FitsStays, RequestStep DEF RInv

-----------------------------------------------------------------------------
(* What the batches do to one replay.                                      *)
LEMMA RowsOfReplay ==
    ASSUME StorageOK, NEW s \in DOMAIN sessions
    PROVE  \E c \in [completed : Nat, correct : Nat, wrong : Nat],
              drafts \in [Places -> Drafts \cup {NoDraft}] :
                 /\ c = counts[s] /\ drafts = taken[s]
                 /\ counts = [counts EXCEPT ![s] = c] /\ taken = [taken EXCEPT ![s] = drafts]
<1>1. DOMAIN counts = 1 .. Len(counts) /\ DOMAIN taken = 1 .. Len(taken)
  BY LenProperties DEF StorageOK
<1>2. s \in 1 .. Len(counts) /\ s \in 1 .. Len(taken)
  BY <1>1 DEF StorageOK
<1>3. /\ counts[s] \in [completed : Nat, correct : Nat, wrong : Nat]
      /\ taken[s] \in [Places -> Drafts \cup {NoDraft}]
  BY <1>2, ElementOfSeq DEF StorageOK
<1>4. counts = [counts EXCEPT ![s] = counts[s]]
  BY <1>2, <1>3, ExceptSeq, SeqEqual DEF StorageOK
<1>5. taken = [taken EXCEPT ![s] = taken[s]]
  BY <1>2, <1>3, ExceptSeq, SeqEqual DEF StorageOK
<1> QED  BY <1>3, <1>4, <1>5

LEMMA OneReplayChanges ==
    ASSUME StorageOK, NEW s \in DOMAIN sessions, NEW y, IsReplay(y), Follows(sessions[s], y),
           sessions' = [sessions EXCEPT ![s] = y],
           NEW c \in [completed : Nat, correct : Nat, wrong : Nat],
           counts' = [counts EXCEPT ![s] = c], IsCounted(c, y.tasks),
           NEW drafts \in [Places -> Drafts \cup {NoDraft}],
           taken' = [taken EXCEPT ![s] = drafts], IsTaken(drafts, y.tasks),
           UNCHANGED lesson
    PROVE  StorageOK' /\ MovesOn
<1>1. /\ Len(sessions) \in Nat /\ DOMAIN sessions = 1 .. Len(sessions)
      /\ DOMAIN counts = 1 .. Len(counts) /\ DOMAIN taken = 1 .. Len(taken)
      /\ s \in 1 .. Len(sessions) /\ s \in 1 .. Len(counts) /\ s \in 1 .. Len(taken)
  BY LenProperties DEF StorageOK
<1>2. y \in Replays
  BY DEF IsReplay
<1>3. /\ sessions' \in Seq(Replays) /\ Len(sessions') = Len(sessions)
      /\ \A j \in DOMAIN sessions : sessions'[j] = IF j = s THEN y ELSE sessions[j]
      /\ DOMAIN sessions' = DOMAIN sessions
  BY <1>1, <1>2, ExceptSeq DEF StorageOK
<1>4. /\ counts' \in Seq([completed : Nat, correct : Nat, wrong : Nat])
      /\ \A j \in DOMAIN counts : counts'[j] = IF j = s THEN c ELSE counts[j]
      /\ DOMAIN counts' = DOMAIN counts
  BY <1>1, ExceptSeq DEF StorageOK
<1>5. /\ taken' \in Seq([Places -> Drafts \cup {NoDraft}])
      /\ \A j \in DOMAIN taken : taken'[j] = IF j = s THEN drafts ELSE taken[j]
      /\ DOMAIN taken' = DOMAIN taken
  BY <1>1, ExceptSeq DEF StorageOK
<1>6. ASSUME NEW j \in DOMAIN sessions
      PROVE  /\ IsReplay(sessions[j])'
             /\ IsCounted(counts[j], sessions[j].tasks)'
             /\ IsTaken(taken[j], sessions[j].tasks)'
             /\ Follows(sessions[j], sessions'[j])
  <2>1. CASE j = s
    <3>1. sessions'[j] = y /\ counts'[j] = c /\ taken'[j] = drafts
      BY <2>1, <1>3, <1>4, <1>5 DEF StorageOK
    <3>2. IsReplay(sessions[j])'
      BY <3>1 DEF IsReplay, Replays, Places, Task, IsDone, IsPending
    <3>3. IsCounted(counts[j], sessions[j].tasks)'
      BY <3>1 DEF IsCounted, Answered, IsPending
    <3>4. IsTaken(taken[j], sessions[j].tasks)'
      BY <3>1 DEF IsTaken, Places, IsPending
    <3> QED  BY <2>1, <3>1, <3>2, <3>3, <3>4
  <2>2. CASE j # s
    <3>1. sessions'[j] = sessions[j] /\ counts'[j] = counts[j] /\ taken'[j] = taken[j]
      BY <2>2, <1>3, <1>4, <1>5 DEF StorageOK
    <3>2. IsReplay(sessions[j])'
      BY <3>1 DEF StorageOK, IsReplay, Replays, Places, Task, IsDone, IsPending
    <3>3. IsCounted(counts[j], sessions[j].tasks)'
      <4>1. IsCounted(counts[j], sessions[j].tasks)
        BY DEF StorageOK
      <4> QED  BY <3>1, <4>1 DEF IsCounted, Answered, IsPending
    <3>4. IsTaken(taken[j], sessions[j].tasks)'
      BY <3>1 DEF StorageOK, IsTaken, Places, IsPending
    <3> QED  BY <3>1, <3>2, <3>3, <3>4 DEF Follows
  <2> QED  BY <2>1, <2>2
<1>7. StorageOK'
  BY <1>3, <1>4, <1>5, <1>6 DEF StorageOK, Replays, Places, Task
<1>8. \A j \in DOMAIN sessions : Follows(sessions[j], sessions'[j])
  BY <1>6
<1> QED  BY <1>1, <1>3, <1>7, <1>8 DEF MovesOn

LEMMA CountsAre ==
    ASSUME NEW tasks \in [Places -> Task]
    PROVE  /\ Answered(tasks) \subseteq Places
           /\ \A t \in Places : t \in Answered(tasks) <=> ~IsPending(tasks[t])
           /\ IsFiniteSet(Answered(tasks))
           /\ Cardinality(Answered(tasks)) \in Nat
           /\ Cardinality({t \in Answered(tasks) : tasks[t].score = "right"}) \in Nat
           /\ Cardinality({t \in Answered(tasks) : tasks[t].score = "wrong"}) \in Nat
           /\ Cardinality({t \in Answered(tasks) : tasks[t].score = "wrong"})
                + Cardinality({t \in Answered(tasks) : tasks[t].score = "right"})
                = Cardinality(Answered(tasks))
<1> DEFINE Right == {t \in Answered(tasks) : tasks[t].score = "right"}
           Wrong == {t \in Answered(tasks) : tasks[t].score = "wrong"}
<1>1. /\ Answered(tasks) \subseteq Places
      /\ \A t \in Places : t \in Answered(tasks) <=> ~IsPending(tasks[t])
  BY DEF Answered
<1>2. IsFiniteSet(Places)
  BY PlacesAre, FS_Interval
<1>3. IsFiniteSet(Answered(tasks)) /\ IsFiniteSet(Right) /\ IsFiniteSet(Wrong)
  BY <1>1, <1>2, FS_Subset
<1>4. Right \cup Wrong = Answered(tasks) /\ Right \cap Wrong = {}
  BY <1>1 DEF Task, Scores, IsPending
<1>5. Cardinality(Right \cap Wrong) = 0
  BY <1>4, FS_EmptySet
<1> HIDE DEF Right, Wrong
<1>6. Cardinality(Right) \in Nat /\ Cardinality(Wrong) \in Nat /\ Cardinality(Answered(tasks)) \in Nat
  BY <1>3, FS_CardinalityType
<1>7. Cardinality(Right \cup Wrong)
         = Cardinality(Right) + Cardinality(Wrong) - Cardinality(Right \cap Wrong)
  BY <1>3, FS_Union
<1>8. Cardinality(Wrong) + Cardinality(Right) = Cardinality(Answered(tasks))
  <2>1. Cardinality(Right \cup Wrong) = Cardinality(Answered(tasks))
    BY <1>4, Zenon
  <2> QED  BY <1>5, <1>6, <1>7, <2>1
<1> QED  BY <1>1, <1>3, <1>6, <1>8 DEF Right, Wrong

(* The counters do not tell drafts apart.                                  *)
LEMMA SameCounts ==
    ASSUME NEW tasks \in [Places -> Task], NEW others \in [Places -> Task],
           \A t \in Places : others[t].score = tasks[t].score,
           NEW c, IsCounted(c, tasks)
    PROVE  IsCounted(c, others)
<1>1. Answered(others) = Answered(tasks)
  BY DEF Answered, IsPending
<1>2. Answered(tasks) \subseteq Places
  BY DEF Answered
<1>3. \A score : {t \in Answered(others) : others[t].score = score}
                    = {t \in Answered(tasks) : tasks[t].score = score}
  BY <1>1, <1>2
<1> QED  BY <1>1, <1>3 DEF IsCounted

-----------------------------------------------------------------------------
(* The task of a request, with m as its memory.                            *)
LEMMA TaskIsThere ==
    ASSUME RInv, NEW r \in Requests, NEW m \in Memory, m = loc[r],
           m.op \in {"preview", "answer"}
    PROVE  /\ m.s \in DOMAIN sessions /\ m.t \in Places
           /\ IsReplay(sessions[m.s])
           /\ TaskOf(r) = sessions[m.s].tasks[m.t] /\ TaskOf(r) \in Task
           /\ TaskOf(r).kind = SourceTasks[m.t]
           /\ HasSeen(at[r], m, sessions[m.s])
<1>1. Fits(at[r], m)
  BY DEF RInv
<1>2. m.s \in DOMAIN sessions /\ m.t \in Places
  BY <1>1, SessionsAre DEF Fits, IsAsked, RInv
<1>3. IsReplay(sessions[m.s])
  BY <1>2 DEF RInv, StorageOK
<1> QED  BY <1>1, <1>2, <1>3 DEF Fits, TaskOf, IsReplay, Replays

(* A pending task of a request that found it current is still current: its *)
(* replay is not completed, and the tasks before it stay answered.         *)
LEMMA StillCurrent ==
    ASSUME RInv, NEW r \in Requests, NEW m \in Memory, m = loc[r],
           m.op \in {"preview", "answer"}, at[r] = "write", IsPending(TaskOf(r))
    PROVE  /\ sessions[m.s].status = "started"
           /\ IsCurrent(sessions[m.s], m.t)
<1>1. /\ m.s \in DOMAIN sessions /\ m.t \in Places
      /\ IsReplay(sessions[m.s])
      /\ TaskOf(r) = sessions[m.s].tasks[m.t]
      /\ HasSeen(at[r], m, sessions[m.s])
  BY TaskIsThere
<1>2. DOMAIN sessions[m.s].tasks = Places
  BY <1>1 DEF IsReplay, Replays
<1>3. sessions[m.s].status = "started"
  BY <1>1, <1>2 DEF IsReplay, Replays, IsDone
<1> QED  BY <1>1, <1>2, <1>3 DEF IsCurrent, HasSeen

(* A preview fixes the draft of a current sentence.                        *)
LEMMA SavePreviewStep ==
    ASSUME RInv, NEW r \in Requests, SavePreview(r)
    PROVE  RInv' /\ [TasksNext]_sessions
<1>1. PICK m \in Memory : m = loc[r]
  BY DEF RInv, MemoryOK
<1>2. at[r] = "write" /\ m.op = "preview"
  BY <1>1 DEF SavePreview, Is
<1>3. Fits("write", m)
  BY <1>1, <1>2 DEF RInv
<1>4. CASE ~MayFix(TaskOf(r))
  <2>1. Goto(r, "raced", m) /\ UNCHANGED db
    BY <1>1, <1>4 DEF SavePreview, Move, Reads
  <2>2. Fits("raced", m)
    BY <1>2, <1>3 DEF Fits, IsAsked, HasSeen
  <2>3. RInv'
    BY <2>1, <2>2, ReadStep DEF Point
  <2> QED  BY <2>1, <2>3 DEF db
<1>5. CASE MayFix(TaskOf(r))
  <2>1. PICK x \in Replays : x = sessions[m.s]
    BY <1>1, <1>2, TaskIsThere DEF IsReplay
  <2>2. PICK task \in Task : task = x.tasks[m.t] /\ TaskOf(r) = task
    BY <1>1, <1>2, <2>1, TaskIsThere
  <2>3. /\ m.s \in DOMAIN sessions /\ m.t \in Places /\ IsReplay(x)
        /\ task.kind = SourceTasks[m.t]
        /\ x.status = "started" /\ IsCurrent(x, m.t)
    BY <1>1, <1>2, <1>5, <2>1, <2>2, TaskIsThere, StillCurrent DEF MayFix
  <2>4. SourceTasks[m.t] = "sentence" /\ m.draft \in Drafts
    BY <1>2, <1>3 DEF Fits, IsAsked
  <2>5. /\ sessions' = [sessions EXCEPT ![m.s].tasks[m.t].draft = m.draft]
        /\ Goto(r, "reread", m) /\ UNCHANGED <<counts, taken, lesson>>
    BY <1>1, <1>5 DEF SavePreview, Move
  <2>6. Reveal(m.s, m.t, m.draft)
    BY <1>5, <2>1, <2>2, <2>3, <2>4, <2>5 DEF Reveal, MayFix
  <2>7. TasksNext
    <3>1. m.t \in DOMAIN sessions[m.s].tasks
      BY <2>1, <2>3 DEF Replays
    <3> QED  BY <2>3, <2>4, <2>6, <3>1 DEF TasksNext
  <2> DEFINE new == [task EXCEPT !.draft = m.draft]
             y == [x EXCEPT !.tasks = [x.tasks EXCEPT ![m.t] = new]]
  <2>8. /\ new \in Task /\ new.kind = task.kind /\ new.score = task.score
        /\ new.draft = m.draft
    BY <2>4 DEF Task
  <2>9. /\ y \in Replays /\ y.status = x.status
        /\ \A t \in Places : y.tasks[t] = IF t = m.t THEN new ELSE x.tasks[t]
    BY <2>3, <2>8 DEF Replays
  <2>10. sessions' = [sessions EXCEPT ![m.s] = y]
    BY <2>1, <2>2, <2>5
  <2> HIDE DEF new, y
  <2>11. IsReplay(y)
    BY <2>2, <2>3, <2>4, <2>8, <2>9 DEF IsReplay
  <2>12. IsPending(task) /\ task.draft = NoDraft
    BY <1>5, <2>2 DEF MayFix
  <2>13. Follows(x, y)
    BY <2>2, <2>3, <2>8, <2>9, <2>12 DEF Follows
  <2>14. StorageOK' /\ MovesOn
    <3>1. /\ IsCounted(counts[m.s], x.tasks) /\ IsTaken(taken[m.s], x.tasks)
      BY <2>1, <2>3 DEF RInv, StorageOK
    <3>2. IsCounted(counts[m.s], y.tasks)
      BY <2>2, <2>8, <2>9, <3>1, SameCounts DEF Replays
    <3>3. IsTaken(taken[m.s], y.tasks)
      BY <2>2, <2>8, <2>9, <2>12, <3>1 DEF IsTaken, IsPending
    <3>4. PICK c \in [completed : Nat, correct : Nat, wrong : Nat],
               drafts \in [Places -> Drafts \cup {NoDraft}] :
             /\ c = counts[m.s] /\ drafts = taken[m.s]
             /\ counts = [counts EXCEPT ![m.s] = c] /\ taken = [taken EXCEPT ![m.s] = drafts]
      BY <2>3, RowsOfReplay DEF RInv
    <3>5. /\ counts' = [counts EXCEPT ![m.s] = c]
          /\ taken' = [taken EXCEPT ![m.s] = drafts]
      BY <2>5, <3>4
    <3> QED  BY <2>1, <2>3, <2>5, <2>10, <2>11, <2>13, <3>2, <3>3, <3>4, <3>5,
                OneReplayChanges DEF RInv
  <2>15. Fits("reread", m)'
    <3>0. IsAsked("reread", m)
      BY <1>2, <1>3 DEF Fits, IsAsked
    <3>1. IsAsked("reread", m)'
      BY <2>14, <3>0, AskedStays DEF RInv
    <3>2. sessions'[m.s] = y
      BY <2>3, <2>10
    <3>3. y.tasks[m.t].draft = m.draft
      BY <2>3, <2>8, <2>9
    <3> QED  BY <1>2, <3>1, <3>2, <3>3 DEF Fits, HasSeen
  <2> QED  BY <2>5, <2>7, <2>14, <2>15, RequestStep DEF Point
<1> QED  BY <1>4, <1>5

(* An answer is recorded once, for the draft it is about, and the counters *)
(* are counted again.                                                      *)
LEMMA RecordAnswerStep ==
    ASSUME RInv, NEW r \in Requests, RecordAnswer(r)
    PROVE  RInv' /\ [TasksNext]_sessions
<1>1. PICK m \in Memory : m = loc[r]
  BY DEF RInv, MemoryOK
<1>2. /\ at[r] = "write" /\ m.op = "answer"
      /\ Goto(r, "reread", m) /\ UNCHANGED lesson
  BY <1>1 DEF RecordAnswer, Is, Move
<1>3. Fits("write", m)
  BY <1>1, <1>2 DEF RInv
<1>4. PICK x \in Replays : x = sessions[m.s]
  BY <1>1, <1>2, TaskIsThere DEF IsReplay
<1>5. PICK task \in Task : task = x.tasks[m.t] /\ TaskOf(r) = task
  BY <1>1, <1>2, <1>4, TaskIsThere
<1>6. /\ m.s \in DOMAIN sessions /\ m.t \in Places /\ IsReplay(x)
      /\ task.kind = SourceTasks[m.t] /\ HasSeen("write", m, x)
  BY <1>1, <1>2, <1>4, <1>5, TaskIsThere
<1>7. /\ m.score \in Scores
      /\ IF SourceTasks[m.t] = "sentence" THEN m.draft \in Drafts ELSE m.draft = NoDraft
  BY <1>2, <1>3 DEF Fits, IsAsked
<1>8. IsAsked("reread", m)
  BY <1>2, <1>3 DEF Fits, IsAsked
<1>9. PICK c \in [completed : Nat, correct : Nat, wrong : Nat],
           drafts \in [Places -> Drafts \cup {NoDraft}] :
         /\ c = counts[m.s] /\ drafts = taken[m.s]
         /\ counts = [counts EXCEPT ![m.s] = c] /\ taken = [taken EXCEPT ![m.s] = drafts]
  BY <1>6, RowsOfReplay DEF RInv
<1>10. IsCounted(c, x.tasks) /\ IsTaken(drafts, x.tasks)
  BY <1>4, <1>6, <1>9 DEF RInv, StorageOK
<1> DEFINE New(y, d) ==
      /\ IsReplay(y) /\ Follows(x, y) /\ sessions' = [sessions EXCEPT ![m.s] = y]
      /\ taken' = [taken EXCEPT ![m.s] = d] /\ IsTaken(d, y.tasks)
      /\ counts' = IF x.status = "started" THEN [counts EXCEPT ![m.s] = CountsOf(r, y.tasks)]
                                           ELSE counts
      /\ x.status = "completed" => y = x
      /\ ~IsPending(y.tasks[m.t])
<1>11. ASSUME NEW y, NEW d \in [Places -> Drafts \cup {NoDraft}], New(y, d)
       PROVE  RInv'
  <2> DEFINE e == IF x.status = "started" THEN CountsOf(r, y.tasks) ELSE c
  <2>1. y.tasks \in [Places -> Task]
    BY <1>11 DEF IsReplay, Replays
  <2>2. IsCounted(CountsOf(r, y.tasks), y.tasks)
    BY DEF IsCounted, CountsOf
  <2>3. CountsOf(r, y.tasks) \in [completed : Nat, correct : Nat, wrong : Nat]
    BY <2>1, CountsAre DEF CountsOf
  <2>4. e \in [completed : Nat, correct : Nat, wrong : Nat] /\ IsCounted(e, y.tasks)
    BY <1>10, <1>11, <2>2, <2>3 DEF Replays
  <2>5. counts' = [counts EXCEPT ![m.s] = e]
    BY <1>9, <1>11
  <2> HIDE DEF e
  <2>6. StorageOK' /\ MovesOn
    BY <1>2, <1>4, <1>6, <1>11, <2>4, <2>5, OneReplayChanges DEF RInv
  <2>7. Fits("reread", m)'
    <3>1. IsAsked("reread", m)'
      BY <1>8, <2>6, AskedStays DEF RInv
    <3>2. sessions'[m.s] = y
      BY <1>6, <1>11
    <3> QED  BY <1>2, <1>11, <3>1, <3>2 DEF Fits, HasSeen, IsPending
  <2> QED  BY <1>2, <2>6, <2>7, RequestStep DEF Point
<1>12. CASE IsPending(task)
  <2>1. /\ sessions' = [sessions EXCEPT ![m.s].tasks = [x.tasks EXCEPT ![m.t].score = m.score]]
        /\ taken' = [taken EXCEPT ![m.s][m.t] = m.draft]
    BY <1>1, <1>4, <1>5, <1>12 DEF RecordAnswer
  <2>2. x.status = "started" /\ IsCurrent(x, m.t)
    BY <1>1, <1>2, <1>4, <1>5, <1>12, StillCurrent
  <2> DEFINE new == [task EXCEPT !.score = m.score]
             y == [x EXCEPT !.tasks = [x.tasks EXCEPT ![m.t] = new]]
             d == [drafts EXCEPT ![m.t] = m.draft]
  <2>3. /\ new \in Task /\ new.kind = task.kind /\ new.draft = task.draft
        /\ new.score = m.score /\ ~IsPending(new)
    BY <1>7 DEF Task, Scores, IsPending
  <2>4. /\ y \in Replays /\ y.status = x.status
        /\ y.tasks = [x.tasks EXCEPT ![m.t] = new]
        /\ \A t \in Places : y.tasks[t] = IF t = m.t THEN new ELSE x.tasks[t]
    BY <1>6, <2>3 DEF Replays
  <2>5. sessions' = [sessions EXCEPT ![m.s] = y]
    BY <1>4, <1>5, <2>1
  <2>6. /\ d \in [Places -> Drafts \cup {NoDraft}]
        /\ \A t \in Places : d[t] = IF t = m.t THEN m.draft ELSE drafts[t]
        /\ taken' = [taken EXCEPT ![m.s] = d]
    BY <1>6, <1>7, <1>9, <2>1
  <2>7. counts' = [counts EXCEPT ![m.s] = CountsOf(r, y.tasks)]
    BY <1>1, <1>4, <1>5, <1>12, <2>2, <2>4 DEF RecordAnswer
  <2> HIDE DEF new, y, d
  <2>8. IsReplay(y) /\ Follows(x, y)
    BY <1>5, <1>6, <1>12, <2>2, <2>3, <2>4 DEF IsReplay, Follows
  <2>9. task.draft = m.draft
    <3>1. SourceTasks[m.t] = "sentence" \/ SourceTasks[m.t] = "plain"
      BY <1>6, PlacesAre DEF Kinds
    <3> QED  BY <1>2, <1>5, <1>6, <1>7, <3>1 DEF HasSeen, IsReplay
  <2>10. IsTaken(d, y.tasks)
    BY <1>10, <2>3, <2>4, <2>6, <2>9 DEF IsTaken
  <2>11. New(y, d)
    BY <2>2, <2>3, <2>4, <2>5, <2>6, <2>7, <2>8, <2>10, <1>6
  <2>12. Answer(m.s, m.t, m.score)
    <3>1. sessions' = [sessions EXCEPT ![m.s].tasks[m.t].score = m.score]
      BY <1>4, <2>1
    <3>2. task.kind = "sentence" => task.draft # NoDraft
      BY <1>6, <1>7, <2>9, TasksAssumption
    <3> QED  BY <1>4, <1>5, <2>2, <3>1, <3>2 DEF Answer, MayAnswer
  <2>13. TasksNext
    <3>1. m.t \in DOMAIN sessions[m.s].tasks
      BY <1>4, <1>6 DEF Replays
    <3> QED  BY <1>6, <1>7, <2>12, <3>1 DEF TasksNext
  <2> QED  BY <1>11, <2>6, <2>11, <2>13
<1>13. CASE ~IsPending(task)
  <2>1. /\ sessions' = [sessions EXCEPT ![m.s].tasks = x.tasks]
        /\ taken' = [taken EXCEPT ![m.s][m.t] = @]
        /\ counts' = IF x.status = "started"
                     THEN [counts EXCEPT ![m.s] = CountsOf(r, x.tasks)] ELSE counts
    BY <1>1, <1>4, <1>5, <1>13 DEF RecordAnswer
  <2>2. sessions' = [sessions EXCEPT ![m.s] = x]
    BY <1>4, <2>1 DEF Replays
  <2>3. taken' = [taken EXCEPT ![m.s] = drafts]
    BY <1>6, <1>9, <2>1
  <2>4. New(x, drafts)
    BY <1>5, <1>6, <1>10, <1>13, <2>1, <2>2, <2>3 DEF Follows
  <2>5. sessions' = sessions
    BY <1>4, <1>6, <2>2, ExceptSeq, SeqEqual, SessionsAre DEF RInv, StorageOK
  <2> QED  BY <1>11, <2>4, <2>5
<1> QED  BY <1>12, <1>13

(* A replay is completed when nothing is pending, once.                    *)
LEMMA CompleteReplayStep ==
    ASSUME RInv, NEW r \in Requests, CompleteReplay(r)
    PROVE  RInv' /\ [TasksNext]_sessions
<1>1. PICK m \in Memory : m = loc[r]
  BY DEF RInv, MemoryOK
<1>2. at[r] = "write" /\ m.op = "complete" /\ Goto(r, "reread", m)
  BY <1>1 DEF CompleteReplay, Is, Move
<1>3. Fits("write", m)
  BY <1>1, <1>2 DEF RInv
<1>4. IsAsked("reread", m) /\ Fits("reread", m)
  BY <1>2, <1>3 DEF Fits, IsAsked, HasSeen
<1>5. m.s \in DOMAIN sessions
  BY <1>2, <1>4, SessionsAre DEF IsAsked, RInv
<1>6. PICK x \in Replays : x = sessions[m.s] /\ IsReplay(x)
  BY <1>5 DEF IsReplay, RInv, StorageOK
<1>7. CASE UNCHANGED db
  <2>1. RInv'
    BY <1>2, <1>4, <1>7, ReadStep DEF Point
  <2> QED  BY <1>7, <2>1 DEF db
<1>8. CASE /\ x.status = "started" /\ IsDone(x)
           /\ sessions' = [sessions EXCEPT ![m.s].status = "completed"]
           /\ UNCHANGED <<counts, taken, lesson>>
  <2> DEFINE y == [x EXCEPT !.status = "completed"]
  <2>1. y \in Replays /\ y.tasks = x.tasks /\ y.status = "completed"
    BY DEF Replays
  <2>2. sessions' = [sessions EXCEPT ![m.s] = y]
    BY <1>6, <1>8
  <2> HIDE DEF y
  <2>3. IsReplay(y) /\ Follows(x, y)
    BY <1>6, <1>8, <2>1 DEF IsReplay, Follows, IsDone
  <2>4. PICK c \in [completed : Nat, correct : Nat, wrong : Nat],
             drafts \in [Places -> Drafts \cup {NoDraft}] :
           /\ c = counts[m.s] /\ drafts = taken[m.s]
           /\ counts = [counts EXCEPT ![m.s] = c] /\ taken = [taken EXCEPT ![m.s] = drafts]
    BY <1>5, RowsOfReplay DEF RInv
  <2>5. IsCounted(c, y.tasks) /\ IsTaken(drafts, y.tasks)
    BY <1>5, <1>6, <2>1, <2>4 DEF RInv, StorageOK
  <2>6. /\ counts' = [counts EXCEPT ![m.s] = c]
        /\ taken' = [taken EXCEPT ![m.s] = drafts]
    BY <1>8, <2>4
  <2>7. StorageOK' /\ MovesOn
    BY <1>5, <1>6, <1>8, <2>2, <2>3, <2>5, <2>6, OneReplayChanges DEF RInv
  <2>8. Fits("reread", m)'
    BY <1>4, <2>7, FitsStays DEF RInv
  <2>9. Complete(m.s)
    BY <1>6, <1>8 DEF Complete
  <2> QED  BY <1>2, <1>5, <2>7, <2>8, <2>9, RequestStep DEF Point, TasksNext
<1> QED  BY <1>1, <1>6, <1>7, <1>8 DEF CompleteReplay, Reads

(* A replay begins with every task of the lesson pending.                  *)
LEMMA NewReplay ==
    /\ IsReplay(NewSession) /\ NewSession.status = "started"
    /\ IsCounted(NoCounts, NewSession.tasks)
    /\ \A drafts : IsTaken(drafts, NewSession.tasks)
<1>1. \A t \in Places : /\ NewTask(SourceTasks[t]) \in Task
                        /\ NewTask(SourceTasks[t]).kind = SourceTasks[t]
                        /\ NewTask(SourceTasks[t]).score = "none"
                        /\ NewTask(SourceTasks[t]).draft = NoDraft
  BY PlacesAre DEF NewTask, Task
<1>2. NewSession = [status |-> "started",
                    tasks |-> [t \in Places |-> NewTask(SourceTasks[t])]]
  BY DEF NewSession, Places
<1> HIDE DEF NewTask
<1>3. /\ NewSession \in Replays /\ NewSession.status = "started"
      /\ NewSession.tasks \in [Places -> Task]
      /\ \A t \in Places : NewSession.tasks[t] = NewTask(SourceTasks[t])
  BY <1>1, <1>2 DEF Replays
<1>4. IsReplay(NewSession)
  BY <1>1, <1>3 DEF IsReplay
<1>5. Answered(NewSession.tasks) = {}
  BY <1>1, <1>3, CountsAre DEF IsPending
<1>6. \A score : {t \in Answered(NewSession.tasks) : NewSession.tasks[t].score = score} = {}
  BY <1>5
<1>7. IsCounted(NoCounts, NewSession.tasks)
  BY <1>5, <1>6, FS_EmptySet DEF IsCounted, NoCounts
<1>8. \A drafts : IsTaken(drafts, NewSession.tasks)
  BY <1>1, <1>3 DEF IsTaken, IsPending
<1> QED  BY <1>3, <1>4, <1>7, <1>8

LEMMA OneReplayMore ==
    ASSUME StorageOK, NEW drafts \in [Places -> Drafts \cup {NoDraft}],
           sessions' = Append(sessions, NewSession),
           counts' = Append(counts, NoCounts),
           taken' = Append(taken, drafts),
           UNCHANGED lesson
    PROVE  StorageOK' /\ MovesOn
<1>1. PICK x \in Replays : x = NewSession
  BY NewReplay DEF IsReplay
<1>2. PICK c \in [completed : Nat, correct : Nat, wrong : Nat] : c = NoCounts
  BY DEF NoCounts
<1>3. PICK n \in Nat : /\ n = Len(sessions) /\ n = Len(counts) /\ n = Len(taken)
                       /\ DOMAIN sessions = 1 .. n
  BY LenProperties DEF StorageOK
<1>4. /\ sessions' \in Seq(Replays) /\ DOMAIN sessions' = 1 .. n + 1 /\ Len(sessions') = n + 1
      /\ \A s \in 1 .. n : sessions'[s] = sessions[s]
      /\ sessions'[n + 1] = x
  BY <1>1, <1>3, AppendProperties, LenProperties DEF StorageOK
<1>5. /\ counts' \in Seq([completed : Nat, correct : Nat, wrong : Nat])
      /\ DOMAIN counts' = 1 .. n + 1
      /\ \A s \in 1 .. n : counts'[s] = counts[s]
      /\ counts'[n + 1] = c
  BY <1>2, <1>3, AppendProperties, LenProperties DEF StorageOK
<1>6. /\ taken' \in Seq([Places -> Drafts \cup {NoDraft}])
      /\ DOMAIN taken' = 1 .. n + 1
      /\ \A s \in 1 .. n : taken'[s] = taken[s]
      /\ taken'[n + 1] = drafts
  BY <1>3, AppendProperties, LenProperties DEF StorageOK
<1>7. IsReplay(x) /\ IsCounted(c, x.tasks) /\ IsTaken(drafts, x.tasks)
  BY <1>1, <1>2, NewReplay
<1>8. ASSUME NEW s \in 1 .. n + 1
      PROVE  /\ IsReplay(sessions[s])'
             /\ IsCounted(counts[s], sessions[s].tasks)'
             /\ IsTaken(taken[s], sessions[s].tasks)'
  <2>0. PICK y, k, d : y = sessions'[s] /\ k = counts'[s] /\ d = taken'[s]
    OBVIOUS
  <2>1. IsReplay(y) /\ IsCounted(k, y.tasks) /\ IsTaken(d, y.tasks)
    <3>1. CASE s = n + 1
      BY <1>4, <1>5, <1>6, <1>7, <2>0, <3>1
    <3>2. CASE s \in 1 .. n
      <4>1. /\ IsReplay(sessions[s])
            /\ IsCounted(counts[s], sessions[s].tasks)
            /\ IsTaken(taken[s], sessions[s].tasks)
        BY <1>3, <3>2 DEF StorageOK
      <4>2. /\ sessions'[s] = sessions[s] /\ counts'[s] = counts[s] /\ taken'[s] = taken[s]
        BY <1>4, <1>5, <1>6, <3>2
      <4> QED  BY <2>0, <4>1, <4>2
    <3> QED  BY <3>1, <3>2
  <2>2. IsReplay(sessions[s])'
    BY <2>0, <2>1 DEF IsReplay, Replays, Places, Task, IsDone, IsPending
  <2>3. IsCounted(counts[s], sessions[s].tasks)'
    BY <2>0, <2>1 DEF IsCounted, Answered, IsPending
  <2>4. IsTaken(taken[s], sessions[s].tasks)'
    BY <2>0, <2>1 DEF IsTaken, Places, IsPending
  <2> QED  BY <2>2, <2>3, <2>4
<1>9. StorageOK'
  BY <1>4, <1>5, <1>6, <1>8 DEF StorageOK, Replays, Places, Task
<1>10. \A s \in DOMAIN sessions : Follows(sessions[s], sessions'[s])
  BY <1>3, <1>4 DEF Follows
<1> QED  BY <1>3, <1>4, <1>9, <1>10 DEF MovesOn

(* The index admits one started replay.                                    *)
LEMMA CreateStep ==
    ASSUME RInv, NEW r \in Requests, Create(r)
    PROVE  RInv' /\ [TasksNext]_sessions
<1>1. PICK k \in Memory : k = loc[r]
  BY DEF RInv, MemoryOK
<1>2. at[r] = "create" /\ k.op = "start"
  BY <1>1 DEF Create, Is
<1>3. Fits("create", k)
  BY <1>1, <1>2 DEF RInv
<1>4. CASE ~MayCreate
  <2>1. Goto(r, "winner", k) /\ UNCHANGED db
    BY <1>1, <1>4 DEF Create, Move, Reads
  <2>2. Fits("winner", k)
    BY <1>2, <1>3 DEF Fits, IsAsked
  <2>3. RInv'
    BY <2>1, <2>2, ReadStep DEF Point
  <2> QED  BY <2>1, <2>3 DEF db
<1>5. CASE MayCreate
  <2>1. PICK n \in Nat : n = Len(sessions)
    BY SessionsAre DEF RInv
  <2> DEFINE m == [k EXCEPT !.s = n + 1]
  <2>2. /\ m \in Memory /\ m.op = k.op /\ m.s = n + 1 /\ m.reply = k.reply
        /\ m.t = k.t /\ m.draft = k.draft /\ m.score = k.score
    BY DEF Memory
  <2>3. Goto(r, "create_reread", m)
    BY <1>1, <1>5, <2>1 DEF Create
  <2> HIDE DEF m
  <2>4. /\ sessions' = Append(sessions, NewSession)
        /\ counts' = Append(counts, NoCounts)
        /\ taken' = Append(taken, [t \in Places |-> NoDraft])
        /\ UNCHANGED lesson
    BY <1>5 DEF Create, Places
  <2>5. StorageOK' /\ MovesOn
    BY <2>4, OneReplayMore DEF RInv
  <2>6. Len(sessions') = n + 1
    BY <2>1, <2>4, NewReplay, AppendProperties DEF RInv, StorageOK, IsReplay
  <2>7. Fits("create_reread", m)'
    BY <1>2, <1>3, <2>2, <2>6 DEF Fits, IsAsked
  <2>8. Start
    BY <1>5, <2>4 DEF Start, MayCreate
  <2> QED  BY <2>2, <2>3, <2>5, <2>7, <2>8, RequestStep DEF Point, TasksNext
<1> QED  BY <1>4, <1>5

(* A step on the lesson: a draft that was fixed stays fixed.               *)
LEMMA OneLessonChanges ==
    ASSUME StorageOK, UNCHANGED <<sessions, counts, taken>>,
           lesson' \in [started : BOOLEAN, task : Task],
           lesson.task.draft # NoDraft => lesson'.task.draft = lesson.task.draft
    PROVE  StorageOK' /\ MovesOn
<1>1. \A s \in DOMAIN sessions :
         /\ IsReplay(sessions[s])' <=> IsReplay(sessions[s])
         /\ IsCounted(counts[s], sessions[s].tasks)' <=> IsCounted(counts[s], sessions[s].tasks)
         /\ IsTaken(taken[s], sessions[s].tasks)' <=> IsTaken(taken[s], sessions[s].tasks)
  BY DEF IsReplay, IsCounted, IsTaken, Places, Replays, Task, IsDone, IsPending, Answered
<1>2. StorageOK'
  BY <1>1 DEF StorageOK, Replays, Places, Task
<1> QED  BY <1>2, SessionsAre DEF MovesOn, Follows

-----------------------------------------------------------------------------
(* The steps that write nothing.                                           *)
LEMMA NothingIsMemory ==
    /\ Nothing \in Memory /\ Nothing.op = "none" /\ Nothing.s = 0 /\ Nothing.t = 0
    /\ Nothing.draft = NoDraft /\ Nothing.score = "none" /\ Nothing.reply = "none"
BY DEF Nothing, Memory, Operations

LEMMA IdleStep ==
    ASSUME RInv, UNCHANGED db, NEW r \in Requests, Goto(r, "idle", Nothing)
    PROVE  RInv'
<1>1. Fits("idle", Nothing)
  BY NothingIsMemory, SessionsAre DEF Fits, IsAsked, RInv
<1> QED  BY <1>1, NothingIsMemory, ReadStep DEF Point

LEMMA MoveStep ==
    ASSUME RInv, UNCHANGED db, NEW r \in Requests, NEW point \in Point, Move(r, point),
           NEW m \in Memory, m = loc[r], Fits(point, m)
    PROVE  RInv'
BY ReadStep DEF Move

(* A reply tells what is so.                                               *)
IsTold(m) ==
    /\ m.op = "answer" => sessions[m.s].tasks[m.t].score = m.score
    /\ m.op = "preview" => sessions[m.s].tasks[m.t].draft = m.draft
    /\ m.op = "complete" => sessions[m.s].status = "completed"
    /\ m.op = "preview_lesson" => lesson.task.draft = m.draft
    /\ m.op = "start" => m.s # 0

LEMMA AcceptStep ==
    ASSUME RInv, UNCHANGED db, NEW r \in Requests, NEW m \in Memory, Accept(r, m),
           NEW point \in Point \ {"idle", "reply"}, IsAsked(point, m), IsTold(m)
    PROVE  RInv'
<1> DEFINE l == [m EXCEPT !.reply = "ok"]
<1>1. /\ l \in Memory /\ l.op = m.op /\ l.s = m.s /\ l.t = m.t /\ l.draft = m.draft
      /\ l.score = m.score /\ l.reply = "ok"
  BY DEF Memory
<1>2. Goto(r, "reply", l)
  BY DEF Accept
<1> HIDE DEF l
<1>3. Fits("reply", l)
  BY <1>1 DEF Fits, IsAsked, HasSeen, IsTold
<1> QED  BY <1>1, <1>2, <1>3, ReadStep DEF Point

(* The answer of a task that is not pending is replied with its score.     *)
LEMMA ToldScore ==
    ASSUME RInv, UNCHANGED db, NEW r \in Requests, NEW k \in Memory, k = loc[r],
           at[r] \notin {"idle", "reply"}, k.op = "answer", ~IsPending(TaskOf(r)),
           Accept(r, [loc[r] EXCEPT !.score = TaskOf(r).score])
    PROVE  RInv'
<1>1. PICK task \in Task : TaskOf(r) = task /\ task = sessions[k.s].tasks[k.t]
  BY TaskIsThere
<1>2. task.score \in Scores
  BY <1>1 DEF IsPending, Task
<1> DEFINE m == [k EXCEPT !.score = task.score]
<1>3. /\ m \in Memory /\ m.op = k.op /\ m.s = k.s /\ m.t = k.t /\ m.draft = k.draft
      /\ m.score = task.score /\ m.reply = k.reply
  BY <1>2 DEF Memory
<1>4. Accept(r, m)
  BY <1>1
<1> HIDE DEF m
<1>5. PICK point \in Point \ {"idle", "reply"} : point = at[r]
  BY DEF RInv, MemoryOK
<1>6. IsAsked(point, k)
  BY <1>5 DEF RInv, Fits
<1>7. IsAsked(point, m)
  BY <1>2, <1>3, <1>5, <1>6 DEF IsAsked
<1>8. IsTold(m)
  BY <1>1, <1>3 DEF IsTold
<1> QED  BY <1>3, <1>4, <1>5, <1>7, <1>8, AcceptStep

LEMMA ArriveStep ==
    ASSUME RInv, NEW r \in Requests, Arrive(r)
    PROVE  RInv' /\ UNCHANGED db
<1>0. UNCHANGED db
  BY DEF Arrive, Reads
<1>1. ASSUME NEW m \in Memory, NEW point \in {"find", "read"}, Goto(r, point, m),
             IsAsked(point, m)
      PROVE  RInv'
  <2>1. Fits(point, m)
    BY <1>1 DEF Fits, HasSeen
  <2> QED  BY <1>0, <1>1, <2>1, ReadStep DEF Point
<1>2. /\ \A s \in DOMAIN sessions : s \in Nat /\ s \in 0 .. Len(sessions) /\ s # 0
      /\ 0 \in 0 .. Len(sessions)
  BY SessionsAre DEF RInv
<1>3. \A t \in Places : t \in Nat
  BY PlacesAre
<1>4. CASE Goto(r, "find", [Nothing EXCEPT !.op = "start"])
  <2> DEFINE m == [Nothing EXCEPT !.op = "start"]
  <2>1. m \in Memory /\ m.op = "start" /\ m.s = 0 /\ m.reply = "none"
    BY NothingIsMemory DEF Memory, Operations
  <2>2. Goto(r, "find", m)
    BY <1>4
  <2> HIDE DEF m
  <2>3. IsAsked("find", m)
    BY <1>2, <2>1 DEF IsAsked
  <2> QED  BY <1>0, <1>1, <2>1, <2>2, <2>3
<1>5. ASSUME NEW s \in DOMAIN sessions,
             Goto(r, "read", [Nothing EXCEPT !.op = "complete", !.s = s])
      PROVE  RInv'
  <2> DEFINE m == [Nothing EXCEPT !.op = "complete", !.s = s]
  <2>1. m \in Memory /\ m.op = "complete" /\ m.s = s /\ m.reply = "none"
    BY <1>2, NothingIsMemory DEF Memory, Operations
  <2>2. Goto(r, "read", m)
    BY <1>5
  <2> HIDE DEF m
  <2>3. IsAsked("read", m)
    BY <1>2, <2>1 DEF IsAsked
  <2> QED  BY <1>1, <2>1, <2>2, <2>3
<1>6. ASSUME NEW s \in DOMAIN sessions, NEW t \in Places, NEW draft \in Drafts,
             SourceTasks[t] = "sentence",
             Goto(r, "read", [Nothing EXCEPT !.op = "preview", !.s = s, !.t = t,
                                             !.draft = draft])
      PROVE  RInv'
  <2> DEFINE m == [Nothing EXCEPT !.op = "preview", !.s = s, !.t = t, !.draft = draft]
  <2>1. /\ m \in Memory /\ m.op = "preview" /\ m.s = s /\ m.t = t /\ m.draft = draft
        /\ m.reply = "none"
    BY <1>2, <1>3, NothingIsMemory DEF Memory, Operations
  <2>2. Goto(r, "read", m)
    BY <1>6
  <2> HIDE DEF m
  <2>3. IsAsked("read", m)
    BY <1>2, <1>6, <2>1 DEF IsAsked
  <2> QED  BY <1>1, <2>1, <2>2, <2>3
<1>7. ASSUME NEW s \in DOMAIN sessions, NEW t \in Places, NEW draft \in Drafts,
             NEW score \in Scores,
             Goto(r, "read", [Nothing EXCEPT !.op = "answer", !.s = s, !.t = t,
                                 !.score = score,
                                 !.draft = IF SourceTasks[t] = "sentence" THEN draft
                                                                          ELSE NoDraft])
      PROVE  RInv'
  <2>1. PICK d \in Drafts \cup {NoDraft} :
           d = IF SourceTasks[t] = "sentence" THEN draft ELSE NoDraft
    OBVIOUS
  <2> DEFINE m == [Nothing EXCEPT !.op = "answer", !.s = s, !.t = t, !.score = score,
                                  !.draft = d]
  <2>2. /\ m \in Memory /\ m.op = "answer" /\ m.s = s /\ m.t = t /\ m.draft = d
        /\ m.score = score /\ m.reply = "none"
    BY <1>2, <1>3, NothingIsMemory DEF Memory, Operations
  <2>3. Goto(r, "read", m)
    BY <1>7, <2>1
  <2> HIDE DEF m
  <2>4. IsAsked("read", m)
    BY <1>2, <2>1, <2>2 DEF IsAsked
  <2> QED  BY <1>1, <2>2, <2>3, <2>4
<1>8. ASSUME NEW draft \in Drafts,
             Goto(r, "read", [Nothing EXCEPT !.op = "preview_lesson", !.draft = draft])
      PROVE  RInv'
  <2> DEFINE m == [Nothing EXCEPT !.op = "preview_lesson", !.draft = draft]
  <2>1. /\ m \in Memory /\ m.op = "preview_lesson" /\ m.s = 0 /\ m.draft = draft
        /\ m.reply = "none"
    BY NothingIsMemory DEF Memory, Operations
  <2>2. Goto(r, "read", m)
    BY <1>8
  <2> HIDE DEF m
  <2>3. IsAsked("read", m)
    BY <1>2, <2>1 DEF IsAsked
  <2> QED  BY <1>1, <2>1, <2>2, <2>3
<1> QED  BY <1>0, <1>4, <1>5, <1>6, <1>7, <1>8 DEF Arrive, Places

(* Starting, but for the creation itself.                                  *)
LEMMA StartSteps ==
    ASSUME RInv, NEW r \in Requests,
           \/ GetStartedReplay(r) \/ RereadCreated(r) \/ ReadWinner(r) \/ FailToCreate(r)
    PROVE  RInv' /\ UNCHANGED db
<1>0. UNCHANGED db
  BY DEF GetStartedReplay, RereadCreated, ReadWinner, FailToCreate, Fails, Reads
<1>1. PICK k \in Memory : k = loc[r]
  BY DEF RInv, MemoryOK
<1>2. k.op = "start" /\ at[r] \in {"find", "create", "create_reread", "winner"}
  BY <1>1 DEF GetStartedReplay, RereadCreated, ReadWinner, FailToCreate, Is
<1>3. PICK point \in {"find", "create", "create_reread", "winner"} :
         point = at[r] /\ Fits(point, k)
  BY <1>1, <1>2 DEF RInv
<1>4. ASSUME Started # {}, Accept(r, [loc[r] EXCEPT !.s = CHOOSE s \in Started : TRUE])
      PROVE  RInv'
  <2>1. PICK s \in Started : s = CHOOSE j \in Started : TRUE
    BY <1>4
  <2>2. s \in 1 .. Len(sessions)
    BY SessionsAre DEF Started, RInv
  <2> DEFINE m == [k EXCEPT !.s = s]
  <2>3. /\ m \in Memory /\ m.op = "start" /\ m.s = s /\ m.reply = k.reply
    BY <1>2, <2>2, SessionsAre DEF Memory, RInv
  <2>4. Accept(r, m)
    BY <1>1, <1>4, <2>1
  <2> HIDE DEF m
  <2>5. IsAsked("find", m) /\ IsTold(m)
    BY <1>3, <2>2, <2>3, SessionsAre DEF IsAsked, IsTold, Fits, RInv
  <2> QED  BY <1>0, <2>3, <2>4, <2>5, AcceptStep DEF Point
<1>5. ASSUME NEW p \in {"create", "winner"}, Move(r, p)
      PROVE  RInv'
  <2>1. Fits(p, k)
    BY <1>2, <1>3, <1>5 DEF Fits, IsAsked
  <2> QED  BY <1>0, <1>1, <1>5, <2>1, MoveStep DEF Point
<1>6. CASE RereadCreated(r)
  <2>1. at[r] = "create_reread" /\ Accept(r, k)
    BY <1>1, <1>6 DEF RereadCreated, Is
  <2>2. IsAsked("create_reread", k) /\ IsTold(k)
    BY <1>2, <1>3, <2>1 DEF Fits, IsAsked, IsTold
  <2> QED  BY <1>0, <2>1, <2>2, AcceptStep DEF Point
<1>7. CASE Refuse(r)
  BY <1>0, <1>7, IdleStep DEF Refuse
<1> QED  BY <1>0, <1>4, <1>5, <1>6, <1>7
         DEF GetStartedReplay, ReadWinner, FailToCreate, Fails

(* What the service checks before it calls the repository.                 *)
LEMMA RequireReplayStep ==
    ASSUME RInv, NEW r \in Requests, RequireReplay(r)
    PROVE  RInv' /\ UNCHANGED db
<1>0. UNCHANGED db
  BY DEF RequireReplay, Reads
<1>1. PICK k \in Memory : k = loc[r]
  BY DEF RInv, MemoryOK
<1>2. at[r] = "read" /\ k.op \in {"preview", "answer", "complete"}
  BY <1>1 DEF RequireReplay, Is
<1>3. Fits("read", k)
  BY <1>1, <1>2 DEF RInv
<1>4. CASE Refuse(r)
  BY <1>0, <1>4, IdleStep DEF Refuse
<1>5. CASE k.op = "complete" /\ sessions[k.s].status = "completed" /\ Accept(r, k)
  <2>1. IsAsked("read", k) /\ IsTold(k)
    BY <1>3, <1>5 DEF Fits, IsTold
  <2> QED  BY <1>0, <1>5, <2>1, AcceptStep DEF Point
<1>6. CASE k.op = "complete" /\ Move(r, "task")
  <2>1. Fits("task", k)
    BY <1>3, <1>6 DEF Fits, IsAsked, HasSeen
  <2> QED  BY <1>0, <1>1, <1>6, <2>1, MoveStep DEF Point
<1>7. CASE /\ k.op \in {"preview", "answer"} /\ IsOpen(r) /\ Move(r, "task")
           /\ k.op = "answer" => IsAboutDraft(r)
  <2>1. /\ \A u \in 1 .. k.t - 1 : ~IsPending(sessions[k.s].tasks[u])
    BY <1>1, <1>7 DEF IsOpen, IsNext, IsCurrent
  <2>2. k.op = "answer" /\ SourceTasks[k.t] = "sentence" =>
           sessions[k.s].tasks[k.t].draft = k.draft
    BY <1>1, <1>7, TaskIsThere DEF IsAboutDraft
  <2>3. Fits("task", k)
    BY <1>3, <1>7, <2>1, <2>2 DEF Fits, IsAsked, HasSeen
  <2> QED  BY <1>0, <1>1, <1>7, <2>3, MoveStep DEF Point
<1>8. CASE /\ k.op = "answer" /\ ~IsPending(TaskOf(r))
           /\ Accept(r, [loc[r] EXCEPT !.score = TaskOf(r).score])
  BY <1>0, <1>1, <1>2, <1>8, ToldScore
<1> QED  BY <1>0, <1>1, <1>2, <1>4, <1>5, <1>6, <1>7, <1>8 DEF RequireReplay

(* Previews and answers, but for the writes themselves.                    *)
LEMMA TaskSteps ==
    ASSUME RInv, NEW r \in Requests,
           \/ GetPreviewTask(r) \/ RereadPreview(r) \/ GetAnswerTask(r) \/ RereadAnswer(r)
           \/ FailToWrite(r)
    PROVE  RInv' /\ UNCHANGED db
<1>0. UNCHANGED db
  BY DEF GetPreviewTask, RereadPreview, GetAnswerTask, RereadAnswer, FailToWrite, Fails, Reads
<1>1. PICK k \in Memory : k = loc[r]
  BY DEF RInv, MemoryOK
<1>2. k.op \in {"preview", "answer"} /\ at[r] \in {"task", "write", "reread"}
  BY <1>1 DEF GetPreviewTask, RereadPreview, GetAnswerTask, RereadAnswer, FailToWrite, Is
<1>3. PICK point \in {"task", "write", "reread"} : point = at[r] /\ Fits(point, k)
  BY <1>1, <1>2 DEF RInv
<1>4. PICK task \in Task : task = sessions[k.s].tasks[k.t] /\ TaskOf(r) = task
  BY <1>1, <1>2, TaskIsThere
<1>5. ASSUME k.op = "preview", task.draft = k.draft, Accept(r, loc[r])
      PROVE  RInv'
  <2>1. IsAsked(point, k) /\ IsTold(k)
    BY <1>3, <1>4, <1>5 DEF Fits, IsTold
  <2> QED  BY <1>0, <1>1, <1>5, <2>1, AcceptStep DEF Point
<1>6. ASSUME point = "task", Move(r, "write")
      PROVE  RInv'
  <2>1. Fits("write", k)
    BY <1>2, <1>3, <1>6 DEF Fits, IsAsked, HasSeen
  <2> QED  BY <1>0, <1>1, <1>6, <2>1, MoveStep DEF Point
<1>7. ASSUME Move(r, "raced")
      PROVE  RInv'
  <2>1. Fits("raced", k)
    BY <1>2, <1>3 DEF Fits, IsAsked, HasSeen
  <2> QED  BY <1>0, <1>1, <1>7, <2>1, MoveStep DEF Point
<1>8. ASSUME k.op = "answer", ~IsPending(TaskOf(r)),
             Accept(r, [loc[r] EXCEPT !.score = TaskOf(r).score])
      PROVE  RInv'
  BY <1>0, <1>1, <1>2, <1>8, ToldScore
<1>9. CASE GetPreviewTask(r)
  BY <1>0, <1>1, <1>3, <1>4, <1>5, <1>6, <1>9 DEF GetPreviewTask, Is, IsFixedAs
<1>10. CASE RereadPreview(r)
  <2>1. k.op = "preview" /\ point = "reread" /\ Accept(r, loc[r])
    BY <1>1, <1>3, <1>10 DEF RereadPreview, Is
  <2>2. task.draft = k.draft
    BY <1>3, <1>4, <2>1 DEF Fits, HasSeen
  <2> QED  BY <1>0, <1>5, <2>1, <2>2
<1>11. CASE GetAnswerTask(r)
  BY <1>0, <1>1, <1>3, <1>6, <1>8, <1>11 DEF GetAnswerTask, Is
<1>12. CASE RereadAnswer(r)
  <2>1. /\ k.op = "answer" /\ point = "reread"
        /\ Accept(r, [loc[r] EXCEPT !.score = TaskOf(r).score])
    BY <1>1, <1>3, <1>12 DEF RereadAnswer, Is, RecordedScore
  <2>2. ~IsPending(TaskOf(r))
    BY <1>3, <1>4, <2>1 DEF Fits, HasSeen
  <2> QED  BY <1>0, <1>8, <2>1, <2>2
<1>13. CASE FailToWrite(r)
  BY <1>0, <1>7, <1>13 DEF FailToWrite, Fails
<1> QED  BY <1>9, <1>10, <1>11, <1>12, <1>13

LEMMA RacedStep ==
    ASSUME RInv, NEW r \in Requests, ReadRaced(r)
    PROVE  RInv' /\ UNCHANGED db
<1>0. UNCHANGED db /\ at[r] = "raced"
  BY DEF ReadRaced, Reads
<1>1. PICK k \in Memory : k = loc[r]
  BY DEF RInv, MemoryOK
<1>2. Fits("raced", k)
  BY <1>0, <1>1 DEF RInv
<1>3. CASE Refuse(r)
  BY <1>0, <1>3, IdleStep DEF Refuse
<1>4. CASE /\ k.op \in {"preview", "preview_lesson"} /\ Accept(r, k)
           /\ k.op = "preview" => TaskOf(r).draft = k.draft
           /\ k.op = "preview_lesson" => lesson.task.draft = k.draft
  <2>1. IsAsked("raced", k) /\ IsTold(k)
    BY <1>1, <1>2, <1>4 DEF Fits, IsTold, TaskOf
  <2> QED  BY <1>0, <1>4, <2>1, AcceptStep DEF Point
<1>5. CASE /\ k.op = "answer" /\ ~IsPending(TaskOf(r))
           /\ Accept(r, [loc[r] EXCEPT !.score = TaskOf(r).score])
  BY <1>0, <1>1, <1>5, ToldScore
<1>6. k.op \in {"preview", "answer", "preview_lesson"}
  BY <1>2 DEF Fits, IsAsked
<1> QED  BY <1>0, <1>1, <1>3, <1>4, <1>5, <1>6 DEF ReadRaced, IsFixedAs

(* The end of a replay, but for the write itself.                          *)
LEMMA ReplaySteps ==
    ASSUME RInv, NEW r \in Requests, GetReplay(r) \/ RereadReplay(r)
    PROVE  RInv' /\ UNCHANGED db
<1>0. UNCHANGED db
  BY DEF GetReplay, RereadReplay, Reads
<1>1. PICK k \in Memory : k = loc[r]
  BY DEF RInv, MemoryOK
<1>2. k.op = "complete"
  BY <1>1 DEF GetReplay, RereadReplay, Is
<1>3. PICK point \in {"task", "reread"} : point = at[r] /\ Fits(point, k)
  BY <1>1 DEF RInv, GetReplay, RereadReplay, Is
<1>4. CASE Refuse(r)
  BY <1>0, <1>4, IdleStep DEF Refuse
<1>5. CASE sessions[k.s].status = "completed" /\ Accept(r, k)
  <2>1. IsAsked(point, k) /\ IsTold(k)
    BY <1>2, <1>3, <1>5 DEF Fits, IsTold
  <2> QED  BY <1>0, <1>5, <2>1, AcceptStep DEF Point
<1>6. CASE point = "task" /\ Move(r, "write")
  <2>1. Fits("write", k)
    BY <1>2, <1>3, <1>6 DEF Fits, IsAsked, HasSeen
  <2> QED  BY <1>0, <1>1, <1>6, <2>1, MoveStep DEF Point
<1> QED  BY <1>0, <1>1, <1>3, <1>4, <1>5, <1>6 DEF GetReplay, RereadReplay, Is

(* The preview of a lesson.                                                *)
LEMMA LessonPreviewStep ==
    ASSUME RInv, NEW r \in Requests,
           ReadLessonTask(r) \/ GetLessonTask(r) \/ SaveLessonPreview(r)
    PROVE  RInv' /\ UNCHANGED sessions
<1>1. PICK k \in Memory : k = loc[r]
  BY DEF RInv, MemoryOK
<1>2. k.op = "preview_lesson"
  BY <1>1 DEF ReadLessonTask, GetLessonTask, SaveLessonPreview, Is
<1>3. PICK point \in {"read", "task", "write"} : point = at[r] /\ Fits(point, k)
  BY <1>1 DEF RInv, ReadLessonTask, GetLessonTask, SaveLessonPreview, Is
<1>4. CASE UNCHANGED db /\ Refuse(r)
  BY <1>4, IdleStep DEF Refuse, db
<1>5. CASE UNCHANGED db /\ lesson.task.draft = k.draft /\ Accept(r, k)
  <2>1. IsAsked(point, k) /\ IsTold(k)
    BY <1>2, <1>3, <1>5 DEF Fits, IsTold
  <2> QED  BY <1>5, <2>1, AcceptStep DEF Point, db
<1>6. CASE UNCHANGED db /\ \E p \in {"task", "write", "raced"} : Move(r, p)
  <2>1. PICK p \in {"task", "write", "raced"} : Move(r, p)
    BY <1>6
  <2>2. Fits(p, k)
    BY <1>2, <1>3 DEF Fits, IsAsked
  <2> QED  BY <1>1, <1>6, <2>1, <2>2, MoveStep DEF Point, db
<1>7. CASE /\ lesson' = [lesson EXCEPT !.task.draft = k.draft]
           /\ lesson.task.draft = NoDraft
           /\ Accept(r, k) /\ UNCHANGED <<sessions, counts, taken>>
  <2>1. k.draft \in Drafts
    BY <1>2, <1>3 DEF Fits, IsAsked
  <2>2. PICK old \in [started : BOOLEAN, task : Task] : old = lesson
    BY DEF RInv, StorageOK
  <2>3. /\ [old EXCEPT !.task.draft = k.draft] \in [started : BOOLEAN, task : Task]
        /\ [old EXCEPT !.task.draft = k.draft].task.draft = k.draft
    BY <2>1 DEF Task
  <2>4. lesson' \in [started : BOOLEAN, task : Task] /\ lesson'.task.draft = k.draft
    BY <1>7, <2>2, <2>3
  <2>5. StorageOK' /\ MovesOn
    BY <1>7, <2>4, OneLessonChanges DEF RInv
  <2> DEFINE m == [k EXCEPT !.reply = "ok"]
  <2>6. m \in Memory /\ m.op = k.op /\ m.s = k.s /\ m.draft = k.draft /\ m.reply = "ok"
    BY DEF Memory
  <2>7. Goto(r, "reply", m)
    BY <1>7 DEF Accept
  <2> HIDE DEF m
  <2>8. IsAsked("reply", m)
    BY <1>2, <1>3, <2>6 DEF Fits, IsAsked
  <2>9. IsAsked("reply", m)'
    BY <2>5, <2>6, <2>8, AskedStays DEF RInv
  <2>10. Fits("reply", m)'
    BY <1>2, <2>4, <2>6, <2>9 DEF Fits
  <2> QED  BY <1>7, <2>5, <2>6, <2>7, <2>10, RequestStep DEF Point
<1>8. CASE ReadLessonTask(r)
  BY <1>1, <1>4, <1>5, <1>6, <1>8 DEF ReadLessonTask, Reads, IsFixedAs
<1>9. CASE GetLessonTask(r)
  BY <1>1, <1>4, <1>5, <1>6, <1>9 DEF GetLessonTask, Reads, IsFixedAs
<1>10. CASE SaveLessonPreview(r)
  BY <1>1, <1>4, <1>6, <1>7, <1>10 DEF SaveLessonPreview, Reads, MayFix
<1> QED  BY <1>8, <1>9, <1>10

(* The lesson goes on.                                                     *)
LEMMA LearnLessonStep ==
    ASSUME RInv, LearnLesson
    PROVE  RInv' /\ UNCHANGED sessions
<1>1. PICK old \in [started : BOOLEAN, task : Task] : old = lesson
  BY DEF RInv, StorageOK
<1>2. /\ [old EXCEPT !.task.score = "right"] \in [started : BOOLEAN, task : Task]
      /\ [old EXCEPT !.task.score = "right"].task.draft = old.task.draft
      /\ [old EXCEPT !.started = FALSE] \in [started : BOOLEAN, task : Task]
      /\ [old EXCEPT !.started = FALSE].task = old.task
  BY DEF Task, Scores
<1>3. /\ lesson' \in [started : BOOLEAN, task : Task]
      /\ lesson'.task.draft = lesson.task.draft
      /\ UNCHANGED <<sessions, counts, taken, at, loc>>
  BY <1>1, <1>2 DEF LearnLesson
<1>4. StorageOK' /\ MovesOn
  BY <1>3, OneLessonChanges DEF RInv
<1>5. ASSUME NEW q \in Requests
      PROVE  Fits(at[q], loc[q])'
  <2>1. PICK p \in Point, k \in Memory : p = at[q] /\ k = loc[q]
    BY DEF RInv, MemoryOK
  <2>2. Fits(p, k)'
    BY <1>4, <2>1, FitsStays DEF RInv
  <2> QED  BY <1>3, <2>1, <2>2
<1> QED  BY <1>3, <1>4, <1>5 DEF RInv, MemoryOK

-----------------------------------------------------------------------------
(* Every step keeps the invariant and takes at most one step of            *)
(* LessonTasks.                                                            *)
LEMMA NextRInv ==
    ASSUME RInv, [ReplayNext]_replayVars
    PROVE  RInv' /\ [TasksNext]_sessions
<1>1. CASE UNCHANGED replayVars
  <2>1. UNCHANGED db /\ at' = at /\ loc' = loc
    BY <1>1 DEF replayVars
  <2>2. StorageOK' /\ MovesOn
    BY <2>1, StorageStays DEF RInv
  <2>3. ASSUME NEW q \in Requests
        PROVE  Fits(at[q], loc[q])'
    <3>1. PICK p \in Point, k \in Memory : p = at[q] /\ k = loc[q]
      BY DEF RInv, MemoryOK
    <3>2. Fits(p, k)'
      BY <2>2, <3>1, FitsStays DEF RInv
    <3> QED  BY <2>1, <3>1, <3>2
  <2> QED  BY <2>1, <2>2, <2>3 DEF RInv, MemoryOK, db
<1>2. ASSUME NEW r \in Requests, Arrive(r)
      PROVE  RInv' /\ [TasksNext]_sessions
  BY <1>2, ArriveStep DEF db
<1>3. ASSUME NEW r \in Requests, Serve(r)
      PROVE  RInv' /\ [TasksNext]_sessions
  <2>1. CASE SavePreview(r)
    BY <2>1, SavePreviewStep
  <2>2. CASE RecordAnswer(r)
    BY <2>2, RecordAnswerStep
  <2>3. CASE CompleteReplay(r)
    BY <2>3, CompleteReplayStep
  <2>4. CASE Create(r)
    BY <2>4, CreateStep
  <2>5. CASE GetStartedReplay(r) \/ RereadCreated(r) \/ ReadWinner(r)
    BY <2>5, StartSteps DEF db
  <2>6. CASE RequireReplay(r)
    BY <2>6, RequireReplayStep DEF db
  <2>7. CASE GetPreviewTask(r) \/ RereadPreview(r) \/ GetAnswerTask(r) \/ RereadAnswer(r)
    BY <2>7, TaskSteps DEF db
  <2>8. CASE ReadRaced(r)
    BY <2>8, RacedStep DEF db
  <2>9. CASE GetReplay(r) \/ RereadReplay(r)
    BY <2>9, ReplaySteps DEF db
  <2>10. CASE ReadLessonTask(r) \/ GetLessonTask(r) \/ SaveLessonPreview(r)
    BY <2>10, LessonPreviewStep
  <2> QED  BY <1>3, <2>1, <2>2, <2>3, <2>4, <2>5, <2>6, <2>7, <2>8, <2>9, <2>10 DEF Serve
<1>4. ASSUME NEW r \in Requests, Deliver(r) \/ Die(r)
      PROVE  RInv' /\ [TasksNext]_sessions
  <2>1. UNCHANGED db /\ Goto(r, "idle", Nothing)
    BY <1>4 DEF Deliver, Die, Reads
  <2>2. RInv'
    BY <2>1, IdleStep
  <2> QED  BY <2>1, <2>2 DEF db
<1>5. ASSUME NEW r \in Requests, FailToCreate(r) \/ FailToWrite(r)
      PROVE  RInv' /\ [TasksNext]_sessions
  BY <1>5, StartSteps, TaskSteps DEF db
<1>6. CASE LearnLesson
  BY <1>6, LearnLessonStep
<1> QED  BY <1>1, <1>2, <1>3, <1>4, <1>5, <1>6 DEF ReplayNext

LEMMA InitRInv == ReplayInit => RInv
<1> SUFFICES ASSUME ReplayInit PROVE RInv
  OBVIOUS
<1>1. sessions = <<>> /\ counts = <<>> /\ taken = <<>>
  BY DEF ReplayInit, TasksInit
<1>2. /\ sessions \in Seq(Replays) /\ DOMAIN sessions = {} /\ Len(sessions) = 0
      /\ DOMAIN counts = {} /\ DOMAIN taken = {}
      /\ counts \in Seq([completed : Nat, correct : Nat, wrong : Nat])
      /\ taken \in Seq([Places -> Drafts \cup {NoDraft}])
  BY <1>1
<1>3. lesson \in [started : BOOLEAN, task : Task]
  <2>1. \A kind \in Kinds : NewTask(kind) \in Task
    BY DEF NewTask, Task
  <2>2. \/ lesson = [started |-> FALSE, task |-> NewTask("plain")]
        \/ lesson = [started |-> TRUE, task |-> NewTask("sentence")]
    BY DEF ReplayInit, NoLesson
  <2>3. NewTask("plain") \in Task /\ NewTask("sentence") \in Task
    BY <2>1 DEF Kinds
  <2>4. PICK b \in BOOLEAN, task \in Task : lesson = [started |-> b, task |-> task]
    BY <2>2, <2>3
  <2> QED  BY <2>4
<1>4. StorageOK
  BY <1>2, <1>3 DEF StorageOK
<1>5. MemoryOK
  BY NothingIsMemory DEF ReplayInit, MemoryOK, Point
<1>6. Fits("idle", Nothing)
  BY <1>2, NothingIsMemory DEF Fits, IsAsked
<1> QED  BY <1>4, <1>5, <1>6 DEF RInv, ReplayInit

LEMMA ReplayHolds == ReplaySpec => []RInv
<1>1. RInv /\ [ReplayNext]_replayVars => RInv'
  BY NextRInv
<1> QED  BY <1>1, InitRInv, PTL DEF ReplaySpec

-----------------------------------------------------------------------------
(* However previews, answers and completions of one replay race, are sent  *)
(* twice or fail between two statements: the counters are those of the     *)
(* tasks, an answer is about the draft its reference was shown for, and a  *)
(* request is told what was recorded.                                      *)
THEOREM ReplayStaysTrue == ReplaySpec => []ReplayIsTrue
<1>1. ASSUME RInv PROVE ReplayTypeOK
  <2>1. Replays \subseteq Session
    BY PlacesAre DEF Replays, Session
  <2>2. sessions \in Seq(Session)
    BY <1>1, <2>1, SeqMonotonic DEF RInv, StorageOK
  <2>3. ASSUME NEW r \in Requests
        PROVE  /\ at[r] \in Point /\ loc[r].op \in Operations \cup {"none"}
               /\ at[r] = "idle" <=> loc[r] = Nothing
               /\ loc[r].s \in 0 .. Len(sessions)
               /\ loc[r].reply # "none" => at[r] = "reply"
    <3>1. at[r] \in Point /\ loc[r] \in Memory /\ IsAsked(at[r], loc[r])
      BY <1>1 DEF RInv, MemoryOK, Fits
    <3> QED  BY <3>1, NothingIsMemory DEF IsAsked, Memory
  <2> QED  BY <1>1, <2>2, <2>3 DEF ReplayTypeOK, RInv, StorageOK
<1>2. ASSUME RInv PROVE CountsMatchTasks
  <2>1. ASSUME NEW s \in DOMAIN counts
        PROVE  LET tasks == sessions[s].tasks IN
               /\ counts[s].completed = Cardinality(Answered(tasks))
               /\ counts[s].correct = Cardinality({t \in Answered(tasks) : tasks[t].score = "right"})
               /\ counts[s].wrong + counts[s].correct = counts[s].completed
    <3>1. PICK tasks \in [Places -> Task] :
             tasks = sessions[s].tasks /\ IsCounted(counts[s], tasks)
      BY <1>1, <1>2, <2>1 DEF RInv, StorageOK, IsReplay, Replays
    <3> QED  BY <3>1, CountsAre DEF IsCounted
  <2> QED  BY <2>1 DEF CountsMatchTasks
<1>3. ASSUME RInv PROVE AnswerIsAboutDraft
  <2>1. ASSUME NEW s \in DOMAIN taken, NEW t \in Answered(sessions[s].tasks)
        PROVE  taken[s][t] = sessions[s].tasks[t].draft
    <3>1. PICK tasks \in [Places -> Task] :
             tasks = sessions[s].tasks /\ IsTaken(taken[s], tasks)
      BY <1>3, <2>1 DEF RInv, StorageOK, IsReplay, Replays
    <3> QED  BY <2>1, <3>1, CountsAre DEF IsTaken
  <2> QED  BY <2>1 DEF AnswerIsAboutDraft
<1>4. ASSUME RInv PROVE RepliesAreTrue
  <2>1. ASSUME NEW r \in Requests, loc[r].reply = "ok"
        PROVE  /\ at[r] = "reply" /\ Fits(at[r], loc[r]) /\ loc[r] \in Memory
               /\ loc[r].op # "none"
    BY <1>4, <2>1 DEF RInv, MemoryOK, Fits, IsAsked
  <2>2. ASSUME NEW r \in Requests, loc[r].reply = "ok"
        PROVE  /\ loc[r].op = "answer" => TaskOf(r).score = loc[r].score
               /\ loc[r].op = "preview" => TaskOf(r).draft = loc[r].draft
               /\ loc[r].op = "complete" => sessions[loc[r].s].status = "completed"
               /\ loc[r].op = "preview_lesson" => lesson.task.draft = loc[r].draft
               /\ loc[r].op = "start" => loc[r].s \in DOMAIN sessions
               /\ loc[r].op \in Operations
    BY <1>4, <2>1, <2>2, SessionsAre DEF Fits, HasSeen, IsAsked, TaskOf, Memory, RInv
  <2> QED  BY <2>2 DEF RepliesAreTrue, Operations
<1>5. RInv => ReplayIsTrue
  BY <1>1, <1>2, <1>3, <1>4 DEF ReplayIsTrue
<1> QED  BY <1>5, ReplayHolds, PTL

(* Statement by statement, with any number of requests, replays implement  *)
(* what LessonTasks says in whole calls: tasks in their order, one draft,  *)
(* one answer, and an end.                                                 *)
THEOREM ReplaysKeepOrder == ReplaySpec => KeepsOrder
<1>1. ReplayInit => TasksInit
  BY DEF ReplayInit
<1>2. RInv /\ [ReplayNext]_replayVars => [TasksNext]_sessions
  BY NextRInv
<1> QED  BY <1>1, <1>2, ReplayHolds, PTL DEF ReplaySpec, KeepsOrder, TasksSpec
-----------------------------------------------------------------------------
(* LessonPages: what a tab has seen of a session is still so, as a session *)
(* only moves on.                                                          *)

Read == Session \cup {Nowhere}

Form == [t : Nat, draft : Drafts \cup {NoDraft}, waiting : BOOLEAN, submitted : BOOLEAN]

Page == [view : {"home", "loading", "unread", "tasks", "summary"}, s : Nat,
         known : Read, queued : Read, form : Form,
         feedback : {"none", "error", "result"},
         retry : {"none", "continue", "submit", "preview", "reload", "sync"},
         reference : BOOLEAN, told : Scores \cup {"none"}, sent : Scores \cup {"none"}]

Call == [op : {"none", "start", "load", "preview", "answer", "reload", "sync", "complete"},
         s : Nat, t : Nat, draft : Drafts \cup {NoDraft}, score : Scores \cup {"none"},
         reply : {"none", "ok", "refused", "unknown"}, read : Read]

(* The session x was seen before it was y.                                 *)
Precedes(x, y) ==
    /\ Len(x.tasks) <= Len(y.tasks)
    /\ \A t \in DOMAIN x.tasks :
          /\ y.tasks[t].kind = x.tasks[t].kind
          /\ ~IsPending(x.tasks[t]) => y.tasks[t] = x.tasks[t]
          /\ x.tasks[t].draft # NoDraft => y.tasks[t].draft = x.tasks[t].draft

(* A page that has read no session shows nothing of one.                   *)
ViewFits(p, ss) ==
    /\ p.s \in 0 .. Len(ss)
    /\ p.s = 0 <=> p.view = "home"
    /\ p.view = "tasks" => p.known \in Session /\ ~Closed(p.known)
    /\ p.view \notin {"tasks", "summary"} =>
          /\ p.known = Nowhere /\ p.form = NoForm /\ p.feedback = "none"
          /\ p.retry = "none" /\ ~p.reference

(* What is in the form, and was recorded of it, is about one task.         *)
FormFits(p, ss) ==
    LET y == ss[p.s]  t == p.form.t IN
    /\ t \in 0 .. Len(p.known.tasks)
    /\ t # 0 /\ p.known.tasks[t].kind = "sentence" /\ p.known.tasks[t].draft # NoDraft =>
          p.form.draft = p.known.tasks[t].draft
    /\ p.reference => t # 0 /\ p.form.draft # NoDraft /\ y.tasks[t].draft = p.form.draft
    /\ p.retry = "submit" => t # 0 /\ p.sent \in Scores
    /\ p.retry = "preview" => t # 0 /\ p.form.draft \in Drafts
    /\ p.feedback = "result" \/ p.retry = "reload" =>
          t # 0 /\ p.told \in Scores /\ y.tasks[t].score = p.told

SeenFits(p, ss) ==
    p.s # 0 => /\ Precedes(p.known, ss[p.s])
               /\ p.retry = "continue" => p.queued \in Session /\ Precedes(p.queued, ss[p.s])

(* A call is about the task of the page that waits for it, and what it is  *)
(* answered is so.                                                         *)
CallFits(p, c, ss) ==
    LET y == ss[c.s] IN
    /\ c.op = "start" =>
          p.view = "home" /\ (c.reply = "ok" => c.s \in DOMAIN ss)
    /\ c.op \notin {"none", "start"} => c.s = p.s /\ p.s # 0
    /\ c.op = "load" => p.view = "loading"
    /\ c.op \in {"preview", "answer", "reload", "sync", "complete"} =>
          p.view \in {"tasks", "summary"}
    /\ c.op \in {"start", "load", "reload", "sync"} => c.reply # "refused"
    /\ c.op \in {"preview", "answer"} => c.t = p.form.t /\ c.t # 0 /\ c.draft = p.form.draft
    /\ c.op = "preview" =>
          c.draft \in Drafts /\ (c.reply = "ok" => y.tasks[c.t].draft = c.draft)
    /\ c.op = "answer" =>
          /\ p.sent \in Scores /\ c.score \in Scores
          /\ c.reply = "ok" => y.tasks[c.t].score = c.score
    /\ c.op = "reload" =>
          p.form.t # 0 /\ p.told \in Scores /\ y.tasks[p.form.t].score = p.told
    /\ c.op \in {"load", "reload", "sync"} /\ c.reply = "ok" =>
          c.read \in Session /\ Precedes(c.read, y)

TabFits(p, c, ss) ==
    /\ p \in Page /\ c \in Call
    /\ ViewFits(p, ss) /\ FormFits(p, ss) /\ SeenFits(p, ss) /\ CallFits(p, c, ss)

TabInv ==
    /\ sessions \in Seq(Session)
    /\ mode \in {"lesson", "replay"}
    /\ TabFits(page, call, sessions)

LEMMA WhatIsRead ==
    /\ Nowhere \in Read /\ Nowhere.tasks = <<>> /\ Len(Nowhere.tasks) = 0
    /\ Closed(Nowhere)
    /\ \A x \in Session :
          /\ Len(x.tasks) \in Nat /\ DOMAIN x.tasks = 1 .. Len(x.tasks)
          /\ \A t \in 1 .. Len(x.tasks) : x.tasks[t] \in Task
          /\ x # Nowhere
<1>1. \A x \in Session : x.tasks \in Seq(Task)
  BY DEF Session
<1>2. \A x \in Session : x # Nowhere
  BY DEF Session, Nowhere
<1> QED
  BY <1>1, <1>2, LenProperties, ElementOfSeq, EmptySeq DEF Nowhere, Closed, Read

LEMMA PrecedesItself == \A x \in Session : Precedes(x, x) /\ Precedes(Nowhere, x)
<1>1. \A x \in Session : Precedes(x, x)
  BY WhatIsRead DEF Precedes
<1>2. \A x \in Session : Precedes(Nowhere, x)
  BY WhatIsRead, LenProperties DEF Precedes
<1> QED
  BY <1>1, <1>2

LEMMA PrecedesStill ==
    ASSUME NEW x \in Read, NEW y \in Session, NEW z \in Session,
           Precedes(x, y), Precedes(y, z)
    PROVE  Precedes(x, z)
<1>1. x.tasks = <<>> \/ x \in Session
  BY WhatIsRead DEF Read
<1>2. CASE x.tasks = <<>>
  BY <1>2, WhatIsRead, EmptySeq DEF Precedes
<1>3. CASE x \in Session
  BY <1>3, WhatIsRead DEF Precedes
<1> QED
  BY <1>1, <1>2, <1>3

(* The sessions ss have become zs.                                         *)
MovesTo(ss, zs) ==
    /\ zs \in Seq(Session)
    /\ Len(ss) <= Len(zs)
    /\ \A s \in 1 .. Len(ss) : Precedes(ss[s], zs[s])

LEMMA LessonSessionsAre ==
    \A ss \in Seq(Session) :
        /\ Len(ss) \in Nat /\ DOMAIN ss = 1 .. Len(ss)
        /\ \A s \in 1 .. Len(ss) : ss[s] \in Session
BY LenProperties, ElementOfSeq

LEMMA OneSessionChanges ==
    ASSUME sessions \in Seq(Session), NEW s \in DOMAIN sessions,
           NEW y \in Session, Precedes(sessions[s], y),
           sessions' = [sessions EXCEPT ![s] = y]
    PROVE  MovesTo(sessions, sessions') /\ sessions'[s] = y
<1>1. s \in 1 .. Len(sessions)
  BY LessonSessionsAre
<1>2. /\ sessions' \in Seq(Session) /\ Len(sessions') = Len(sessions)
      /\ \A j \in 1 .. Len(sessions) : sessions'[j] = IF j = s THEN y ELSE sessions[j]
  BY <1>1, ExceptSeq
<1>3. \A j \in 1 .. Len(sessions) : Precedes(sessions[j], sessions'[j])
  BY <1>2, PrecedesItself, LessonSessionsAre
<1> QED
  BY <1>1, <1>2, <1>3, LessonSessionsAre DEF MovesTo

LEMMA OneTaskChanges ==
    ASSUME NEW x \in Session, NEW t \in DOMAIN x.tasks, IsPending(x.tasks[t]),
           NEW z \in Task, z.kind = x.tasks[t].kind,
           x.tasks[t].draft # NoDraft => z.draft = x.tasks[t].draft,
           NEW y \in Session, y.tasks = [x.tasks EXCEPT ![t] = z]
    PROVE  Precedes(x, y) /\ y.tasks[t] = z
<1>1. x.tasks \in Seq(Task) /\ t \in 1 .. Len(x.tasks)
  BY WhatIsRead DEF Session
<1>2. /\ Len(y.tasks) = Len(x.tasks)
      /\ \A u \in 1 .. Len(x.tasks) : y.tasks[u] = IF u = t THEN z ELSE x.tasks[u]
  BY <1>1, ExceptSeq
<1> QED
  BY <1>1, <1>2, WhatIsRead DEF Precedes

LEMMA RevealMoves ==
    ASSUME sessions \in Seq(Session), NEW s \in DOMAIN sessions, NEW t, NEW draft \in Drafts,
           Reveal(s, t, draft)
    PROVE  MovesTo(sessions, sessions') /\ sessions'[s].tasks[t].draft = draft
<1>1. PICK x \in Session : x = sessions[s]
  BY LessonSessionsAre
<1>2. t \in DOMAIN x.tasks /\ IsPending(x.tasks[t]) /\ x.tasks[t].draft = NoDraft
  BY <1>1 DEF Reveal, IsCurrent
<1>3. PICK task \in Task : task = x.tasks[t]
  BY <1>2, WhatIsRead
<1>4. PICK z \in Task : z = [task EXCEPT !.draft = draft]
  BY DEF Task
<1>5. z.kind = task.kind /\ z.score = task.score /\ z.draft = draft
  BY <1>3, <1>4 DEF Task
<1>6. x.tasks \in Seq(Task) /\ t \in 1 .. Len(x.tasks)
  BY <1>2, WhatIsRead DEF Session
<1>7. [x.tasks EXCEPT ![t] = z] \in Seq(Task)
  BY <1>6, ExceptSeq
<1>8. PICK y \in Session : y = [x EXCEPT !.tasks = [x.tasks EXCEPT ![t] = z]]
  BY <1>7 DEF Session
<1>9. y.tasks = [x.tasks EXCEPT ![t] = z]
  BY <1>1, <1>8 DEF Session
<1>10. sessions' = [sessions EXCEPT ![s] = y]
  BY <1>1, <1>3, <1>4, <1>8 DEF Reveal
<1>11. Precedes(x, y) /\ y.tasks[t] = z
  BY <1>2, <1>3, <1>5, <1>9, OneTaskChanges
<1> QED
  BY <1>1, <1>5, <1>10, <1>11, OneSessionChanges

LEMMA AnswerMoves ==
    ASSUME sessions \in Seq(Session), NEW s \in DOMAIN sessions, NEW t, NEW score \in Scores,
           Answer(s, t, score)
    PROVE  MovesTo(sessions, sessions') /\ sessions'[s].tasks[t].score = score
<1>1. PICK x \in Session : x = sessions[s]
  BY LessonSessionsAre
<1>2. t \in DOMAIN x.tasks /\ IsPending(x.tasks[t])
  BY <1>1 DEF Answer, MayAnswer, IsCurrent
<1>3. PICK task \in Task : task = x.tasks[t]
  BY <1>2, WhatIsRead
<1>4. PICK z \in Task : z = [task EXCEPT !.score = score]
  BY DEF Task
<1>5. z.kind = task.kind /\ z.score = score /\ z.draft = task.draft
  BY <1>3, <1>4 DEF Task
<1>6. x.tasks \in Seq(Task) /\ t \in 1 .. Len(x.tasks)
  BY <1>2, WhatIsRead DEF Session
<1>7. [x.tasks EXCEPT ![t] = z] \in Seq(Task)
  BY <1>6, ExceptSeq
<1>8. PICK y \in Session : y = [x EXCEPT !.tasks = [x.tasks EXCEPT ![t] = z]]
  BY <1>7 DEF Session
<1>9. y.tasks = [x.tasks EXCEPT ![t] = z]
  BY <1>1, <1>8 DEF Session
<1>10. sessions' = [sessions EXCEPT ![s] = y]
  BY <1>1, <1>3, <1>4, <1>8 DEF Answer
<1>11. Precedes(x, y) /\ y.tasks[t] = z
  BY <1>2, <1>3, <1>5, <1>9, OneTaskChanges
<1> QED
  BY <1>1, <1>5, <1>10, <1>11, OneSessionChanges

LEMMA AnswerWithMoreMoves ==
    ASSUME sessions \in Seq(Session), NEW s \in DOMAIN sessions, NEW t, AnswerWithMore(s, t)
    PROVE  MovesTo(sessions, sessions') /\ sessions'[s].tasks[t].score = "wrong"
<1>1. PICK x \in Session : x = sessions[s]
  BY LessonSessionsAre
<1>2. t \in DOMAIN x.tasks /\ IsPending(x.tasks[t])
  BY <1>1 DEF AnswerWithMore, MayAnswer, IsCurrent
<1>3. PICK task \in Task : task = x.tasks[t]
  BY <1>2, WhatIsRead
<1>4. PICK z \in Task : z = [task EXCEPT !.score = "wrong"]
  BY DEF Task, Scores
<1>5. z.kind = task.kind /\ z.score = "wrong" /\ z.draft = task.draft
  BY <1>3, <1>4 DEF Task, Scores
<1>6. x.tasks \in Seq(Task) /\ t \in 1 .. Len(x.tasks) /\ Len(x.tasks) \in Nat
  BY <1>2, WhatIsRead DEF Session
<1> DEFINE answered == [x.tasks EXCEPT ![t] = z]
<1>7. /\ answered \in Seq(Task) /\ Len(answered) = Len(x.tasks)
      /\ \A u \in 1 .. Len(x.tasks) : answered[u] = IF u = t THEN z ELSE x.tasks[u]
  BY <1>6, ExceptSeq
<1> HIDE DEF answered
<1>8. PICK more \in Task : more = NewTask("plain")
  BY DEF NewTask, Task, Kinds
<1> DEFINE longer == Append(answered, more)
<1>9. /\ longer \in Seq(Task) /\ Len(longer) = Len(x.tasks) + 1
      /\ \A u \in 1 .. Len(x.tasks) : longer[u] = answered[u]
  <2>1. Append(answered, more) \in Seq(Task)
    BY <1>7, AppendProperties
  <2>2. Len(Append(answered, more)) = Len(answered) + 1
    BY <1>7, AppendProperties
  <2>3. \A u \in 1 .. Len(answered) : Append(answered, more)[u] = answered[u]
    BY <1>7, AppendProperties
  <2> QED
    BY <1>7, <2>1, <2>2, <2>3
<1> HIDE DEF longer
<1>10. PICK y \in Session : y = [x EXCEPT !.tasks = longer]
  BY <1>9 DEF Session
<1>11. y.tasks = longer
  BY <1>1, <1>10 DEF Session
<1>12. sessions' = [sessions EXCEPT ![s] = y]
  BY <1>1, <1>3, <1>4, <1>8, <1>10 DEF AnswerWithMore, answered, longer
<1>13. y.tasks[t] = z
  BY <1>6, <1>7, <1>9, <1>11
<1>14. ASSUME NEW u \in 1 .. Len(x.tasks)
       PROVE  /\ y.tasks[u].kind = x.tasks[u].kind
              /\ ~IsPending(x.tasks[u]) => y.tasks[u] = x.tasks[u]
              /\ x.tasks[u].draft # NoDraft => y.tasks[u].draft = x.tasks[u].draft
  <2>1. y.tasks[u] = IF u = t THEN z ELSE x.tasks[u]
    BY <1>7, <1>9, <1>11
  <2> QED
    BY <2>1, <1>2, <1>3, <1>5
<1>15. Len(x.tasks) <= Len(y.tasks)
  BY <1>6, <1>9, <1>11
<1>16. Precedes(x, y)
  BY <1>14, <1>15, WhatIsRead DEF Precedes
<1> QED
  BY <1>1, <1>5, <1>12, <1>13, <1>16, OneSessionChanges

(* A session ends.                                                         *)
LEMMA EndMoves ==
    ASSUME sessions \in Seq(Session), NEW s \in DOMAIN sessions, Complete(s) \/ Abandon(s)
    PROVE  MovesTo(sessions, sessions')
<1>1. PICK x \in Session : x = sessions[s]
  BY LessonSessionsAre
<1>2. PICK status \in {"completed", "abandoned"} :
         sessions' = [sessions EXCEPT ![s].status = status]
  BY DEF Complete, Abandon
<1>3. PICK y \in Session : y = [x EXCEPT !.status = status]
  BY DEF Session
<1>4. y.tasks = x.tasks
  BY <1>1, <1>3 DEF Session
<1>5. sessions' = [sessions EXCEPT ![s] = y]
  BY <1>1, <1>2, <1>3
<1>6. Precedes(x, y)
  BY <1>4, PrecedesItself DEF Precedes
<1> QED
  BY <1>1, <1>5, <1>6, OneSessionChanges

LEMMA StartMoves ==
    ASSUME sessions \in Seq(Session), Start
    PROVE  MovesTo(sessions, sessions') /\ Len(sessions') = Len(sessions) + 1
<1>1. NewSession \in Session
  <2>1. /\ DOMAIN SourceTasks = 1 .. Len(SourceTasks) /\ Len(SourceTasks) \in Nat
        /\ \A t \in 1 .. Len(SourceTasks) : SourceTasks[t] \in Kinds
    BY TasksAssumption, LenProperties, ElementOfSeq
  <2>2. \A t \in 1 .. Len(SourceTasks) : NewTask(SourceTasks[t]) \in Task
    BY <2>1 DEF NewTask, Task
  <2>3. [t \in DOMAIN SourceTasks |-> NewTask(SourceTasks[t])] \in Seq(Task)
    BY <2>1, <2>2, SeqDef
  <2> QED
    BY <2>3 DEF NewSession, Session
<1>2. sessions' = Append(sessions, NewSession)
  BY DEF Start
<1>3. /\ sessions' \in Seq(Session) /\ Len(sessions') = Len(sessions) + 1
      /\ \A s \in 1 .. Len(sessions) : sessions'[s] = sessions[s]
  BY <1>1, <1>2, AppendProperties
<1>4. \A s \in 1 .. Len(sessions) : Precedes(sessions[s], sessions'[s])
  BY <1>3, PrecedesItself, LessonSessionsAre
<1> QED
  BY <1>3, <1>4, LessonSessionsAre DEF MovesTo

LEMMA LeastNumber ==
    ASSUME NEW S \in SUBSET Nat, S # {}
    PROVE  \E m \in S : \A n \in S : m <= n
<1>1. IsWellFoundedOn(OpToRel(<, Nat), Nat)
  BY NatLessThanWellFounded
<1>2. PICK m \in S : \A n \in S : <<n, m>> \notin OpToRel(<, Nat)
  BY <1>1, WFMin
<1>3. \A n \in S : ~(n < m)
  BY <1>2 DEF OpToRel
<1>4. QED  BY <1>3

(* A session that is not done has one current task.                        *)
LEMMA CurrentTaskIs ==
    \A x \in Read : /\ CurrentTask(x) \in 0 .. Len(x.tasks)
                    /\ CurrentTask(x) # 0 => x \in Session
<1>1. CurrentTask(Nowhere) = 0
  BY WhatIsRead, EmptySeq DEF CurrentTask, IsDone
<1>2. ASSUME NEW x \in Session PROVE CurrentTask(x) \in 0 .. Len(x.tasks)
  <2>1. CASE IsDone(x)
    BY <2>1, WhatIsRead DEF CurrentTask
  <2>2. CASE ~IsDone(x)
    <3> DEFINE Pending == {t \in DOMAIN x.tasks : IsPending(x.tasks[t])}
    <3>1. Pending # {} /\ Pending \in SUBSET Nat
      BY <2>2, WhatIsRead DEF IsDone
    <3>2. PICK t \in Pending : \A u \in Pending : t <= u
      <4> HIDE DEF Pending
      <4> QED  BY <3>1, LeastNumber
    <3>3. IsCurrent(x, t)
      <4>1. t \in 1 .. Len(x.tasks) /\ IsPending(x.tasks[t]) /\ Len(x.tasks) \in Nat
        BY WhatIsRead
      <4>2. ASSUME NEW u \in 1 .. t - 1 PROVE ~IsPending(x.tasks[u])
        BY <3>2, <4>1, WhatIsRead
      <4> QED
        BY <4>1, <4>2, WhatIsRead DEF IsCurrent
    <3>4. \E u \in DOMAIN x.tasks : IsCurrent(x, u)
      BY <3>2, <3>3
    <3>5. CurrentTask(x) \in DOMAIN x.tasks
      BY <2>2, <3>4 DEF CurrentTask
    <3> QED
      BY <3>5, WhatIsRead
  <2> QED
    BY <2>1, <2>2
<1> QED
  BY <1>1, <1>2, WhatIsRead DEF Read

-----------------------------------------------------------------------------
(* What was seen stays so.                                                 *)

LEMMA TabIsAt ==
    ASSUME NEW ss \in Seq(Session), NEW p, NEW c, TabFits(p, c, ss), p.s # 0
    PROVE  /\ p.s \in 1 .. Len(ss) /\ ss[p.s] \in Session
           /\ p.form.t # 0 =>
                 /\ p.form.t \in 1 .. Len(p.known.tasks) /\ p.known \in Session
                 /\ p.form.t \in 1 .. Len(ss[p.s].tasks)
                 /\ ss[p.s].tasks[p.form.t] \in Task
<1>1. p.s \in 1 .. Len(ss) /\ ss[p.s] \in Session
  BY LessonSessionsAre DEF TabFits, ViewFits
<1>2. p.known \in Read /\ p.form.t \in 0 .. Len(p.known.tasks)
  BY DEF TabFits, FormFits, Page
<1>3. Len(p.known.tasks) <= Len(ss[p.s].tasks)
  BY DEF TabFits, SeenFits, Precedes
<1>4. p.form.t # 0 => p.known \in Session
  BY <1>2, WhatIsRead DEF Read
<1> QED
  BY <1>1, <1>2, <1>3, <1>4, WhatIsRead

(* A page that waits for an answer about a task is about that task.        *)
LEMMA NoneIsRecorded == "none" \notin Scores /\ NoDraft \notin Drafts
BY TasksAssumption DEF Scores

LEMMA TabStays ==
    ASSUME NEW ss \in Seq(Session), NEW zs, MovesTo(ss, zs), NEW p, NEW c, TabFits(p, c, ss)
    PROVE  TabFits(p, c, zs)
<1>1. /\ zs \in Seq(Session) /\ Len(ss) \in Nat /\ Len(zs) \in Nat /\ Len(ss) <= Len(zs)
      /\ DOMAIN ss = 1 .. Len(ss) /\ DOMAIN zs = 1 .. Len(zs)
  BY LessonSessionsAre DEF MovesTo
<1>2. p \in Page /\ c \in Call
  BY DEF TabFits
<1>3. ViewFits(p, zs)
  BY <1>1, <1>2 DEF TabFits, ViewFits
<1>4. CASE p.s = 0
  <2>1. /\ p.view = "home" /\ p.known = Nowhere /\ p.form = NoForm /\ p.feedback = "none"
        /\ p.retry = "none" /\ ~p.reference /\ p.form.t = 0
    BY <1>2, <1>4 DEF TabFits, ViewFits, NoForm
  <2>2. c.op \in {"none", "start"}
    BY <1>4 DEF TabFits, CallFits
  <2>3. FormFits(p, zs)
    BY <2>1, WhatIsRead DEF FormFits
  <2>4. CallFits(p, c, zs)
    BY <1>1, <2>1, <2>2 DEF TabFits, CallFits
  <2> QED
    BY <1>2, <1>3, <1>4, <2>3, <2>4 DEF TabFits, SeenFits
<1>5. CASE p.s # 0
  <2>1. PICK y \in Session, z \in Session : y = ss[p.s] /\ z = zs[p.s] /\ Precedes(y, z)
    BY <1>1, <1>5, TabIsAt, LessonSessionsAre DEF MovesTo
  <2>2. p.known \in Read /\ p.queued \in Read /\ c.read \in Read
    BY <1>2 DEF Page, Call
  <2>3. SeenFits(p, zs)
    <3>1. Precedes(p.known, z)
      BY <1>5, <2>1, <2>2, PrecedesStill DEF TabFits, SeenFits
    <3>2. p.retry = "continue" => p.queued \in Session /\ Precedes(p.queued, z)
      BY <1>5, <2>1, <2>2, PrecedesStill DEF TabFits, SeenFits
    <3> QED
      BY <2>1, <3>1, <3>2 DEF SeenFits
  <2>4. ASSUME p.form.t # 0
        PROVE  /\ y.tasks[p.form.t].draft # NoDraft =>
                     z.tasks[p.form.t].draft = y.tasks[p.form.t].draft
               /\ y.tasks[p.form.t].score # "none" =>
                     z.tasks[p.form.t].score = y.tasks[p.form.t].score
    <3>1. p.form.t \in DOMAIN y.tasks
      BY <1>5, <2>1, <2>4, TabIsAt, WhatIsRead
    <3> QED
      BY <2>1, <3>1 DEF Precedes, IsPending
  <2>5. FormFits(p, zs)
    BY <2>1, <2>4, NoneIsRecorded DEF TabFits, FormFits
  <2>6. c.op \notin {"none", "start"} => c.s = p.s
    BY DEF TabFits, CallFits
  <2>7. CASE c.op \in {"none", "start"}
    <3>1. CallFits(p, c, ss)
      BY DEF TabFits
    <3>2. c.op = "start" => p.view = "home" /\ (c.reply = "ok" => c.s \in DOMAIN zs)
      BY <1>1, <3>1 DEF CallFits
    <3>3. c.op = "start" => c.reply # "refused"
      BY <3>1 DEF CallFits
    <3>4. CallFits(p, c, zs)
      BY <2>7, <3>2, <3>3 DEF CallFits
    <3> QED
      BY <1>2, <1>3, <2>3, <2>5, <3>4 DEF TabFits
  <2>8. CASE c.op \notin {"none", "start"}
    <3>1. ss[c.s] = y /\ zs[c.s] = z /\ c.s = p.s
      BY <2>1, <2>6, <2>8
    <3>2. CallFits(p, c, ss)
      BY DEF TabFits
    <3>3. c.op \in {"load", "reload", "sync"} /\ c.reply = "ok" =>
             c.read \in Session /\ Precedes(c.read, z)
      BY <2>1, <2>2, <3>1, <3>2, PrecedesStill DEF CallFits
    <3>4. c.op = "preview" /\ c.reply = "ok" => z.tasks[c.t].draft = c.draft
      BY <2>4, <3>1, <3>2, NoneIsRecorded DEF CallFits
    <3>5. c.op = "answer" /\ c.reply = "ok" => z.tasks[c.t].score = c.score
      BY <2>4, <3>1, <3>2, NoneIsRecorded DEF CallFits
    <3>6. c.op = "reload" => z.tasks[p.form.t].score = p.told
      BY <2>4, <3>1, <3>2, NoneIsRecorded DEF CallFits
    <3>7. CallFits(p, c, zs)
      <4> DEFINE zc == zs[c.s]
      <4>1. zc = z
        BY <3>1
      <4> HIDE DEF zc
      <4> QED
        BY <2>8, <3>2, <3>3, <3>4, <3>5, <3>6, <4>1 DEF CallFits, zc
    <3> QED
      BY <1>2, <1>3, <2>3, <2>5, <3>7 DEF TabFits
  <2> QED
    BY <1>2, <1>3, <2>3, <2>5, <2>7, <2>8 DEF TabFits
<1> QED
  BY <1>4, <1>5

(* The server answers a call.                                              *)
LEMMA CallStep ==
    ASSUME TabInv, MovesTo(sessions, sessions'), UNCHANGED <<mode, page>>,
           NEW d \in Call, call' = d, CallFits(page, d, sessions')
    PROVE  TabInv'
<1>1. PICK p, c, ss, zs : p = page /\ c = call /\ ss = sessions /\ zs = sessions'
  OBVIOUS
<1>2. ss \in Seq(Session) /\ TabFits(p, c, ss)
  BY <1>1 DEF TabInv
<1>3. MovesTo(ss, zs)
  BY <1>1
<1>4. TabFits(p, c, zs)
  BY <1>2, <1>3, TabStays
<1>5. CallFits(p, d, zs)
  BY <1>1
<1>6. TabFits(p, d, zs)
  BY <1>4, <1>5 DEF TabFits
<1>7. TabFits(page, call, sessions)'
  BY <1>1, <1>6
<1>8. sessions' \in Seq(Session) /\ mode' \in {"lesson", "replay"}
  BY DEF MovesTo, TabInv
<1> QED
  BY <1>7, <1>8 DEF TabInv

LEMMA SessionsStep ==
    ASSUME TabInv, MovesTo(sessions, sessions'), UNCHANGED <<mode, page, call>>
    PROVE  TabInv'
<1>1. PICK p, c, ss, zs : p = page /\ c = call /\ ss = sessions /\ zs = sessions'
  OBVIOUS
<1>2. TabFits(p, c, zs)
  BY <1>1, TabStays DEF TabInv
<1> QED
  BY <1>1, <1>2 DEF TabInv, MovesTo

LEMMA NothingMoves == sessions \in Seq(Session) => MovesTo(sessions, sessions)
BY PrecedesItself, LessonSessionsAre DEF MovesTo

-----------------------------------------------------------------------------
(* The server, and what happens to a call.                                 *)

Replies == {"none", "ok", "refused", "unknown"}

LEMMA RepliedCall ==
    ASSUME NEW c \in Call, NEW reply \in Replies
    PROVE  \E d \in Call : /\ d = [c EXCEPT !.reply = reply]
                          /\ d.op = c.op /\ d.s = c.s /\ d.t = c.t /\ d.draft = c.draft
                          /\ d.score = c.score /\ d.read = c.read /\ d.reply = reply
<1> DEFINE d == [c EXCEPT !.reply = reply]
<1>1. d \in Call
  BY DEF Call, Replies
<1>2. /\ d.op = c.op /\ d.s = c.s /\ d.t = c.t /\ d.draft = c.draft
      /\ d.score = c.score /\ d.read = c.read /\ d.reply = reply
  BY DEF Call
<1> QED
  BY <1>1, <1>2

(* A call whose answer says nothing of the sessions.                       *)
LEMMA UntoldFits ==
    ASSUME NEW p, NEW c, NEW ss, CallFits(p, c, ss), NEW d, d.op = c.op, d.s = c.s, d.t = c.t,
           d.draft = c.draft, d.score = c.score, d.reply # "ok",
           d.reply = "refused" => c.op \notin {"start", "load", "reload", "sync"}
    PROVE  CallFits(p, d, ss)
BY DEF CallFits

LEMMA LoseStep == TabInv /\ Lose => TabInv'
<1> SUFFICES ASSUME TabInv, Lose PROVE TabInv'
  OBVIOUS
<1>1. PICK c : c = call
  OBVIOUS
<1>2. c \in Call /\ CallFits(page, c, sessions)
  BY <1>1 DEF TabInv, TabFits
<1>3. PICK d \in Call : /\ d = [c EXCEPT !.reply = "unknown"]
                        /\ d.op = c.op /\ d.s = c.s /\ d.t = c.t /\ d.draft = c.draft
                        /\ d.score = c.score /\ d.reply = "unknown"
  BY <1>2, RepliedCall DEF Replies
<1>4. CallFits(page, d, sessions)
  <2>1. PICK p, ss : p = page /\ ss = sessions
    OBVIOUS
  <2>2. CallFits(p, d, ss)
    BY <1>2, <1>3, <2>1, UntoldFits
  <2> QED
    BY <2>1, <2>2
<1>5. call' = d /\ sessions' = sessions /\ UNCHANGED <<mode, page>>
  BY <1>1, <1>3 DEF Lose
<1>6. MovesTo(sessions, sessions')
  BY <1>5, NothingMoves DEF TabInv
<1> QED
  BY <1>4, <1>5, <1>6, CallStep

LEMMA ServeStartStep == TabInv /\ ServeStart /\ UNCHANGED <<mode, page>> => TabInv'
<1> SUFFICES ASSUME TabInv, ServeStart, UNCHANGED <<mode, page>> PROVE TabInv'
  OBVIOUS
<1>1. PICK c \in Call : c = call /\ c.op = "start"
  BY DEF TabInv, TabFits, ServeStart
<1>2. PICK s : /\ call' = [c EXCEPT !.reply = "ok", !.s = s] /\ s \in DOMAIN sessions'
               /\ s \in Nat /\ MovesTo(sessions, sessions')
  <2>1. sessions \in Seq(Session)
    BY DEF TabInv
  <2>2. CASE Started # {}
    <3>1. (CHOOSE s \in Started : TRUE) \in DOMAIN sessions
      BY <2>2 DEF Started
    <3>2. DOMAIN sessions \subseteq Nat
      BY <2>1, LessonSessionsAre
    <3> QED
      BY <1>1, <2>1, <2>2, <3>1, <3>2, NothingMoves DEF ServeStart
  <2>3. CASE Started = {}
    <3>1. Start /\ call' = [c EXCEPT !.reply = "ok", !.s = Len(sessions) + 1]
      BY <1>1, <2>3 DEF ServeStart
    <3>2. MovesTo(sessions, sessions') /\ Len(sessions') = Len(sessions) + 1
      BY <2>1, <3>1, StartMoves
    <3>3. Len(sessions) + 1 \in DOMAIN sessions' /\ Len(sessions) + 1 \in Nat
      BY <2>1, <3>2, LessonSessionsAre DEF MovesTo
    <3> QED
      BY <3>1, <3>2, <3>3
  <2> QED
    BY <2>2, <2>3
<1>3. PICK d : d = [c EXCEPT !.reply = "ok", !.s = s]
  OBVIOUS
<1>4. d \in Call
  BY <1>2, <1>3 DEF Call
<1>5. d.op = "start" /\ d.s = s /\ d.reply = "ok"
  BY <1>1, <1>3 DEF Call
<1>6. page.view = "home"
  BY <1>1 DEF TabInv, TabFits, CallFits
<1>7. CallFits(page, d, sessions')
  BY <1>2, <1>5, <1>6 DEF CallFits
<1> QED
  BY <1>2, <1>3, <1>4, <1>7, CallStep

LEMMA ServeGetStep == TabInv /\ ServeGet /\ UNCHANGED <<mode, page>> => TabInv'
<1> SUFFICES ASSUME TabInv, ServeGet, UNCHANGED <<mode, page>> PROVE TabInv'
  OBVIOUS
<1>1. PICK c \in Call : c = call /\ c.op \in {"load", "reload", "sync"}
  BY DEF TabInv, TabFits, ServeGet
<1>2. CallFits(page, c, sessions) /\ sessions' = sessions /\ sessions \in Seq(Session)
  BY <1>1 DEF TabInv, TabFits, ServeGet
<1>3. c.s = page.s /\ page.s # 0
  BY <1>1, <1>2 DEF CallFits
<1>4. PICK y \in Session : y = sessions[c.s]
  BY <1>3, TabIsAt DEF TabInv
<1>5. PICK d : d = [c EXCEPT !.reply = "ok", !.read = y]
  OBVIOUS
<1>6. d \in Call
  BY <1>5 DEF Call, Read
<1>7. /\ d.op = c.op /\ d.s = c.s /\ d.t = c.t /\ d.draft = c.draft
      /\ d.score = c.score /\ d.reply = "ok" /\ d.read = y
  BY <1>5 DEF Call
<1>8. Precedes(d.read, sessions[d.s])
  BY <1>4, <1>7, PrecedesItself
<1>9. CallFits(page, d, sessions)
  BY <1>1, <1>2, <1>7, <1>8 DEF CallFits
<1>10. call' = d
  BY <1>1, <1>4, <1>5 DEF ServeGet
<1> QED
  BY <1>2, <1>6, <1>9, <1>10, CallStep, NothingMoves

LEMMA ServePreviewStep == TabInv /\ ServePreview /\ UNCHANGED <<mode, page>> => TabInv'
<1> SUFFICES ASSUME TabInv, ServePreview, UNCHANGED <<mode, page>> PROVE TabInv'
  OBVIOUS
<1>1. PICK c \in Call : c = call /\ c.op = "preview"
  BY DEF TabInv, TabFits, ServePreview
<1>2. CallFits(page, c, sessions) /\ sessions \in Seq(Session)
  BY <1>1 DEF TabInv, TabFits
<1>3. c.s = page.s /\ page.s # 0 /\ c.draft \in Drafts
  BY <1>1, <1>2 DEF CallFits
<1>4. c.s \in DOMAIN sessions
  BY <1>3, TabIsAt, LessonSessionsAre DEF TabInv
<1>5. \E reply \in {"ok", "refused"} :
         /\ call' = [c EXCEPT !.reply = reply] /\ MovesTo(sessions, sessions')
         /\ reply = "ok" => sessions'[c.s].tasks[c.t].draft = c.draft
  <2>1. CASE Reveal(c.s, c.t, c.draft) /\ call' = [c EXCEPT !.reply = "ok"]
    BY <1>2, <1>3, <1>4, <2>1, RevealMoves
  <2>2. CASE /\ UNCHANGED sessions
             /\ \E reply \in {"ok", "refused"} :
                   /\ call' = [c EXCEPT !.reply = reply]
                   /\ reply = "ok" => sessions[c.s].tasks[c.t].draft = c.draft
    BY <1>2, <2>2, NothingMoves
  <2> QED
    BY <1>1, <2>1, <2>2 DEF ServePreview, Reply
<1>6. PICK reply \in {"ok", "refused"} :
         /\ call' = [c EXCEPT !.reply = reply] /\ MovesTo(sessions, sessions')
         /\ reply = "ok" => sessions'[c.s].tasks[c.t].draft = c.draft
  BY <1>5
<1>7. PICK d \in Call : /\ d = [c EXCEPT !.reply = reply]
                        /\ d.op = c.op /\ d.s = c.s /\ d.t = c.t /\ d.draft = c.draft
                        /\ d.score = c.score /\ d.reply = reply
  <2>1. c \in Call /\ reply \in Replies
    BY <1>1 DEF Replies
  <2> QED
    BY <2>1, RepliedCall
<1>8. CallFits(page, d, sessions')
  BY <1>1, <1>2, <1>6, <1>7 DEF CallFits
<1> QED
  BY <1>6, <1>7, <1>8, CallStep

LEMMA ServeAnswerStep == TabInv /\ ServeAnswer /\ UNCHANGED <<mode, page>> => TabInv'
<1> SUFFICES ASSUME TabInv, ServeAnswer, UNCHANGED <<mode, page>> PROVE TabInv'
  OBVIOUS
<1>1. PICK c \in Call : c = call /\ c.op = "answer"
  BY DEF TabInv, TabFits, ServeAnswer
<1>2. CallFits(page, c, sessions) /\ sessions \in Seq(Session)
  BY <1>1 DEF TabInv, TabFits
<1>3. c.s = page.s /\ page.s # 0 /\ c.score \in Scores /\ c.t = page.form.t /\ c.t # 0
  BY <1>1, <1>2 DEF CallFits
<1>4. c.s \in DOMAIN sessions /\ sessions[c.s].tasks[c.t] \in Task
  BY <1>3, TabIsAt, LessonSessionsAre DEF TabInv
<1>5. PICK task \in Task : task = sessions[c.s].tasks[c.t]
  BY <1>4
<1>6. CASE ~IsPending(task)
  <2>1. PICK score \in Scores : score = task.score
    BY <1>5, <1>6 DEF Task, IsPending
  <2>2. PICK d : d = [c EXCEPT !.reply = "ok", !.score = score]
    OBVIOUS
  <2>3. d \in Call
    BY <2>2 DEF Call
  <2>4. /\ d.op = c.op /\ d.s = c.s /\ d.t = c.t /\ d.draft = c.draft
        /\ d.score = score /\ d.reply = "ok"
    BY <2>2 DEF Call
  <2>5. call' = d /\ sessions' = sessions
    BY <1>1, <1>5, <1>6, <2>1, <2>2 DEF ServeAnswer
  <2>6. CallFits(page, d, sessions)
    BY <1>1, <1>2, <1>5, <2>1, <2>4 DEF CallFits
  <2> QED
    BY <1>2, <2>3, <2>5, <2>6, CallStep, NothingMoves
<1>7. CASE IsPending(task)
  <2>1. PICK reply \in {"ok", "refused"} :
           /\ call' = [c EXCEPT !.reply = reply] /\ MovesTo(sessions, sessions')
           /\ reply = "ok" => sessions'[c.s].tasks[c.t].score = c.score
    <3>1. CASE Answer(c.s, c.t, c.score) /\ call' = [c EXCEPT !.reply = "ok"]
      BY <1>2, <1>3, <1>4, <3>1, AnswerMoves
    <3>2. CASE /\ c.score = "wrong" /\ AnswerWithMore(c.s, c.t)
               /\ call' = [c EXCEPT !.reply = "ok"]
      BY <1>2, <1>4, <3>2, AnswerWithMoreMoves
    <3>3. CASE UNCHANGED sessions /\ call' = [c EXCEPT !.reply = "refused"]
      BY <1>2, <3>3, NothingMoves
    <3> QED
      BY <1>1, <1>5, <1>7, <3>1, <3>2, <3>3 DEF ServeAnswer, Reply
  <2>2. PICK d \in Call : /\ d = [c EXCEPT !.reply = reply]
                          /\ d.op = c.op /\ d.s = c.s /\ d.t = c.t /\ d.draft = c.draft
                          /\ d.score = c.score /\ d.reply = reply
    <3>1. c \in Call /\ reply \in Replies
      BY <1>1 DEF Replies
    <3> QED
      BY <3>1, RepliedCall
  <2>3. CallFits(page, d, sessions')
    BY <1>1, <1>2, <2>1, <2>2 DEF CallFits
  <2> QED
    BY <2>1, <2>2, <2>3, CallStep
<1> QED
  BY <1>6, <1>7

LEMMA ServeCompleteStep == TabInv /\ ServeComplete /\ UNCHANGED <<mode, page>> => TabInv'
<1> SUFFICES ASSUME TabInv, ServeComplete, UNCHANGED <<mode, page>> PROVE TabInv'
  OBVIOUS
<1>1. PICK c \in Call : c = call /\ c.op = "complete"
  BY DEF TabInv, TabFits, ServeComplete
<1>2. CallFits(page, c, sessions) /\ sessions \in Seq(Session)
  BY <1>1 DEF TabInv, TabFits
<1>3. c.s = page.s /\ page.s # 0
  BY <1>1, <1>2 DEF CallFits
<1>4. c.s \in DOMAIN sessions
  BY <1>3, TabIsAt, LessonSessionsAre DEF TabInv
<1>5. PICK reply \in {"ok", "refused"} :
         call' = [c EXCEPT !.reply = reply] /\ MovesTo(sessions, sessions')
  BY <1>1, <1>2, <1>4, EndMoves, NothingMoves DEF ServeComplete, Reply
<1>6. PICK d \in Call : /\ d = [c EXCEPT !.reply = reply]
                        /\ d.op = c.op /\ d.s = c.s /\ d.t = c.t /\ d.draft = c.draft
                        /\ d.score = c.score /\ d.reply = reply
  <2>1. c \in Call /\ reply \in Replies
    BY <1>1 DEF Replies
  <2> QED
    BY <2>1, RepliedCall
<1>7. CallFits(page, d, sessions')
  BY <1>1, <1>2, <1>5, <1>6 DEF CallFits
<1> QED
  BY <1>5, <1>6, <1>7, CallStep

LEMMA ElsewhereStep == TabInv /\ Elsewhere => TabInv'
<1> SUFFICES ASSUME TabInv, Elsewhere PROVE TabInv'
  OBVIOUS
<1>1. sessions \in Seq(Session) /\ UNCHANGED <<mode, page, call>>
  BY DEF TabInv, Elsewhere
<1>2. PICK s \in DOMAIN sessions :
         \/ \E t \in DOMAIN sessions[s].tasks :
               \/ \E draft \in Drafts : Reveal(s, t, draft)
               \/ \E score \in Scores : Answer(s, t, score)
               \/ AnswerWithMore(s, t)
         \/ Complete(s) \/ Abandon(s)
  BY DEF Elsewhere
<1>3. MovesTo(sessions, sessions')
  BY <1>1, <1>2, RevealMoves, AnswerMoves, AnswerWithMoreMoves, EndMoves
<1> QED
  BY <1>1, <1>3, SessionsStep

-----------------------------------------------------------------------------
(* The pages.                                                              *)

LEMMA TurnStep ==
    ASSUME TabInv, NEW p, NEW d, Turn(p, d), TabFits(p, d, sessions)
    PROVE  TabInv'
<1>1. page' = p /\ call' = d /\ sessions' = sessions /\ mode' = mode
  BY DEF Turn
<1>2. PICK ss : ss = sessions
  OBVIOUS
<1>3. TabFits(p, d, ss)
  BY <1>2
<1>4. TabFits(page, call, sessions)'
  BY <1>1, <1>2, <1>3
<1> QED
  BY <1>1, <1>4 DEF TabInv

LEMMA NoCallFits ==
    /\ NoCall \in Call /\ NoCall.op = "none"
    /\ NoForm \in Form /\ NoForm.t = 0
    /\ \A p, ss : CallFits(p, NoCall, ss)
<1>1. NoCall \in Call /\ NoCall.op = "none"
  BY WhatIsRead DEF NoCall, Call
<1>2. \A p, ss : CallFits(p, NoCall, ss)
  BY <1>1 DEF CallFits
<1> QED
  BY <1>1, <1>2 DEF NoForm, Form

LEMMA CallsFit ==
    ASSUME NEW op \in {"start", "load", "preview", "answer", "reload", "sync", "complete"},
           NEW s \in Nat, NEW t \in Nat
    PROVE  /\ Calls(op, s, t) \in Call
           /\ Calls(op, s, t).op = op /\ Calls(op, s, t).s = s /\ Calls(op, s, t).t = t
           /\ Calls(op, s, t).reply = "none"
BY WhatIsRead DEF Calls, NoCall, Call

LEMMA HomeFits ==
    ASSUME NEW ss \in Seq(Session)
    PROVE  /\ Home \in Page /\ Home.view = "home" /\ Home.s = 0
           /\ TabFits(Home, NoCall, ss)
<1>1. /\ Home \in Page /\ Home.view = "home" /\ Home.s = 0 /\ Home.known = Nowhere
      /\ Home.form = NoForm /\ Home.feedback = "none" /\ Home.retry = "none"
      /\ Home.reference = FALSE
  BY WhatIsRead, NoCallFits DEF Home, Page
<1>2. ViewFits(Home, ss)
  BY <1>1, LessonSessionsAre DEF ViewFits
<1>3. FormFits(Home, ss)
  BY <1>1, WhatIsRead, NoCallFits DEF FormFits
<1>4. SeenFits(Home, ss)
  BY <1>1 DEF SeenFits
<1> QED
  BY <1>1, <1>2, <1>3, <1>4, NoCallFits DEF TabFits

(* A page that has been read of nothing yet.                               *)
LEMMA UnreadFits ==
    ASSUME NEW ss \in Seq(Session), NEW s \in 1 .. Len(ss),
           NEW p \in Page, p.view \in {"loading", "unread"}, p.s = s, p.known = Nowhere,
           p.form = NoForm, p.feedback = "none", p.retry = "none", ~p.reference,
           NEW c \in Call, CallFits(p, c, ss)
    PROVE  TabFits(p, c, ss)
<1>1. ViewFits(p, ss)
  BY LessonSessionsAre DEF ViewFits
<1>2. FormFits(p, ss)
  BY WhatIsRead, NoCallFits DEF FormFits
<1>3. SeenFits(p, ss)
  BY LessonSessionsAre, PrecedesItself DEF SeenFits
<1> QED
  BY <1>1, <1>2, <1>3 DEF TabFits

(* The form of a task shows the draft its reference was revealed for.      *)
ShowsDraft(form, x) ==
    /\ form \in Form /\ form.t \in 0 .. Len(x.tasks)
    /\ form.t # 0 /\ x.tasks[form.t].kind = "sentence" /\ x.tasks[form.t].draft # NoDraft =>
          form.draft = x.tasks[form.t].draft

LEMMA MountedFits ==
    ASSUME NEW x \in Session, NEW recovered \in Drafts \cup {NoDraft}
    PROVE  ShowsDraft(Mounted(x, recovered), x)
<1>1. PICK t : t = CurrentTask(x)
  OBVIOUS
<1>2. t \in 0 .. Len(x.tasks) /\ Len(x.tasks) \in Nat
  BY <1>1, CurrentTaskIs, WhatIsRead DEF Read
<1>3. CASE t = 0
  BY <1>1, <1>2, <1>3, NoCallFits DEF Mounted, ShowsDraft
<1>4. CASE t # 0
  <2>1. PICK task \in Task : task = x.tasks[t]
    BY <1>2, <1>4, WhatIsRead
  <2>2. PICK draft \in Drafts \cup {NoDraft} :
           draft = IF task.draft # NoDraft THEN task.draft ELSE recovered
    BY DEF Task
  <2>3. Mounted(x, recovered) = [NoForm EXCEPT !.t = t, !.draft = draft]
    BY <1>1, <1>4, <2>1, <2>2 DEF Mounted
  <2>4. PICK m, blank : m = [blank EXCEPT !.t = t, !.draft = draft] /\ blank = NoForm
    OBVIOUS
  <2>5. blank \in Form /\ t \in Nat
    BY <1>2, <2>4, NoCallFits
  <2>6. m \in Form /\ m.t = t /\ m.draft = draft
    BY <2>4, <2>5 DEF Form
  <2> QED
    BY <1>2, <2>1, <2>2, <2>3, <2>4, <2>6 DEF ShowsDraft
<1> QED
  BY <1>3, <1>4

(* A page that opens a session it has just read.                           *)
Opened(s, x, form) ==
    [Home EXCEPT !.view = "tasks", !.s = s, !.known = x, !.form = form]

LEMMA OpenedFits ==
    ASSUME NEW ss \in Seq(Session), NEW s \in 1 .. Len(ss), NEW x \in Session, ~Closed(x),
           Precedes(x, ss[s]), NEW form, ShowsDraft(form, x)
    PROVE  TabFits(Opened(s, x, form), NoCall, ss)
<1>1. PICK p : p = Opened(s, x, form)
  OBVIOUS
<1>2. p \in Page
  <2>1. s \in Nat /\ x \in Read /\ form \in Form /\ Home \in Page
    BY HomeFits, LessonSessionsAre DEF ShowsDraft, Read
  <2> QED
    BY <1>1, <2>1 DEF Opened, Page
<1>3. /\ p.view = "tasks" /\ p.s = s /\ p.known = x /\ p.form = form
      /\ p.feedback = "none" /\ p.retry = "none" /\ ~p.reference
  BY <1>1 DEF Opened, Home
<1>4. ViewFits(p, ss)
  BY <1>3, LessonSessionsAre DEF ViewFits
<1>5. FormFits(p, ss)
  BY <1>3 DEF FormFits, ShowsDraft
<1>6. SeenFits(p, ss)
  BY <1>3 DEF SeenFits
<1> QED
  BY <1>1, <1>2, <1>4, <1>5, <1>6, NoCallFits DEF TabFits

(* What the page shows is left as it is.                                   *)
LEMMA ViewChanges ==
    ASSUME NEW ss \in Seq(Session), NEW q, NEW c, TabFits(q, c, ss), q.s # 0,
           NEW p, p = [q EXCEPT !.view = "summary"]
    PROVE  TabFits(p, NoCall, ss)
<1>1. q \in Page
  BY DEF TabFits
<1>2. /\ p \in Page
      /\ p.view = "summary" /\ p.s = q.s /\ p.known = q.known /\ p.queued = q.queued
      /\ p.form = q.form /\ p.feedback = q.feedback /\ p.retry = q.retry
      /\ p.reference = q.reference /\ p.told = q.told /\ p.sent = q.sent
  BY <1>1 DEF Page
<1>3. ViewFits(p, ss)
  BY <1>2 DEF TabFits, ViewFits
<1>4. FormFits(p, ss)
  BY <1>2 DEF TabFits, FormFits
<1>5. SeenFits(p, ss)
  BY <1>2 DEF TabFits, SeenFits
<1> QED
  BY <1>2, <1>3, <1>4, <1>5, NoCallFits DEF TabFits

LEMMA ClosedFits ==
    ASSUME TabInv, page.s # 0, NEW x
    PROVE  TabFits(ClosedPage(x), NoCall, sessions)
<1>1. PICK q, c, ss : q = page /\ c = call /\ ss = sessions
  OBVIOUS
<1>2. ss \in Seq(Session) /\ TabFits(q, c, ss) /\ q.s # 0
  BY <1>1 DEF TabInv
<1>3. PICK p : p = [q EXCEPT !.view = "summary"]
  OBVIOUS
<1>4. TabFits(p, NoCall, ss) /\ TabFits(Home, NoCall, ss)
  BY <1>2, <1>3, ViewChanges, HomeFits
<1>5. ClosedPage(x) = p \/ ClosedPage(x) = Home
  BY <1>1, <1>3 DEF ClosedPage
<1> QED
  BY <1>1, <1>4, <1>5

LEMMA ErrorFits ==
    ASSUME NEW ss \in Seq(Session), NEW q, NEW c, TabFits(q, c, ss),
           q.view \in {"tasks", "summary"},
           NEW retry \in {"none", "submit", "preview", "reload", "sync"},
           retry = "submit" => q.form.t # 0 /\ q.sent \in Scores,
           retry = "preview" => q.form.t # 0 /\ q.form.draft \in Drafts,
           retry = "reload" => /\ q.form.t # 0 /\ q.told \in Scores
                               /\ ss[q.s].tasks[q.form.t].score = q.told
    PROVE  TabFits(ErrorPage(q, retry), NoCall, ss)
<1>1. q \in Page
  BY DEF TabFits
<1>2. PICK p : p = ErrorPage(q, retry)
  OBVIOUS
<1>3. /\ p \in Page
      /\ p.view = q.view /\ p.s = q.s /\ p.known = q.known /\ p.queued = q.queued
      /\ p.form = q.form /\ p.feedback = "error" /\ p.retry = retry
      /\ p.reference = q.reference /\ p.told = q.told /\ p.sent = q.sent
  BY <1>1, <1>2 DEF Page, ErrorPage
<1>4. ViewFits(p, ss)
  BY <1>3 DEF TabFits, ViewFits
<1>5. FormFits(p, ss)
  BY <1>3 DEF TabFits, FormFits
<1>6. SeenFits(p, ss)
  BY <1>3 DEF TabFits, SeenFits
<1> QED
  BY <1>2, <1>3, <1>4, <1>5, <1>6, NoCallFits DEF TabFits

LEMMA ErrorStep ==
    ASSUME TabInv, page.view \in {"tasks", "summary"},
           NEW retry \in {"none", "submit", "preview", "reload", "sync"},
           retry = "submit" => page.form.t # 0 /\ page.sent \in Scores,
           retry = "preview" => page.form.t # 0 /\ page.form.draft \in Drafts,
           retry = "reload" => /\ page.form.t # 0 /\ page.told \in Scores
                               /\ sessions[page.s].tasks[page.form.t].score = page.told,
           Turn(ErrorPage(page, retry), NoCall)
    PROVE  TabInv'
<1>1. PICK q, c, ss : q = page /\ c = call /\ ss = sessions
  OBVIOUS
<1>2. ss \in Seq(Session) /\ TabFits(q, c, ss)
  BY <1>1 DEF TabInv
<1>3. TabFits(ErrorPage(q, retry), NoCall, ss)
  BY <1>1, <1>2, ErrorFits
<1> QED
  BY <1>1, <1>3, TurnStep

(* The page waits for the next call.                                       *)
LEMMA AskStep ==
    ASSUME TabInv, NEW d \in Call, Turn(page, d), CallFits(page, d, sessions)
    PROVE  TabInv'
<1>1. TabFits(page, d, sessions)
  BY DEF TabInv, TabFits
<1>2. page' = page /\ call' = d /\ sessions' = sessions /\ mode' = mode
  BY DEF Turn
<1> QED
  BY <1>2, CallStep, NothingMoves DEF TabInv

LEMMA HomeStep ==
    ASSUME TabInv, page' = Home, call' = NoCall, UNCHANGED <<sessions, mode>>
    PROVE  TabInv'
BY HomeFits, TurnStep DEF TabInv, Turn

LEMMA StartSessionStep == TabInv /\ StartSession => TabInv'
<1> SUFFICES ASSUME TabInv, StartSession PROVE TabInv'
  OBVIOUS
<1>1. PICK d \in Call : d = Calls("start", 0, 0) /\ d.op = "start" /\ d.reply = "none"
  BY CallsFit
<1>2. page.view = "home" /\ Turn(page, d)
  BY <1>1 DEF StartSession
<1>3. CallFits(page, d, sessions)
  BY <1>1, <1>2 DEF CallFits
<1> QED
  BY <1>2, <1>3, AskStep

LEMMA OnStartedStep == TabInv /\ OnStarted => TabInv'
<1> SUFFICES ASSUME TabInv, OnStarted PROVE TabInv'
  OBVIOUS
<1>1. PICK c \in Call : c = call /\ c.op = "start" /\ c.reply # "none"
  BY DEF TabInv, TabFits, OnStarted
<1>2. CASE c.reply = "ok"
  <2>1. PICK ss \in Seq(Session) : ss = sessions
    BY DEF TabInv
  <2>2. c.s \in 1 .. Len(ss) /\ c.s \in Nat /\ c.s # 0
    BY <1>1, <1>2, <2>1, LessonSessionsAre DEF TabInv, TabFits, CallFits
  <2>3. PICK d \in Call : /\ d = Calls("load", c.s, 0)
                          /\ d.op = "load" /\ d.s = c.s /\ d.reply = "none"
    BY <2>2, CallsFit
  <2>4. PICK p, blank : p = [blank EXCEPT !.view = "loading", !.s = c.s] /\ blank = Home
    OBVIOUS
  <2>5. p \in Page /\ p.view = "loading" /\ p.s = c.s
    BY <2>2, <2>4, HomeFits DEF Page
  <2>6. /\ p.known = Nowhere /\ p.form = NoForm /\ p.feedback = "none" /\ p.retry = "none"
        /\ p.reference = FALSE
    BY <2>4 DEF Home
  <2>7. CallFits(p, d, ss)
    BY <2>2, <2>3, <2>5 DEF CallFits
  <2>8. TabFits(p, d, ss)
    BY <2>2, <2>3, <2>5, <2>6, <2>7, UnreadFits
  <2>9. Turn(p, d)
    BY <1>1, <1>2, <2>3, <2>4 DEF OnStarted
  <2> QED
    BY <2>1, <2>8, <2>9, TurnStep
<1>3. CASE c.reply # "ok"
  BY <1>1, <1>3, AskStep, NoCallFits DEF OnStarted
<1> QED
  BY <1>2, <1>3

LEMMA OnLoadedStep == TabInv /\ OnLoaded => TabInv'
<1> SUFFICES ASSUME TabInv, OnLoaded PROVE TabInv'
  OBVIOUS
<1>1. PICK c \in Call : c = call /\ c.op = "load" /\ c.reply # "none"
  BY DEF TabInv, TabFits, OnLoaded
<1>2. PICK ss \in Seq(Session), q \in Page : ss = sessions /\ q = page /\ TabFits(q, c, ss)
  BY <1>1 DEF TabInv, TabFits
<1>3. q.view = "loading" /\ q.s # 0 /\ c.s = q.s
  BY <1>1, <1>2 DEF TabFits, CallFits
<1>4. q.s \in 1 .. Len(ss)
  BY <1>2, <1>3, TabIsAt
<1>5. CASE c.reply = "ok"
  <2>1. PICK x \in Session : x = c.read /\ Precedes(x, ss[q.s])
    BY <1>1, <1>2, <1>3, <1>5 DEF TabFits, CallFits
  <2>2. CASE Closed(x)
    BY <1>1, <1>2, <1>3, <1>5, <2>1, <2>2, ClosedFits, TurnStep DEF OnLoaded
  <2>3. CASE ~Closed(x)
    <3>1. Turn(Opened(q.s, x, Mounted(x, NoDraft)), NoCall)
      BY <1>1, <1>2, <1>5, <2>1, <2>3 DEF OnLoaded, Opened
    <3>2. ShowsDraft(Mounted(x, NoDraft), x)
      BY MountedFits
    <3>3. TabFits(Opened(q.s, x, Mounted(x, NoDraft)), NoCall, ss)
      BY <1>4, <2>1, <2>3, <3>2, OpenedFits
    <3> QED
      BY <1>2, <3>1, <3>3, TurnStep
  <2> QED
    BY <2>2, <2>3
<1>6. CASE c.reply # "ok"
  <2>1. PICK p : p = [q EXCEPT !.view = "unread"]
    OBVIOUS
  <2>2. /\ p \in Page /\ p.view = "unread" /\ p.s = q.s /\ p.known = q.known
        /\ p.form = q.form /\ p.feedback = q.feedback /\ p.retry = q.retry
        /\ p.reference = q.reference
    BY <2>1 DEF Page
  <2>3. TabFits(p, NoCall, ss)
    BY <1>2, <1>3, <1>4, <2>2, UnreadFits, NoCallFits DEF TabFits, ViewFits
  <2>4. Turn(p, NoCall)
    BY <1>1, <1>2, <1>6, <2>1 DEF OnLoaded
  <2> QED
    BY <1>2, <2>3, <2>4, TurnStep
<1> QED
  BY <1>5, <1>6

LEMMA ReloadStep == TabInv /\ Reload => TabInv'
<1> SUFFICES ASSUME TabInv, Reload PROVE TabInv'
  OBVIOUS
<1>1. PICK ss \in Seq(Session), q \in Page, c \in Call : ss = sessions /\ q = page /\ TabFits(q, c, ss)
  BY DEF TabInv, TabFits
<1>2. q.view = "unread" /\ q.s # 0
  BY <1>1 DEF Reload, TabFits, ViewFits
<1>3. q.s \in 1 .. Len(ss) /\ q.s \in Nat
  BY <1>1, <1>2, TabIsAt, LessonSessionsAre
<1>4. PICK p : p = [q EXCEPT !.view = "loading"]
  OBVIOUS
<1>5. /\ p \in Page /\ p.view = "loading" /\ p.s = q.s /\ p.known = q.known
      /\ p.form = q.form /\ p.feedback = q.feedback /\ p.retry = q.retry
      /\ p.reference = q.reference
  BY <1>4 DEF Page
<1>6. PICK d \in Call : /\ d = Calls("load", q.s, 0)
                        /\ d.op = "load" /\ d.s = q.s /\ d.reply = "none"
  BY <1>3, CallsFit
<1>7. CallFits(p, d, ss)
  BY <1>2, <1>5, <1>6 DEF CallFits
<1>8. TabFits(p, d, ss)
  BY <1>1, <1>2, <1>3, <1>5, <1>7, UnreadFits DEF TabFits, ViewFits
<1>9. Turn(p, d)
  BY <1>1, <1>4, <1>6 DEF Reload
<1> QED
  BY <1>1, <1>8, <1>9, TurnStep

(* A task is sent, or sent again.                                          *)
Sent(p) == [p EXCEPT !.feedback = "none", !.retry = "none"]
Sends(op, p) ==
    [Calls(op, p.s, p.form.t) EXCEPT !.draft = p.form.draft,
        !.score = IF op = "answer" THEN p.sent ELSE "none"]

LEMMA WaitingFits ==
    ASSUME NEW ss \in Seq(Session), NEW q \in Page,
           ViewFits(q, ss), FormFits(q, ss), SeenFits(q, ss),
           q.view \in {"tasks", "summary"}, q.form.t # 0,
           NEW op \in {"preview", "answer"},
           op = "preview" => q.form.draft \in Drafts,
           op = "answer" => q.sent \in Scores
    PROVE  TabFits(Sent(q), Sends(op, Sent(q)), ss)
<1>1. PICK p : p = Sent(q)
  OBVIOUS
<1>2. /\ p \in Page
      /\ p.view = q.view /\ p.s = q.s /\ p.known = q.known /\ p.queued = q.queued
      /\ p.form = q.form /\ p.feedback = "none" /\ p.retry = "none"
      /\ p.reference = q.reference /\ p.told = q.told /\ p.sent = q.sent
  BY <1>1 DEF Page, Sent
<1>3. ViewFits(p, ss)
  BY <1>2 DEF ViewFits
<1>4. FormFits(p, ss)
  BY <1>2 DEF FormFits
<1>5. SeenFits(p, ss)
  BY <1>2 DEF SeenFits
<1>6. p.s # 0 /\ p.s \in Nat /\ p.form \in Form /\ p.form.t \in Nat
  BY <1>2 DEF ViewFits, Page, Form
<1>7. PICK b \in Call : /\ b = Calls(op, p.s, p.form.t) /\ b.op = op /\ b.s = p.s
                        /\ b.t = p.form.t /\ b.reply = "none"
  <2>1. PICK s \in Nat, t \in Nat : s = p.s /\ t = p.form.t
    BY <1>6
  <2>2. /\ Calls(op, s, t) \in Call
        /\ Calls(op, s, t).op = op /\ Calls(op, s, t).s = s /\ Calls(op, s, t).t = t
        /\ Calls(op, s, t).reply = "none"
    <3>1. CASE op = "preview"
      BY <3>1, CallsFit
    <3>2. CASE op = "answer"
      BY <3>2, CallsFit
    <3> QED
      BY <3>1, <3>2
  <2> QED
    BY <2>1, <2>2
<1>8. PICK d, score : /\ d = [b EXCEPT !.draft = p.form.draft, !.score = score]
                      /\ score = IF op = "answer" THEN p.sent ELSE "none"
  OBVIOUS
<1>9. /\ d \in Call /\ d.op = op /\ d.s = p.s /\ d.t = p.form.t /\ d.reply = "none"
      /\ d.draft = p.form.draft /\ d.score = score
  <2>1. p.form.draft \in Drafts \cup {NoDraft} /\ score \in Scores \cup {"none"}
    BY <1>2, <1>6, <1>8 DEF Form, Page
  <2> QED
    BY <1>7, <1>8, <2>1 DEF Call
<1>10. CallFits(p, d, ss)
  BY <1>2, <1>6, <1>8, <1>9 DEF CallFits
<1>11. d = Sends(op, p)
  BY <1>7, <1>8 DEF Sends
<1> QED
  BY <1>1, <1>2, <1>3, <1>4, <1>5, <1>9, <1>10, <1>11 DEF TabFits

LEMMA SubmitStep == TabInv /\ Submit => TabInv'
<1> SUFFICES ASSUME TabInv, Submit PROVE TabInv'
  OBVIOUS
<1>1. PICK ss \in Seq(Session), q \in Page, c \in Call : ss = sessions /\ q = page /\ TabFits(q, c, ss)
  BY DEF TabInv, TabFits
<1>2. q.view = "tasks" /\ q.form.t # 0
  BY <1>1 DEF Submit, CanType
<1>3. PICK score, w :
         /\ score \in Scores
         /\ w = [q EXCEPT !.form.submitted = TRUE, !.sent = score]
         /\ Waiting("answer", w)
  BY <1>1 DEF Submit
<1>4. q.form \in Form
  BY DEF Page
<1>5. PICK form : form = [q.form EXCEPT !.submitted = TRUE]
  OBVIOUS
<1>6. form \in Form /\ form.t = q.form.t /\ form.draft = q.form.draft
  BY <1>4, <1>5 DEF Form
<1>7. w = [q EXCEPT !.form = form, !.sent = score]
  BY <1>3, <1>5
<1>8. /\ w \in Page
      /\ w.view = q.view /\ w.s = q.s /\ w.known = q.known /\ w.queued = q.queued
      /\ w.form = form /\ w.feedback = q.feedback /\ w.retry = q.retry
      /\ w.reference = q.reference /\ w.told = q.told /\ w.sent = score
  BY <1>3, <1>6, <1>7 DEF Page
<1>9. ViewFits(w, ss)
  BY <1>1, <1>2, <1>8 DEF TabFits, ViewFits
<1>10. FormFits(w, ss)
  BY <1>1, <1>3, <1>6, <1>8 DEF TabFits, FormFits
<1>11. SeenFits(w, ss)
  BY <1>1, <1>8 DEF TabFits, SeenFits
<1>12. TabFits(Sent(w), Sends("answer", Sent(w)), ss)
  BY <1>2, <1>3, <1>6, <1>8, <1>9, <1>10, <1>11, WaitingFits
<1>13. Turn(Sent(w), Sends("answer", Sent(w)))
  BY <1>3 DEF Waiting, Sent, Sends
<1> QED
  BY <1>1, <1>12, <1>13, TurnStep

LEMMA PreviewStep == TabInv /\ Preview => TabInv'
<1> SUFFICES ASSUME TabInv, Preview PROVE TabInv'
  OBVIOUS
<1>1. PICK ss \in Seq(Session), q \in Page, c \in Call : ss = sessions /\ q = page /\ TabFits(q, c, ss)
  BY DEF TabInv, TabFits
<1>2. /\ q.view = "tasks" /\ q.form.t # 0 /\ ~q.reference /\ q.feedback = "none"
      /\ q.known.tasks[q.form.t].draft = NoDraft
  BY <1>1 DEF Preview, CanType, ReferenceShown, ShownTask, Page
<1>3. PICK draft, w :
         /\ draft \in Drafts
         /\ w = [q EXCEPT !.form.draft = draft, !.form.waiting = TRUE]
         /\ Waiting("preview", w)
  BY <1>1 DEF Preview
<1>4. q.form \in Form
  BY DEF Page
<1>5. PICK form : form = [q.form EXCEPT !.draft = draft, !.waiting = TRUE]
  OBVIOUS
<1>6. form \in Form /\ form.t = q.form.t /\ form.draft = draft
  BY <1>3, <1>4, <1>5 DEF Form
<1>7. w = [q EXCEPT !.form = form]
  BY <1>3, <1>5
<1>8. /\ w \in Page
      /\ w.view = q.view /\ w.s = q.s /\ w.known = q.known /\ w.queued = q.queued
      /\ w.form = form /\ w.feedback = q.feedback /\ w.retry = q.retry
      /\ w.reference = q.reference /\ w.told = q.told /\ w.sent = q.sent
  BY <1>6, <1>7 DEF Page
<1>9. ViewFits(w, ss)
  BY <1>1, <1>2, <1>8 DEF TabFits, ViewFits
<1>10. FormFits(w, ss)
  BY <1>1, <1>2, <1>3, <1>6, <1>8 DEF TabFits, FormFits
<1>11. SeenFits(w, ss)
  BY <1>1, <1>8 DEF TabFits, SeenFits
<1>12. TabFits(Sent(w), Sends("preview", Sent(w)), ss)
  BY <1>2, <1>3, <1>6, <1>8, <1>9, <1>10, <1>11, WaitingFits
<1>13. Turn(Sent(w), Sends("preview", Sent(w)))
  BY <1>3 DEF Waiting, Sent, Sends
<1> QED
  BY <1>1, <1>12, <1>13, TurnStep

LEMMA OnPreviewedStep == TabInv /\ OnPreviewed => TabInv'
<1> SUFFICES ASSUME TabInv, OnPreviewed PROVE TabInv'
  OBVIOUS
<1>1. PICK c \in Call : c = call /\ c.op = "preview" /\ c.reply # "none"
  BY DEF TabInv, TabFits, OnPreviewed
<1>2. PICK ss \in Seq(Session), q \in Page : ss = sessions /\ q = page /\ TabFits(q, c, ss)
  BY <1>1 DEF TabInv, TabFits
<1>3. CallFits(q, c, ss)
  BY <1>2 DEF TabFits
<1>4. /\ q.view \in {"tasks", "summary"} /\ q.s # 0 /\ c.s = q.s
      /\ c.t = q.form.t /\ q.form.t # 0 /\ q.form.draft = c.draft /\ c.draft \in Drafts
  BY <1>1, <1>3 DEF CallFits
<1>5. CASE c.reply = "ok"
  <2>1. ss[q.s].tasks[q.form.t].draft = q.form.draft /\ q.form.draft # NoDraft
    BY <1>1, <1>3, <1>4, <1>5, NoneIsRecorded DEF CallFits
  <2>2. PICK p : p = [q EXCEPT !.reference = TRUE]
    OBVIOUS
  <2>3. /\ p \in Page
        /\ p.view = q.view /\ p.s = q.s /\ p.known = q.known /\ p.queued = q.queued
        /\ p.form = q.form /\ p.feedback = q.feedback /\ p.retry = q.retry
        /\ p.told = q.told /\ p.sent = q.sent
    BY <2>2 DEF Page
  <2>4. ViewFits(p, ss)
    BY <1>2, <1>4, <2>3 DEF TabFits, ViewFits
  <2>5. FormFits(p, ss)
    BY <1>2, <1>4, <2>1, <2>3 DEF TabFits, FormFits
  <2>6. SeenFits(p, ss)
    BY <1>2, <2>3 DEF TabFits, SeenFits
  <2>7. TabFits(p, NoCall, ss)
    BY <2>3, <2>4, <2>5, <2>6, NoCallFits DEF TabFits
  <2>8. Turn(p, NoCall)
    BY <1>1, <1>2, <1>5, <2>2 DEF OnPreviewed
  <2> QED
    BY <1>2, <2>7, <2>8, TurnStep
<1>6. CASE c.reply = "refused"
  BY <1>1, <1>2, <1>4, <1>6, ErrorStep DEF OnPreviewed, RefusedPage
<1>7. CASE c.reply = "unknown"
  BY <1>1, <1>2, <1>4, <1>7, ErrorStep DEF OnPreviewed
<1> QED
  BY <1>1, <1>5, <1>6, <1>7 DEF Call

LEMMA OnAnsweredStep == TabInv /\ OnAnswered => TabInv'
<1> SUFFICES ASSUME TabInv, OnAnswered PROVE TabInv'
  OBVIOUS
<1>1. PICK c \in Call : c = call /\ c.op = "answer" /\ c.reply # "none"
  BY DEF TabInv, TabFits, OnAnswered
<1>2. PICK ss \in Seq(Session), q \in Page : ss = sessions /\ q = page /\ TabFits(q, c, ss)
  BY <1>1 DEF TabInv, TabFits
<1>3. CallFits(q, c, ss)
  BY <1>2 DEF TabFits
<1>4. /\ q.view \in {"tasks", "summary"} /\ q.s # 0 /\ c.s = q.s
      /\ c.t = q.form.t /\ q.form.t # 0 /\ c.score \in Scores /\ q.sent \in Scores
  BY <1>1, <1>3 DEF CallFits
<1>5. CASE c.reply = "ok"
  <2>1. ss[q.s].tasks[q.form.t].score = c.score
    BY <1>1, <1>3, <1>4, <1>5 DEF CallFits
  <2>2. PICK p : p = [q EXCEPT !.told = c.score]
    OBVIOUS
  <2>3. /\ p \in Page
        /\ p.view = q.view /\ p.s = q.s /\ p.known = q.known /\ p.queued = q.queued
        /\ p.form = q.form /\ p.feedback = q.feedback /\ p.retry = q.retry
        /\ p.reference = q.reference /\ p.told = c.score /\ p.sent = q.sent
    BY <1>4, <2>2 DEF Page
  <2>4. ViewFits(p, ss)
    BY <1>2, <1>4, <2>3 DEF TabFits, ViewFits
  <2>5. FormFits(p, ss)
    BY <1>2, <1>4, <2>1, <2>3 DEF TabFits, FormFits
  <2>6. SeenFits(p, ss)
    BY <1>2, <2>3 DEF TabFits, SeenFits
  <2>7. PICK d \in Call : /\ d = Calls("reload", q.s, 0)
                          /\ d.op = "reload" /\ d.s = q.s /\ d.reply = "none"
    BY CallsFit DEF Page
  <2>8. CallFits(p, d, ss)
    BY <1>4, <2>1, <2>3, <2>7 DEF CallFits
  <2>9. TabFits(p, d, ss)
    BY <2>3, <2>4, <2>5, <2>6, <2>8 DEF TabFits
  <2>10. Turn(p, d)
    BY <1>1, <1>2, <1>5, <2>2, <2>7 DEF OnAnswered, Told
  <2> QED
    BY <1>2, <2>9, <2>10, TurnStep
<1>6. CASE c.reply = "refused"
  BY <1>1, <1>2, <1>4, <1>6, ErrorStep DEF OnAnswered, RefusedPage
<1>7. CASE c.reply = "unknown"
  BY <1>1, <1>2, <1>4, <1>7, ErrorStep DEF OnAnswered
<1> QED
  BY <1>1, <1>5, <1>6, <1>7 DEF Call

LEMMA OnReloadedStep == TabInv /\ OnReloaded => TabInv'
<1> SUFFICES ASSUME TabInv, OnReloaded PROVE TabInv'
  OBVIOUS
<1>1. PICK c \in Call : c = call /\ c.op = "reload" /\ c.reply # "none"
  BY DEF TabInv, TabFits, OnReloaded
<1>2. PICK ss \in Seq(Session), q \in Page : ss = sessions /\ q = page /\ TabFits(q, c, ss)
  BY <1>1 DEF TabInv, TabFits
<1>3. CallFits(q, c, ss)
  BY <1>2 DEF TabFits
<1>4. /\ q.view \in {"tasks", "summary"} /\ q.s # 0 /\ c.s = q.s
      /\ q.form.t # 0 /\ q.told \in Scores /\ ss[q.s].tasks[q.form.t].score = q.told
      /\ c.reply \in {"ok", "unknown"}
  BY <1>1, <1>3 DEF CallFits, Call
<1>5. CASE c.reply = "unknown"
  BY <1>1, <1>2, <1>4, <1>5, ErrorStep DEF OnReloaded
<1>6. CASE c.reply = "ok"
  <2>1. PICK x \in Session : x = c.read /\ Precedes(x, ss[q.s])
    BY <1>1, <1>3, <1>4, <1>6 DEF CallFits
  <2>2. CASE mode = "lesson" /\ Closed(x)
    <3>1. Turn(Home, NoCall)
      BY <1>1, <1>6, <2>1, <2>2 DEF OnReloaded
    <3> QED
      BY <3>1, HomeStep DEF Turn
  <2>3. CASE ~(mode = "lesson" /\ Closed(x))
    <3>1. PICK p : p = [q EXCEPT !.queued = x, !.feedback = "result", !.retry = "continue"]
      OBVIOUS
    <3>2. /\ p \in Page
          /\ p.view = q.view /\ p.s = q.s /\ p.known = q.known /\ p.queued = x
          /\ p.form = q.form /\ p.feedback = "result" /\ p.retry = "continue"
          /\ p.reference = q.reference /\ p.told = q.told /\ p.sent = q.sent
      BY <3>1 DEF Page, Read
    <3>3. ViewFits(p, ss)
      BY <1>2, <1>4, <3>2 DEF TabFits, ViewFits
    <3>4. FormFits(p, ss)
      BY <1>2, <1>4, <3>2 DEF TabFits, FormFits
    <3>5. SeenFits(p, ss)
      BY <1>2, <2>1, <3>2 DEF TabFits, SeenFits
    <3>6. TabFits(p, NoCall, ss)
      BY <3>2, <3>3, <3>4, <3>5, NoCallFits DEF TabFits
    <3>7. Turn(p, NoCall)
      BY <1>1, <1>2, <1>6, <2>1, <2>3, <3>1 DEF OnReloaded
    <3> QED
      BY <1>2, <3>6, <3>7, TurnStep
  <2> QED
    BY <2>2, <2>3
<1> QED
  BY <1>4, <1>5, <1>6

(* Two reads of one session show a task of one kind.                       *)
LEMMA SyncedFits ==
    ASSUME TabInv, page.s # 0, NEW x \in Session, Precedes(x, sessions[page.s])
    PROVE  ShowsDraft(SyncedForm(x), x)
<1>1. PICK ss \in Seq(Session), q \in Page, c \in Call : ss = sessions /\ q = page /\ TabFits(q, c, ss)
  BY DEF TabInv, TabFits
<1>2. PICK t : t = CurrentTask(x)
  OBVIOUS
<1>3. t \in 0 .. Len(x.tasks) /\ Len(x.tasks) \in Nat
  BY <1>2, CurrentTaskIs, WhatIsRead DEF Read
<1>4. q.form \in Form /\ q.form.draft \in Drafts \cup {NoDraft}
  BY DEF Page, Form
<1>5. CASE t = q.form.t /\ q.form.t # 0 /\ q.known.tasks[q.form.t].kind # "sentence"
  <2>1. SyncedForm(x) = q.form
    BY <1>1, <1>2, <1>5 DEF SyncedForm, ShownTask
  <2>2. x.tasks[t].kind # "sentence"
    <3>1. PICK y \in Session : y = ss[q.s] /\ Precedes(q.known, y) /\ Precedes(x, y)
      BY <1>1, TabIsAt DEF TabFits, SeenFits
    <3>2. t \in DOMAIN q.known.tasks /\ t \in DOMAIN x.tasks
      BY <1>1, <1>3, <1>5, TabIsAt, WhatIsRead
    <3> QED
      BY <1>5, <3>1, <3>2 DEF Precedes
  <2> QED
    BY <1>3, <1>4, <1>5, <2>1, <2>2 DEF ShowsDraft
<1>6. CASE ~(t = q.form.t /\ q.form.t # 0 /\ q.known.tasks[q.form.t].kind # "sentence")
  <2>1. SyncedForm(x) = Mounted(x, Recovered(x))
    BY <1>1, <1>2, <1>6 DEF SyncedForm, ShownTask
  <2>2. Recovered(x) \in Drafts \cup {NoDraft}
    BY <1>1, <1>4 DEF Recovered
  <2> QED
    BY <2>1, <2>2, MountedFits
<1> QED
  BY <1>5, <1>6

LEMMA OnSyncedStep == TabInv /\ OnSynced => TabInv'
<1> SUFFICES ASSUME TabInv, OnSynced PROVE TabInv'
  OBVIOUS
<1>1. PICK c \in Call : c = call /\ c.op = "sync" /\ c.reply # "none"
  BY DEF TabInv, TabFits, OnSynced
<1>2. PICK ss \in Seq(Session), q \in Page : ss = sessions /\ q = page /\ TabFits(q, c, ss)
  BY <1>1 DEF TabInv, TabFits
<1>3. CallFits(q, c, ss)
  BY <1>2 DEF TabFits
<1>4. /\ q.view \in {"tasks", "summary"} /\ q.s # 0 /\ c.s = q.s
      /\ c.reply \in {"ok", "unknown"} /\ q.s \in 1 .. Len(ss)
  BY <1>1, <1>2, <1>3, TabIsAt DEF CallFits, Call
<1>5. CASE c.reply = "unknown"
  BY <1>1, <1>2, <1>4, <1>5, ErrorStep DEF OnSynced
<1>6. CASE c.reply = "ok"
  <2>1. PICK x \in Session : x = c.read /\ Precedes(x, ss[q.s])
    BY <1>1, <1>3, <1>4, <1>6 DEF CallFits
  <2>2. CASE Closed(x)
    <3>1. Turn(Home, NoCall)
      BY <1>1, <1>6, <2>1, <2>2 DEF OnSynced
    <3> QED
      BY <3>1, HomeStep DEF Turn
  <2>3. CASE ~Closed(x)
    <3>1. PICK form : form = SyncedForm(x) /\ ShowsDraft(form, x)
      BY <1>2, <1>4, <2>1, SyncedFits
    <3>2. TabFits(Opened(q.s, x, form), NoCall, ss)
      BY <1>4, <2>1, <2>3, <3>1, OpenedFits
    <3>3. Turn(Opened(q.s, x, form), NoCall)
      BY <1>1, <1>2, <1>6, <2>1, <2>3, <3>1 DEF OnSynced, Opened
    <3> QED
      BY <1>2, <3>2, <3>3, TurnStep
  <2> QED
    BY <2>2, <2>3
<1> QED
  BY <1>4, <1>5, <1>6

LEMMA ContinueStep == TabInv /\ Continue => TabInv'
<1> SUFFICES ASSUME TabInv, Continue PROVE TabInv'
  OBVIOUS
<1>1. PICK ss \in Seq(Session), q \in Page, c \in Call : ss = sessions /\ q = page /\ TabFits(q, c, ss)
  BY DEF TabInv, TabFits
<1>2. q.retry = "continue"
  BY <1>1 DEF Continue
<1>3. q.s # 0
  BY <1>1, <1>2 DEF TabFits, ViewFits
<1>4. q.s \in 1 .. Len(ss)
  BY <1>1, <1>3, TabIsAt
<1>5. PICK x \in Session : x = q.queued /\ Precedes(x, ss[q.s])
  BY <1>1, <1>2, <1>3 DEF TabFits, SeenFits
<1>6. CASE Closed(x)
  BY <1>1, <1>3, <1>5, <1>6, ClosedFits, TurnStep DEF Continue
<1>7. CASE ~Closed(x)
  <2>1. PICK form : form = Mounted(x, NoDraft) /\ ShowsDraft(form, x)
    BY MountedFits
  <2>2. TabFits(Opened(q.s, x, form), NoCall, ss)
    BY <1>4, <1>5, <1>7, <2>1, OpenedFits
  <2>3. Turn(Opened(q.s, x, form), NoCall)
    BY <1>1, <1>5, <1>7, <2>1 DEF Continue, Opened
  <2> QED
    BY <1>1, <2>2, <2>3, TurnStep
<1> QED
  BY <1>6, <1>7

LEMMA RetryStep == TabInv /\ Retry => TabInv'
<1> SUFFICES ASSUME TabInv, Retry PROVE TabInv'
  OBVIOUS
<1>1. PICK ss \in Seq(Session), q \in Page, c \in Call : ss = sessions /\ q = page /\ TabFits(q, c, ss)
  BY DEF TabInv, TabFits
<1>2. /\ ViewFits(q, ss) /\ FormFits(q, ss) /\ SeenFits(q, ss)
      /\ q.retry \in {"submit", "preview", "reload", "sync"}
      /\ q.view \in {"tasks", "summary"} /\ q.s # 0
  BY <1>1 DEF Retry, TabFits, ViewFits, Page
<1>3. CASE q.retry = "submit" /\ Waiting("answer", q)
  <2>1. q.form.t # 0 /\ q.sent \in Scores
    BY <1>2, <1>3 DEF FormFits
  <2>2. TabFits(Sent(q), Sends("answer", Sent(q)), ss)
    BY <1>2, <2>1, WaitingFits
  <2>3. Turn(Sent(q), Sends("answer", Sent(q)))
    BY <1>3 DEF Waiting, Sent, Sends
  <2> QED
    BY <1>1, <2>2, <2>3, TurnStep
<1>4. CASE q.retry = "preview" /\ Waiting("preview", q)
  <2>1. q.form.t # 0 /\ q.form.draft \in Drafts
    BY <1>2, <1>4 DEF FormFits
  <2>2. TabFits(Sent(q), Sends("preview", Sent(q)), ss)
    BY <1>2, <2>1, WaitingFits
  <2>3. Turn(Sent(q), Sends("preview", Sent(q)))
    BY <1>4 DEF Waiting, Sent, Sends
  <2> QED
    BY <1>1, <2>2, <2>3, TurnStep
<1>5. CASE q.retry \in {"reload", "sync"} /\ Turn(Sent(q), Calls(q.retry, q.s, 0))
  <2>1. PICK p : p = Sent(q)
    OBVIOUS
  <2>2. /\ p \in Page
        /\ p.view = q.view /\ p.s = q.s /\ p.known = q.known /\ p.queued = q.queued
        /\ p.form = q.form /\ p.feedback = "none" /\ p.retry = "none"
        /\ p.reference = q.reference /\ p.told = q.told /\ p.sent = q.sent
    BY <2>1 DEF Page, Sent
  <2>3. PICK op \in {"reload", "sync"}, s \in Nat : op = q.retry /\ s = q.s
    BY <1>5 DEF Page
  <2>4. PICK d \in Call : d = Calls(op, s, 0) /\ d.op = op /\ d.s = s /\ d.reply = "none"
    <3>1. CASE op = "reload"
      BY <3>1, CallsFit
    <3>2. CASE op = "sync"
      BY <3>2, CallsFit
    <3> QED
      BY <3>1, <3>2
  <2>5. op = "reload" => /\ q.form.t # 0 /\ q.told \in Scores
                         /\ ss[q.s].tasks[q.form.t].score = q.told
    BY <1>2, <2>3 DEF FormFits
  <2>6. CallFits(p, d, ss)
    BY <1>2, <2>2, <2>3, <2>4, <2>5 DEF CallFits
  <2>7. ViewFits(p, ss)
    BY <1>2, <2>2 DEF ViewFits
  <2>8. FormFits(p, ss)
    BY <1>2, <2>2 DEF FormFits
  <2>9. SeenFits(p, ss)
    BY <1>2, <2>2 DEF SeenFits
  <2>10. TabFits(p, d, ss)
    BY <2>2, <2>6, <2>7, <2>8, <2>9 DEF TabFits
  <2> QED
    BY <1>1, <1>5, <2>1, <2>3, <2>4, <2>10, TurnStep
<1> QED
  BY <1>1, <1>3, <1>4, <1>5 DEF Retry, Sent

LEMMA CompleteSessionStep == TabInv /\ CompleteSession => TabInv'
<1> SUFFICES ASSUME TabInv, CompleteSession PROVE TabInv'
  OBVIOUS
<1>1. page.view = "tasks" /\ Turn(page, Calls("complete", page.s, 0))
  BY DEF CompleteSession
<1>2. page.s # 0 /\ page.s \in Nat
  BY <1>1 DEF TabInv, TabFits, ViewFits, Page
<1>3. PICK s \in Nat : s = page.s
  BY <1>2
<1>4. PICK d \in Call : /\ d = Calls("complete", s, 0)
                        /\ d.op = "complete" /\ d.s = s /\ d.reply = "none"
  BY CallsFit
<1>5. CallFits(page, d, sessions)
  BY <1>1, <1>2, <1>3, <1>4 DEF CallFits
<1> QED
  BY <1>1, <1>3, <1>4, <1>5, AskStep

LEMMA OnCompletedStep == TabInv /\ OnCompleted => TabInv'
<1> SUFFICES ASSUME TabInv, OnCompleted PROVE TabInv'
  OBVIOUS
<1>1. PICK c \in Call : c = call /\ c.op = "complete" /\ c.reply # "none"
  BY DEF TabInv, TabFits, OnCompleted
<1>2. PICK ss \in Seq(Session), q \in Page : ss = sessions /\ q = page /\ TabFits(q, c, ss)
  BY <1>1 DEF TabInv, TabFits
<1>3. q.view \in {"tasks", "summary"} /\ q.s # 0
  BY <1>1, <1>2 DEF TabFits, CallFits
<1>4. CASE c.reply = "ok"
  <2>1. PICK p : p = [q EXCEPT !.view = "summary"]
    OBVIOUS
  <2>2. TabFits(p, NoCall, ss)
    BY <1>2, <1>3, <2>1, ViewChanges
  <2>3. Turn(p, NoCall) \/ Turn(Home, NoCall)
    BY <1>1, <1>2, <1>4, <2>1 DEF OnCompleted
  <2> QED
    BY <1>2, <2>2, <2>3, TurnStep, HomeStep DEF Turn
<1>5. CASE c.reply = "refused"
  <2>1. PICK s \in Nat : s = q.s
    BY DEF Page
  <2>2. PICK d \in Call : /\ d = Calls("sync", s, 0)
                          /\ d.op = "sync" /\ d.s = s /\ d.reply = "none"
    BY CallsFit
  <2>3. CallFits(q, d, ss)
    BY <1>3, <2>1, <2>2 DEF CallFits
  <2>4. Turn(page, d)
    BY <1>1, <1>2, <1>5, <2>1, <2>2 DEF OnCompleted
  <2> QED
    BY <1>2, <2>3, <2>4, AskStep
<1>6. CASE c.reply = "unknown"
  <2>1. Turn(page, NoCall)
    BY <1>1, <1>6 DEF OnCompleted
  <2> QED
    BY <2>1, AskStep, NoCallFits
<1> QED
  BY <1>1, <1>4, <1>5, <1>6 DEF Call

-----------------------------------------------------------------------------
(* The theorems.                                                           *)

LEMMA TabInvStep == TabInv /\ [PagesNext]_pageVars => TabInv'
<1> SUFFICES ASSUME TabInv, [PagesNext]_pageVars PROVE TabInv'
  OBVIOUS
<1>1. CASE Handle
  BY <1>1, ServeStartStep, ServeGetStep, ServePreviewStep, ServeAnswerStep, ServeCompleteStep
  DEF Handle
<1>2. CASE Lose
  BY <1>2, LoseStep
<1>3. CASE Expire
  BY <1>3, HomeStep DEF Expire
<1>4. CASE Elsewhere
  BY <1>4, ElsewhereStep
<1>5. CASE Respond
  BY <1>5, OnStartedStep, OnLoadedStep, OnPreviewedStep, OnAnsweredStep, OnReloadedStep,
     OnSyncedStep, OnCompletedStep DEF Respond
<1>6. CASE Learn
  BY <1>6, StartSessionStep, ReloadStep, PreviewStep, SubmitStep, ContinueStep, RetryStep,
     CompleteSessionStep DEF Learn
<1>7. CASE Leave
  BY <1>7, HomeStep DEF Leave, Turn
<1>8. CASE UNCHANGED pageVars
  BY <1>8, SessionsStep, NothingMoves DEF pageVars, TabInv
<1> QED
  BY <1>1, <1>2, <1>3, <1>4, <1>5, <1>6, <1>7, <1>8 DEF PagesNext

LEMMA TabInvInit == PagesInit => TabInv
<1> SUFFICES ASSUME PagesInit PROVE TabInv
  OBVIOUS
<1>1. sessions \in Seq(Session) /\ page = Home /\ call = NoCall /\ mode \in {"lesson", "replay"}
  BY EmptySeq DEF PagesInit, TasksInit
<1>2. PICK ss \in Seq(Session) : ss = sessions
  BY <1>1
<1>3. TabFits(Home, NoCall, ss)
  BY HomeFits
<1> QED
  BY <1>1, <1>2, <1>3 DEF TabInv

LEMMA TabInvHolds == PagesSpec => []TabInv
BY TabInvInit, TabInvStep, PTL DEF PagesSpec

LEMMA TabInvImplies == TabInv => LessonPageIsTrue
<1> SUFFICES ASSUME TabInv PROVE LessonPageIsTrue
  OBVIOUS
<1>1. /\ page \in Page /\ sessions \in Seq(Session) /\ mode \in {"lesson", "replay"}
      /\ ViewFits(page, sessions) /\ FormFits(page, sessions) /\ SeenFits(page, sessions)
  BY DEF TabInv, TabFits
<1>2. PagesTypeOK
  BY <1>1 DEF PagesTypeOK, ViewFits, FormFits, Page, Read
<1>3. ResultsAreRecorded
  BY <1>1 DEF ResultsAreRecorded, FormFits
<1>4. ReferenceIsForDraft
  <2> SUFFICES ASSUME page.view = "tasks", ReferenceShown
               PROVE  sessions[page.s].tasks[page.form.t].draft = page.form.draft
    BY DEF ReferenceIsForDraft
  <2>1. page.form.t # 0 /\ page.s # 0
    BY <1>1 DEF ReferenceShown, ViewFits
  <2>2. CASE page.reference
    BY <1>1, <2>2 DEF FormFits
  <2>3. CASE ~page.reference
    <3>1. page.form.draft = page.known.tasks[page.form.t].draft
          /\ page.known.tasks[page.form.t].draft # NoDraft
      BY <1>1, <2>3 DEF ReferenceShown, ShownTask, FormFits, Page
    <3>2. page.form.t \in DOMAIN page.known.tasks
      BY <2>1, TabIsAt, WhatIsRead DEF TabInv
    <3> QED
      BY <1>1, <2>1, <3>1, <3>2 DEF SeenFits, Precedes
  <2> QED
    BY <2>2, <2>3
<1> QED
  BY <1>2, <1>3, <1>4 DEF LessonPageIsTrue

(* What a learner's page shows is true, of a lesson of any length and      *)
(* however many calls are lost or made by another tab: a result that is    *)
(* shown is the one recorded, and a reference that is shown is compared    *)
(* with the draft it was revealed for.                                     *)
THEOREM LessonPageStaysTrue == PagesSpec => []LessonPageIsTrue
BY TabInvHolds, TabInvImplies, PTL
=============================================================================
