---------------------------- MODULE RefluxSchedule ----------------------------
(***************************************************************************)
(* The task queue of one lesson under the queue policy v1_5_8_unbounded    *)
(* (scheduleReflux of lessonTaskQueue.ts), which lessons that were started *)
(* under it go on with: a wrong answer is repeated five to eight tasks     *)
(* later, and so is a repetition that is answered wrong; bridges are added *)
(* where the lesson is too short.                                          *)
(*                                                                         *)
(* A task is its role and its source: the position of the task it repeats, *)
(* or 0.  The first `done` tasks are completed.  Which word a bridge shows *)
(* is left out; it decides nothing.                                        *)
(***************************************************************************)
EXTENDS LessonLimits, FiniteSets, Sequences, SequencesExt, FiniteSetsExt

VARIABLES
    queue,      \* lesson_tasks in order
    done,       \* completed tasks
    mistakes,   \* positions of the wrong answers that are repeated
    closed      \* the lesson is completed

refluxVars == <<queue, done, mistakes, closed>>

QueueTask == [role : {"primary", "reflux", "bridge"}, source : Nat]
PrimaryTask == [role |-> "primary", source |-> 0]
Bridge == [role |-> "bridge", source |-> 0]
Reflux(i) == [role |-> "reflux", source |-> i]

-----------------------------------------------------------------------------
(* scheduleReflux.  An obligation is a repetition that is to be placed,    *)
(* and the position it would have if nothing else were there.              *)
Earliest(o) == o.source + 6
Latest(o) == o.source + 9

(* What must be placed at position p, or else what would like to be.       *)
Chosen(obligations, p) ==
    LET eligible == {o \in obligations : Earliest(o) <= p}
        late == {o \in eligible : Latest(o) <= p}
    IN  IF late # {} THEN late ELSE {o \in eligible : o.preferred <= p}

(* Sources differ, and so do their latest positions: the order the code    *)
(* sorts by goes no further.                                               *)
RECURSIVE Placed(_, _, _)
Placed(head, obligations, ordinary) ==
    LET chosen == Chosen(obligations, Len(head) + 1) IN
    IF obligations = {} THEN head \o ordinary
    ELSE IF chosen # {}
    THEN LET o == CHOOSE o \in chosen : \A other \in chosen : Latest(o) <= Latest(other)
         IN  Placed(Append(head, Reflux(o.source)), obligations \ {o}, ordinary)
    ELSE IF ordinary # << >>
    THEN Placed(Append(head, Head(ordinary)), obligations, Tail(ordinary))
    ELSE Placed(Append(head, Bridge), obligations, ordinary)

Preferred(source, p) == Max({source + 6, Min({source + 9, p})})

(* The task at position i is wrong and is to be repeated after gap others; *)
(* the waiting repetitions keep to where they are if they can.             *)
Scheduled(i, gap) ==
    LET IsReflux(task) == task.role = "reflux"
        tail == SubSeq(queue, i + 1, Len(queue))
        waiting == {[source |-> queue[p].source, preferred |-> Preferred(queue[p].source, p)] :
                       p \in {p \in i + 1 .. Len(queue) : IsReflux(queue[p])}}
    IN  Placed(SubSeq(queue, 1, i),
               waiting \cup {[source |-> i, preferred |-> Preferred(i, i + gap + 1)]},
               SelectSeq(tail, LAMBDA task : ~IsReflux(task)))

-----------------------------------------------------------------------------
RefluxInit ==
    /\ queue \in {[i \in 1 .. n |-> PrimaryTask] : n \in PrimaryCounts}
    /\ done = 0 /\ mistakes = {} /\ closed = FALSE

AnswerNext == ~closed /\ done < Len(queue) /\ done' = done + 1 /\ UNCHANGED closed

(* Right, or wrong where nothing follows from it.                          *)
AnswerTask == AnswerNext /\ UNCHANGED <<queue, mistakes>>

AnswerWrongly ==
    /\ AnswerNext
    /\ queue[done + 1].role # "bridge"
    /\ Cardinality(mistakes) < MaxMistakes
    /\ \E gap \in 5 .. 8 : queue' = Scheduled(done + 1, gap)
    /\ mistakes' = mistakes \cup {done + 1}

(* The pending primary tasks are skipped.                                  *)
CloseLesson ==
    LET PrimaryIn(ps) == {p \in ps : queue[p].role = "primary"} IN
    /\ ~closed /\ closed' = TRUE
    /\ Cardinality(PrimaryIn(1 .. done)) * 5 >= Cardinality(PrimaryIn(DOMAIN queue)) * 4
    /\ \A p \in done + 1 .. Len(queue) : queue[p].role = "primary"
    /\ UNCHANGED <<queue, done, mistakes>>

RefluxNext == AnswerTask \/ AnswerWrongly \/ CloseLesson

RefluxSpec == RefluxInit /\ [][RefluxNext]_refluxVars

-----------------------------------------------------------------------------
RefluxTypeOK ==
    /\ queue \in Seq(QueueTask)
    /\ done \in 0 .. Len(queue)
    /\ mistakes \subseteq 1 .. done

(* Every mistake, and no other task, is repeated once, and five to eight   *)
(* tasks lie in between, whatever mistakes were made in the meantime.      *)
RefluxesKeepTheirGap ==
    /\ \A i \in mistakes :
          Cardinality({p \in i + 6 .. i + 9 : p \in DOMAIN queue /\ queue[p] = Reflux(i)}) = 1
    /\ Cardinality({p \in DOMAIN queue : queue[p].role = "reflux"}) = Cardinality(mistakes)

(* A lesson is not completed before the repetitions are.                   *)
ClosedWithoutObligations ==
    closed => \A p \in DOMAIN queue : queue[p].role = "reflux" => p <= done

RefluxesAreInTime ==
    /\ RefluxTypeOK
    /\ RefluxesKeepTheirGap
    /\ ClosedWithoutObligations
=============================================================================
