---------------------------- MODULE QueueSchedule ----------------------------
(***************************************************************************)
(* The scheduling problem of a lesson queue: where, behind the completed   *)
(* tasks, the tasks with a promised distance go, and which other tasks     *)
(* fill the slots between them.                                            *)
(*                                                                         *)
(* A task is its word, its role and its source: the position of the        *)
(* completed task it repeats, or 0.  A task with a source is a job.  A     *)
(* problem p is                                                            *)
(*    done    : how many tasks are completed                               *)
(*    pending : the pending tasks, in order                                *)
(*    job     : the task to be added                                       *)
(*    bridges : tasks that may be added to fill slots, in order            *)
(***************************************************************************)
EXTENDS Integers, FiniteSets, Sequences, SequencesExt

(* Mutant: a repetition may follow at once.                                *)
WrongGapFromZero == 0 .. 6

(* How many tasks lie between a task and its repetition: after a wrong     *)
(* answer, and for the planned reinforcement of a new word.                *)
WrongGap == 3 .. 6
PlannedGap == 2 .. 4

IsPlanned(t) == t.role = "bridge" /\ t.source # 0
IsJob(t) == t.source # 0

Window(t) ==
    {t.source + gap + 1 : gap \in IF IsPlanned(t) THEN PlannedGap ELSE WrongGap}

Release(t) == Min(Window(t))
Deadline(t) == Max(Window(t))

Jobs(p) == {t \in ToSet(Append(p.pending, p.job)) : IsJob(t)}
OpenWords(p) == {t.word : t \in Jobs(p)}

(* The tasks that may stand in a slot no job takes, in the order in which  *)
(* they are used: those that are pending anyway, then the bridges.         *)
WaitingFillers(p) ==
    SelectSeq(p.pending, LAMBDA t : ~ IsJob(t) /\ t.word \notin OpenWords(p))
BridgeFillers(p) == SelectSeq(p.bridges, LAMBDA t : t.word \notin OpenWords(p))
Fillers(p) == WaitingFillers(p) \o BridgeFillers(p)

Slots(p, last) == p.done + 1 .. last
LastSlots(p) == p.done + 1 .. Max({Deadline(t) : t \in Jobs(p)})

FillerCount(p, last) == last - p.done - Cardinality(Jobs(p))
BridgeCount(p, last) == Max({0, FillerCount(p, last) - Len(WaitingFillers(p))})
WaitingCount(p, last) == FillerCount(p, last) - BridgeCount(p, last)

HasFillers(p, last) == FillerCount(p, last) \in 0 .. Len(Fillers(p))

WithinBudget(p, last, budget) ==
    p.done + Len(p.pending) + 1 + BridgeCount(p, last) <= budget

(* No budget: every task that could be added fits.                         *)
Unlimited(p) == p.done + Len(p.pending) + 1 + Len(p.bridges)

-----------------------------------------------------------------------------
(* The jobs can be matched with the slots: placing them one by one in      *)
(* every possible way, some way places them all.  A way is the set of the  *)
(* slots it occupies.                                                      *)
Placements(jobs, slots) ==
    LET Place(t, ways) ==
          UNION {{w \cup {s} : s \in (Window(t) \cap slots) \ w} : w \in ways}
    IN  FoldSet(Place, {{}}, jobs)

HasMatching(jobs, slots) == Placements(jobs, slots) # {}

(* The jobs from the latest release to the earliest.  Two jobs never have  *)
(* the same window: windows of the two kinds differ in length, those of    *)
(* one kind differ when their sources do.                                  *)
LatestFirst(jobs) ==
    SetToSortSeq(jobs, LAMBDA t, u : \/ Release(t) > Release(u)
                                     \/ /\ Release(t) = Release(u)
                                        /\ Deadline(t) > Deadline(u))

(* Each job in turn takes the latest free slot of its window, if any: a    *)
(* function from the slots taken to the jobs.                              *)
LatestSlots(jobs, slots) ==
    LET Take(at, t) ==
          LET free == (Window(t) \cap slots) \ DOMAIN at
          IN  IF free = {} THEN at
              ELSE [s \in DOMAIN at \cup {Max(free)} |->
                       IF s \in DOMAIN at THEN at[s] ELSE t]
    IN  FoldLeft(Take, << >>, LatestFirst(jobs))

PlacesAll(jobs, slots) == Cardinality(DOMAIN LatestSlots(jobs, slots)) = Cardinality(jobs)

-----------------------------------------------------------------------------
IsFeasible(p, budget) ==
    \E last \in LastSlots(p) :
        /\ HasFillers(p, last)
        /\ WithinBudget(p, last, budget)
        /\ HasMatching(Jobs(p), Slots(p, last))

Candidates(p, budget) ==
    {last \in LastSlots(p) :
        /\ HasFillers(p, last)
        /\ PlacesAll(Jobs(p), Slots(p, last))
        /\ WithinBudget(p, last, budget)}

(* The candidate with the fewest bridges; among these the earliest one, or *)
(* the one that uses the most waiting tasks and then the earliest.         *)
IsPreferred(p, last, other, earliest) ==
    \/ BridgeCount(p, last) < BridgeCount(p, other)
    \/ /\ BridgeCount(p, last) = BridgeCount(p, other)
       /\ \/ (earliest \/ WaitingCount(p, last) = WaitingCount(p, other)) /\ last <= other
          \/ ~ earliest /\ WaitingCount(p, last) > WaitingCount(p, other)

BestLast(p, budget, earliest) ==
    LET candidates == Candidates(p, budget)
    IN  {last \in candidates : \A other \in candidates : IsPreferred(p, last, other, earliest)}

(* The slots up to last: its jobs where they were placed, and the fillers  *)
(* in order between them.                                                  *)
Scheduled(p, last) ==
    LET at == LatestSlots(Jobs(p), Slots(p, last))
        FillersUpTo(slot) == Cardinality((p.done + 1 .. slot) \ DOMAIN at)
    IN  [i \in 1 .. last - p.done |->
            IF p.done + i \in DOMAIN at THEN at[p.done + i]
            ELSE Fillers(p)[FillersUpTo(p.done + i)]]

(* Mutant: the tasks that are not scheduled are dropped.                   *)
NewPendingForgettingTheRest(p, last) == Scheduled(p, last)

(* The new pending tasks: those scheduled, then the others as before.      *)
NewPending(p, last) ==
    LET scheduled == Scheduled(p, last)
    IN  scheduled \o SelectSeq(Append(p.pending, p.job), LAMBDA t : t \notin ToSet(scheduled))

(* The schedules the planner can build: none or one.                       *)
Schedules(p, budget, earliest) ==
    {NewPending(p, last) : last \in BestLast(p, budget, earliest)}

=============================================================================
