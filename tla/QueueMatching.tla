---------------------------- MODULE QueueMatching ----------------------------
(***************************************************************************)
(* The two algorithms that decide whether the jobs of a queue fit into its *)
(* slots, against the definition: an augmenting-path matching decides      *)
(* whether a repetition is scheduled at all, a greedy assignment then      *)
(* builds the schedule.  If the second failed where the first succeeded, a *)
(* wrong answer would end in queue_invariant_violation.                    *)
(*                                                                         *)
(* There is no protocol here: a behaviour builds up a scheduling problem   *)
(* job by job and slot by slot, so that TLC enumerates the problems: jobs  *)
(* whose sources are completed, and the slots from the next one to a last. *)
(***************************************************************************)
EXTENDS QueueSchedule

CONSTANTS
    MaxSource,      \* bound: positions the repeated tasks may have
    MaxJobs,        \* bound: jobs in one problem
    MaxSlot         \* bound: the last slot

ASSUME MatchingAssumption == MaxSource \in Nat /\ MaxJobs \in Nat /\ MaxSlot \in Nat

VARIABLES jobs, next, last

problemVars == <<jobs, next, last>>

(* The jobs sorted by their deadline, then their release.                  *)
EarliestDeadlineFirst(js) ==
    SetToSortSeq(js, LAMBDA t, u : \/ Deadline(t) < Deadline(u)
                                   \/ /\ Deadline(t) = Deadline(u)
                                      /\ Release(t) < Release(u))

(* Mutant: the deadline is not a slot of the window.                       *)
MatchBeforeDeadline(t, slots, s) ==
    LET Try(m, slot) ==
          IF m.ok \/ slot \notin Window(t) \ {Deadline(t)} \/ slot \in DOMAIN m.at THEN m
          ELSE [m EXCEPT !.ok = TRUE,
                         !.at = [x \in DOMAIN m.at \cup {slot} |->
                                    IF x = slot THEN t ELSE m.at[x]]]
    IN  FoldLeft(Try, s, slots)

(* match: the slots in order; a free slot of the window is taken, from an  *)
(* occupied one its job is moved on if it can be.  s.at maps the taken     *)
(* slots to their jobs, s.visited are the slots tried for this job.        *)
RECURSIVE Match(_, _, _)
Match(t, slots, s) ==
    LET Occupy(slot, m) == [m EXCEPT !.ok = TRUE,
                                     !.at = [x \in DOMAIN m.at \cup {slot} |->
                                                IF x = slot THEN t ELSE m.at[x]]]
        Try(m, slot) ==
          IF m.ok \/ slot \notin Window(t) \/ slot \in m.visited THEN m
          ELSE LET seen == [m EXCEPT !.visited = @ \cup {slot}]
               IN  IF slot \notin DOMAIN m.at THEN Occupy(slot, seen)
                   ELSE LET moved == Match(m.at[slot], slots, seen)
                        IN  IF moved.ok THEN Occupy(slot, moved) ELSE moved
    IN  FoldLeft(Try, s, slots)

(* hasCompleteIntervalMatching: every job, with no slot visited yet.       *)
Augmented(js, slots) ==
    LET Add(s, t) == IF s.ok THEN Match(t, slots, [s EXCEPT !.ok = FALSE, !.visited = {}])
                             ELSE s
    IN  FoldLeft(Add, [ok |-> TRUE, visited |-> {}, at |-> << >>], EarliestDeadlineFirst(js))

HasCompleteIntervalMatching(js, slots) == Augmented(js, slots).ok

Job == [word : {1}, role : {"reflux", "bridge"}, source : 1 .. MaxSource]

NoJobs == jobs = {} /\ next = 1 /\ last = 0

AddJob == /\ Cardinality(jobs) < MaxJobs
          /\ \E t \in Job : t.source < next /\ jobs' = jobs \cup {t}
          /\ UNCHANGED <<next, last>>

MoveFirst == next < MaxSlot /\ next' = next + 1 /\ UNCHANGED <<jobs, last>>
MoveLast == last < MaxSlot /\ last' = last + 1 /\ UNCHANGED <<jobs, next>>

Grow == AddJob \/ MoveFirst \/ MoveLast

Problems == NoJobs /\ [][Grow]_problemVars

-----------------------------------------------------------------------------
TheSlots == next .. last

(* The matching that decides is exact.                                     *)
MatchingIsExact ==
    HasCompleteIntervalMatching(jobs, [i \in 1 .. Cardinality(TheSlots) |-> next + i - 1])
        <=> HasMatching(jobs, TheSlots)

(* The greedy assignment that builds finds a schedule whenever there is    *)
(* one.                                                                    *)
GreedyFindsEveryMatching == PlacesAll(jobs, TheSlots) <=> HasMatching(jobs, TheSlots)

(* So what is found feasible can be built.                                 *)
AlgorithmsAgree == MatchingIsExact /\ GreedyFindsEveryMatching

=============================================================================
