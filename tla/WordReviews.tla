----------------------------- MODULE WordReviews -----------------------------
(***************************************************************************)
(* The words of a course over its lessons: which of them a lesson asks     *)
(* for (LessonFlowPolicy.ts, as startLesson calls it) and what an answer   *)
(* does to a word's stage and to the lesson it is due in (StageEngine.ts,  *)
(* as submitAnswer calls it).  One learner, one request at a time: what    *)
(* requests do to each other is the subject of CourseRuntime.              *)
(*                                                                         *)
(* A word is its order index in the source.  The repetitions within a      *)
(* lesson are the subject of LessonQueue; here they can only fail, which   *)
(* is all they do to a word's state.                                       *)
(***************************************************************************)
EXTENDS LessonLimits, FiniteSets, Sequences, SequencesExt, FiniteSetsExt

VARIABLES
    limits,     \* the course that was chosen
    lessonNo,   \* courses.current_lesson_no
    states,     \* user_word_states by word
    primary,    \* the primary tasks of the started lesson, in order
    answered,   \* how many of them are completed
    wrongs      \* wrong answers so far

reviewVars == <<limits, lessonNo, states, primary, answered, wrongs>>

CourseWords == 1 .. limits.words
MaxStage == 5

(* The ease factor is counted in twentieths.  seen is 0 before the first   *)
(* answer.                                                                 *)
Ease == 10 .. 40
WordState == [stage : 0 .. MaxStage, ease : Ease, wrongStreak : Nat, streak : Nat,
              seen : Nat, due : Nat]

NoState == [stage |-> 0, ease |-> 20, wrongStreak |-> 0, streak |-> 0, seen |-> 0, due |-> 0]
InitialState(n) == [NoState EXCEPT !.due = n]

Known == {w \in CourseWords : states[w] # NoState}

-----------------------------------------------------------------------------
(* What an answer does to a word.                                          *)

(* The scores a task can have: a sentence, which is what S5 asks for, is   *)
(* rated by the learner, any other task is right or wrong.                 *)
IsSentence(stage) == stage = MaxStage
Scores(stage) == IF IsSentence(stage) THEN 0 .. 3 ELSE {0, 2}
IsPassing(score) == score >= 2

EaseDelta(score) == CASE score = 3 -> 3 [] score = 2 -> 0 [] score = 1 -> -2 [] score = 0 -> -5
Clamped(ease) == Max({10, Min({40, ease})})

StageGap == [stage \in 0 .. MaxStage |-> <<1, 1, 2, 3, 5, 8>>[stage + 1]]

(* The lessons until a passed word is due.  The code computes with floats, *)
(* and a product that should be a whole number may be just above it.       *)
LessonGaps(stage, ease, score) ==
    LET product == StageGap[stage] * Min({ease, 36})
    IN  IF score = 2 THEN {StageGap[stage]}
        ELSE IF product % 20 = 0 THEN {product \div 20, product \div 20 + 1}
        ELSE {product \div 20 + 1}

NextStage(state, score) ==
    IF IsPassing(score) THEN Min({state.stage + 1, MaxStage})
    ELSE IF score = 0 /\ state.wrongStreak >= 1 THEN Max({state.stage - 1, 0})
    ELSE state.stage

AfterScore(state, score) ==
    LET stage == NextStage(state, score)
        ease == Clamped(state.ease + EaseDelta(score))
    IN  {[stage       |-> stage,
          ease        |-> ease,
          wrongStreak |-> IF IsPassing(score) THEN 0 ELSE state.wrongStreak + 1,
          streak      |-> IF IsPassing(score) THEN state.streak + 1 ELSE 0,
          seen        |-> lessonNo,
          due         |-> lessonNo + gap] :
            gap \in IF IsPassing(score) THEN LessonGaps(stage, ease, score) ELSE {1}}

Deferred(state) == [state EXCEPT !.due = Min({@, lessonNo + 1})]

MasteryScore(state) == Min({100, state.stage * 12 + Min({state.streak * 3, 15})})

-----------------------------------------------------------------------------
(* Which words a lesson asks for.                                          *)

DueAt(n) == {w \in Known : states[w].due <= n}
UrgentAt(n) == {w \in DueAt(n) : states[w].stage # MaxStage}

Priority(w) == IF states[w].stage = MaxStage THEN 1 ELSE 0

(* Whether the first difference between two sequences is in favour of the  *)
(* first.                                                                  *)
IsBefore(s, t) ==
    \E i \in DOMAIN s : s[i] < t[i] /\ \A j \in 1 .. i - 1 : s[j] = t[j]

(* Mutant: the words that are due longest come first, mastered or not.     *)
RankByDue(w) ==
    <<states[w].due, Priority(w), -states[w].wrongStreak, MasteryScore(states[w]),
      states[w].seen, w>>

Rank(w) ==
    <<Priority(w), states[w].due, -states[w].wrongStreak, MasteryScore(states[w]),
      states[w].seen, w>>

SortedDue(n) ==
    LET Before(w) == {v \in DueAt(n) : IsBefore(Rank(v), Rank(w))}
    IN  [i \in 1 .. Cardinality(DueAt(n)) |->
            CHOOSE w \in DueAt(n) : Cardinality(Before(w)) = i - 1]

GroupIndex(w) == (w - 1) \div limits.group
NextGroup ==
    LET groups == {GroupIndex(w) : w \in CourseWords \ Known}
    IN  {w \in CourseWords \ Known : GroupIndex(w) = Min(groups)}

ReviewSlots == limits.withGroup - Cardinality(NextGroup)

ActivatesGroup(n) == NextGroup # {} /\ Cardinality(UrgentAt(n)) <= ReviewSlots

SelectedNew(n) == IF ActivatesGroup(n) THEN SetToSortSeq(NextGroup, <) ELSE << >>
SelectedDue(n) ==
    LET slots == IF ActivatesGroup(n) THEN ReviewSlots ELSE limits.reviewOnly
    IN  SubSeq(SortedDue(n), 1, Min({slots, Cardinality(DueAt(n))}))

(* alternatePrimarySelections: by turns, and then what is left of either.  *)
Alternated(due, new) ==
    LET both == Min({Len(due), Len(new)})
    IN  [i \in 1 .. 2 * both |-> IF i % 2 = 1 THEN due[(i + 1) \div 2] ELSE new[i \div 2]]
        \o SubSeq(due, both + 1, Len(due)) \o SubSeq(new, both + 1, Len(new))

PrimarySequence(n) == Alternated(SelectedDue(n), SelectedNew(n))

(* startLesson: a course without anything to ask for goes on to the lesson *)
(* the next word is due in.                                                *)
StartNo ==
    IF PrimarySequence(lessonNo) # << >> THEN lessonNo
    ELSE Min({states[w].due : w \in Known \ DueAt(lessonNo)})

(* resolveNextActionableLessonNo                                           *)
NextLessonNo ==
    IF NextGroup # {} THEN lessonNo + 1
    ELSE Min({Max({lessonNo + 1, states[w].due}) : w \in Known})

-----------------------------------------------------------------------------
ReviewsInit ==
    /\ limits \in Courses
    /\ lessonNo = 1
    /\ states = [w \in CourseWords |-> NoState]
    /\ primary = << >>
    /\ answered = 0
    /\ wrongs = 0

StartLesson ==
    /\ primary = << >> /\ StartNo <= limits.lessons
    /\ lessonNo' = StartNo
    /\ primary' = PrimarySequence(StartNo)
    /\ states' = [w \in CourseWords |-> IF w \in Range(SelectedNew(StartNo))
                                          THEN InitialState(StartNo) ELSE states[w]]
    /\ UNCHANGED <<limits, answered, wrongs>>

Answer ==
    /\ answered < Len(primary)
    /\ LET w == primary[answered + 1] IN
       \E score \in Scores(states[w].stage) :
          /\ ~IsPassing(score) => wrongs < limits.wrong
          /\ wrongs' = IF IsPassing(score) THEN wrongs ELSE wrongs + 1
          /\ \E state \in AfterScore(states[w], score) :
                states' = [states EXCEPT ![w] = state]
    /\ answered' = answered + 1
    /\ UNCHANGED <<limits, lessonNo, primary>>

(* A repetition of a word that was answered in this lesson is wrong.       *)
FailRepetition ==
    /\ wrongs < limits.wrong /\ wrongs' = wrongs + 1
    /\ \E i \in 1 .. answered :
          states' = [states EXCEPT ![primary[i]] = Deferred(@)]
    /\ UNCHANGED <<limits, lessonNo, primary, answered>>

(* completeLesson: four fifths of the primary tasks are enough, the others *)
(* are skipped.                                                            *)
CompleteLesson ==
    /\ primary # << >> /\ answered * 5 >= Len(primary) * 4
    /\ lessonNo' = NextLessonNo
    /\ primary' = << >> /\ answered' = 0
    /\ UNCHANGED <<limits, states, wrongs>>

ReviewsNext == StartLesson \/ Answer \/ FailRepetition \/ CompleteLesson

ReviewsSpec == ReviewsInit /\ [][ReviewsNext]_reviewVars

-----------------------------------------------------------------------------
ReviewsTypeOK ==
    /\ limits \in Courses
    /\ lessonNo \in Nat \ {0}
    /\ states \in [CourseWords -> WordState]
    /\ primary \in Seq(CourseWords)
    /\ answered \in 0 .. Len(primary)
    /\ wrongs \in 0 .. limits.wrong

Started == primary # << >>
LeftOut == {w \in DueAt(lessonNo) : w \notin Range(primary)}

IsNew(w) == states[w] = InitialState(lessonNo)

(* A new group never takes the place of a word that is still being         *)
(* learnt: the count that admits the group and the order that fills the    *)
(* other places have to agree.                                             *)
NewGroupsGiveWay ==
    Started /\ (\E w \in Range(primary) : IsNew(w))
        => \A w \in LeftOut : states[w].stage = MaxStage

(* Whatever was answered, and whatever was skipped, there is always a next *)
(* lesson: some word is due sooner or later, and a lesson has a task and   *)
(* no more than the larger budget.                                         *)
CourseGoesOn ==
    ~Started => Len(PrimarySequence(StartNo)) \in
                    1 .. Max({limits.withGroup, limits.reviewOnly})

(* A word that is being learnt is not kept waiting by others that keep     *)
(* failing: at the start of a lesson it is overdue by no more lessons than *)
(* it takes to ask for the words that were due before.                     *)
MaxWait == limits.words \div ((limits.reviewOnly * 4 + 4) \div 5)
UrgentWordsAreAsked ==
    \A w \in UrgentAt(lessonNo) : lessonNo - states[w].due <= MaxWait

(* An answered word comes back, the sooner the worse it was answered: in   *)
(* the next lesson after a mistake, in at most fifteen for one that is     *)
(* mastered.                                                               *)
ReviewsComeBack ==
    \A w \in CourseWords : states[w].seen > 0 =>
        /\ states[w].due - states[w].seen \in 1 .. 15
        /\ states[w].wrongStreak > 0 => states[w].due = states[w].seen + 1

ReviewsAreOnTime ==
    /\ ReviewsTypeOK
    /\ NewGroupsGiveWay
    /\ CourseGoesOn
    /\ UrgentWordsAreAsked
    /\ ReviewsComeBack
=============================================================================
