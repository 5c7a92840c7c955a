# A verification development of eng-learn

eng-learn teaches English words in short lessons.  A Cloudflare Worker
(`server/`) serves a learner's browser (`src/`) and an administrator's pages,
and keeps everything in one D1 (SQLite) database (`migrations/`).  There is no
lock and no transaction that spans two statements of a handler: a handler reads
rows, computes, and writes one D1 *batch*, which is atomic and which a trigger
or a constraint may abort.  Two tabs, a double click, a retry after a lost
response and an administrator's reset therefore interleave between the
statements of each other's handlers.  That is what these modules are about;
around them are the pure policies the handlers call, and the pages that have to
cope with what the server answers, or with no answer.

Paths below are those of the repository.

## 1. Inventory

| Part | Code | State | Operations | Must hold | Module |
|---|---|---|---|---|---|
| Course runtime | `server/services/CourseRuntime.ts`, `d1CourseRepository.ts` | `courses`, `lesson_sessions`, `lesson_tasks`, `review_logs`, `user_word_states` | start a lesson, answer a task, complete a lesson | one open lesson; every answer is logged and counted once; a reply tells what the log holds; the course is past every completed lesson | `CourseRuntime` |
| Progress reset | `LearningProgressService.ts`, `migrations/0014_*.sql` | `course_progress_reset_operations`, the run columns, archived word states | reset with a one-time token | one reset per token; a run's requests never write into the next; history is kept | `CourseRuntime` |
| Lesson queue policy | `LessonQueuePolicy.ts` | none (a function of a snapshot of the tasks) | plan the repetition of a wrong word, plan a reinforcement, validate | repetitions keep their distance; at most three tasks per word; a hard cap; the queue never deadlocks | `LessonQueue`, `QueueSchedule`, `QueueMatching`, `LessonQueuePromise` |
| Earlier queue policy | `lessonTaskQueue.ts` | none | place repetitions five to eight tasks later | they keep their gap whatever else is repeated | `RefluxSchedule` |
| Lesson flow policy, stage engine | `LessonFlowPolicy.ts`, `StageEngine.ts`, `taskEvaluation.ts` | a word's stage, ease, streaks, due lesson | choose the words of a lesson, apply a score, defer | no lesson is empty; new words never displace words being learnt; a wrong word comes back in the next lesson | `WordReviews` |
| Lesson replay, sentence preview | `LessonReplayService.ts`, `d1LessonReplayRepository.ts`, `CourseRuntime.previewSentenceOutput` | `lesson_replay_sessions`, `lesson_replay_task_states`, the draft of a task | start, preview, answer, complete | one open replay per lesson; the counters are those of the tasks; an answer is about the draft its reference was shown for | `LessonReplay`, `LessonTasks` |
| Administrator operations | `adminOperation.ts`, `adminOperationLedger.ts`, `createCourseIdempotently` | `admin_operations` and two more ledgers | look up, commit with the effect | a token commits at most one operation of one kind; a retry returns its outcome | `LearnerAccess`, `SourceImport` |
| Learner sessions | `LearnerSessionService.ts`, `d1SessionRepository.ts` | `learners`, `learner_sessions` | login, resolve, logout, rotate, update login | a session of an older credential is dead; a retry of a rotation returns the same code | `LearnerAccess` |
| Login attempts, administrator sessions | `d1LearnerLoginAttemptRepository.ts`, `AdminSessionService.ts`, `d1AdminSessionRepository.ts` | the attempt rows, `admin_sessions` | reserve, verify, clear, clean up, logout | few failures per window; a cooldown is served | `LoginThrottle` |
| Content builder | `ContentBuilder.ts`, `d1ContentRepository.ts` | `source_versions`, `exercise_items`, `exercise_item_review_feedback` | build, edit, review, approve, disable, publish, discard | a published version is complete, approved and frozen | `ContentVersions`, `ContentEdits` |
| Imports | `ContentBuilder.importSourceVersionIdempotently`, `useSourceVersionImport.ts`, `importRecovery.ts` | `source_versions`, the ledger, one key of session storage | import, confirm after a lost response | one version per token; a page reports what happened | `SourceImport` |
| Content pages | `SourceVersionDetailPage.vue`, `ExerciseItemPage.vue`, `ExerciseReviewRunner.vue` | what a page shows and waits for | read, decide, recover | what it says was done was done; what is approved was simulated | `ContentPages` |
| Courses workspace | `AdminCoursesWorkspace.vue` | the pending operation, the list, the alert | create, update a login, reset, retry | one effect per click; reports are true | `CoursesWorkspace` |
| Lesson pages | `LessonRunner.vue`, `LessonReplayRunner.vue`, `LearnerCourseHome.vue` | the runner's session, form, feedback, retry | load, preview, submit, synchronise, complete | the result shown is the recorded one; the learner gets to the end | `LessonPages` |

How they interact: the HTTP layer resolves a session, then calls one service;
services call repositories and the pure policies; repositories meet only in the
database.  The course runtime calls the flow policy when it starts a lesson,
the queue policy and the stage engine when it records an answer; a replay reads
the tasks of a completed lesson; a reset ends a run under the feet of the
runtime's requests; a course reads a published version, which never changes.
The pages talk to the server through calls that may be lost on either way.

What is hard: every handler reads, computes and writes, so what it computed may
be old when it writes; batches are guarded by conditions repeated in SQL, which
must be the right ones; tokens and answers are retried; `startLesson` loops; the
queue policy must never plan what cannot be scheduled; a page that has lost a
response must find out what happened without doing it twice.  `PROJECT.json`
lists the hazards one by one with the line where each bites and the properties
that watch it.

## 2. Modules

The detailed modules and what they are measured by:

| Abstract | Detailed | How they meet |
|---|---|---|
| `LessonQueuePromise` (what a queue promises to the protocol) | `LessonQueue` (the policy), `CourseRuntime` (the protocol) | `KeepsPromise`, `LessonsKeepPromise` (through `CourseLessons`) |
| `MemoryCourses` (the repository in memory: a method in one step) | `CourseRuntime` (statement by statement) | `AgreesWithMemory` (through `CourseStorage`) |
| `ContentEdits` (an operation in one step) | `ContentVersions` (statement by statement) | `EditsAreAtomic`, part of `DecisionsStand`; `ContentPages` is built on `ContentEdits` |
| `LessonTasks` (tasks in order, one draft, one answer) | `LessonReplay` (statement by statement) | `KeepsOrder`; `LessonPages` is built on `LessonTasks` |

`LoginPolicies` and `LessonLimits` declare the constants of modules that are
instantiated; `MC*` modules are the instances for TLC.  Several runs look at a
*sum* of independent behaviours: a variable `shown`, chosen initially, says
which, and the other's variables never move.  Nothing passes between the parts
of a sum, and every property is checked in all of them.

In the modules of the server a *request* is a process.  `at[r]` is the statement
it executes next, `loc[r]` what the handler's local variables hold; `Arrive`
takes its first step, `Serve` any later one, `Die` ends it between two
statements (an evicted isolate, a database error), `Deliver` sends the response.
A request that has ended may arrive again as the same or another operation,
which is how retries and double clicks appear.  One action is one `await` on the
database, a read or a batch.  A batch is all or nothing; what its triggers,
unique constraints and repeated conditions ask for is a named operator
(`MayInsertSession`, `MayWrite`, `MayFix`, ...).

### CourseRuntime

| State | Rows |
|---|---|
| `course` | `courses.current_lesson_no`, `current_learning_run_no`, `current_run_start_lesson_no` |
| `sessions[l]` | the session of lesson `l` (`UNIQUE(course_id, lesson_no)`), its `lesson_tasks` (`tasks`: by word and repetition), its `review_logs` (`score`), the first pending task (`first`) |
| `rows[w]` | `user_word_states`: its learning run, the lesson it is due in, its attempts |
| `archive[n]` | the word states a reset saved for run `n` |
| `resets[k]` | the ledger row of reset token `k` |

Abstractions, and why they are sound for the properties:

- A score is *pass* or *fail*; the gap a passing answer leads to is any of
  `Gaps`.  Stage and ease only decide that gap; `WordReviews` has them.
- Which tasks the planner adds is nondeterministic within what the policy can
  do (`RepeatableWords`, `PlannedTasks`): another task of words without a
  pending one, up to `MaxTasksPerWord`.  The order of the queue is abstracted to
  which pending task is first, chosen anew at each write, so every order the
  policy could produce is included.
- `getCourse`, a session and its tasks read in a row by the completion are one
  step (`RecheckCompletion`), because the batch that follows repeats every
  condition they check.
- The course is active (nothing in the program changes `courses.status`), its
  source version is published, no word is suspended, and the deployment writes
  `v2`/`rolling_v2` sessions.

| Property | In words |
|---|---|
| `TypeOK` | the type invariant |
| `AgreesWithMemory` | every batch changes the database as one whole method of the repository in memory would at that moment |
| `RunsAreFenced` | no row or session is of a run that has not begun; the current run's sessions are those from its first lesson on; older runs have none open |
| `CourseIsPastCompletedLessons` | the course never stands at a completed lesson |
| `AttemptsMatchLog` | a word's attempts are exactly the primary answers its run logged, also in the archive |
| `FailedWordComesBack` | a word answered wrong is due in the next lesson at the latest |
| `RepliesAreRecorded` | what is replied is what the log, the course or the ledger holds |
| `OneOpenLesson` | at most one lesson is open (what a test claims; violated in `double_start`) |
| `ProgressIsEarned` | a row counts no answer its run's logs do not hold, also in the archive, and once created in a run it changes only in the batch that logs an answer to its word |
| `CompletedLessonIsClosed` | a completed lesson met the 80% rule and has no task open |
| `ResetsAccountForRuns` | each run before the current one was ended by exactly one reset, which recorded the sessions it abandoned |
| `HistoryIsFinal` | a logged answer, a closed session, the rows archived with a run and the operation of a spent token never change |
| `RequestsEnd` | every request ends, `startLesson`'s loop included |
| `LessonsEnd` | a learner who goes on finishes the lesson |

`RequestsAreBehind` (what a request remembers is never ahead of the course; the
lesson it is going to move to is past the one it read) is a step of the proofs
and is stated as a theorem; no run checks it by itself.

### MemoryCourses and CourseStorage

Without a database the server keeps everything in maps, and a method of a
repository runs to its end before another begins.  What
`inMemoryCourseRepository.ts` does is therefore the specification of the D1
repository: `MemoryCourses` has one action per method that writes
(`CreateLesson`, `RecordAnswer`, `CompleteLesson`, `AdvanceCourseLessonNo`,
`ResetCourseProgress`), and `CourseStorage` instantiates it over the database of
`CourseRuntime`, where a session is found by its lesson.  What a caller computes
and the method only stores (the tasks of a new lesson, the state of a word) is
read off the next state.

The two repositories differ in one place, `CompletesLeftLesson`.  Asked to
complete a started lesson that the course has left, the D1 repository closes it
and leaves the course where it is; the one in memory does nothing.  Such a
lesson exists only after the races of `double_start`, so the difference is part
of the property and no finding.

### LessonQueue, QueueSchedule, QueueMatching, LessonQueuePromise

`LessonQueue` is the queue policy itself, not an abstraction of its choices.  A
word is its place in the primary order, a task is its word, its role and its
source (the position of the completed task it repeats); the completed tasks are
a prefix, and `log[i]` is the review log of the `i`-th.  One answer is one step
(what happens between its statements is `CourseRuntime`'s subject):

| Code | Definition |
|---|---|
| `planWrongAnswer` | `WrongDisposition`, `BridgesFor`, `WrongPlans` |
| `planPlannedReinforcement` | `PassingSources`, `IsRipe`, `Reinforcements`, `WithReinforcement` |
| `validateLessonQueueSnapshot` | `IsValid` |
| `createSchedulingModel` | a problem `p`, `Jobs`, `Window`, `WaitingFillers`, `BridgeFillers` |
| `isQueueFeasible`, `hasCompleteIntervalMatching` | `IsFeasible`, `HasMatching` |
| `buildSchedule`, `assignJobsToLatestSlots` | `Schedules`, `LatestSlots` |
| `getLessonCompletionDecision` | `MayComplete` |

`Plans(q, passed)` is the set of queues an answer leads to: one, or none where
the code throws and the learner is told `queue_invariant_violation`.  An answer
is a step only if that set is not empty, so the interesting property is that it
never is (`AnswersAreAccepted`).  `HasMatching` defines a matching by trying all
placements; `QueueMatching` has the augmenting-path algorithm the code uses.  A
disposition `deferred_capacity` is represented by its reason.  Suspended words
are left out, because nothing in the server suspends a word.

| Property | In words |
|---|---|
| `QueueIsSound` | types; and, whatever was answered before, a right and a wrong answer can both be planned and stored (`AnswersAreAccepted`) |
| `WordsComeBack` | no word follows itself; the first wrong answer of a lesson of at least four words is repeated in it; who answers everything right sees the first three new words again |
| `AlgorithmsAgree` | the matching algorithm is exact, and the greedy assignment finds a schedule whenever there is one |
| `KeepsPromise` | the queue implements `LessonQueuePromise` |
| `LessonEnds` | a lesson can be finished, even by wrong answers only |
| `LessonsKeepPromise` | so do the lessons of `CourseRuntime`, with concurrent requests and a reset: `Queue(l)` is the promise over lesson `l`, and TLC looks at the first two |

The promise is what `CourseRuntime` relies on when it chooses freely what the
planner adds: an answer adds only next repetitions of words that are completed
and not pending, at most one if it passed and none of its own word; a lesson is
completed when four fifths of the primary tasks and all others are.

What these modules taught: `interval_infeasible` does occur, in lessons of four
to eight words when late mistakes leave no words for bridges; the second wrong
answer of a full lesson may already be deferred by the budget.  With two or
three due words beside five new ones a learner without mistakes gets two
reinforcements, not three: the first two sources are ripe at the same answer,
and the third has waited too long when its turn comes.  The code calls the
reinforcements optional, so this is no disagreement; the property is checked
where it holds.

### WordReviews and RefluxSchedule

`WordReviews` follows the words of a course over its lessons: `StartLesson` is
the flow policy (`SortedDue` by `Rank`, the budgets, `Alternated`), `Answer` and
`FailRepetition` are the stage engine (`AfterScore`, `Deferred`), and
`CompleteLesson` may leave a fifth of the lesson unanswered.  The ease factor is
counted in twentieths, which all its changes are multiples of.  The code adds
floats, and an ease reached by several changes can be off by a last digit, so
that `Math.ceil` of a product that should be whole gives one more (`base * ease`
of 6 gives 7 after some sequences of scores); `LessonGaps` allows both.

`ReviewsAreOnTime` says that a new group never displaces a word that is still
being learnt, that there is always a next lesson and it fits its budget, that a
word being learnt is overdue by no more lessons than it takes to ask for the
others (`MaxWait`), and that an answered word is due again, in the next lesson
after a mistake.  Mastered words (S5) carry no such promise: they may wait as
long as others are urgent, which `tests/unit/lessonFlowPolicy.test.ts` expects.

`RefluxSchedule` is the queue of lessons that were started under the earlier
policy.  `Placed` is the loop of `scheduleReflux`, position by position;
`RefluxesAreInTime` says that every mistake is repeated once with five to eight
tasks in between, however many other mistakes push it about, and that a lesson
is not completed before.  `WordsComeBackInTime` is both.

### LearnerAccess and LoginThrottle

`LearnerAccess` has the credential of a learner (account and PIN, or an access
code that is stored in plain until it is first used), the sessions and the
three ledger tables.  A token is searched in the tables one statement after the
other (`Search`), the effect and its row are one batch (`Commit`), and a batch
that a trigger refuses is searched for again (`SearchAgain`).

| Property | In words |
|---|---|
| `LedgerIsTrue` | a token commits one operation of one kind; a credential's versions are exactly its committed operations; the number of sessions an operation reports is the number it ended; accounts are unique |
| `LiveSessionsHaveTheCredential` | no session survives a change of its credential, however late its insert comes |
| `AnswersAreTrue` | administrators are told what the ledger holds; a superseded outcome is not returned; a right credential is refused only if it changed meanwhile, or its plain code was hashed between two lookups |
| `NothingIsUndone` | ended sessions stay ended, versions never go back, an update without a PIN keeps the PIN |

`AnswersAreTrue` names one surprise: a right code that is still plain can be
refused when another login hashes it between the lookup of the hash and the
lookup of the plain code (`d1CourseRepository.ts:1137-1148`).  As the property
exempts that refusal, it guards nothing there: the race is listed as a hazard
without a property.

`LoginThrottle` has one key's attempts, its window and its cooldown, the cleanup
of the administrators' login and the clock.  A request reads the clock once and
uses that time in all its statements, so that what it writes may be old by what
a request takes (`MaxLag`).  The history variable `admitted` is the sequence of
the times at which attempts were admitted since the last successful login.
`AttemptsAreBounded` bounds the attempts in any stretch as long as a window,
less `MaxLag`, by twice the maximum less one; `CooldownIsServed` says that
nothing but a login admitted before it shortens a cooldown, and that a session
ends by logout or by its time only.  `ThrottleAssumption` asks of a policy that
its window is no longer than its cooldown, as the code's two are (10 and 15
minutes for learners, 15 and 15 for administrators).

### ContentEdits, ContentVersions and ContentPages

A *cell* is a word and a stage, and holds at most one item; an item's prompt and
answer are one value.  `ContentEdits` says what each operation needs and does.
`ContentVersions` performs them as the server does: the version, its items and
its feedback are read one after the other, and the write repeats the revision.

| Property | In words |
|---|---|
| `VersionIsSound` | a published version has an approved, valid item in every cell and no open feedback |
| `ReadsFitTheirRevision` | what was read under a revision that is still current is the present state |
| `DecisionsStand` | the statements of an operation amount to one step; an ended version never changes; feedback is removed by a change of content only |
| `ContentPageIsTrue` | what a page says was done was done, also when the response was lost and the request landed late |
| `ApprovedIsSimulated` | the review runner approves nothing but the content on which the answer was simulated |
| `ActionsEnd` | every response brings a page's action nearer to its end |

The item page and the approval of all drafts name no revision
(`ExerciseItemPage.vue:82`): they approve whatever content the items have by
then.  The code promises no more, so no property says otherwise; only the review
runner's approvals are about what was seen.

### SourceImport and CoursesWorkspace

`SourceImport` is both ends of an import: the tab that stores its command before
it sends it and repeats it until a definite answer, also after it was left or
reloaded, and the server's statements with the unique columns
(`source_versions`, one draft per source) and the ledger.  `CoursesWorkspace` is
the page of the courses over a server that serves a token once.

| Property | In words |
|---|---|
| `ImportsAreExact` | a token makes one version; a source's versions are numbered without gaps and only the last may be a draft |
| `ImportPageIsTrue` | a success names the version the command made; a failure is definite; a busy page always goes on |
| `StoredUntilAnswered` | the stored command is dropped for a definite answer only |
| `DeskIsTrue` | a click has one effect; a success was committed, and an error for a committed command is about something later |

Three exceptions are in the properties because the code has them: of two
requests with one import token that are served at once the second may be told
`source_draft_exists` because of its own draft; the late answer to a page that
was left clears the stored command of a newer import; and the courses page shows
an error for a creation that was committed when the list after it fails.

### LessonTasks, LessonReplay and LessonPages

`LessonTasks` is what a learner may rely on: tasks in order and once, one draft
per sentence task, an end.  `LessonReplay` is the server's replays, and the
previews of a lesson's task, statement by statement; `LessonPages` the course
page with the two runners, over lost calls, an expired login and a second tab.

| Property | In words |
|---|---|
| `ReplayIsTrue` | the counters are those of the tasks; an answer is about the draft its reference was shown for; replies tell what was recorded |
| `KeepsOrder` | the replays implement `LessonTasks` |
| `LessonPageIsTrue` | the result on the page is the recorded one; a reference is compared with the recorded draft |
| `LearnersFinish` | a learner who does what the page offers gets to the end |

The refusal `lesson_incomplete` is left out of `LessonPages`: the runner asks to
complete only when no task is open, and no task is added after that.

## 3. Runs

| Run | What it shows | Instance |
|---|---|---|
| `answers` | with one lesson open at a time, answers race, are retried and lost: logged once, counted once; every lesson keeps the promise.  Words come back in time, over lessons and within one | one lesson, two words, two requests of which one starts lessons, a reset; or four courses of 5 to 20 words over 9 to 24 lessons; or legacy lessons of one and six tasks with three mistakes |
| `lessons` | every lesson and every request ends | one word with two tasks, two lessons, two starters |
| `two_devices` | the 80% rule at its boundary; the limit on attempts and the cooldown | five words of which four are answered, two completions and an answer; or two logins over six ticks |
| `resets` | resets and racing starts interleave with everything else; what was recorded stays; no progress is made up or wiped; each batch is a method of the repository in memory | one word, two requests that may each be of every kind, two tokens, three runs, gaps of one and two lessons |
| `lesson_queue` | every answer can be planned, words come back, the lesson ends, the algorithms agree | five new words with any answers; ten due and five new with three mistakes; up to four jobs in slots up to 12 |
| `accounts` | credentials, sessions and the ledger | two learners, two requests, two tokens, two sessions |
| `content` | a draft under concurrent administrators | two cells, three contents of which one is invalid, two requests, revisions up to 2 |
| `pages` | the content pages over lost and late calls | two cells, one late call |
| `admin_pages` | the import page or the courses page | two tokens, one fault, two mounts; or two commands, three calls, two failures |
| `replay` | replays and previews on the server; or the lesson pages | a sentence and a plain task, two requests, two drafts, two failures |
| `double_start` | **finding**: two lessons open | two starters, one word |
| `lost_retry` | **finding**: an unknown result cannot be retried | as `admin_pages` |

The bounds: `MaxPlayed` limits the lessons that are answered (the course number
itself is not limited but moves only by playing), `MaxRun` the learning runs,
`MaxTasksPerWord` (3 in the code) the tasks of a word, `MaxPlanned` the tasks
one answer adds.  One or two words are enough because words interact only
through the queue's head, the completion rule and the next lesson number; the
completion rule's boundary needs five and has its own run.  Two requests are
enough for the races of this code, which are all between one handler's read and
its write; a third would only overtake both.

The queue runs use the real limits (three tasks per word, three reinforcements,
18 and 24 tasks).  Four jobs are as many as the slots of a window; slots up to
12 are past the last deadline of sources up to 5.  Of the courses of
`WordReviews` three are small, so that words are due together and budgets
overflow: one with many mistakes, one where lessons are completed with a task
skipped, one long enough for mastered and new words to meet; the fourth has the
real limits (groups of 5, budgets 15 and 18).  In `LoginThrottle` a tick is five
minutes and the windows and cooldowns are the real ones; the maximum is two
attempts instead of five, because only the last one before the maximum matters.
Two cells are enough for a version of which one item is complete and the other
is not; three contents are the seen one, another and an invalid one.  One fault
suffices for each place a call can be lost, as a recovery that fails is again a
call with an unknown result.

Symmetry is declared for requests, tokens or cells that are alike; the
properties of those runs are invariants and properties of single steps.
Deadlock checking is off where the system stops: a completed lesson, an
enumerated problem, pages whose bounds are used up.

### Fairness

`PersistentLearnerSpec` (`lessons`) is weak fairness of each request's own next
step (the worker runs a request it accepted), and a learner who, again and
again, answers the task shown and asks to complete a lesson that shows none
(strong fairness, because a request may be busy with something else in between)
and whose requests do not die half-way.  Nothing is assumed of scores: the
learner may answer wrong for ever and still finishes.

`MCSpec` of `MCLessonQueue` is weak fairness of answering (right or wrong) and
of completing: the learner goes on.  `Spec` of `MCLessonReplay` is weak fairness
of `GoesOn`: the server serves a call and the learner does what
the page offers, leaving a page only if that is all it offers.  `ActionsEnd` of
the content pages is no fairness property: each response lowers a measure.

### The findings

`double_start`: `startLesson` looks for an open lesson (`CourseRuntime.ts:274`)
and reads the word states (`:318`) in two statements; `advanceCourseLessonNo`
(`d1CourseRepository.ts:410`) compares only `current_lesson_no`.  If between the
two reads another start creates the lesson and its tasks are answered, the first
start finds nothing due, moves the course past the open lesson and opens the
next one.  Both lessons are then open.  Nothing in the code keeps a second
request from starting, so `OneOpenLesson` is not a property of this program, and
no run or theorem says it is.  With both open an answer to the older lesson may
overwrite the row the newer one wrote, and an attempt is lost: `AttemptsMatchLog`
is false then, and `answers`, where one of the two requests starts lessons,
shows only that nothing else loses one.  What two open lessons cannot do is
`ProgressIsEarned`: they may lose an attempt, but no interleaving counts one
twice or without its log, and no start that was planned earlier wipes a row.  It
is checked with two starters (`resets`, whose states include those with two
lessons open) and proved for any number.

`lost_retry`: `executeCreate` of the courses page clears the pending operation
before it waits for the list (`AdminCoursesWorkspace.vue:140`), so a reset may
be confirmed meanwhile; if the list fails, the `catch` clears the pending
operation again (`:147`), which is now the reset's.  If the reset's result is
then unknown, the page offers no retry, though its alert says it can be retried
safely.

## 4. Proofs

The theorems hold for all values of the constants that satisfy the assumptions
named in the modules: any number of requests, words, tokens, learners, cells,
tasks and calls, and any bound.  Of sets only what the code guarantees is
assumed, such as that a course has finitely many words and a version finitely
many cells.  No lemma is left without a proof, and the state invariants of the
protocols are among the theorems, with the exceptions listed at the end of this
section.  Each component has an
inductive invariant that says what the database looks like *and what a request
in flight knows of it*: between two statements of a handler the others write, so
the invariant can only hold of what they cannot undo.  The proofs therefore have
the same three parts: how stored rows may change (a relation between a row and a
later one, such as `Advances`, `Later`, `MovesOn`), that what requests know is
stable under such changes, and one lemma per action.  TLC checked each of these
invariants on the instances of the runs before it was proved.

### The course runtime

| Theorem | States | Module |
|---|---|---|
| `TypesHold`, `RequestsStayBehind`, `ResetsFenceRuns`, `CompletedLessonsStayBehind` | `TypeOK`, `RequestsAreBehind`, `RunsAreFenced`, `CourseIsPastCompletedLessons` | `CourseRuntimeProofs` |
| `HistoryStaysFinal`, `RepliesStayRecorded`, `CompletedLessonsAreClosed`, `LedgerAccountsForRuns` | `HistoryIsFinal`, `RepliesAreRecorded`, `CompletedLessonIsClosed`, `ResetsAccountForRuns` | `CourseRuntimeProofs` |
| `RequestsActAsInMemory` | `AgreesWithMemory` | `CoursePromisesProofs` |
| `EveryLessonKeepsPromise`, `TwoLessonsKeepPromise` | `LessonsKeepPromise`, and the same of every lesson | `CoursePromisesProofs` |
| `ProgressStaysEarned` | `ProgressIsEarned` | `CoursePromisesProofs` |

They assume finitely many words, bounds in range, and that `NoTask` and
`NoToken` are not in the sets they mark.

`IInv` (`CourseRuntimeProofs`) is the conjunction of its four properties; none
is inductive alone.  `CourseIsPastCompletedLessons` needs that a completion
moves the course to a number past the lesson (`RequestsAreBehind`, from the
moment the target is computed to the moment it is written) and that a reset
moves it past *every* session.  `RunsAreFenced` needs that an insert cannot be
of an old run (the trigger) and that a row written from a stale copy is of a run
that has begun.

`HInv`, in the same module, adds `SessionOK` (what tasks, log and status of a
session have to do with each other) and `Knows(at[r], loc[r])`, what a request
knows of the session it works on.  A reply stays true because a session only
advances.  A plan does not stay good, since another answer may change the queue;
so `KnowsPlan` says that *while the task of the answer is pending in a started
session*, it is still the first one and what was planned can still be added, and
`KnowsSkips` that what a completion means to skip includes all that can be, while
the session is started.  These are exactly the conditions the batches repeat.
`DatabaseSteps` reduces a step of the system to the five batches, so that
history, storage and promise are each proved from five cases.

That storage agrees with memory and that every lesson keeps the promise are
refinements, proved step by step from `HInv`: a read is a stutter, a batch is
one method, or one step of the lesson's promise.  TLC looks at two lessons, the
theorem at all of them.

That a reset archives a run only once, on which half of `HistoryIsFinal` rests,
is `ArchiveIsOld`: the archived runs are those before the current one.

`PInv` (`CoursePromisesProofs`) is what `ProgressIsEarned` needs, for any number
of starters.  The batch of a start writes the rows of its new words whatever
they hold by then; that they are still new is no condition of the batch.
`KnowsPlace` says why it holds: while the run lasts, the course moves from a
lesson without a session only when every group is activated, so a start whose
insert can still succeed planned either at the lesson where the course is, where
nobody has activated a group since, or with no new words at all.  An answer
writes the row it computed from an old one; `KnowsAttempts` says that it counts
at most the primary answers logged by then and its own, and since logs only grow
it still does when it is written.

### Accounts

`LearnerAccessProofs`: `LedgerStaysTrue`, `SessionsEndWithTheirCredential`,
`AnswersStayTrue`, `NothingGetsUndone`, for the properties of `accounts`, from
`AInv`.  A request's copy of a learner is what the row still holds or belongs to
an older version, because rows only move on (`Later`: the version grows with
every change but the hashing of a plain code); the triggers and conditions of
the writes refuse the older one.  The assumptions ask of the commands that can
arrive only what the routes check of them (`shared/api/schemas.ts:205-250`): an
account is named by a creation and by an update, and a PIN by a creation.

### Contents

`ContentVersionsProofs`: `VersionsAreSound`, `ReadsFit`, `DecisionsKeepStanding`,
the latter with the refinement of `ContentEdits`, for the properties of
`content`, from `VInv`.  The revision of a version grows with every change of
its items, so that who has read a revision holds the present items as long as
the revision is the same (`Fits`), and the write repeats it.  Feedback is read
later than the revision and is worth nothing at the write; the triggers stand in
for it.

### Logins

`LoginThrottleProofs`: `GuessingStaysSlow` (`AttemptsAreBounded` of the module),
`CooldownStaysServed`, `SessionsStayEnded` and `ThrottleTypesHold`, from
`ThrottleInv`; `CoursePromisesProofs` states them once more for the properties
of `two_devices` (`DevicesGuessSlowly`, `DevicesServeCooldowns`).

The bound on attempts is a statement about a history, and no row remembers a
history.  The invariant says what the row knows of it: the row counts the
*latest* attempts (`RowCountsLatest`), the first of which began its window and
the last of which set its cooldown; and the first attempt of a row is a window
away from the attempt as many as the maximum before it (`WindowsAreApart`).
Attempts that are twice the maximum less one apart in the sequence are therefore
a window apart in time (`AttemptsAreApart`), and a stretch shorter than that
cannot hold so many.  The times are those of the clock when the row was
written, the row's those of the clock when the request began, so every distance
is less by `MaxLag`.  That a window is no longer than a cooldown is needed
where a cooldown that is over begins a new window: with a shorter one the
attempts before it would not be a window away.
`CooldownIsInRow` is the same for the cooldown: one that is not over is the
row's, because no cleanup and no attempt replaces a row that is blocked.

### Replays and the lesson pages

`LessonReplayProofs`: `ReplayStaysTrue` and `ReplaysKeepOrder`, the refinement of
`LessonTasks`, for the properties of the server's part of `replay`, from `RInv`.
Replays only move on (`Follows`): an answered task stays as it is, a fixed draft
stays fixed, a completed replay stays completed.  What a request checked when it
read (the tasks before its own are answered, the draft is the one its answer is
about) holds when it writes, although the write repeats little of it.

`LessonPageStaysTrue`, for `LessonPageIsTrue`, is about the pages over
`LessonTasks`, from `TabInv`.  What a page has read of a session, and what an
answer on its way carries, *precedes* what the session is now (`Precedes`): the
tasks it knows are still there in their places, an answered one with its score, a
revealed one with its draft.  Sessions only move on, whoever moves them, so this
survives the other tab.  `TabFits` adds what page and call have to do with each
other: a call is about the task of the form that waits for it (`CallFits`), a
form with a reference holds the recorded draft (`FormFits`).

### The administrator's tab

`AdminPagesProofs` has both pages of `admin_pages`.

`ImportsStayExact`, `ImportPageStaysTrue` and `StoredStaysUntilAnswered` rest on
`ImportInv`.  Tokens and versions are kept exact by the unique columns
(`VersionsAreKeyed`): of a request that has found the last number it is known
only that the numbers below it exist, and the insert finds out the rest.  That
the page's failures are definite needs what its requests know of the ledger:
one that may still refuse, and is the only one with its token, has a token that
is not spent (`Progress`).  For the stored command the invariant says whom the
page waits for: one request at most, and its command is the stored one
(`OneIsAwaited`).

`DeskStaysTrue` rests on `DeskInv`.  A click's token is spent at most once,
nothing the page shows is ahead of the server, and a command that was refused
although it is committed has an excuse (`Excused`): it was lost, it was
superseded, or it is a creation whose list failed.  An excuse is not lost again,
because versions and runs only grow.

`ContentPagesProofs` has `ContentPageStaysTrue` and `ApprovalsStaySimulated`,
from `PagesInv`, over the one-step operations of `ContentEdits`.  The argument is
about revisions once more, now of the page: at the revision it shows, the item
is the one that was evaluated and the one in the form (`ReviewFits`); every
other write raises the revision, and a decision names it.  The same is said of
every request that is late (`LateFits`), which is why an approval that lands
after the page has gone on still finds what was simulated.
`ActionsComeToAnEnd` (`ActionsEnd`) needs in addition that a page reads only if
it has something to read and that what is left to be sent belongs to an approval
of all drafts (`RoundsFit`); each batch then takes some of finitely many cells.

### What is only model-checked

| Property | Why |
|---|---|
| `RequestsEnd`, `LessonsEnd`, `LessonEnds`, `LearnersFinish` | liveness under fairness is out of the prover's reach, as is `ENABLED` |
| `QueueIsSound`, `WordsComeBack`, `AlgorithmsAgree` | about plans that are computed by recursion over the jobs and the queue; what such a definition computes for every input takes induction over data, which the provers do not offer |
| `KeepsPromise` | that `LessonQueue` implements its promise depends on those plans; that the protocol does, whatever the plan, is proved |
| `WordsComeBackInTime` | `WordReviews` sorts and merges sequences, `RefluxSchedule` is recursive |
| `AttemptsMatchLog`, `FailedWordComesBack` | checked with one starter only: with two open lessons the first is false, and whether the second survives them is not settled (lessons large enough to be completed with a task skipped are past what TLC reaches with two starters) |

TLC checks the first and the last on the runs named in section 3 and the others
over all inputs within their bounds.  Of `AttemptsMatchLog` the half that does
not depend on the number of starters, that no attempt is counted without its
log, is part of `ProgressIsEarned` and proved.

## 5. Plan

The server's components and the pages of section 1 are modelled, and what the
provers can reach of their properties is proved.  When the code changes:

1. a change of a batch or its conditions is a change of the operator named for
   it, and the lemma of its action says what the others relied on;
2. a new operation is an action, a case of the step lemma and, where it writes,
   a method of `MemoryCourses` or a step of `ContentEdits` or `LessonTasks`;
3. a fix of `startLesson` would let `double_start` pass, `answers` take a second
   starter and `AttemptsMatchLog` be proved; a fix of `executeCreate` would let
   `lost_retry` pass.

What could still be added is the unbounded flow of `legacy_v1` sessions under
concurrent requests, and the in-memory repositories of credentials and sessions
as one-step specifications of `LearnerAccess`.

## 6. Not modelled

- Rendering, navigation, wording and focus; parsing of requests, CSV files and
  stored commands; report queries, which only read; tooling.
- Cryptography: a hash or a fingerprint is a value that differs when its input
  does.
- The comparison of texts in an answer and the choice of the exercise item: pure
  functions of the submission and the version.
- The unbounded flow of `legacy_v1` sessions in `startLesson`; the earlier queue
  policy is modelled, but without concurrent requests.
- The in-memory repositories of credentials, sessions and login attempts, which
  repeat what `LearnerAccess` and `LoginThrottle` say of D1.  Those of courses,
  replays and contents are the one-step specifications `MemoryCourses`,
  `LessonTasks` and `ContentEdits`.
- `rotateAccessCode` and `revokeAll`, which no route calls; courses that are not
  active, which nothing makes; an update of a login without a PIN that expects a
  version ahead of the one stored, which no page sends; and courses or contents
  that become unavailable under the lesson pages.

`PROJECT.json` gives each part's status.
