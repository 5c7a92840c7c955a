SPECIFICATION Spec
CONSTANTS
    w1 = w1
    r1 = r1
    r2 = r2
    k1 = k1
    k2 = k2
    NoTask = NoTask
    NoToken = NoToken
    Words = {w1}
    GroupOf <- OneGroup
    StartRequests = {r1, r2}
    SubmitRequests = {r1, r2}
    CompleteRequests = {r1, r2}
    ResetRequests = {r1, r2}
    Tokens = {k1, k2}
    MaxTasksPerWord = 1
    MaxPlanned = 2
    Gaps = {1, 2}
    MaxPlayed = 2
    MaxRun = 3
SYMMETRY Symmetry
INVARIANTS RunsAreFenced ResetsAccountForRuns CourseIsPastCompletedLessons
PROPERTIES HistoryIsFinal AgreesWithMemory ProgressIsEarned
