SPECIFICATION LessonsSpec
CONSTANTS
    w1 = w1
    w2 = w2
    r1 = r1
    r2 = r2
    k1 = k1
    NoTask = NoTask
    NoToken = NoToken
    Words = {w1, w2}
    GroupOf <- OneGroup
    StartRequests = {r1}
    SubmitRequests = {r1, r2}
    CompleteRequests = {r1, r2}
    ResetRequests = {r2}
    Tokens = {k1}
    MaxTasksPerWord = 2
    MaxPlanned = 2
    Gaps = {2}
    MaxPlayed = 1
    MaxRun = 2
    Courses <- SomeCourses
    PrimaryCounts = {1, 6}
    MaxMistakes = 3
INVARIANTS TypeOK AttemptsMatchLog FailedWordComesBack RepliesAreRecorded
    WordsComeBackInTime
PROPERTIES LessonsKeepPromise
CHECK_DEADLOCK FALSE
