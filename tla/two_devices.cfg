SPECIFICATION VisitSpec
CONSTANTS
    w1 = w1
    w2 = w2
    w3 = w3
    w4 = w4
    w5 = w5
    r1 = r1
    r2 = r2
    NoTask = NoTask
    NoToken = NoToken
    Words = {w1, w2, w3, w4, w5}
    GroupOf <- OneGroup
    StartRequests = {}
    SubmitRequests = {r1}
    CompleteRequests = {r1, r2}
    ResetRequests = {}
    Tokens = {}
    MaxTasksPerWord = 2
    MaxPlanned = 1
    Gaps = {1}
    MaxPlayed = 1
    MaxRun = 1
    Policies <- LearnerAndAdmin
    MaxAttempts = 2
    MaxTime = 5
    MaxSessions = 1
    MaxLag = 1
    NoTime = NoTime
INVARIANTS CompletedLessonIsClosed AttemptsAreBounded
PROPERTIES CooldownIsServed
