SPECIFICATION Spec
CONSTANTS
    r1 = r1
    r2 = r2
    d1 = d1
    d2 = d2
    Requests = {r1, r2}
    Drafts = {d1, d2}
    NoDraft = NoDraft
    SourceTasks <- Plan
    MaxFinished = 1
    MaxFailures = 2
    MaxMore = 1
    MaxSittings = 1
    MaxLosses = 2
    MaxLeaves = 1
CHECK_DEADLOCK FALSE
INVARIANTS ReplayIsTrue LessonPageIsTrue
PROPERTIES KeepsOrder LearnersFinish
