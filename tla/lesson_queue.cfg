SPECIFICATION MCSpec
CONSTANTS
    Selections <- FirstAndFull
    MaxTasksPerWord = 3
    MaxPlanned = 3
    NormalBudget = 18
    HardCap = 24
    MaxSource = 5
    MaxJobs = 4
    MaxSlot = 12
INVARIANTS QueueIsSound WordsComeBack AlgorithmsAgree
PROPERTIES KeepsPromise LessonEnds
CHECK_DEADLOCK FALSE
