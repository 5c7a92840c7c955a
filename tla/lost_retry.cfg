SPECIFICATION Spec
CONSTANTS
    t1 = t1
    t2 = t2
    r1 = r1
    r2 = r2
    Tokens = {t1, t2}
    Requests = {r1, r2}
    Source = Source
    NoToken = NoToken
    MaxVersions = 1
    MaxFaults = 1
    MaxMounts = 2
    c1 = c1
    c2 = c2
    c3 = c3
    Courses = {c1, c2, c3}
    FirstCourses = {c1}
    NoCourse = NoCourse
    MaxClicks = 2
    MaxCalls = 3
    MaxSlips = 2
    MaxNo = 3
SYMMETRY Alike
CHECK_DEADLOCK FALSE
INVARIANTS UnknownResultCanBeRetried
