SPECIFICATION FairSpec
CONSTANTS
    Procs = {p1}
    Handlers = {h1, h2}
    MaxTasks = 2
    Chapters = {0, 1}
    MaxCourses = 2
    MaxExpand = 1
    MaxCancel = 2
    MaxResume = 1
    MaxRetry = 1
    MaxCrash = 2
    MaxEvents = 3
    Deps <- ChainDeps
    Requests <- NewCourse
INVARIANT NoChapterForgotten
INVARIANT NoDuplicateWork
INVARIANT CompletedWasAccepted
INVARIANT CourseIsWhole
INVARIANT WavesRespectDependencies
PROPERTY ActiveSettles
CHECK_DEADLOCK FALSE
