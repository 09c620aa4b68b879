SPECIFICATION Spec
CONSTANTS
    Procs = {p1, p2}
    Handlers = {h1}
    MaxTasks = 2
    Chapters = {0, 1}
    MaxCourses = 2
    MaxExpand = 1
    MaxCancel = 0
    MaxResume = 0
    MaxRetry = 0
    MaxCrash = 0
    MaxEvents = 1
    Deps <- ChainDeps
    Requests <- NewCourse
INVARIANT NoDuplicateWork
CHECK_DEADLOCK FALSE
