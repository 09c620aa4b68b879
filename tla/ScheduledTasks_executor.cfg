SPECIFICATION FairSpec
CONSTANTS
    once = once
    last = last
    Tasks = {once, last}
    NoTask = NoTask
    Executors = {e1, e2}
    Recurring = {last}
    Limit = 1
    MaxFailures = 2
    MaxTime = 2
    MaxFaults = 1
    MaxRuns <- Runs
INVARIANT NotifiedOncePerRun
INVARIANT OverrunsAreStale
PROPERTY NeverRevived
PROPERTY NoStarvation
CHECK_DEADLOCK FALSE
