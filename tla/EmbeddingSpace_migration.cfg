SPECIFICATION Spec
CONSTANTS
    Procs = {p1, p2}
    Admin = p1
    Rows = {r1, r2}
    MaxText = 2
    MaxFaults = 2
INVARIANT MigrationCanResume
INVARIANT CleanBackfillIsComplete
CHECK_DEADLOCK FALSE
