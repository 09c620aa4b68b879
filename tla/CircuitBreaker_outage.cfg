SPECIFICATION FairSpec
CONSTANTS
    Callers = {c1, c2, c3}
    Threshold = 2
    MaxOutages = 2
    MaxCancels = 1
INVARIANT ThresholdOpens
PROPERTY RecoversWithService
