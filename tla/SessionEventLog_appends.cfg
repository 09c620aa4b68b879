SPECIFICATION FairSpec
CONSTANTS
    Writers = {w1, w2, w3}
    MaxTries = 2
    MaxPrunes = 2
INVARIANT NothingSkipped
INVARIANT FailureMeansContention
PROPERTY ImplementsEventLog
PROPERTY AppendEnds
