SPECIFICATION FairSpec
CONSTANTS
  MaxRequests = 3
  MaxCrashes = 1
  Ops = {"switch", "resume"}
  Owners = {agent, user}
  NoOwner = NoOwner
INVARIANT OnlySeatHolderActs
PROPERTY ImplementsRequestOnce
PROPERTY CallsEnd
CHECK_DEADLOCK FALSE
