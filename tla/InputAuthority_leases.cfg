SPECIFICATION FairSpec
CONSTANTS
  Threads = {t1, t2, t3}
  Leases = {l1, l2}
  Keys = {k1}
  NoLease = NoLease
  NoThread = NoThread
  NoEvent = NoEvent
  MaxActivations = 2
  MaxSteps = 2
INVARIANTS
  AckMeansQuiescent
  HeldKeyIsOwned
PROPERTIES
  HandoffIsClean
  ImplementsGuestAuthority
  CancelledActionStops
