SPECIFICATION Spec
CONSTANTS
  s1 = s1
  start1 = start1
  cancel1 = cancel1
  write1 = write1
  write2 = write2
  Callers = {c1, c2}
  Sessions = {s1}
  Ids = {start1, cancel1}
  Calls <- StartCancel
  NoCall = NoCall
  NoFact = NoFact
  NoCaller = NoCaller
  QueueCapacity = 1
  MaxCrashes = 0
INVARIANTS
  TerminalMeansTerminated
