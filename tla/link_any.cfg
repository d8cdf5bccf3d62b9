SPECIFICATION FairSpec
CONSTANTS
  s1 = s1
  p1 = p1
  SendCallers <- OneSender
  PrioCallers <- OnePrio
  Casts <- CastThenWait
  SendCap = 1
  PrioCap = 1
  InboundCap = 1
  Terminals = {"ok T:", "error"}
  Notices = {"T:"}
  MaxCalls <- TwoEach
  MaxUpsets = 1
INVARIANTS TypeOK WriterHasCaller  PriorityBypass
PROPERTIES AckMatchesInTime CallerOrder ImplementsService 
CHECK_DEADLOCK FALSE
