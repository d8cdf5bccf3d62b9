SPECIFICATION Spec
CONSTANTS
  u1 = u1
  u2 = u2
  Hole = Hole
  Requests <- TwoRequests
  FileName <- OnePath
  Bodies <- TwoBodies
  Printing <- TwoRequests
  MaxFaults = 1
INVARIANTS TypeOK  FileIsWhole StreamsAccounted ProgressBounded 
CHECK_DEADLOCK FALSE
