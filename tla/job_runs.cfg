SPECIFICATION FairSpec
CONSTANTS
  a = a
  b = b
  c = c
  web = web
  ReadLoop = ReadLoop
  NoJob = NoJob
  Jobs <- TwoJobs
  Program <- PauseProgram
  Clients = {web}
  Shutdown = {a}
  MaxRequests = 1
INVARIANTS TypeOK ActiveIsBacked CancelBound PauseHolds
INVARIANTS PauseFlagsAgree NoLineSkipped DoneMeansAll
INVARIANTS StatusTruth ShutdownWaits
  
