SPECIFICATION Spec
CONSTANTS
  a = a
  b = b
  c = c
  web = web
  ReadLoop = ReadLoop
  NoJob = NoJob
  Jobs <- TwoJobs
  Program <- PlainProgram
  Clients = {web}
  Shutdown = {}
  MaxRequests = 1
INVARIANT PausedTruth
