SPECIFICATION Spec
CONSTANTS
  a = a
  b = b
  c = c
  web = web
  ReadLoop = ReadLoop
  NoJob = NoJob
  Jobs <- ThreeJobs
  Program <- ShortProgram
  Clients = {web}
  Shutdown = {}
  MaxRequests = 0
INVARIANT OneJobAtATime
