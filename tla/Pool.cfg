CONSTANTS
  j1 = j1
  j2 = j2
  j3 = j3
  NoJob = NoJob
  NumWorkers = 2
  Job = {j1, j2, j3}
  Faulty = {j3}
  Modulus = 8
  MayStop = TRUE
SPECIFICATION FairSpec
INVARIANTS
  JobsAccounted
  SomebodyAwake
PROPERTIES
  ImplementsJobPool
