SPECIFICATION FairSpec
CONSTANTS
  Job = {d1}
  NoJob = NoJob
  Process = {p1, p2}
  NoProcess = NoProcess
  Worker = {w1, w2}
  MaxAttempts = 2
  MaxLost = 1
  Pools = {"one"}
CHECK_DEADLOCK FALSE
INVARIANTS
  OutcomeIsTheHolders
  ReadOnce
  ProductionTranscript
PROPERTIES
  EveryRequestEnds
