\* Two machines, one errand of either kind, two attempts, one process that ends.
SPECIFICATION FairSpec
CONSTANTS
  Machine = {m1, m2}
  NoMachine = NoMachine
  Plan = {p1}
  NoPlan = NoPlan
  Step = {}
  Request = {q1}
  NoRequest = NoRequest
  MaxJobs = 1
  MaxAttempts = 2
  MaxClicks = 1
  MaxCrashes = 0
  Timely = TRUE
  MaxEnds = 1
  MaxCalls = 2
  Outcome = {"passed"}
CHECK_DEADLOCK FALSE
INVARIANTS
  NoVerdictFromACutWalk
  OneMachineAtWork
  NoPreviewBehindTheRecord
PROPERTY
  EveryErrandIsSettled
