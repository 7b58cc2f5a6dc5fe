SPECIFICATION FairSpec
CONSTANTS
  Machine = {m1, m2}
  NoMachine = NoMachine
  Plan = {p1}
  NoPlan = NoPlan
  Step = {s1}
  Request = {q1, q2}
  MaxJobs = 2
  MaxAttempts = 2
  MaxClicks = 1
  MaxCrashes = 0
  Timely = TRUE
CHECK_DEADLOCK FALSE
PROPERTY
  DeadErrandFreesPlan
