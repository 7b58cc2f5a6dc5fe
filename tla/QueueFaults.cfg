SPECIFICATION Spec
CONSTANTS
  Machine = {m1, m2}
  NoMachine = NoMachine
  Plan = {p1}
  NoPlan = NoPlan
  Step = {s1}
  Request = {q1, q2}
  MaxJobs = 2
  MaxAttempts = 2
  MaxClicks = 1
  MaxCrashes = 1
  Timely = FALSE
SYMMETRY Symmetry
CHECK_DEADLOCK FALSE
INVARIANTS
  CompletedRunIsItsReport
PROPERTY
  ImplementsRunBoard
