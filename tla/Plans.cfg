CONSTANTS
  Text = {s1, s2}
  NoText = NoText
  Writer = {w1, w2}
  Reader = {r1}
  Order = {o1}
  Terminal = {t1}
  File = {f1}
  NoFile = NoFile
  MaxPlans = 1
  MaxVersion = 3
  MaxRuns = 1
SYMMETRY Symmetry
SPECIFICATION Spec
INVARIANTS
  ThreadIsTheHistory RunTextWasApproved
CHECK_DEADLOCK FALSE
