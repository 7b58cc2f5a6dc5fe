\* Two steps, three texts, a tab, a job, three versions, two rounds of a loop.
SPECIFICATION Spec
CONSTANTS
  s1 = s1
  s2 = s2
  a = a
  b = b
  Job = {j1}
  Step = {s1, s2}
  Content = {a, b}
  Absent = Absent
  Text <- Texts
  MaxSubmits = 2
  Tab = {t1}
  Nothing = Nothing
  MaxVersion = 3
INVARIANTS
  VerdictsAreOfTheText
  ReceiptsAreTrue
CHECK_DEADLOCK FALSE
