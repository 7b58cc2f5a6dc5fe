\* The engine over every dependency graph of three steps and every kind of step.
SPECIFICATION FairSpec
CONSTANTS
  StepCount = 3
  Id = {1, 2, 3, 4}
  What = {"w1", "w2"}
  Claim = {"c1", "c2"}
  Cases <- MCCases
  MaxTries = 2
  RepairAttempts = 2
  RepairBudget = 2
  MaxMoves = 2
  Missing = Missing
  Absent = Absent
  Secrets = {"secret"}
  Wide = 3
  MaxSQLRows = 2
  Unsaid = Unsaid
  MaxSteps = 2
  MaxId = 2
  MaxText = 3
  MaxBody = 4
  MaxMoved = 3
  HistoryLimit = 3
  ReportLimit = 2
INVARIANTS
  RunsAfterItsNeeds
  ClaimsKept
  GreenMeansEveryStepPassed
  EditorHoldsTheMachinesBar
  LedgerIsTrue
  StepTextsLoad
  StepTextsKeepTheirMeaning
  ValuesComeBack
  ChecksReadTheirChannel
  RecordsAgree
  PagesFollowTheRuns
PROPERTY
  RunEnds
CHECK_DEADLOCK FALSE
