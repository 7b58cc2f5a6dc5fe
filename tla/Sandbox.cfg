\* The attach loop and two clients, three calls between them, one docker command that fails.
\* Copies of small compose files.
SPECIFICATION FairSpec
CONSTANTS
  Loop = Loop
  Client = {c1, c2}
  Free = Free
  Unset = Unset
  Default = Default
  Project = Project
  MaxCalls = 3
  MaxFaults = 1
INVARIANTS
  CopyBootsAsAsked
  CopyIsApart
  LedgerTellsTheCopy
  ReaperSparesResearch
  NothingLeftBehind
  NoForgottenCopy
PROPERTY
  ResearchSandboxIsReaped
CHECK_DEADLOCK FALSE
