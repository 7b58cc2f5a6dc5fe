\* Two machines, four dials, two turns of two requests each.
SPECIFICATION Spec
CONSTANTS
  Machine = {m1, m2}
  Turn = {t1, t2}
  Nobody = Nobody
  MaxDials = 4
  MaxAsks = 2
INVARIANTS
  AnswersGoToWhoAsked
CHECK_DEADLOCK FALSE
