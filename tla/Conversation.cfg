\* Three questions in one thread, two attempts at each.
SPECIFICATION ThreadSpec
CONSTANTS
  Question = {q1, q2, q3}
  Nothing = Nothing
  MaxAttempts = 2
  MaxPlaces = 7
INVARIANTS
  AnswersFollowTheirQuestions
SYMMETRY Symmetry
CHECK_DEADLOCK FALSE
