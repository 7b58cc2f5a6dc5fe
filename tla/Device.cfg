\* Two codes, two users or two clicks of one, and a secret that leaked.
SPECIFICATION Spec
CONSTANTS
  Code = {c1, c2}
  User = {u1, u2}
  Dir = {d1, d2}
  Submit = {s1, s2}
  Poll = {p1, p2}
  Nothing = Nothing
INVARIANTS
  TokenIsTheApproval
CHECK_DEADLOCK FALSE
