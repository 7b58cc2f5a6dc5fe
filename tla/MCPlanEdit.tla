----------------------------- MODULE MCPlanEdit ------------------------------
(* Small instances of PlanEdit for TLC. *)
EXTENDS PlanEdit

CONSTANTS s1, s2, a, b

\* A step that says two things, and one that comes and goes.
Texts == {[s \in Step |-> IF s = s1 THEN c ELSE Absent] : c \in {a, b}}
         \cup {[s \in Step |-> a]}
=============================================================================
