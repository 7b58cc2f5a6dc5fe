------------------------------ MODULE PlanGate -------------------------------
(***************************************************************************)
(* The gate of the dashboard's plan editor (web/src/lib/plan-edit.ts)      *)
(* beside the loader and the ordering of the machine (RunEngine): what the *)
(* one lets through the other must be able to run, and a plan that would   *)
(* run is not refused by the form.                                         *)
(*                                                                         *)
(* Two programs, in two languages, decide the same question.  The form     *)
(* asks it of step ids; the machine answers by building an order.          *)
(***************************************************************************)
EXTENDS RunEngine

\* planProblems: a step whose id another step has.
Twins == {i \in Position : \E j \in Position \ {i} : plan[j].id = plan[i].id}

Known == {plan[i].id : i \in Position}

\* planProblems: a step that depends on itself, or on a step there is not.
Dangling == {i \in Position : \E d \in plan[i].needs : d = plan[i].id \/ d \notin Known}

\* Mutant: a step is ready when something it waits for is there.
FreeOnAny_(placed, i) ==
  plan[i].needs = {} \/ \E d \in plan[i].needs : d \in placed \/ d = plan[i].id \/ d \notin Known

\* circular's ready: what is missing, or the step itself, counts as there, so that one
\* mistake is not reported twice.
Free(placed, i) == \A d \in plan[i].needs : d \in placed \/ d = plan[i].id \/ d \notin Known

\* circular: the ids placed after so many passes over the steps.
PlacedAfter[n \in 0..StepCount] ==
  IF n = 0 THEN {}
  ELSE LET placed == PlacedAfter[n - 1]
       IN  placed \cup {plan[i].id : i \in {j \in Position : Free(placed, j)}}

CircularSteps == {i \in Position : plan[i].id \notin PlacedAfter[StepCount]}

\* Nothing for the form to list, as far as ids and dependencies go.
EditorAccepts == Twins = {} /\ Dangling = {} /\ CircularSteps = {}

\* The editor is held to the machine's own bar (plan-edit.ts: "the editor is held to
\* exactly the bar `Validate()` holds a plan to"): the machine takes and orders every plan
\* the form accepts, and no plan it refuses.  What a run lacks the means for is neither's.
EditorHoldsTheMachinesBar ==
  /\ at = "refused" => ~EditorAccepts \/ ~CanRun
  /\ at \notin {"loading", "ordering", "refused"} => EditorAccepts

=============================================================================
