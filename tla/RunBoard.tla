------------------------------ MODULE RunBoard ------------------------------
(***************************************************************************)
(* What the dashboard promises about runs, with no queue in sight.         *)
(*                                                                         *)
(* A run is asked for, may start and be handed back any number of times,   *)
(* shows previews of its steps while it is live, and settles once.  A plan *)
(* has at most one live run.  A settled run, its verdict and its rows, is  *)
(* history: nothing moves it again.  A run settles either with the report  *)
(* of a machine, whose rows replace every preview, or with an error that   *)
(* says nobody finished it.                                                *)
(*                                                                         *)
(* MachineQueue is shown to implement this module.                         *)
(***************************************************************************)

CONSTANTS
  Run,      \* ids of test_executions rows
  Plan,     \* plans that can be run
  NoPlan,   \* the plan of a row that is not a run
  Step      \* step ids of a plan

VARIABLES
  runPlan,    \* [Run -> Plan \cup {NoPlan}], test_plan_id
  runStatus,  \* [Run -> execution_status], "none" before the row exists
  rows        \* [Run -> [Step -> row]], the run's test_results rows

boardVars == <<runPlan, runStatus, rows>>

Live    == {"pending", "running"}
Verdict == {"passed", "failed", "error"}
Row     == {"none", "preview", "record"}

NoRows == [s \in Step |-> "none"]

Init ==
  /\ runPlan   = [r \in Run |-> NoPlan]
  /\ runStatus = [r \in Run |-> "none"]
  /\ rows      = [r \in Run |-> NoRows]

HasLiveRun(p) == \E r \in Run : runPlan[r] = p /\ runStatus[r] \in Live

\* Somebody asks for a run of p, and p has none in flight.
Ask(r, p) ==
  /\ runStatus[r] = "none"
  /\ ~HasLiveRun(p)
  /\ runPlan'   = [runPlan EXCEPT ![r] = p]
  /\ runStatus' = [runStatus EXCEPT ![r] = "pending"]
  /\ UNCHANGED rows

\* The run starts, or the attempt dies and it waits again.
Shift(r, from, to) ==
  /\ runStatus[r] = from
  /\ runStatus' = [runStatus EXCEPT ![r] = to]
  /\ UNCHANGED <<runPlan, rows>>

\* Steps of a live run show up before its verdict does.
Preview(r, S) ==
  /\ runStatus[r] \in Live
  /\ rows' = [rows EXCEPT ![r] = [s \in Step |-> IF s \in S THEN "preview" ELSE @[s]]]
  /\ UNCHANGED <<runPlan, runStatus>>

\* A machine reports: verdict and rows arrive together, previews are gone.
Report(r, verdict, S) ==
  /\ runStatus[r] \in Live
  /\ runStatus' = [runStatus EXCEPT ![r] = verdict]
  /\ rows' = [rows EXCEPT ![r] = [s \in Step |-> IF s \in S THEN "record" ELSE "none"]]
  /\ UNCHANGED runPlan

\* Nobody will finish it.
GiveUp(r) ==
  /\ runStatus[r] = "running"
  /\ runStatus' = [runStatus EXCEPT ![r] = "error"]
  /\ UNCHANGED <<runPlan, rows>>

Next ==
  \E r \in Run :
    \/ \E p \in Plan : Ask(r, p)
    \/ Shift(r, "pending", "running")
    \/ Shift(r, "running", "pending")
    \/ \E S \in SUBSET Step : Preview(r, S)
    \/ \E S \in SUBSET Step, verdict \in Verdict : Report(r, verdict, S)
    \/ GiveUp(r)

Spec == Init /\ [][Next]_boardVars
=============================================================================
