---------------------------- MODULE MCRunEngine -----------------------------
(* Small instances of RunEngine for TLC. *)
EXTENDS PlanGate, MCStepText, MCAnswers, MCReporting

Base(i, n) ==
  [id |-> i, needs |-> n, kind |-> "http", target |-> "setup", method |-> "writes",
   what |-> "w1", claim |-> "c1", onFailure |-> "continue", tries |-> 1]

\* Every dependency graph over three steps, circles included, whose first step aborts or
\* does not; a step that depends on itself; on a step there is not; an id used twice.
Graphs ==
  {[i \in 1..3 |-> [Base(i, g[i]) EXCEPT !.onFailure = IF i = a THEN "abort" ELSE "continue"]] :
     g \in {h \in [1..3 -> SUBSET (1..3)] : \A i \in 1..3 : i \notin h[i]}, a \in 0..1}
  \cup {[i \in 1..3 |-> Base(i, IF i = 2 THEN {d} ELSE {})] : d \in {2, 4}}
  \cup {[i \in 1..3 |-> Base(IF i = 3 THEN 2 ELSE i, IF i = 1 THEN {2} ELSE {})]}

\* A step of every kind that is tried twice, a request that may or may not write, and a
\* step that depends on the first.
Kinds ==
  {[i \in 1..3 |->
      CASE i = 1 -> [Base(1, {}) EXCEPT !.kind = k, !.target = t, !.tries = 2]
        [] i = 2 -> [Base(2, {}) EXCEPT !.method = m]
        [] i = 3 -> [Base(3, {1}) EXCEPT !.method = "reads"]] :
     k \in {"http", "sql", "shell"}, t \in {"setup", "verify"}, m \in {"reads", "writes"}}

MCCases ==
  [plan: Graphs, wired: {{}}]
  \cup [plan: Kinds, wired: {{"sql", "repairer"}, {"sql", "shell", "state"}}]
  \cup [plan: {p \in Kinds : p[1].kind # "http" /\ p[2].method = "reads"},
        wired: {{"sql", "shell", "repairer"}}]

\* What the machine is given was written by others, and what it reads comes back as text:
\* every step text and every answer of the small instances.  The gates of the dashboard let
\* through what the machine loads.
StepTextsLoad == at # "loading" => EveryTextLoads

\* A step means the same where it was written, pushed, opened and kept.
StepTextsKeepTheirMeaning == at # "loading" => EveryTextKeepsItsMeaning

\* What a passing attempt read into a variable is, wherever it is written, what was sent.
ValuesComeBack == at # "loading" => EveryValueComesBack

\* A check reads the channel it is named for, and it and its opposite never agree.
ChecksReadTheirChannel == at # "loading" => EveryCheckReadsItsChannel

\* The run.Result of this run.
IdText == <<Ink, <<"wide">>, <<"plain", "plain">>, <<"white", "quote">>>>

ResultNow ==
  [outcome |-> verdict, moved |-> <<>>, stateErr |-> IF ledger.blinded THEN Ink ELSE <<>>,
   steps |-> [k \in DOMAIN result |->
     LET i == result[k].step IN
     [WentBy(plan[i].kind, result[k].status, IdText[plan[i].id]) EXCEPT
        !.moved = IF ledger.moved[i] # 0 THEN <<[unit |-> Ink, rows |-> ledger.moved[i]]>> ELSE <<>>]]]

\* The report of a run is taken at the door and can be stored, and then the transcript, the
\* history of this machine and the dashboard say the same of the run: of one the engine did,
\* and of every result of the small instances.
RecordsAgree ==
  /\ at # "loading" => EveryReportIsTaken /\ EveryRecordAgrees
  /\ at = "done" => TakenAtTheDoor(ResultNow, Plan1) /\ RecordsSayTheSame(ResultNow, Plan1)
  /\ at = "refused" => ParsedReport(CouldNot).error = "none"

\* A square of the dashboard is what the newest run that reached the endpoint showed, and the
\* plan's card, the failure a reviewer is shown, the list of runs and the trend agree with it.
PagesFollowTheRuns == at # "loading" => SquaresAreNews /\ PlanPagesAgree
=============================================================================
