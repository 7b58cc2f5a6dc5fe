----------------------------- MODULE PlanReads ------------------------------
(***************************************************************************)
(* What the dashboard reads of a plan's runs: the last run on its card,    *)
(* the failure a reviewer is asked about, its pass rate and its trend      *)
(* (web/src/lib/db/plans.ts), and the list of runs and the run a red       *)
(* square is put down to (web/src/lib/runs.ts).                            *)
(*                                                                         *)
(* A run is a row of test_executions with its test_results: [status,       *)
(* version, createdAt, startedAt, rows].  The runs of a plan are a         *)
(* sequence in the order they were asked for.                              *)
(***************************************************************************)
EXTENDS Reporting

CONSTANTS
  HistoryLimit,   \* runs the list goes back
  ReportLimit     \* runs whose report is loaded with it

ASSUME PlanReadsBounds == HistoryLimit \in Nat \ {0} /\ ReportLimit \in Nat \ {0}

\* coalesce(started_at, created_at): a run that has not started is dated from the ask.
Happened(run) == IF run.startedAt = Unsaid THEN run.createdAt ELSE run.startedAt

Tally(rows, how) == Cardinality({k \in DOMAIN rows : rows[k].status = how})

Newest(runs, among) == CHOOSE k \in among : \A j \in among : Happened(runs[j]) <= Happened(runs[k])

\* lastRunLabel: a run of an older text says so.
LastRunLabel(runVersion, planVersion) == IF runVersion < planVersion THEN runVersion ELSE Unsaid

\* lastRuns and toTestPlan: the run on the plan's card.
LastRun(runs, planVersion) ==
  IF runs = <<>> THEN Unsaid
  ELSE LET k == Newest(runs, DOMAIN runs) IN
       [run |-> k, status |-> runs[k].status, total |-> Len(runs[k].rows),
        passed |-> Tally(runs[k].rows, "passed"),
        label |-> LastRunLabel(runs[k].version, planVersion)]

\* previousFailures: of the failed runs of older texts the newest, and its first broken row.
PreviousFailure(runs, planVersion) ==
  LET failed == {k \in DOMAIN runs : /\ runs[k].status = "failed"
                                     /\ runs[k].version < planVersion
                                     /\ BrokeIn(runs[k].rows)}
  IN  IF failed = {} THEN Unsaid
      ELSE LET k == CHOOSE j \in failed : \A i \in failed \ {j} : Later(runs, <<j, 1>>, <<i, 1>>)
           IN  [run |-> k, row |-> Min({r \in DOMAIN runs[k].rows : runs[k].rows[r].status \in Bad})]

\* toFailureSeed: what is quoted of the row is the first of its checks, and a row without any
\* is not shown.
FailureSeed(runs, failure) ==
  LET row == runs[failure.run].rows[failure.row] IN
  IF row.assertions = Unsaid THEN Unsaid
  ELSE [version |-> runs[failure.run].version, stepId |-> row.stepId, quoted |-> 1]

\* Math.round of a quotient.
Rounded(q) == (2 * q[1] + q[2]) \div (2 * q[2])

\* planPassRates, for one plan: Unsaid when it has too few judged runs to be ranked.
PassRate(runs, minRuns) ==
  LET judged  == {k \in DOMAIN runs : runs[k].status \in {"passed", "failed"}}
      recency(k) == 1 + Cardinality({j \in judged : Later(runs, <<j, 1>>, <<k, 1>>)})
      recent   == {k \in judged : recency(k) * 3 <= Cardinality(judged)}
      steps(S)  == UNION {{k} \X DOMAIN runs[k].rows : k \in S}
      cells(S)  == Cardinality(steps(S))
      passed(S) == Cardinality({c \in steps(S) : runs[c[1]].rows[c[2]].status = "passed"})
      rate     == Rounded(<<100 * passed(judged), cells(judged)>>)
      share(S) == IF cells(S) = 0 THEN <<rate, 1>> ELSE <<100 * passed(S), cells(S)>>
      x        == share(recent)
      y        == share(judged \ recent)
      shift    == Rounded(<<x[1] * y[2] - y[1] * x[2], x[2] * y[2]>>)
  IN  IF Cardinality(judged) < minRuns \/ cells(judged) = 0 THEN Unsaid
      ELSE [rate |-> rate, runs |-> Cardinality(judged), delta |-> shift, recent |-> x, older |-> y,
            direction |-> IF shift > 0 THEN "up" ELSE IF shift < 0 THEN "down" ELSE "flat"]

-----------------------------------------------------------------------------
(* The list of runs.                                                       *)

\* executionHistory, recentExecutions, rowFor and runRowsOf: newest first, as far back as
\* the window, and the newest of them with what their steps did.
RunRows(runs) ==
  LET newer(k) == {j \in DOMAIN runs : \/ Happened(runs[j]) > Happened(runs[k])
                                       \/ Happened(runs[j]) = Happened(runs[k]) /\ j < k}
      entry(n, k, run) ==
        [run |-> k, status |-> run.status, detail |-> IF n <= ReportLimit THEN run.rows ELSE <<>>,
         steps |-> Len(run.rows), passed |-> Tally(run.rows, "passed")]
  IN  [n \in 1..Min({HistoryLimit, Len(runs)}) |->
         LET k == CHOOSE j \in DOMAIN runs : Cardinality(newer(j)) = n - 1 IN entry(n, k, runs[k])]

\* failedRunForEndpoint: the newest run with a step that broke there; none is 0.
FailedRunForEndpoint(list, sig) ==
  LET found == SelectInSeq(list, LAMBDA e : \E k \in DOMAIN e.detail :
              /\ e.detail[k].method = sig.method
              /\ e.detail[k].routePattern = sig.path
              /\ e.detail[k].status \in Bad)
  IN  IF found = 0 THEN 0 ELSE list[found].run

\* matchesStatus.
MatchesStatus(entry, filter) ==
  CASE filter = "failed"  -> entry.status \in Bad
    [] filter = "passed"  -> entry.status = "passed"
    [] filter = "running" -> entry.status \in {"running", "pending"}
    [] OTHER -> TRUE

\* runCountsOf.
RunCounts(list) ==
  [filter \in {"all", "failed", "passed", "running"} |->
     CASE filter = "all"    -> Len(list)
       [] filter = "failed" -> Len(SelectSeq(list, LAMBDA e : e.status \in {"failed", "error"}))
       [] filter = "passed" -> Len(SelectSeq(list, LAMBDA e : e.status = "passed"))
       [] OTHER             -> Len(SelectSeq(list, LAMBDA e : e.status \in {"running", "pending"}))]

-----------------------------------------------------------------------------
(* Properties of every history of a plan.                                  *)

\* The pages say one thing of a plan, once all its runs have started and no two at once: a card
\* that says passed stands beside no red square of what its run reached; a card that says a text
\* since revised failed comes with that failure; the failure shown is where its run stopped; a
\* red square is put down to the run that made it red, or to none where no run whose report is
\* loaded reached it; a trend is of the newest runs against the older; and a filter lists as
\* many runs as it says.
PagesSayTheSame(runs, planVersion, sig, minRuns) ==
  LET card    == LastRun(runs, planVersion)
      failure == PreviousFailure(runs, planVersion)
      list    == RunRows(runs)
      red     == SquareOf(runs, sig, Unsaid, "approved") = "failing"
      blamed  == FailedRunForEndpoint(list, sig)
      rate    == PassRate(runs, minRuns)
      reached(k) == \E r \in DOMAIN runs[k].rows : EvidenceOn(runs[k].rows[r], sig)
  IN  /\ card.status = "passed" /\ reached(card.run) => ~red
      /\ card.status = "passed" => card.passed = card.total
      /\ card.status = "failed" /\ card.label # Unsaid => failure # Unsaid /\ failure.run = card.run
      /\ failure # Unsaid => StoppedAt(runs[failure.run].rows) = failure.row
      /\ red /\ blamed # 0 => \A k \in DOMAIN runs : Happened(runs[k]) > Happened(runs[blamed]) => ~reached(k)
      /\ red /\ blamed = 0 => \A n \in DOMAIN list : n <= ReportLimit => ~reached(list[n].run)
      /\ rate # Unsaid =>
           /\ rate.direction = "up"   => rate.recent[1] * rate.older[2] > rate.older[1] * rate.recent[2]
           /\ rate.direction = "down" => rate.recent[1] * rate.older[2] < rate.older[1] * rate.recent[2]
           /\ card.status = "passed" /\ rate.runs > 2 /\ rate.older[1] = 0 => rate.direction = "up"
      /\ \A filter \in DOMAIN RunCounts(list) :
           RunCounts(list)[filter] = Len(SelectSeq(list, LAMBDA e : MatchesStatus(e, filter)))

\* What is quoted of a failure is a check that failed (draft.ts: "The last run failed at step s:
\* expected e, got a").  It is not: see the README.
SeedQuotesWhatFailed(runs, planVersion) ==
  LET failure == PreviousFailure(runs, planVersion)
      seed    == FailureSeed(runs, failure)
  IN  failure # Unsaid /\ seed # Unsaid =>
        seed.quoted \in Unmet(runs[failure.run].rows[failure.row].assertions)
=============================================================================
