---------------------------- MODULE MachineQueue ----------------------------
(***************************************************************************)
(* The machine half of the jobs table: errands the dashboard queues and a  *)
(* developer's machine carries out (web/src/lib/db/cli.ts and jobs.ts).    *)
(*                                                                         *)
(* Two kinds of row are kept apart by the code and here: a test_executions *)
(* row is the run, a jobs row is the errand.  An execute_tests errand      *)
(* names its run in its payload and is created with it, so both share one  *)
(* id; an index_codebase errand has no run.                                *)
(*                                                                         *)
(* A statement, or a db.transaction, is one atomic step: each locks the    *)
(* job row it is about before it reads anything else.  The claim route is  *)
(* not a transaction: it reaps (two UPDATEs), settles the run behind each  *)
(* reaped errand, claims, and starts the claimed run, and another request, *)
(* a machine or a failure of the web process can come between any two.     *)
(*                                                                         *)
(* Machines are not trusted: any machine may call about any errand at any  *)
(* time, as a stale process, a delayed call or an id read from a log would.*)
(*                                                                         *)
(* Operators whose names end in _ are mutants: what a plausible slip would *)
(* make of the operator after them.  Nothing uses them but the mutation    *)
(* runs, which put one in the place of its original.                       *)
(***************************************************************************)
EXTENDS Naturals

CONSTANTS
  Machine,      \* instance ids of command line tools
  NoMachine,    \* claimed_by IS NULL
  Plan,         \* approved plans
  NoPlan,       \* the plan of an errand that is not a run
  Step,         \* step ids of a plan
  Request,      \* claim requests the web process serves at once
  MaxJobs,      \* bound: errands ever queued
  MaxAttempts,  \* jobs.max_attempts
  MaxClicks,    \* bound: "read my code again" handlers in flight at once
  MaxCrashes,   \* bound: claim requests that die half way
  Timely        \* TRUE: a request is over well within the backoff and the reap's patience

ASSUME MachineAssumption == NoMachine \notin Machine
ASSUME PlanAssumption == NoPlan \notin Plan
ASSUME BoundsAssumption ==
  /\ MaxJobs \in Nat
  /\ MaxAttempts \in Nat \ {0}
  /\ MaxClicks \in Nat
  /\ MaxCrashes \in Nat
  /\ Timely \in BOOLEAN

VARIABLES
  kind,       \* jobs.type, "none" before the row exists
  status,     \* jobs.status
  claimedBy,  \* jobs.claimed_by
  attempts,   \* jobs.attempts
  verdict,    \* jobs.result.outcome
  quiet,      \* claimed errands whose claimed_at is older than ABANDON_AFTER
  cooling,    \* pending errands whose next_retry_at is still to come
  runPlan,    \* test_executions.test_plan_id
  runStatus,  \* test_executions.status
  rows,       \* test_results of the run, by step
  at,         \* where each claim request is
  caller,     \* the machine that sent it
  owedPending,\* errands it revived and whose run it has yet to settle
  owedError,  \* errands it declared dead and whose run it has yet to settle
  handing,    \* the errand it claimed and whose run it has yet to start
  clicks,     \* re-read handlers past their check and before their insert
  crashes     \* claim requests that died so far

jobVars   == <<kind, status, claimedBy, attempts, verdict, quiet, cooling>>
boardVars == <<runPlan, runStatus, rows>>
reqVars   == <<at, caller, owedPending, owedError, handing, crashes>>
vars      == <<jobVars, boardVars, reqVars, clicks>>

JobId  == 1..MaxJobs
NoJob  == 0
Kind   == {"execute_tests", "index_codebase"}
Status == {"pending", "claimed", "completed", "dead"}

Board == INSTANCE RunBoard WITH Run <- JobId

Init ==
  /\ kind        = [j \in JobId |-> "none"]
  /\ status      = [j \in JobId |-> "none"]
  /\ claimedBy   = [j \in JobId |-> NoMachine]
  /\ attempts    = [j \in JobId |-> 0]
  /\ verdict     = [j \in JobId |-> "none"]
  /\ quiet       = {}
  /\ cooling     = {}
  /\ Board!Init
  /\ at          = [q \in Request |-> "idle"]
  /\ caller      = [q \in Request |-> NoMachine]
  /\ owedPending = [q \in Request |-> {}]
  /\ owedError   = [q \in Request |-> {}]
  /\ handing     = [q \in Request |-> NoJob]
  /\ clicks      = 0
  /\ crashes     = 0

-----------------------------------------------------------------------------
(* Queueing.                                                               *)

IsNext(j) == status[j] = "none" /\ \A i \in JobId : i < j => status[i] # "none"

Insert(j, type) ==
  /\ IsNext(j)
  /\ kind'   = [kind EXCEPT ![j] = type]
  /\ status' = [status EXCEPT ![j] = "pending"]
  /\ UNCHANGED <<claimedBy, attempts, verdict, quiet, cooling>>

\* enqueueRun: the run and its errand in one transaction.  The insert of the run
\* defers to test_executions_one_live_idx; on a conflict nothing is written.
EnqueueRun(j, p) ==
  /\ ~Board!HasLiveRun(p)
  /\ Insert(j, "execute_tests")
  /\ runPlan'   = [runPlan EXCEPT ![j] = p]
  /\ runStatus' = [runStatus EXCEPT ![j] = "pending"]
  /\ UNCHANGED <<rows, reqVars, clicks>>

IsOpen(j) == status[j] \in {"pending", "claimed"}

\* enqueueIndex reads first and writes in a second statement.
EnqueueIndexCheck ==
  /\ clicks < MaxClicks
  /\ \A j \in JobId : kind[j] = "index_codebase" => ~IsOpen(j)
  /\ clicks' = clicks + 1
  /\ UNCHANGED <<jobVars, boardVars, reqVars>>

EnqueueIndexInsert(j) ==
  /\ clicks > 0
  /\ Insert(j, "index_codebase")
  /\ clicks' = clicks - 1
  /\ UNCHANGED <<boardVars, reqVars>>

-----------------------------------------------------------------------------
(* The claim route.                                                        *)

Goto(q, from, to) == at[q] = from /\ at' = [at EXCEPT ![q] = to]

\* A machine polls; the route has recorded the sighting and is about to reap.
Poll(q, m) ==
  /\ Goto(q, "idle", "revive")
  /\ caller' = [caller EXCEPT ![q] = m]
  /\ UNCHANGED <<jobVars, boardVars, owedPending, owedError, handing, clicks, crashes>>

Stale      == {j \in quiet : status[j] = "claimed"}
Revivable  == {j \in Stale : attempts[j] < MaxAttempts}
Spent      == {j \in Stale : attempts[j] >= MaxAttempts}
RunsAmong(S) == {j \in S : kind[j] = "execute_tests"}

\* reapAbandoned, first UPDATE: abandoned errands with attempts left go back.
ReapRevive(q) ==
  /\ Goto(q, "revive", "bury")
  /\ status'      = [j \in JobId |-> IF j \in Revivable THEN "pending" ELSE status[j]]
  /\ claimedBy'   = [j \in JobId |-> IF j \in Revivable THEN NoMachine ELSE claimedBy[j]]
  /\ quiet'       = quiet \ Revivable
  /\ cooling'     = cooling \cup Revivable
  /\ owedPending' = [owedPending EXCEPT ![q] = RunsAmong(Revivable)]
  /\ UNCHANGED <<kind, attempts, verdict, boardVars, caller, owedError, handing, clicks, crashes>>

\* reapAbandoned, second UPDATE: abandoned errands without go dead.
ReapBury(q) ==
  /\ Goto(q, "bury", "settle")
  /\ status'    = [j \in JobId |-> IF j \in Spent THEN "dead" ELSE status[j]]
  /\ quiet'     = quiet \ Spent
  /\ owedError' = [owedError EXCEPT ![q] = RunsAmong(Spent)]
  /\ UNCHANGED <<kind, claimedBy, attempts, verdict, cooling, boardVars, caller, owedPending,
                 handing, clicks, crashes>>

\* Mutant: settleRunOf moves the run whatever it reads.
SettleRunOfAny_(j, to) == runStatus' = [runStatus EXCEPT ![j] = to]

\* settleRunOf moves a run only if it reads running.
SettleRunOf(j, to) ==
  runStatus' = IF runStatus[j] = "running" THEN [runStatus EXCEPT ![j] = to] ELSE runStatus

SettleRevived(q, j) ==
  /\ at[q] = "settle"
  /\ j \in owedPending[q]
  /\ SettleRunOf(j, "pending")
  /\ owedPending' = [owedPending EXCEPT ![q] = @ \ {j}]
  /\ UNCHANGED <<jobVars, runPlan, rows, at, caller, owedError, handing, clicks, crashes>>

SettleDead(q, j) ==
  /\ at[q] = "settle"
  /\ owedPending[q] = {}
  /\ j \in owedError[q]
  /\ SettleRunOf(j, "error")
  /\ owedError' = [owedError EXCEPT ![q] = @ \ {j}]
  /\ UNCHANGED <<jobVars, runPlan, rows, at, caller, owedPending, handing, clicks, crashes>>

Claimable(j) == status[j] = "pending" /\ j \notin cooling

\* claimNextJob's UPDATE: the oldest errand whose retry time has come.
ClaimNextJob(q, j) ==
  /\ owedPending[q] = {} /\ owedError[q] = {}
  /\ Claimable(j) /\ \A i \in JobId : i < j => ~Claimable(i)
  /\ status'    = [status EXCEPT ![j] = "claimed"]
  /\ claimedBy' = [claimedBy EXCEPT ![j] = caller[q]]
  /\ attempts'  = [attempts EXCEPT ![j] = @ + 1]
  /\ handing'   = [handing EXCEPT ![q] = IF kind[j] = "execute_tests" THEN j ELSE NoJob]
  /\ caller'   = [caller EXCEPT ![q] = NoMachine]
  /\ Goto(q, "settle", IF kind[j] = "execute_tests" THEN "start" ELSE "idle")
  /\ UNCHANGED <<kind, verdict, quiet, cooling, boardVars, owedPending, owedError, clicks, crashes>>

ClaimNothing(q) ==
  /\ owedPending[q] = {} /\ owedError[q] = {}
  /\ \A j \in JobId : ~Claimable(j)
  /\ Goto(q, "settle", "idle")
  /\ caller' = [caller EXCEPT ![q] = NoMachine]
  /\ UNCHANGED <<jobVars, boardVars, owedPending, owedError, handing, clicks, crashes>>

\* claimNextJob's second statement, outside any transaction.
StartRun(q) ==
  /\ Goto(q, "start", "idle")
  /\ LET j == handing[q]
     IN  runStatus' = IF runStatus[j] = "pending" THEN [runStatus EXCEPT ![j] = "running"]
                      ELSE runStatus
  /\ handing' = [handing EXCEPT ![q] = NoJob]
  /\ UNCHANGED <<jobVars, runPlan, rows, caller, owedPending, owedError, clicks, crashes>>

\* The web process, or its connection to the database, dies under the request.
RequestDies(q) ==
  /\ at[q] # "idle"
  /\ crashes < MaxCrashes
  /\ crashes'     = crashes + 1
  /\ at'          = [at EXCEPT ![q] = "idle"]
  /\ caller'      = [caller EXCEPT ![q] = NoMachine]
  /\ owedPending' = [owedPending EXCEPT ![q] = {}]
  /\ owedError'   = [owedError EXCEPT ![q] = {}]
  /\ handing'     = [handing EXCEPT ![q] = NoJob]
  /\ UNCHANGED <<jobVars, boardVars, clicks>>

-----------------------------------------------------------------------------
(* What a machine says about an errand.  Every call is gated on the errand *)
(* being claimed, and by the machine that calls.                           *)

BeingHanded(j) == \E q \in Request : handing[q] = j
Overtaking(j)  == Timely /\ BeingHanded(j)

Holds(m, j) == status[j] = "claimed" /\ claimedBy[j] = m

HeartbeatJob(m, j) ==
  /\ Holds(m, j) /\ ~Overtaking(j)
  /\ quiet' = quiet \ {j}
  /\ UNCHANGED <<kind, status, claimedBy, attempts, verdict, cooling, boardVars, reqVars, clicks>>

\* Mutant: recordSteps asks whose errand it was and not whether it is still claimed.
RecordStepsLate_(m, j, S) ==
  /\ claimedBy[j] = m /\ ~Overtaking(j)
  /\ quiet' = quiet \ {j}
  /\ rows'  = IF kind[j] = "execute_tests"
              THEN [rows EXCEPT ![j] = [s \in Step |-> IF s \in S THEN "preview" ELSE @[s]]]
              ELSE rows
  /\ UNCHANGED <<kind, status, claimedBy, attempts, verdict, cooling, runPlan, runStatus, reqVars,
                 clicks>>

\* recordSteps: renews the claim and replaces the previews of the steps it names.
RecordSteps(m, j, S) ==
  /\ Holds(m, j) /\ ~Overtaking(j)
  /\ quiet' = quiet \ {j}
  /\ rows'  = IF kind[j] = "execute_tests"
              THEN [rows EXCEPT ![j] = [s \in Step |-> IF s \in S THEN "preview" ELSE @[s]]]
              ELSE rows
  /\ UNCHANGED <<kind, status, claimedBy, attempts, verdict, cooling, runPlan, runStatus, reqVars,
                 clicks>>

\* writeResults: the previous rows are not this report's answer.
WriteResults(j, S) ==
  rows' = [rows EXCEPT ![j] = [s \in Step |-> IF s \in S THEN "record" ELSE "none"]]

\* completeJob: job, rows and run in one transaction.
CompleteJob(m, j, outcome, S) ==
  /\ Holds(m, j) /\ ~Overtaking(j)
  /\ status'  = [status EXCEPT ![j] = "completed"]
  /\ verdict' = [verdict EXCEPT ![j] = outcome]
  /\ quiet'   = quiet \ {j}
  /\ \/ /\ kind[j] = "execute_tests"
        /\ WriteResults(j, S)
        /\ runStatus' = IF runStatus[j] \in Board!Live THEN [runStatus EXCEPT ![j] = outcome]
                        ELSE runStatus
        /\ UNCHANGED runPlan
     \/ /\ kind[j] # "execute_tests"
        /\ UNCHANGED boardVars
  /\ UNCHANGED <<kind, claimedBy, attempts, cooling, reqVars, clicks>>

\* releaseJob while attempts remain: back behind the same backoff as a reap.
ReleaseRequeued(m, j) ==
  /\ Holds(m, j) /\ ~Overtaking(j)
  /\ attempts[j] < MaxAttempts
  /\ status'    = [status EXCEPT ![j] = "pending"]
  /\ claimedBy' = [claimedBy EXCEPT ![j] = NoMachine]
  /\ quiet'     = quiet \ {j}
  /\ cooling'   = cooling \cup {j}
  /\ SettleRunOf(j, "pending")
  /\ UNCHANGED <<kind, attempts, verdict, runPlan, rows, reqVars, clicks>>

\* Mutant: the errand dies and its run is not told.
ReleaseDeadUntold_(m, j) ==
  /\ Holds(m, j) /\ ~Overtaking(j)
  /\ attempts[j] >= MaxAttempts
  /\ status' = [status EXCEPT ![j] = "dead"]
  /\ quiet'  = quiet \ {j}
  /\ UNCHANGED <<kind, claimedBy, attempts, verdict, cooling, boardVars, reqVars, clicks>>

\* releaseJob on the last attempt.
ReleaseDead(m, j) ==
  /\ Holds(m, j) /\ ~Overtaking(j)
  /\ attempts[j] >= MaxAttempts
  /\ status' = [status EXCEPT ![j] = "dead"]
  /\ quiet'  = quiet \ {j}
  /\ SettleRunOf(j, "error")
  /\ UNCHANGED <<kind, claimedBy, attempts, verdict, cooling, runPlan, rows, reqVars, clicks>>

-----------------------------------------------------------------------------
(* The clock.                                                              *)

\* Ninety seconds without a word from the claimant.
GoQuiet(j) ==
  /\ status[j] = "claimed" /\ j \notin quiet
  /\ ~Overtaking(j)
  /\ quiet' = quiet \cup {j}
  /\ UNCHANGED <<kind, status, claimedBy, attempts, verdict, cooling, boardVars, reqVars, clicks>>

\* The backoff, ten seconds for every attempt made, is over.
RetryDue(j) ==
  /\ j \in cooling
  /\ Timely => \A q \in Request : j \notin owedPending[q]
  /\ cooling' = cooling \ {j}
  /\ UNCHANGED <<kind, status, claimedBy, attempts, verdict, quiet, boardVars, reqVars, clicks>>

-----------------------------------------------------------------------------
RequestStep(q) ==
  \/ ReapRevive(q)
  \/ ReapBury(q)
  \/ \E j \in JobId : SettleRevived(q, j)
  \/ \E j \in JobId : SettleDead(q, j)
  \/ \E j \in JobId : ClaimNextJob(q, j)
  \/ ClaimNothing(q)
  \/ StartRun(q)

MachineCall(m, j) ==
  \/ HeartbeatJob(m, j)
  \/ \E S \in SUBSET Step : RecordSteps(m, j, S)
  \/ \E S \in SUBSET Step, outcome \in Board!Verdict : CompleteJob(m, j, outcome, S)
  \/ ReleaseRequeued(m, j)
  \/ ReleaseDead(m, j)

Next ==
  \/ \E j \in JobId, p \in Plan : EnqueueRun(j, p)
  \/ EnqueueIndexCheck
  \/ \E j \in JobId : EnqueueIndexInsert(j)
  \/ \E q \in Request, m \in Machine : Poll(q, m)
  \/ \E q \in Request : RequestStep(q)
  \/ \E q \in Request : RequestDies(q)
  \/ \E m \in Machine, j \in JobId : MachineCall(m, j)
  \/ \E j \in JobId : GoQuiet(j)
  \/ \E j \in JobId : RetryDue(j)

Spec == Init /\ [][Next]_vars

\* A request the web process has taken up is carried through unless it dies.
FairSpec == Spec /\ \A q \in Request : WF_vars(RequestStep(q))

-----------------------------------------------------------------------------
(* Properties.                                                             *)

\* Every column holds a value of its type, and a request keeps to its stages.
TypeOK ==
  /\ kind \in [JobId -> Kind \cup {"none"}]
  /\ status \in [JobId -> Status \cup {"none"}]
  /\ claimedBy \in [JobId -> Machine \cup {NoMachine}]
  /\ attempts \in [JobId -> 0..MaxAttempts]
  /\ verdict \in [JobId -> Board!Verdict \cup {"none"}]
  /\ quiet \subseteq JobId
  /\ cooling \subseteq JobId
  /\ runPlan \in [JobId -> Plan \cup {NoPlan}]
  /\ runStatus \in [JobId -> Board!Live \cup Board!Verdict \cup {"none"}]
  /\ rows \in [JobId -> [Step -> Board!Row]]
  /\ at \in [Request -> {"idle", "revive", "bury", "settle", "start"}]
  /\ caller \in [Request -> Machine \cup {NoMachine}]
  /\ owedPending \in [Request -> SUBSET JobId]
  /\ owedError \in [Request -> SUBSET JobId]
  /\ handing \in [Request -> JobId \cup {NoJob}]
  /\ clicks \in 0..MaxClicks
  /\ crashes \in 0..MaxCrashes

IsErrandOf(j, p) == kind[j] = "execute_tests" /\ runPlan[j] = p

\* An errand per run and not per click: however often a run is asked for, reaped
\* and handed out again, two open errands never carry the same plan.
OneErrandPerPlan ==
  \A p \in Plan : \A i, j \in JobId :
    (i # j /\ IsErrandOf(i, p) /\ IsErrandOf(j, p)) => ~(IsOpen(i) /\ IsOpen(j))

\* No machine is handed a run that has already been judged or given up: an errand
\* that can still be claimed or is claimed belongs to a live run.
OpenErrandHasLiveRun ==
  \A j \in JobId : (kind[j] = "execute_tests" /\ IsOpen(j)) => runStatus[j] \in Board!Live

\* claimNextJob adds one to attempts without looking at max_attempts, and the CHECK
\* jobs_attempts_within_max would fail every poll of the project: whatever puts an
\* errand back in the queue must leave it an attempt.
PendingHasAttemptLeft ==
  \A j \in JobId : status[j] = "pending" => attempts[j] < MaxAttempts

\* Completed means the verdict landed and is the one reported, with no preview left
\* beside the record, whatever reaps, starts and previews raced the report.
CompletedRunIsItsReport ==
  \A j \in JobId : (kind[j] = "execute_tests" /\ status[j] = "completed") =>
    /\ runStatus[j] = verdict[j]
    /\ \A s \in Step : rows[j][s] # "preview"

\* The queue as the dashboard sees it: runs are asked for one at a time for a plan,
\* settle once, with their rows, and are never moved again.
ImplementsRunBoard == Board!Spec

Owed(j) == \E q \in Request : j \in owedError[q]

\* A live run has something left to move it: an open errand, or the request that
\* buried its errand and is about to settle it.  A run with neither holds the
\* plan's one live slot for ever.
LiveRunIsAccountedFor ==
  \A j \in JobId : runStatus[j] \in Board!Live => (IsOpen(j) \/ Owed(j))

\* What the dashboard says of a run agrees with its errand: running while a machine
\* has it, waiting while nobody has, but for the gaps the claim route leaves open.
RunMirrorsErrand ==
  \A j \in JobId :
    /\ runStatus[j] = "running" =>
         \/ status[j] = "claimed"
         \/ \E q \in Request : j \in owedPending[q] \cup owedError[q]
    /\ runStatus[j] = "pending" => status[j] = "pending" \/ BeingHanded(j)

\* An errand past its last attempt ends its run, which is what frees the plan
\* (the comment on reapAbandoned: "Past max_attempts it goes dead and the run it
\* belonged to goes error").
DeadErrandFreesPlan ==
  \A j \in JobId :
    (kind[j] = "execute_tests" /\ status[j] = "dead") ~> (runStatus[j] \notin Board!Live)

\* A claim that does not hold, stated to be added to a configuration: queueing a re-read
\* twice reports the first instead of stacking a duplicate (the comment on enqueueIndex).
OneIndexErrand ==
  \A i, j \in JobId :
    (i # j /\ kind[i] = "index_codebase" /\ kind[j] = "index_codebase") => ~(IsOpen(i) /\ IsOpen(j))
=============================================================================
