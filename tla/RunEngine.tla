----------------------------- MODULE RunEngine ------------------------------
(***************************************************************************)
(* The engine that runs a plan on a machine (cli/internal/run), from the   *)
(* plan as it was read (cli/internal/plan/load.go) to the verdict.         *)
(*                                                                         *)
(* A plan is held to its rules, put in dependency order by repeated passes *)
(* over its steps, and walked.  A step whose dependency did not pass is    *)
(* skipped; a failed abort step leaves the rest pending; a step is tried   *)
(* again as its retry says; a failed one may be rewritten by a model, as   *)
(* far as Allowed lets it; what moved in the database is read after a step *)
(* that writes.  The run may be cancelled at any moment.                   *)
(*                                                                         *)
(* Steps are their positions in the plan.  What a request says is a value  *)
(* of What, what a step's assertions demand a value of Claim.              *)
(*                                                                         *)
(* Operators whose names end in _ are mutants of the operator after them.  *)
(***************************************************************************)
EXTENDS Integers, Sequences

CONSTANTS
  StepCount,       \* steps of a plan
  Id,              \* step ids
  What,            \* requests, statements and commands
  Claim,           \* lists of assertions, where they look aside
  Cases,           \* what a run may be given: a plan and what it is wired to
  MaxTries,        \* bound: retry.attempts
  RepairAttempts,  \* Engine.Attempts
  RepairBudget,    \* Engine.Budget
  MaxMoves         \* bound: changes the application makes to its database

Position == 1..StepCount

\* plan.Step.  "reads" and "writes" are what an HTTP method may do; "target" is setup or
\* verify for a sql step and means nothing for the others.
StepDef == [id: Id, needs: SUBSET Id, kind: {"http", "sql", "shell"},
            target: {"setup", "verify"}, method: {"reads", "writes"},
            what: What, claim: Claim, onFailure: {"abort", "continue"}, tries: 1..MaxTries]

Wiring == {"sql", "shell", "repairer", "state"}

ASSUME CasesAssumption == Cases \subseteq [plan: [Position -> StepDef], wired: SUBSET Wiring]
ASSUME LimitsAssumption == /\ StepCount \in Nat \ {0} /\ MaxTries \in Nat \ {0}
                           /\ RepairAttempts \in Nat /\ RepairBudget \in Nat
                           /\ MaxMoves \in Nat

VARIABLES
  plan,       \* the plan as it was approved
  wired,      \* what the caller gave: "sql" a SandboxDB, "shell" a ShellExec,
              \* "repairer" a Repairer, "state" a State
  at,         \* what the engine is doing
  scan,       \* Order: the step this pass is at
  progressed, \* Order: this pass placed a step
  order,      \* Order's out: positions
  pos,        \* Run's loop over the order
  step,       \* each step as last rewritten
  try,        \* the loop over a step's attempts
  status,     \* the status of the step in hand
  asked,      \* repair's n for the step in hand
  spent,      \* Engine.spent
  aborted,
  cancelled,  \* ctx.Err() is set
  settled,    \* step id -> status
  result,     \* out.Steps
  sent,       \* steps that were executed at least once
  world,      \* how far the database has moved
  ledger,     \* before, last, each step's Moved and what each step really moved
  verdict     \* out.Status

orderVars  == <<scan, progressed, order>>
walkVars   == <<pos, aborted, settled, result>>
handVars   == <<step, try, status, asked, spent, sent>>
givenVars  == <<plan, wired>>
vars == <<givenVars, at, orderVars, walkVars, handVars, cancelled, world, ledger, verdict>>

Status == {"pending", "passed", "failed", "skipped", "error"}
Broken == {"failed", "error"}
Unset  == "unset"
Blind  == -1        \* a reading that failed, or none

Init ==
  /\ \E c \in Cases : plan = c.plan /\ wired = c.wired
  /\ at = "loading"
  /\ scan = 1 /\ progressed = FALSE /\ order = <<>>
  /\ pos = 1
  /\ step = plan
  /\ try = 0 /\ status = "pending" /\ asked = 0 /\ spent = 0
  /\ aborted = FALSE /\ cancelled = FALSE
  /\ settled = [i \in Id |-> Unset]
  /\ result = <<>>
  /\ sent = {}
  /\ world = 0
  /\ ledger = [before |-> Blind, last |-> Blind, blinded |-> FALSE, quiet |-> TRUE,
               moved |-> [i \in Position |-> 0], wrote |-> [i \in Position |-> 0]]
  /\ verdict = Unset

-----------------------------------------------------------------------------
(* Reading the plan and putting it in order.                               *)

\* Validate: ids are told apart, nobody depends on itself or on a step there is not.
Valid ==
  /\ \A i, j \in Position : plan[i].id = plan[j].id => i = j
  /\ \A i \in Position : /\ plan[i].id \notin plan[i].needs
                         /\ plan[i].needs \subseteq {plan[j].id : j \in Position}

Unstarted == UNCHANGED <<givenVars, walkVars, handVars, cancelled, world, ledger, verdict>>

Load ==
  /\ at = "loading"
  /\ at' = IF Valid THEN "ordering" ELSE "refused"
  /\ UNCHANGED orderVars
  /\ Unstarted

Placed == {order[k] : k \in 1..Len(order)}
Done   == {plan[i].id : i \in Placed}

Ready(i) == plan[i].needs \subseteq Done

\* One turn of the inner loop of Order.
Scan ==
  /\ at = "ordering" /\ scan <= StepCount
  /\ scan' = scan + 1
  /\ IF scan \in Placed \/ ~Ready(scan)
       THEN UNCHANGED <<progressed, order>>
       ELSE progressed' = TRUE /\ order' = Append(order, scan)
  /\ UNCHANGED at
  /\ Unstarted

\* Mutant: a pass that placed nothing is followed by another.
NextPassAnyway_ ==
  /\ at = "ordering" /\ scan > StepCount /\ Len(order) < StepCount
  /\ scan' = 1 /\ progressed' = FALSE
  /\ UNCHANGED <<at, order>>
  /\ Unstarted

\* The end of a pass that left steps over: another pass, or a circle.
NextPass ==
  /\ at = "ordering" /\ scan > StepCount /\ Len(order) < StepCount
  /\ IF progressed THEN scan' = 1 /\ progressed' = FALSE /\ UNCHANGED at
                   ELSE at' = "refused" /\ UNCHANGED <<scan, progressed>>
  /\ UNCHANGED order
  /\ Unstarted

\* canRun: a sql step needs the sandbox's database, a shell step its container.
CanRun == \A i \in Position : plan[i].kind \in wired \cup {"http"}

\* Engine.mark: a reading of the world, or nil.
Reading(r) == IF "state" \in wired THEN r \in {world, Blind} ELSE r = Blind

Diff(from, to) == IF from = Blind \/ to = Blind THEN 0 ELSE to - from

Begin ==
  /\ at = "ordering" /\ scan > StepCount /\ Len(order) = StepCount
  /\ \/ ~CanRun /\ at' = "refused" /\ UNCHANGED ledger
     \/ /\ CanRun /\ at' = "walking"
        /\ \E r \in {world, Blind} :
             /\ Reading(r)
             /\ ledger' = [ledger EXCEPT !.before = r, !.last = r, !.blinded = (r = Blind)]
  /\ UNCHANGED <<givenVars, orderVars, walkVars, handVars, cancelled, world, verdict>>

-----------------------------------------------------------------------------
(* The walk.                                                               *)

Hand == order[pos]

\* Mutant: only a dependency that failed is a blocker.
BlockedByFailure_(i) == \E d \in plan[i].needs : settled[d] = "failed"

\* blocker: a dependency that did not pass.
Blocked(i) == \E d \in plan[i].needs : settled[d] # "passed"

AbortsAfter(i, s) == aborted \/ (plan[i].onFailure = "abort" /\ s \in Broken) \/ cancelled

\* The tail of Run's loop: the result is settled, kept and told, and the run may abort.
Settle(s) ==
  /\ settled' = [settled EXCEPT ![plan[Hand].id] = s]
  /\ result'  = Append(result, [step |-> Hand, status |-> s])
  /\ aborted' = AbortsAfter(Hand, s)
  /\ pos' = pos + 1
  /\ at' = "walking"

Walking == at = "walking" /\ pos <= StepCount

\* notRun: behind an aborted step, or with a dependency that did not pass.
NotRun ==
  /\ Walking
  /\ \/ aborted /\ Settle("pending")
     \/ ~aborted /\ Blocked(Hand) /\ Settle("skipped")
  /\ UNCHANGED <<givenVars, orderVars, handVars, cancelled, world, ledger, verdict>>

Untold == UNCHANGED <<givenVars, orderVars, walkVars, cancelled, verdict>>

StartStep ==
  /\ Walking /\ ~aborted /\ ~Blocked(Hand)
  /\ at' = "trying" /\ try' = 1 /\ asked' = 0 /\ status' = "pending"
  /\ UNCHANGED <<step, spent, sent, world, ledger>>
  /\ Untold

\* build, Text: a variable the step names is not bound, so nothing is sent.
Unbuilt ==
  /\ at = "trying" /\ try = 1
  /\ at' = "judging" /\ status' = "error"
  /\ UNCHANGED <<step, try, asked, spent, sent, world, ledger>>
  /\ Untold

Answer ==
  IF cancelled THEN {"error"} ELSE {"passed", "failed", "error", "unread"}

\* One attempt of httpStep, sqlStep or shellStep: it is sent, answered, asserted on and
\* extracted from.  "unread" is a value the extraction could not find: no further attempt.
\* How far the database moved is followed only where something reads it.
Attempt(answer) ==
  /\ at = "trying"
  /\ sent' = sent \cup {Hand}
  /\ \E n \in IF "state" \in wired THEN 0..1 ELSE {0} :
       /\ world + n <= MaxMoves
       /\ world' = world + n
       /\ ledger' = [ledger EXCEPT !.wrote[Hand] = @ + n,
            !.quiet = @ /\ (n = 0 \/ plan[Hand].kind # "http" \/ plan[Hand].method = "writes")]
  /\ status' = IF answer = "unread" THEN "error" ELSE answer
  /\ at' = IF answer \in Broken /\ try < step[Hand].tries THEN "waiting" ELSE "judging"
  /\ UNCHANGED <<step, try, asked, spent>>
  /\ Untold

\* The delay before the next attempt; a cancelled one ends the step.
WaitForNext ==
  /\ at = "waiting"
  /\ \/ at' = "trying" /\ try' = try + 1 /\ UNCHANGED status
     \/ cancelled /\ at' = "judging" /\ status' = "error" /\ UNCHANGED try
  /\ UNCHANGED <<step, asked, spent, sent, world, ledger>>
  /\ Untold

-----------------------------------------------------------------------------
(* Repair.                                                                 *)

\* What a step's assertions are read against, when that is itself the claim: the query of
\* a verify step, the command of a shell step.
Evidence(s) == s.kind = "shell" \/ s.target = "verify"

\* Mutant: a step may go from verify to setup.
AllowedRetargeting_(before, after) ==
  /\ after.id = before.id /\ after.needs = before.needs /\ after.kind = before.kind
  /\ after.onFailure = before.onFailure /\ after.tries = before.tries
  /\ before.kind # "http" /\ Evidence(before) => after.what = before.what
  /\ after.claim = before.claim

\* Allowed and allowedAction: how a step asks may change, never what it claims.
Allowed(before, after) ==
  /\ after.id = before.id /\ after.needs = before.needs /\ after.kind = before.kind
  /\ after.onFailure = before.onFailure /\ after.tries = before.tries
  /\ before.kind # "http" => /\ after.target = before.target
                             /\ Evidence(before) => after.what = before.what
  /\ after.claim = before.claim

\* The steps a model answers with: it rewrites what the step does and claims, or how it
\* stands in the plan.
Fixes(s) ==
  {[s EXCEPT !.what = r.what, !.claim = r.claim, !.target = r.target, !.method = r.method] :
     r \in [what: What, claim: Claim, target: {"setup", "verify"}, method: {"reads", "writes"}]}
  \cup {[s EXCEPT !.id = r.id, !.needs = r.needs] : r \in [id: Id, needs: {{}, s.needs}]}
  \cup {[s EXCEPT !.kind = r.kind, !.onFailure = r.onFailure] :
          r \in [kind: {"http", "sql", "shell"}, onFailure: {"abort", "continue"}]}

MayAsk == /\ "repairer" \in wired /\ status \in Broken
          /\ asked < RepairAttempts /\ spent < RepairBudget

\* Repairer.Repair was asked: an error, a refusal or a fix that is not allowed leaves the
\* result as it is; a fix that is allowed is run.
Repair ==
  /\ at = "judging" /\ MayAsk
  /\ asked' = asked + 1 /\ spent' = spent + 1
  /\ \/ at' = "measuring" /\ UNCHANGED <<step, try>>
     \/ \E fix \in Fixes(step[Hand]) :
          /\ Allowed(step[Hand], fix)
          /\ step' = [step EXCEPT ![Hand] = fix]
          /\ at' = "trying" /\ try' = 1
  /\ UNCHANGED <<status, sent, world, ledger>>
  /\ Untold

LeaveAsItIs ==
  /\ at = "judging" /\ ~MayAsk
  /\ at' = "measuring"
  /\ UNCHANGED <<handVars, world, ledger>>
  /\ Untold

\* writes, of the step as the plan has it.
Writes(s) == s.kind # "http" \/ s.method = "writes"

\* Mutant: the reading before the run is what every step is held against.
MeasureFromTheStart_(r) ==
  ledger' = IF r = Blind
            THEN [ledger EXCEPT !.blinded = TRUE]
            ELSE [ledger EXCEPT !.moved[Hand] = Diff(ledger.before, r), !.last = r]

Measure(r) ==
  ledger' = IF r = Blind
            THEN [ledger EXCEPT !.blinded = TRUE]
            ELSE [ledger EXCEPT !.moved[Hand] = Diff(ledger.last, r), !.last = r]

\* The step has settled, repair included: what it moved is read, and it is told.
Report ==
  /\ at = "measuring"
  /\ IF "state" \in wired /\ Writes(plan[Hand])
       THEN \E r \in {world, Blind} : Measure(r)
       ELSE UNCHANGED ledger
  /\ Settle(status)
  /\ UNCHANGED <<givenVars, orderVars, handVars, cancelled, world, verdict>>

-----------------------------------------------------------------------------
(* The end.                                                                *)

Told == {result[k].status : k \in 1..Len(result)}

\* Mutant: only a failure is a headline.
StatusOfFailures_ == IF "failed" \in Told THEN "failed" ELSE "passed"

StatusOf ==
  IF "failed" \in Told THEN "failed" ELSE IF "error" \in Told THEN "error" ELSE "passed"

Finish ==
  /\ at = "walking" /\ pos > StepCount
  /\ at' = "done"
  /\ verdict' = StatusOf
  /\ UNCHANGED <<givenVars, orderVars, walkVars, handVars, cancelled, world, ledger>>

\* An interrupt, a lost lease, a departing session.
Cancel ==
  /\ ~cancelled /\ at \notin {"done", "refused"}
  /\ cancelled' = TRUE
  /\ UNCHANGED <<givenVars, at, orderVars, walkVars, handVars, world, ledger, verdict>>

Advance ==
  \/ Load \/ Scan \/ NextPass \/ Begin
  \/ NotRun \/ StartStep \/ Unbuilt \/ \E a \in Answer : Attempt(a)
  \/ WaitForNext \/ Repair \/ LeaveAsItIs \/ Report \/ Finish

Next == Advance \/ Cancel

Spec == Init /\ [][Next]_vars

\* The engine is one goroutine that every wait of its own ends: an HTTP client with a
\* timeout, a delay, a model call.
FairSpec == Spec /\ WF_vars(Advance)

-----------------------------------------------------------------------------
(* Properties.                                                             *)

Measured == 0..MaxMoves \cup {Blind}
Ledger   == [before: Measured, last: Measured, blinded: BOOLEAN, quiet: BOOLEAN,
             moved: [Position -> Int], wrote: [Position -> Nat]]

\* Every variable keeps to its type.
EngineTypeOK ==
  /\ plan \in [Position -> StepDef] /\ wired \subseteq Wiring
  /\ at \in {"loading", "ordering", "walking", "trying", "waiting", "judging", "measuring",
             "done", "refused"}
  /\ scan \in 1..(StepCount + 1) /\ progressed \in BOOLEAN /\ order \in Seq(Position)
  /\ pos \in 1..(StepCount + 1)
  /\ step \in [Position -> StepDef]
  /\ try \in 0..MaxTries /\ status \in Status
  /\ asked \in 0..RepairAttempts /\ spent \in 0..RepairBudget
  /\ aborted \in BOOLEAN /\ cancelled \in BOOLEAN
  /\ settled \in [Id -> Status \cup {Unset}]
  /\ result \in Seq([step: Position, status: Status])
  /\ sent \subseteq Position
  /\ world \in 0..MaxMoves /\ ledger \in Ledger
  /\ verdict \in {Unset, "passed", "failed", "error"}

\* A step is executed only when everything it depends on has passed, and what it stood on
\* stays passed: no result is settled twice (run.go, "because its variables were never
\* bound").
RunsAfterItsNeeds ==
  \A i \in sent : \A d \in plan[i].needs : settled[d] = "passed"

\* Whatever happens on the way every step of the plan is told, and none twice; what is told
\* behind an abort step that failed is pending, and was not executed.
EachStepToldOnce ==
  /\ \A k, l \in 1..Len(result) : result[k].step = result[l].step => k = l
  /\ at = "done" => Len(result) = StepCount
  /\ \A k, l \in 1..Len(result) :
       (k < l /\ result[k].status \in Broken /\ plan[result[k].step].onFailure = "abort")
         => result[l].status = "pending" /\ result[l].step \notin sent

\* Through any chain of repairs a step keeps its claim, and a query or command its claim
\* is read against (repair.go: "it may not touch what the step claims").
ClaimsKept ==
  \A i \in Position :
    /\ step[i].claim = plan[i].claim
    /\ step[i].id = plan[i].id /\ step[i].needs = plan[i].needs
    /\ plan[i].kind # "http" /\ Evidence(plan[i]) => step[i].what = plan[i].what

\* A run that was not cancelled is passed only if every step of it passed.
GreenMeansEveryStepPassed ==
  verdict = "passed" /\ ~cancelled => Told = {"passed"}

\* A plan is refused for what is wrong with it: a rule it breaks, a kind of step this run
\* has nothing for, or steps that depend on each other in a circle.
Circular(U) == \A i \in U : \E j \in U : plan[j].id \in plan[i].needs

Circle == \E U \in (SUBSET Position) \ {{}} : Circular(U)

RefusedForCause ==
  /\ at = "refused" => ~Valid \/ ~CanRun \/ Circle
  /\ at \notin {"loading", "ordering", "refused"} => Valid /\ CanRun /\ ~Circle

\* Once every reading was had and only steps that say they write have moved anything, what
\* each told step that writes is said to have moved is what it moved, its failed attempts
\* included.
LedgerIsTrue ==
  ("state" \in wired /\ ~ledger.blinded /\ ledger.quiet) =>
    \A k \in 1..Len(result) :
      ledger.moved[result[k].step] = ledger.wrote[result[k].step]

\* Every run comes to an end.
RunEnds == <>(at \in {"done", "refused"})

=============================================================================
