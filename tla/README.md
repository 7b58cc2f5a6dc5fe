# A TLA+ model of GritQA

GritQA writes API test plans with an agent, lets a person approve them on a web
dashboard, and runs them on the developer's machine. The program has two halves
that share nothing but HTTP and one Postgres database: a Next.js dashboard
(`src/web`) and a Go command line tool (`src/cli`). This directory models the
parts where the two halves, several people, several processes and crashes meet,
checks the models with TLC, and proves the most important results with TLAPS.

Every definition is read from the source; `PROJECT.json` maps each one to its
lines. Operators whose names end in `_` are mutants, plausible slips that the
mutation runs put in the place of the operator after them; no specification uses
them.

## 1. The system

| Component | State it keeps | Operations | Who else touches it | What makes it correct |
|---|---|---|---|---|
| Machine job queue (`web/src/lib/db/cli.ts`, `jobs.ts`, `app/api/cli/jobs`) | `jobs` rows of errands: status, claimant, attempts, retry time | queue a run, queue a re-read, claim (reap, settle, claim, start), heartbeat, steps, complete, release | the dashboard queues; any number of machines poll and report; the run's row is settled from both ends | one errand a plan, no judged run handed out again, no errand queued past its attempts, verdict and rows land together, an errand that dies frees its plan |
| Runs (`test_executions`, `test_results`) | status, version, rows by step | ask, start, preview, report, give up | job queue, terminal | one live run a plan; a settled run never moves |
| Agent work (`db/work.ts`, `work/run.ts`, `work/resume.ts`) | `jobs` rows of agent jobs, `job_events`, a lease held by a process | ask, hold, note, beat, settle, fail, resume, give up | pages that resume, the process that works, the dev server's restarts | one attempt at a time, nothing read twice, outcomes final, transcripts whole, every request ends |
| Plans (`db/drafts.ts`, `db/plans.ts`, `actions/*`) | text, version, status, revision rows | write, revise, re-check, edit, approve, send back, archive, run | agent work, people with pages open, pushes from terminals | versions answer what was read, an approval is of one text, runs are of approved text |
| Draft files (`app/push.go`, `remote_plans`) | files, and the plan each became | draft, push, run, record | dashboard | one version per change of text, runs filed under what they ran |
| Attach loop (`app/attach.go`) | the errand in hand, the heartbeat, the live report | poll, work, settle, give back | job queue, sandbox | every claimed errand is settled or given back; a report is sent once and may be lost |
| Run engine (`run/*.go`) | settled steps, variables, repair budget | order, run, skip, abort, repair | sandbox, model | dependents of a failure do not run, repairs keep the claims, cancelled is not passed |
| Sandbox and MCP server (`sandbox/*.go`, `mcp/*.go`, `app/session.go`) | one stack per process, its owner, an idle timer | boot, reset, trial, run, tear down, reap | research of several drafts at once, runs | nobody's stack is taken from under them; a run starts from the baseline |
| Relay (`agent/relay.ts`, `cloud/dial.go`) | a map from machine to open stream, frames waiting | dial, hold, replace, send, receive | research, the CLI's dial loop | an answer reaches the caller that asked or the caller is told |
| Conversations (`db/conversations.ts`) | turns numbered within a thread | ask, answer | agent work, several people | an answer is right behind its own question, and every attempt reads the same history |
| Device linking (`db/device.ts`) | a code's status and expiry | begin, approve, deny, claim | the CLI polls, a person decides | redeemed once, for somebody who approved it and a project of theirs |
| Code index (`index/`, `app/read.go`) | the hashes and routes of the last pass, a table of what the model extracted | hash, read, ask, save, prune, rebuild | the developer's edits, a second process, attach loop, draft | what is answered from the cache is what a full pass would find |
| Step texts (`agent/plan-schema.ts`, `plan-edit.ts`, `step-form.tsx`, `cloud/plans.go`, `plan/load.go`) | none: five readings of one text | reply, gate, form, edit, push, load | the model, editors, terminals | what a gate lets in the machine loads, and it means the same on both sides |
| Run reports and history (`cloud/report.go`, `cli/report.ts`, `app/run.go`, `index/history.go`) | rows of a run, on the dashboard and in the machine's cache | report, cut, parse, store, read back | attach loop, terminal, pages | terminal, history and dashboard say the same of a run |
| Dashboard read models (`db/coverage.ts`, `db/plans.ts`, `runs.ts`) | none: queries over rows of runs | squares, cards, failure under review, rates | whatever settles a run | what is shown is what the newest run showed |
| Rules, settings, accounts, evaluation harness | rows of one owner | single statements | - | - |

How they interact: the dashboard and a machine meet only in the `jobs` table.
The machine polls the claim route; the route first reaps errands nobody has been
heard about for ninety seconds, then claims, in separate statements with no
transaction around them. Agent jobs are in the same table but carry no machine:
a Next.js process works on them after the response has been sent, and whoever
opens the work page next picks up what a dead process left. Research done for an
agent job calls tools on the developer's machine through the relay. Plans are
written by agent jobs, by editors and by terminals, each of which read the plan
earlier, and are turned into errands once somebody approved them.

Hard behaviours: a web process that dies between two statements; delayed or
duplicated machine calls; two machines, two pages, two clicks; a lease that
outlives its holder or its holder's silence; inserts that are not awaited;
reading a page and acting on it later; answers lost after the work was done. The
`hazards` of `PROJECT.json` list them at the lines where they bite.

## 2. The modules

### RunBoard, MachineQueue

`RunBoard` is the promise: what a person looking at the runs page may rely on,
with no errand, machine or request in it. A run is asked for, starts and may be
handed back, shows previews, and settles once, by a report that replaces every
preview or by an error nobody reported.

`MachineQueue` is the code that keeps it. Its variables are columns: `status`,
`claimedBy`, `attempts`, `verdict` (jobs), `runPlan`, `runStatus`, `rows`
(test_executions, test_results). `quiet` and `cooling` are the two clock
comparisons the statements make, `claimed_at < now() - ABANDON_AFTER` and
`next_retry_at > now()`; `GoQuiet` and `RetryDue` are time passing. A claim
request is a small process: `at` says how far it is, `owedPending` and
`owedError` are the rows its UPDATEs returned and whose runs it has yet to
settle, `handing` the errand it claimed and whose run it has yet to start.

| Code | Action |
|---|---|
| `enqueueRun` | `EnqueueRun` (one transaction) |
| `enqueueIndex` | `EnqueueIndexCheck`, `EnqueueIndexInsert` (two statements) |
| claim route, `reapAbandoned` | `Poll`, `ReapRevive`, `ReapBury`, `SettleRevived`, `SettleDead` |
| `claimNextJob` | `ClaimNextJob` or `ClaimNothing`, then `StartRun` |
| `heartbeatJob`, `recordSteps`, `completeJob`, `releaseJob` | `HeartbeatJob`, `RecordSteps`, `CompleteJob`, `ReleaseRequeued`/`ReleaseDead` |
| a process that dies | `RequestDies` |

Machines are not modelled as processes here: any machine may make any call about
any errand at any moment, which is more than the attach loop ever does and
includes every delayed and repeated call of it. `Timely = TRUE` adds the one
assumption some properties need: a request finishes before the ten second backoff
and the ninety second patience of the next reap run out, so a request that is
still at work on an errand is not overtaken by it.

`test_executions_one_live_idx`, on which `enqueueRun` leans, is the guard
`~HasLiveRun(p)`. The claim is one step: that `FOR UPDATE SKIP LOCKED` makes it one is
Postgres's business.

### AgentWork

One row of `jobs` per `Job`, its `job_events` in `landed`, and one record per
`runWork` call in `work`: how far it is, the process it lives in, its attempt,
the seq it has counted to, and `pending`, the inserts it sent and did not wait
for. `silent` is the three-minute comparison. `pool` chooses between the single
connection of a production process, on which statements queue, and the five of
any other, on which they overtake each other.

Nothing ties silence to death. A living attempt in a long model call or container
build says nothing for three minutes; its job is then taken by another page, in the
same process or in another, or given up, exactly as if it had died (`Hold`,
`ReapHopeless`), and the attempt goes on and settles when it is done. Two history
variables say what happened: `presumed` has the jobs this was done to while an attempt of
theirs was alive, `told` whose attempt said last how a job ended. What the lease is for
is `OutcomeIsTheHolders`: a process that lost a job to another one never has the last word
on it. What the lease does not do, since it names a process, is tell two attempts of one
process apart; the properties name `presumed` where that matters, and
`FinishedStaysFinished`, the claim of the comment, shows it (section 5).

| Code | Action |
|---|---|
| `enqueueWork`, `holdWork` | `Ask`; `Hold`, `CountEvents`, `RecallFindings`, `HoldBreaks` |
| `runWork` through `carryOut` | `Start`, `Read`, `Answer`, `Save`, `NeedsConfig`, `Throw` |
| `settleWork`, `failWork`, the barrier | `SettleWork`, `FailWork`, `ConcludingBreaks`, `Finish` |
| `recorder`, `beatWork` | `LandNote`, `LoseNote`, `BeatWork` |
| `reapHopeless`, a process's death | `ReapHopeless`, `ProcessDies` |

### Plans

A plan's row (`status`, `version`, `text`), its `revisions`, the approvals of the
audit log and the runs recorded. Writers, readers, run requests and terminals are
small processes, because each reads at one time and writes at another; a
transaction at READ COMMITTED that reads and then writes is two steps.

| Code | Action |
|---|---|
| `writeNewPlan`; `refineJob`, `recheckJob`, the editor | `WriteNewPlan`; `ReadToRevise`, `ReviseSelect`, `ReviseUpdate` |
| `approvePlanAction`, `sendBackPlanAction`, `archivePlanAction` | `OpenPage`, `ApprovePlan`, `RetirePlan` |
| `enqueueRun` | `RunSelect`, `RunInsert` |
| `savePlan` and `pushes.plan` | `SaveNewPlan`, `SaveSelect`, `SaveUpdate`, `SaveLosesRace`, `SaveRemotePlan` |
| `--draft`, `--plan`, `recordRun` | `DraftAtTerminal`, `RunFile`, `PushFirst`, `RecordRun` |
| a lost answer, Ctrl-C | `TerminalGivesUp` |

`ApprovePlan` takes the status move and the entry of the audit log that follows it in a
statement of its own (actions/plans.ts:88-91) for one step: what is claimed is about the
version at the moment of the move, which the entry repeats.
`plan_json` is one value here; `PlanEdit` opens it up. Which run of a plan is live is
`MachineQueue`'s; here `RunInsert` may always find one and insert nothing.

### DraftLoop, PlanEdit

`DraftLoop` is what a job that revises a plan does between reading it and writing it.
A refinement writes a whole plan, has each step judged against the code and writes
again while a step is unconfirmed, `MaxSubmits` rounds at most; a second look has one
step judged again. A verdict of the model carries the step text it was given on,
which the row in the database does not.

`PlanEdit` extends it with the plan's versions and the people at the editor. A tab has
what the page shows (`shown`, `of`), a render in progress (`fetch`: the page reads the
version first and the text after it), the copy being typed, and a save in progress;
all tabs share one browser storage (`stash`, keyed by version).

| Code | Action |
|---|---|
| `refinePlan`, `runLoop`, `verifyPlan`, `recheckStep` | `ReadPlan`, `Submit`, `Verify`, `Look`, `Fail` |
| `refineJob`, `recheckJob` writing the revision | `Begin`, `Work`, `Land` |
| `router.refresh`, the page's two reads | `Refresh`, `Arrive` |
| `PlanEditor`, `SaveEdit` | `Edit`, `Submitted` |
| `savePlanEditAction` | `SaveReads`, `SaveWrites` |

A revision lands or not in one step; the two statements of `writeRevision` and their
interleavings are in `Plans`.

### RunEngine, PlanGate

`RunEngine` is one call of `Engine.Run`, from the plan as it was read to the verdict.
Steps are positions of the plan; what a request says is a value of `What`, what its
assertions demand a value of `Claim`. `Cases` is what a run may be given, so the
theorems hold for any set of plans. An assertion is its outcome; every attempt of
a step may move the database.

| Code | Action |
|---|---|
| `Load`, `Validate` | `Load` |
| `Plan.Order` | `Scan`, `NextPass` |
| `canRun`, the first reading | `Begin` |
| the loop of `Run` | `NotRun`, `StartStep`, `Report`, `Finish` |
| `httpStep`, `sqlStep`, `shellStep` | `Unbuilt`, `Attempt`, `WaitForNext` |
| `repair`, `Allowed` | `Repair`, `LeaveAsItIs` |
| the context of the run | `Cancel` |

`PlanGate` is the dashboard's own version of the same bar (`planProblems`,
`circular`), over the same plan, so that the two can be compared.

### StepText, Answers

What goes into a walk and what comes out of it, as operators over texts. `MCStepText`
and `MCAnswers` hold the cases, and the run `engine` checks them.

`StepText` is one step in the hands of everybody who writes, judges or reads it. A text is
"", blank, padded, malformed, a bare query or a word; a step is a record of them.

| Code | Operators |
|---|---|
| the model's reply and its gate | `ShapedReply`, `FromWire`, `DraftTakes`, `Inconsistent`, `Unloadable` |
| the editor's gate; the form, what is typed and chosen in it | `EditorTakes`; `Opened`, `Edits`, `Kept` |
| a draft file on its way up, and the route | `Pushed`, `PushTaken` |
| the loader; what the machine does with what it loaded | `Loads`; `Meaning` |
| what the dashboard asks twice about | `Heavy` |

The forms are all those three edits away from a step of each kind or from a new one. The
conditions under which a gate is weaker than the loader are operators with names
(`Unasked`, `Blanked`) and findings in section 5.

`Answers` has templates (`Filled`), paths (`Value`), checks, extraction, the answers of the
three kinds of step and what is masked. A value is a function of its paths, so that
nothing is parsed. Numbers are told apart up to `Wide`, the width of a float.

### Reporting, PlanReads

`Reporting` follows a `run.Result` to everybody it is told to: the report with its cuts
(`Reported`), the route's parse of it (`ParsedReport`), the rows, the history the machine
keeps for itself, the last lines of the transcript, and the square an endpoint gets from
runs and from a probe (`SquareOf`). A text is a sequence of characters told apart by how
the way treats them: blank to one side only, two bytes wide, escaped in JSON, no UTF-8,
U+0000. Two of the route's limits are left out of `ParsedStep`: a method is always one the
loader let through, which is short (report.ts:77), and the assertions of a step stay below
the 64 KB at which they would be replaced (112). `PlanReads` has what the dashboard reads
of a plan's runs; its list of runs goes back `HistoryLimit` runs, the newest `ReportLimit`
of them with what their steps did. Both are evaluated in
the run `engine`, over the results its runs end with (`ResultNow`) and over those of
`MCReporting`: every kind of step that went every way, with one field out of the ordinary,
and histories of two, three and four runs.

### Attach

The loop of an attached machine, composed with `MachineQueue` by `INSTANCE`: here the
machines make only the calls the loop makes. `net` holds calls that were sent and have
not landed; they land in any order, or never, and the machine hears the answer or gives
up waiting. `weather` is what the properties that need a working network assume: in
good weather beats get through and no call outlives the machine's patience, or its caller:
a process that is started again finds nothing of the old one in flight. A behaviour
has good weather or bad, from the start to the end.

Ctrl-C cancels the session's context, of which the beat's and the walk's are children:
`Interrupt` stops the beat and the previews at once, and the walk winds down in its own
time. A boot that was interrupted is taken down without cancellation, for as long as that
takes, so `InTouch` (who keeps the reap's ninety seconds from running out) does not count a
machine that is leaving, and an errand may be handed on while it winds down.
`OneMachineAtWork` is about the others; `HeardToTheEnd` is the claim without that
condition, and does not hold (section 5).

| Code | Action |
|---|---|
| `attach` (poll, answer, leave) | `Poll`, `Serve`, `HearAnswer`, `AnswerLost`, `Leave` |
| `execute` | `Start`, `Unreadable`, `Prepare`, `PrepareBreaks`, `Preview`, `WalkEnds`, `Close` |
| `reindex` | `Read`, `ReadBreaks`, `PushIndex` |
| `settle`, `giveBack` | `Answered` |
| `beat` | `Beat`, `BeatRefused`, `Lost` |
| Ctrl-C, a death, the next start | `Interrupt`, `Die`, `Restart` |
| the network | `Land`, `Drop` |

### Sandbox

The one sandbox of a resident process. `mu` is the session's mutex, `copy` and `rows` the
docker project and the calls whose writes are in it, `user` the attach loop and the
clients of the MCP surface, each carrying out one call at a time in steps as long as
the mutex, or one docker command, makes them. Docker commands may fail, `MaxFaults` times;
a `compose down` that fails leaves its copy up (`leaky`), also the one `stage` runs after a
boot that broke, whose error nobody looks at (app/sandbox.go:54, 58).

| Code | Action |
|---|---|
| `staged`, `stage`, `Launch` | `Enter`, `Launch`, `LaunchRefused`, `StageBreaks`, `Seed` |
| `StartSandbox`, `prepare`, `RunPlan`, `TrialCall` | `Own`, `Prepare`, `PreparePlan`, `Probe` |
| `Stack.Reset` | `Clear`, `Boot`, `Migrate`, `ResetBreaks` |
| the walk of a plan, a probe | `Write`, `WalkEnds`, `Finish` |
| `Teardown`, `armIdle`, `reapIdle`, `close` | `Teardown`, `Fire`, `Reap`, `Close` |

### Copy, Watch

What a copy is made of and what is read of it, as operators the run `sandbox` evaluates.

`Copy` is the developer's compose file as compose resolves it, what their configuration says
of each service (tested, support, schema, on demand, ignored), the check the two pass
together (`Check`), and the document that is booted (`Overlay`): what is left out, parked
or detached, the mounts that are sealed, the volumes that are shared, networks and egress.
`Up` is what compose starts of a document. `MCSandbox` has three services with every
acyclic graph of needs, every set of profiled services and every judgement of them, and
two services with everything a service can hold of a machine. `BootsLikeTheirs` leaves out
a datastore that is measured over SQL and is no support service (section 5). A network is
a bridge or of another driver, and open when what is on it can call out (`WaysOut`). `Seal`
closes bridges and leaves every other driver as open as it was, as overlay.go:219-224 does,
so what `IsApart` claims of a copy that is denied egress is that its only ways out are
networks the file gave another driver; that there is none at all, which environment.go:48-50
promises, is `IsCutOff`, and does not hold (section 5).

`Watch` is the readings of a datastore: what of it is watched (`Discovered`), which column of
a table tells its rows apart (`Key`), what a reading is (`Watermark`) and what moved between
two (`MovedBetween`). `MCWatch` has every three readings with a statement, an upload or a
migration between them, on tables of nine shapes with up to two earlier changes, for both
drivers.

### Conversation

One thread. Questions are placed by a transaction that reads the highest number
(`ChoosePlace`) and inserts the next (`PlaceQuestion`), refused by the unique index when
somebody was faster; the work row is a statement of its own (`Enqueue`), and a process
may die in between. Each question is carried out by attempts that overlap, die and
settle: `Hold`, `Read`, `Answer`, `Settle`, `Die`, `Reap`.

### Relay

The dashboard's map from machine to open dial. A machine connects and replaces its own
dial (`Connect`), hangs up (`HangUp`), and the dashboard notices the end later
(`Notice`, `LateCancel`). Research turns open the newest dial, take its listener, ask
and leave (`Open`, `Ask`, `Leave`); a machine answers (`Answer`) by a request of its
own, routed by machine (`Deliver`). Frames are request numbers, which every client of
the MCP library starts at the same place: that is the one thing assumed of it. A turn has one
request out at a time, where a client may have several tool calls in flight on one
transport (dial-transport.ts:37); the checked property says nothing of those, nor of
turns that overlap on one machine, which is a finding.

### Device

The rows of `device_codes` and `projects`, submits of the approval page in five
statements each (`Find`, `Resolve`, `AddProject`, `Decide`, `Record`, any of which may
be the last: `Break`), and polls in two (`SeeApproved`, `Collect`). Codes expire at any
time.

### CodeIndex

Passes over one working tree and the SQLite cache beside it. `stored` is what the last
pass saved and, for the properties, the tree and configuration it was read from;
`extractions` is the table of model readings, by key. Workers read files at moments of
their own while the developer edits, so a stage finds each file as any of the contents it
had since the stage began (`had`, `Found`). What a parser or the model finds is named by
the versions it was read from; that of a dark file includes its gateway. Which files are
dark does not change with their text.

| Code | Action |
|---|---|
| `read` to the shortcut, `HashPaths`, `unchanged`, `Load` | `Begin`, `HashPaths`, `Load` |
| `source.Resolve`, `scan` | `Resolve`, `Scan` |
| `extract`, `FromAI`, `run` | `LookUp`, `Ask` |
| `Store.Save` with its prune; an answer, an error, Ctrl-C | `Save`; `End` |
| `rebuildCache` | `Upgrade` |
| an editor, the configuration | `Edit`, `Configure` |

### RouteSources

How prefixes come to endpoints: a Go file by itself, with the scopes of its functions,
groups, closures and the routers it is handed (`Routes`), and the routers of a project that
mount each other from file to file (`Link`, `Composed`), with constants some other file
binds. What a path says when the program runs and what a reader can tell of it are two
fields, so that the endpoints told can be held against those served. `MCRouteSources` has
the Go functions of two statements and a registration, and graphs of an application and
two routers with two mounts; the run `index` checks them. Four ways in which the readers
are wrong are named there (`PrefixDropped`, `UnreadClosure`, `UnseenField`, `Circled`).
`ToldAsServed` is the claim about one function, `TellsWhatIsServed` that about one project.

## 3. The runs

| Run | Instance | Distinct states | Shows |
|---|---|---|---|
| `queue_faults` | 2 machines, 2 requests, 2 errands of 2 attempts, 1 step, 1 crash, any timing | 632,768 | completed means reported, and the refinement of `RunBoard` |
| `queue_timely` | the same, no crash, requests in time, `FairSpec` | 392,665 | a dead errand frees its plan |
| `work` | 1 job, 2 processes, 2 attempts in flight and allowed, 1 failed insert, any silence, one connection; `FairSpec` | 1,093,749 | the outcome is the holder's, no second reading, production transcripts, every request ends |
| `plans` | 1 plan, 3 versions, 2 texts, 2 writers, 1 reader, 1 run request, 1 terminal, 1 file | 4,859,993 | the thread is the history, runs are of approved text |
| `engine` | every dependency graph over 3 steps, circles, a dangling need and a double id included; every kind of step, 2 tries, 2 repairs, 2 moves of the database, cancelled anywhere; the cases of step texts, answers, reports and histories; `FairSpec` | 342,743 | order, claims kept, green means green, the editor's bar is the machine's, the ledger, every run ends; step texts load and keep their meaning, values come back, checks read their channel; records agree, pages follow the runs |
| `attach` | 2 machines, 1 errand of either kind, 2 attempts, 2 calls on the network, 1 interrupt or death; `FairSpec` | 666,748 | a cut walk is no verdict, one machine at work unless it is leaving, no preview behind the record, every errand is settled |
| `sandbox` | the loop and 2 clients, 3 calls of 6 kinds, 1 failing docker command; the cases of copies and readings; `FairSpec` | 306,849 | the timer spares research, a plan meets no rows of calls that were over, no copy is forgotten, what research leaves is reaped; a copy boots as asked and is apart, the ledger tells what was done to it |
| `conversation` | 3 questions, 2 attempts at each | 1,149,573 | answers follow their questions, once |
| `relay` | 2 machines, 4 dials, 2 turns of 2 requests | 2,650,145 | answers go to who asked |
| `device` | 2 codes, 2 users, 2 directories, 2 submits, 2 polls | 5,836,224 | a token is exactly one approval |
| `plan_edit` | 2 steps, 3 texts, 3 versions, 1 tab, 1 job | 1,208,164 | verdicts are of the text beside them, receipts are true |
| `index` | 4 files, one a gateway, 3 contents, one too large, 2 processes, 1 edit, 1 change or upgrade, 2 passes; the cases of routers | 2,455,080 | the cache answers for the tree, extractions outlive the prune, read routes are served |

**Why the bounds are enough.** Every property of the queue is about one errand or
two errands of one plan; two requests give every overlap of a slow request with
its successor, two machines the stale one beside the new, two attempts an attempt
that goes round and one that is the last. Agent jobs do not interact with one another,
so one job with two processes, which gives a death, a resume in another process and
one in the same process, living rivals included, is the whole story. `Pools = {"one"}` is
production; with `{"many"}` the same properties hold (4,230,641 states), which is left to the
proofs because the run would outlast its patience. For plans a third version is what it takes
for one writer to be two versions behind. Three steps are the least that make a circle
that does not take the whole plan, a skip of a skip, and a step behind an aborted one;
two repairs are the least chain. One errand is enough for `attach`, because a machine
has one in hand at a time and the errands meet only in the queue, whose own runs have
two; `MaxAttempts = 2` lets it go to the other machine. Three calls give the sandbox a
call, one that meets what it left, and one that overlaps both. Three questions are the
first with a question between two others. Four dials let each machine redial, or one
redial twice before the first end is noticed. Two files beside the gateway are what makes
one (`Gateway` asks for two); two passes are the one that stores and the one that is
answered, and an edit, a change or an upgrade comes between any two of their stages. Two of
the conditions of `ServedIsCurrent`, that no file changed between its two readings and
that none was too large, are only needed with `MaxEdits = 2`, an instance for one process;
the proof covers any number. The proofs make the bounds immaterial for
the results they cover.

The limits of the code are small where texts are cases: `Wide = 3` stands for 2^53,
`MaxSQLRows = 2` for 200, `MaxSteps = 2` for 500, `MaxId = 2` for 255, `MaxText = 3` for
4,096, `MaxBody = 4` for 65,536, `MaxMoved = 3` for 2,000, `HistoryLimit = 3` for 30 and
`ReportLimit = 2` for 6. What matters is that there are
cases below, at and above each, and that a character may straddle it. The properties over
cases (`StepTextsLoad` to `ChecksReadTheirChannel`, `PagesFollowTheRuns`, most of
`RecordsAgree`, `CopyBootsAsAsked`, `CopyIsApart`, `LedgerTellsTheCopy`,
`ReadRoutesAreServed`) are the same formula in every state they are about: functions have no
interleavings, and the run of the component that calls them is where they are checked.

`CHECK_DEADLOCK FALSE` everywhere: an idle system stops, and the bounds stop it too.

**Fairness.** Of the queue only this is assumed: a request the web process has taken
up is carried through (`WF(RequestStep)`), which is what a Node process does with a
promise unless it dies. Agent work assumes that a living process goes on with its
attempts and its inserts, that three silent minutes pass, and that somebody keeps looking
at the work page, the only place a resume (`resumeWork`) and the reaping of hopeless
jobs come from. The engine is one goroutine that goes on (`WF(Advance)`); nobody need
ever cancel it. `attach` assumes that a process goes on, a waiting machine polls (the
loop's ticker), one that went away is started again, a call on the network lands or is
lost, and that time passes; *strong* fairness of `GoQuiet` is the reap's ninety seconds:
they run again each time an errand is claimed. `sandbox` assumes that docker commands
and walks end, the timer fires, and the mutex is handed on: `sync.Mutex` starves nobody
who waits long enough, which is why calls and the reaper have strong fairness.

**Type invariants** are not part of the runs: those of all eleven components with state
are theorems (section 4).

**Claims kept as definitions.** Some properties state what a comment or a test of the
program says and the code does not keep. They are in the modules and in no run; each
belongs to a finding of section 5: `OneIndexErrand` (two clicks), `DeadErrandFreesPlan`
with `MaxCrashes = 1`, `FinishedStaysFinished` and `SeqIsFree` (instance of `work`),
`CompletedHasTranscript` (with `Pools = {"many"}`), `HeardToTheEnd` (instance of `attach`),
`CopyIsCutOff` (instance of `sandbox`), `ApprovalIsOfReadText`, `ArchivedStaysArchived`,
`TerminalRunNamesItsText` (instance of `plans`), `AnsweredHasItsAnswer` (instance of
`conversation`), `NoEditOverNews` (instance of `plan_edit`), `NextRunTriesAgain`,
`ExtractionIsOfItsVersion`, `EqualHashesAreEqualTrees` (instance of `index`). To see a trace,
add the name to the configuration named. `OpenedUntargeted`, `PassedSaysNoError` and
`SeedQuotesWhatFailed` are the same of a text, an answer and a history.

**Proved and in no run.** `OneErrandPerPlan`, `OpenErrandHasLiveRun`, `LiveRunIsAccountedFor`,
`RunMirrorsErrand`, `ApprovedAtThisVersion`, `RevisionAnswersWhatItRead`,
`PushedVersionIsNews`, `RefusedForCause`, `AttemptsReadTheSame`, `OpenDialsAreHeld`,
`OutcomeIsFinal` of `AgentWork` and the refinement of
`MachineQueue` by `Attach` are theorems (section 4), and a run would only repeat them.

## 4. What is proved

### MachineQueueProofs

`MachineQueueProofs` holds for any number of machines, plans, steps, requests,
errands, attempts and crashes, from the assumptions that the null values are not
members of their sets and the bounds are numbers (`MaxAttempts` at least one).

- `TypeCorrect`, `NeverTwoErrands`, `OpenErrandsLive`, `VerdictsLand`: types and the
  safety of the queue, of which `queue_faults` checks the last. `QueueNeverJams` (`PendingHasAttemptLeft`): no errand is
  queued without an attempt left, on which the table's CHECK would stop every poll.
- `QueueImplementsBoard`: the refinement `Spec => Board!Spec`.
- `NoRunIsStranded`: from `Timely` and `MaxCrashes = 0`, `LiveRunIsAccountedFor` and
  `RunMirrorsErrand` (a run's status follows its errand's).

The argument. `OneErrandPerPlan` is not inductive: to see that a new errand
of a plan is its only open one, one must know that every open errand has a live
run (`OpenErrandHasLiveRun`) and that live runs of a plan are unique
(`OneLiveRunPerPlan`, the index). To see that a late settling cannot take a run
from an open errand, one must know that only dead errands are owed an error
(`RequestShape`), and a dead errand is never claimed again. That `attempts` stays within
its type needs `PendingHasAttemptLeft`, because the claim adds one without
looking. `IInv` is the conjunction of these with `TypeOK`, the shape of rows and
`CompletedRunIsItsReport`; each conjunct has a step lemma with one case per
action, and `StepInvariant` puts them together. The refinement then maps each action
to one of `RunBoard`'s or to a stutter under `IInv`: `Report` needs the errand's run
to be live, and an owed settling that finds its run no longer running is the
stutter. The timely theorem adds what the requests have in hand: an errand being
handed is claimed, one owed a return is pending and cooling.

### PlansProofs

`PlansProofs` holds for any number of plans, versions, texts, writers, readers, run
requests, terminals and draft files, from the same kind of assumptions
(`MaxVersion` at least one). Both invariants of the run `plans` are theorems, among
`PlansTyped`, `HistoryIsWhole`, `NoRevisionOverAnother`, `ApprovalIsOfAText`,
`OnlyApprovedTextRuns`, `PushIsIdempotent`.

The argument. Each of these relates a plan to something a client took away from it
and brings back later, so the invariant (`IInv`) says for every client what stays
true of the copy it holds, however the plan moves on: a run request holds the
text of the version it names, and that version was approved (`OrderShape`); a
terminal about to save differs from the version it compared itself with
(`TerminalShape`); a page and a draft file name a plan that exists (`ReaderShape`,
`HeldShape`). What makes these stable is `Grows`: versions only go up, the rows of
versions already made never change, approvals are never withdrawn. The lemmas
`LandKeepsHistory`, `MoveKeepsHistory` and `StayKeepsHistory` show that the three
ways a step may treat the plans keep the history and are growth; `Follow` then
carries every client that did not move, and each action has to answer only for the
one that did. `OnlyApprovedTextRuns` needs `OrderShape` because the INSERT
of a run looks at nothing it selected again; `PushIsIdempotent` needs
`TerminalShape` because the UPDATE compares versions and not texts; and
`ApprovalIsOfAText` is inductive only because every new version is a draft.

### RunEngineProofs

For any set of plans of any length and any wiring, retries, repairs and moves:
`EngineTyped`, `StepsRunAfterTheirNeeds`, `EveryStepToldOnce`, `GreenIsGreen`,
`RefusalsHaveCause`, `RepairsKeepClaims`, `LedgerTrue`, `EditorAndMachineAgree`. And for
every text of a step and every answer, the theorems of `StepText` and `Answers` below.

The argument has two halves. The first is about the order (`OrderInv`): what is placed
is placed once (`OrderDistinct`) and after its needs (`NeedsFirst`), and a set of steps
that wait on each other can never be entered (`NoCircle`). A pass that placed nothing has
looked at every step in vain (`PassKnows`), so the steps that are left are a circle
(`StuckIsCircular`); an order as long as the plan has every step in it (`WholeOrder`, by
counting), so there is none. The second half is about the walk (`WalkInv`): the result
is told along the order (`Along`), `settled` says what was told (`SettledAsTold`), what is
in hand may run, what is behind an aborted step is silent, and each step that did not
pass has a step to blame that failed or broke (`HasCause`), without which a run of
skipped steps could be green. `RunsAfterItsNeeds` is inductive only with the
order: that a need is never settled twice is that the order has it once. On top of this,
`KeptSoFar` is what a chain of repairs keeps (the kind and target have to be in it, because
they decide what `Allowed` protects), and `Balanced` says by how much the last reading
lags the database while a step is in hand.

The gate of the editor (`EditorAndMachineAgree`). The dashboard decides whether a plan has
a circle with passes of its own, `PlacedAfter`, and what they compute is a matter of
induction over their number. The library's induction theorems cannot be used here, but a
least counterexample can: `LeastNatural` takes a set of numbers, not a predicate, and
follows from the natural numbers being well founded. With it `Passes` is the recursion
equation of `PlacedAfter`, `PassesGrow` that a pass forgets nothing, `CirclesStayOut` that
no pass enters a circle, and `OrderIsPlaced` that what the machine's `Order` has placed,
step by step, the editor's passes place as well. The two walks differ: `Order` looks at a
step after the ones before it in the same pass, the editor at all of them at once. They
agree because both stop at the same set.

The text of a step. `TextOfStep` is any step at all: any strings for its texts, any
integers for its retry, any sets of checks and of values handed on. For all of them,
`RepliesLoad`, `LoadedStepsArePushed`, `PushedStepsMeanTheSame` and `OpenedStepsMeanTheSame`
go through a gate rule by rule, next to the loader's, for each kind of payload; what each
leaves out is the condition its property names, and nothing else was needed.
`KeptStepsLoad` is about any form (`Form`: a step that has the payload of its kind), and
`EditsKeepForms` is what makes that enough: no edit leaves the set, so it holds after any
number of them, where the run makes three. `StepTextsAreLoaded` and `StepTextsMeanTheSame`
are the properties of the run, from these and from lemmas that its instances are steps and
forms (`RepliesAreSteps`, `FilesAreSteps`, `FormsAreForms`). The only assumption is that
`Missing` is none of the values it may stand beside, which the run evaluates.

The first attempt at `LoadedStepsArePushed` failed, and rightly: the schema of the route
has an enum for an action's target and a floor under a retry's delay (plan-schema.ts:134,
174), and the loader asks for the one only where it reads it and for the other not at
all. A shell step with an odd target, or a delay below zero, loads here and is refused
there. The property now has both conditions, and the instances have such steps.

What a step is answered. `ChecksReadWhatTheyName` is about any check, any response and any
variables. That a check and its opposite never agree (`ChecksDisagree`) and that a check
called by its channel reads it (`ChecksArePinned`) are short. That `rowCount` is how many
rows there are is not, because a body is a function of its paths and a list of any rows is
one whose paths begin with an index. A value is `Rooted` when it has its root and its paths
are of the segments given; `NodeAt` says what is at a path of a list or a map,
`NodeIsRooted` that putting rooted values together makes one, and `RowsAreCounted` that any
rows, up to the number that is read, are counted.

`ValuesThatWereReadComeBack` is about any body, path and name. What is read from a body and
bound to a name fills a template of that name with itself (`OneFlattened`, `DeepOfOne`) and
compares equal to where it came from (`ValueReturns`); the one hypothesis is that what a
path finds is no value that stands for "nothing there" (`Spoken`), which `TextAssumption`
says of the instances and TLC evaluates. `HandedOnByThePassing` is about any step with any
number of attempts and of values to hand on. Both are recursive functions over those
numbers, and a least counterexample gives their equations (`ExtractIs`, `TriedIs`); then the
attempts end at the first whose checks all passed, and a step that passes hands on what
that one was answered (`FirstPassingHandsOn`). `ValuesComeBack` and
`ChecksReadTheirChannel` follow, with lemmas that the steps and answers of the run are
among those.

### SurfaceProofs

`Relay`, for any number of machines, dials, turns and requests: `RelayTyped`,
`OpenDialsHeld`, `AnswersReachTheAsker`. `OpenDialsAreHeld` is inductive as it stands,
given the types, which is the point of comparing `held.get(k) === conn` before deleting.
The third needs that a listener opened on its dial (`ListenersOpened`) and, while nothing
has crossed, that an open turn is alone on its machine and every answer the machine owes
is its own (`Apart`).

`Sandbox`, for any number of clients, calls and faults: `SandboxTyped`, `ReaperIsSparing`,
`PlansStartClean`, `NoCopyIsForgotten`, all from `SandboxInvariant`. Its invariant,
`SandboxInv`, is what the code leaves to the mutex and never writes down. Whoever is at a
step that works on the stack holds `mu`, so at most one is, and its stage says whether there
is a stack (`HolderKnows`). `busy` counts the research calls that are in, which is why a
timer that finds it at zero may take the stack. A number names one call, and a call that is
over writes no more (`CallsAreKnown`), so that once a reset has cleared the volumes no row
of a call that was over comes back, to the end of the walk (`CleanStart`). Between a launch
and the session taking the stack a copy may be up that the session does not know, and then
the holder of the mutex is about to own it or to take it down (`NothingForgotten`).
`restore`, which takes no mutex, is why `leaky` is in `NothingForgotten` and `NoForgottenCopy`.

`Copy`, for every compose file and every environment that was checked against it:
`CopiesAreApart` and `CopiesBootAsAsked`. The file is any that compose resolves
(`Resolved`: every service, mount, volume and network has the fields compose prints, what is
needed, mounted and joined is declared, no service needs itself, no two mounts of a service
have one target) and that uses no name GritQA keeps for itself (`Theirs`: neither its hold
profile nor the project of the copy). The graphs of needs may have any size and circles.

What the copy holds (`CopyHolds`) goes by kind: no container keeps a name of its own, every
volume and network is of the copy's project, and a directory that stays mounted is
read-only, since a mount is either sealed (`SealedMounts`) or a volume of the copy
(`WritableMounts`). `CopiedMounts` is why no two of them meet: a path made writable replaces
the mount that was there. Booting rests on one equation, `CopyIsUp`: what is up of the copy
under the profiles asked for is what would be up of the file, less what is left out, held
back or a step. The check refuses a kept service that needs an ignored one, and `detach`
drops needs of what is held or a step, so where the file starts without missing anything,
the copy does (`BootsAsTheirs`). Behind a schema step compose starts what it needs, the
least set closed under needs (`Needing`), and `SchemaBrings` says that nothing in it is held
back or another step.

### WebProofs

`Device`, for any number of codes, users, directories, submits and polls: `DeviceTyped`,
`TokensAreApprovals`. The invariant follows a decision through its statements: a submit
that is about to approve has resolved a project of its user that exists
(`SubmitsResolved`), an approved row carries a yes and that project (`ApprovalsSaid`), a
token repeats a claimed row and is alone with it (`TokensRepeat`). `WhatStays` is why the
statements in between do not matter: nothing takes a project away, and what a submit
said stays said.

`AgentWork`, for any number of jobs, processes, attempts and failed inserts: `AgentTyped`,
`OutcomesAreTheHolders`, `ReadingIsPaidOnce`, `TranscriptsInOrder` and `OutcomesAreFinal`,
with one connection or many, and however long anybody is silent. The invariant is `WorkInv`.
Its core is about an attempt that is `Heard`, at work on a job that was never taken or given
up over a living attempt: it works alone (`HeardAlone`), as the last attempt of its job, and
the job stays claimed in the name of its process until it concludes (`TheLeaseIsKept`).
Neither is assumed of anybody: whoever takes a silent job while somebody is at it puts the
job among the presumed, and the step that would break the invariant ends its hypothesis.
That nobody is at a job that is pending (`JobsAreTaken`) is why the other way in, a job
never begun, does no harm. `ReadsForTheFirstTime` and `ConcludedIsTold` say what is in the
transcript before such an attempt reads and after it settles (the latter with one
connection, on which inserts are ahead of the settling), and `TranscriptsGrow` puts the
seqs of a later attempt after those of an earlier one.

`OutcomeIsTheHolders` needs both halves of a conclusion: `Conclude` asks for the holder, so
what is said is said by it, and a settled job is never taken again, so the holder stays the
one who said it. For a job that was not presumed dead the attempt that says it is the last
one, by `TheLeaseIsKept`. `OutcomesAreFinal` is its counterpart for steps: a settled job
whose outcome changes has an attempt left that concludes, which `HeardAlone` and
`TheLeaseIsKept` exclude unless the job is among the presumed (`Final`).

### PlanEditProofs

For any number of tabs, jobs, steps, texts and versions: `EditTyped`, `VerdictsStayTrue`,
`ReceiptsStayTrue`. As in `PlansProofs`, the invariant says of every copy somebody holds
what stays true of it: a re-check holds the text of the version it read and verdicts on
it (`JobHolds`), a save past its reading holds the difference from the version it will be
compared with (`SaveHolds`). `Lands` then makes that version the current one, and
`JudgedSound`, `MergedSound` and `KeptSound` say that each of the three ways verdicts
come to a plan keeps them sound.

### ProjectProofs

`CodeIndex`, for any files, contents, processes and histories of edits: `CodeIndexTypes`,
`CacheAnswersForTheTree`, `ExtractionsAreKept`. What is stored is always the routes of the
tree it was read from, but for files the model had yet to read (`StoredOK`, `RoutesOf`),
and a row says what its key says (`RowsOK`). A pass at the model's door has in hand the
text of exactly the files whose hashes it has (`PassOK`), as long as no file changed
between its two readings. `EqualMaps` and `EqualTrees` are where a file without a hash
would break the argument, and `WholeRoutes` where an unread one would. `StepOfOne` carries
the passes a step is not about; `DisturbedOK` those that lost the cache they had read.
The prune is harmless because a row's `file` is the first half of its key.

`Conversation`, for any number of questions, attempts and places: `ConversationTyped`,
`AnswersFollow`, `AttemptsReadAlike`. The thread has no gaps (`NoGaps`), a turn is where
its question says (`TurnsInPlace`), and a chosen place has no free place before it
(`PlacesChosen`). The last is why an attempt reads the same history however late it
reads: what is before its question was full when the question was placed, and no row ever
changes. `WorkIsAsked` keeps attempts away from questions whose insert was refused.

`RouteSources`, of two claims about any code and `RoutesAreServed`, the run's, from them.
`FunctionIsToldAsServed` is about every Go function that compiles (`Function`), of any
length and any depth of groups, closures and blocks: walker and program go through it side
by side, and after each statement what the walker holds of every name it can read leads
where the name does (`Tie`, `StatementTies`). A field is apart in it: the walker binds it
where it first sees it, the program has had it all along, and `ReceiversAlike` says when
that makes no difference; the hypothesis it needs is how `UnseenField` was found.
`ProjectTellsWhatIsServed` is about every project whose routers are told apart by their
names and in which a name that some file binds is bound, by one of them, to what it stands
for (`Project`): a visit all of whose prefixes are known is a chain of mounts of the
project (`VisitsAreServed`), and since a visit has seen one owner more than there are
mounts above it (`VisitsAreKnown`), owners run out before levels do, so that what is never
come to is mounted in a circle (`AllReached`). Scopes, names and levels are recursive
functions over numbers; each is unfolded once (`InScopeIs`, `EnvsAre`, `VisitLevelsAre`) by
a least number for which there is no such function.

### AttachProofs

For any number of machines, plans, requests, errands and calls on the network:
`AttachTyped`, `CutWalksStayUnjudged`, `MachinesWorkApart`, `PreviewsComeFirst`,
`AttachUsesTheQueue`. The first two hold in any weather. A process is `Sound`: what it has
in hand at each stage, that it beats only for that errand, and that a walk which was cut
is not one it reports on; and a call in flight says nothing its walk did not (`AttachInv`).

The other two need good weather, and there the argument is about who the queue believes
(`GoodInv`). While a machine whose session goes on has an errand in hand it beats for it
(`Beaten`), and the row is claimed in its name and is not quiet (`InHand`): no reap takes it
away, so nobody else is handed it. One claimant a row gives `MachinesWorkApart`. It is
about the network as well (`SpeaksInOrder`): what a machine has in flight is the one last
word it waits for, or previews of the walk it is at, or those an interrupted walk left
behind, beside which there can be a release and no record (`Orderly`). A step is shown to
keep this for its machine (`Becomes`) and to leave what the others hold alone.

`AttachUsesTheQueue` is the refinement `Spec => Queue!Spec`, step by step
(`StepsOfTheQueue`): a poll and a request's steps are the queue's own, a call that lands
is the call of the machine that sent it or, when the queue no longer holds the errand for
it, nothing. Every theorem of `MachineQueueProofs` therefore holds of the errands of
attached machines.

### What stays with TLC

Liveness (`DeadErrandFreesPlan`, `EveryRequestEnds`, `RunEnds`, `EveryErrandIsSettled`,
`ResearchSandboxIsReaped`), which the prover cannot do under fairness. And three properties
over cases: `RecordsAgree` and `PagesFollowTheRuns` are about sorted and filtered histories,
`LedgerTellsTheCopy` about folds over the tables of a reading. Their operator parameters are
what none of the provers can instantiate, and a least counterexample does for a function over
numbers, not for those.

## 5. What the checks found

Each is in `PROJECT.json` with the quoted line it contradicts.

- Queue: a web process that dies between burying an errand and settling its run, or
  between claiming on the last attempt and starting the run, leaves a plan that can
  never be run again. Two simultaneous clicks queue two passes over the code. Previews
  survive a run in error.
- Agent work: a lease names a process and settling does not ask whether the job is still
  claimed, so a finished job can be failed by a rival attempt. A job is marked complete
  before its transcript landed, outside production, and a note can find its seq taken
  with no second writer. Findings are cut at 4,000 characters; a barrier can throw.
- Plans: approving names no version; a revision can bring back a plan retired
  meanwhile; a terminal run is filed under whatever version is current; a push that
  loses a race becomes a second plan, pushes are never equal to a checked plan, and
  nobody can restore an archived plan.
- Editor: a page rendered again under the typing saves the copy over a revision its
  author never saw; the reload a refused save asks for deletes the
  edit; a second look that broke replaces the verdict it says stands; a verification
  that broke counts as one that confirmed everything.
- Engine: a run cancelled between steps is recorded as passed by `gritqa run`; a repair
  that turns a read into a write is not measured; sql and shell steps that passed on a
  later attempt keep the first one's error; the editor lets blanks through and agent
  drafts are not held to its bar at all.
- Attach: a pass over the code whose errand was handed on while it was pushed is
  settled all the same (the queue refuses it). After Ctrl-C nobody beats while the walk and
  its sandbox are wound down, so the errand can be handed to a second machine meanwhile.
- Sandbox: a stack `run_plan` brought up is never reaped; `restore` takes no mutex;
  teardown looks at nobody in flight; after a reset that broke, `start_sandbox` answers
  that all is well.
- Copies: a database nobody has a client for still has to have a login; schema steps run in
  the order of their names; a service measured over SQL that is no support service may not
  come up; egress is not denied on a network whose driver is not a bridge, nor to a service
  on the host's network; nothing sweeps what a
  dead process labelled; support services behind a profile of their own are not booted.
- Readings: what is counted was found once, at the baseline, so that a table a migration adds
  has no rows; Postgres's timestamps are not recognised as such; an update that leaves the
  count and the key alone says nothing.
- Step texts: the reply's gate takes an array for a body and a value check with nothing to
  compare against; the form and the reply's gate read a sql step without a target as one
  that verifies, the machine executes it; pushing shortens ids and names; the form keeps what the
  loader refuses (white space for a path) and turns `NaN` into a number JSON does not have.
- Answers: a verify statement counts 200 rows at most; a number wider than a float comes back
  as another; a url with white space around it passes the loader and is sent with it.
- Reports: an endpoint's pattern is written two ways (`{{id}}`, `:id`); a limit of the route
  has no counterpart in the machine; a run that broke past its 500th step is reported without
  the step that broke it; one U+0000 loses the whole report.
- Pages: the failure a redraft is told of is the first row's first check, whether or not that
  is what failed; runs without a start come first in the newest-first order; a contradiction
  outlives the run that disproved it; the sentence of a check is not the terminal's.
- Routes read off code: a prefix without a slash and the prefix of a group that cannot be read
  are dropped; closures in what is bound to a name are not read; a field of a struct that is
  given a name before anything was done with it is no router, and its routes are nowhere or
  under another router's prefix; routers that mount each other in a circle vanish without a word; a dotted name takes the value of another module's constant.
- Conversations: an answer whose slot the next question took is dropped and its job
  says answered; a process that dies between question and work leaves a question
  nothing looks for.
- Relay: overlapping turns on one machine lose or swap answers; a turn that waits on a
  replaced dial is told nothing.
- Devices: the loser of two racing decisions enters the audit trail as if it had been made.
- Code index: a file the model could not read is not tried again until a file changes,
  whatever the message says; an edit between the two readings of a file caches the new
  text's endpoints under the old text's hash; a file too large has the hash of no file.

## 6. The plan, done and left

Done, most important first: the queue with its refinement and proofs, agent work, plans
with proofs, the engine with proofs, the attach loop composed with the queue, the
sandbox, conversations, relay, device codes, the editor and the code index, all with
proofs; then the functions these lean on: step texts, answers, reports, pages, copies,
readings and routers, those of step texts, answers, copies and routers with proofs.

Left: the theorems about histories and readings; the composition of
`RunEngine` with `Sandbox`, where a walk would meet a copy that was taken down under it;
the composition of `AgentWork` with `Conversation`, which has the queue's part of it in
one step per statement; the dashboard's mirror of an index, and the reads of the work page.

## 7. Not modelled, and why

- Syntax: how the parsers of four languages find registrations in a text. What becomes of
  the prefixes they find is `RouteSources`; that the model reads the rest is any answer in
  `CodeIndex`. The dashboard's mirror of an index is one transaction.
- Pages and components other than the plan editor and the step form: layout, labels, times,
  and queries that no two places answer. The read models about runs are in `Reporting` and
  `PlanReads`.
- Rules, settings, endpoint checks, the project's key: single statements on rows one
  person owns. What a probe says of an endpoint is in `Reporting`.
- Prompts, tool digests, what the model writes: data. The models take any text and any
  verdict, and hold the text to the gates of `StepText`.
- How a compose file is found, and compose's own reading of it: `Copy` starts from what
  `docker compose config` prints. Fingerprints and the reading tools of the MCP server.
- Sign-in, cookies and encryption: no protocol between actors beyond the device flow.
  The audit log, except for approvals and the device flow's entries.
- The terminal: local drafting, configuration, git, output. The evaluation harness.
- Postgres: a statement is atomic, READ COMMITTED is taken at its word, locks are not
  modelled. `touchInstance` and a machine's presence: nothing modelled reads them.
