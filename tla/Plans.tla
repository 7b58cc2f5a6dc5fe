-------------------------------- MODULE Plans --------------------------------
(***************************************************************************)
(* The life of a test plan: drafted by an agent, by hand or at a terminal, *)
(* revised, approved, retired, and turned into runs (web/src/lib/db:       *)
(* drafts.ts, plans.ts, jobs.ts, cli.ts; cli/internal/app/push.go).        *)
(*                                                                         *)
(* The database runs at READ COMMITTED, so a transaction that reads a plan *)
(* and then writes it is two steps, and the predicate of its UPDATE is all *)
(* the second one checks.  Reading a page, a file or a plan, and acting on *)
(* it, are two steps as well, however long apart.                          *)
(*                                                                         *)
(* Of plan_json only which text it is is kept, and of a run the version it *)
(* names and the text it ran.  Which runs are live is MachineQueue's       *)
(* concern: here a run asked for may always find another one live.         *)
(*                                                                         *)
(* Operators whose names end in _ are mutants of the operator after them.  *)
(***************************************************************************)
EXTENDS Naturals, FiniteSets

CONSTANTS
  Text,         \* what a plan can say
  NoText,       \* no draft file, no plan
  Writer,       \* refinements, re-checks and open editors on the dashboard
  Reader,       \* people with a plan's page open
  Order,        \* "run it" requests
  Terminal,     \* gritqa processes at a terminal
  File,         \* draft files under .gritqa/drafts
  NoFile,
  MaxPlans,     \* bound: plans ever made
  MaxVersion,   \* bound: versions of a plan
  MaxRuns       \* bound: runs recorded

ASSUME NullsAssumption == NoText \notin Text /\ NoFile \notin File
ASSUME PlanBoundsAssumption ==
  /\ MaxPlans \in Nat /\ MaxVersion \in Nat \ {0} /\ MaxRuns \in Nat

VARIABLES
  status,     \* test_plans.status, "none" before the row exists
  version,    \* test_plans.version
  text,       \* test_plans.plan_json
  revisions,  \* plan_revisions by version, and the text each one brought
  approvals,  \* the audit log's approvals, and the version each approver had read
  runs,       \* the test_executions rows
  drafting,   \* what each dashboard writer read and is about to write
  page,       \* what each reader's page shows
  order,      \* the plan row each "run it" request selected
  file,       \* what each draft file says
  held,       \* remote_plans: the plan a draft file became
  term        \* what each gritqa process is doing

planVars == <<status, version, text, revisions>>
webVars  == <<drafting, page, order>>
cliVars  == <<file, held, term>>
vars     == <<planVars, approvals, runs, webVars, cliVars>>

Plan    == 1..MaxPlans
NoPlan  == 0
Version == 1..MaxVersion

NoRevision == [by |-> "nobody", basis |-> 0, text |-> NoText]
AtRest     == [at |-> "idle", plan |-> NoPlan, basis |-> 0]
NoOrder    == [at |-> "idle", plan |-> NoPlan, basis |-> 0, text |-> NoText]
AtPrompt   == [at |-> "idle", file |-> NoFile, plan |-> NoPlan, basis |-> 0,
               text |-> NoText, reporting |-> FALSE]

Init ==
  /\ status    = [p \in Plan |-> "none"]
  /\ version   = [p \in Plan |-> 0]
  /\ text      = [p \in Plan |-> NoText]
  /\ revisions = [p \in Plan |-> [v \in Version |-> NoRevision]]
  /\ approvals = {}
  /\ runs      = {}
  /\ drafting  = [w \in Writer |-> AtRest]
  /\ page      = [r \in Reader |-> AtRest]
  /\ order     = [o \in Order |-> NoOrder]
  /\ file      = [f \in File |-> NoText]
  /\ held      = [f \in File |-> NoPlan]
  /\ term      = [t \in Terminal |-> AtPrompt]

Exists(p) == status[p] # "none"
IsNext(p) == ~Exists(p) /\ \A q \in Plan : q < p => Exists(q)

\* Mutant: the version goes up and its row is forgotten.
LandSilently_(p, v, s, author, basis) ==
  /\ status'  = [status EXCEPT ![p] = "draft"]
  /\ version' = [version EXCEPT ![p] = v]
  /\ text'    = [text EXCEPT ![p] = s]
  /\ UNCHANGED revisions

\* A version of a plan and its plan_revisions row: one fact, written as one.
Land(p, v, s, author, basis) ==
  /\ status'    = [status EXCEPT ![p] = "draft"]
  /\ version'   = [version EXCEPT ![p] = v]
  /\ text'      = [text EXCEPT ![p] = s]
  /\ revisions' = [revisions EXCEPT ![p][v] = [by |-> author, basis |-> basis, text |-> s]]

-----------------------------------------------------------------------------
(* The dashboard's writers.                                                *)

\* writeNewPlan.
WriteNewPlan(p, s) ==
  /\ IsNext(p)
  /\ Land(p, 1, s, "dashboard", 0)
  /\ UNCHANGED <<approvals, runs, webVars, cliVars>>

\* A refinement or a re-check reads the plan when its work begins, an editor when
\* its page is rendered.
ReadToRevise(w, p) ==
  /\ drafting[w].at = "idle" /\ Exists(p) /\ version[p] < MaxVersion
  /\ drafting' = [drafting EXCEPT ![w] = [at |-> "thinking", plan |-> p, basis |-> version[p]]]
  /\ UNCHANGED <<planVars, approvals, runs, page, order, cliVars>>

\* writeRevision's SELECT: PlanArchivedError and PlanMovedError end the attempt.
ReviseSelect(w) ==
  LET p == drafting[w].plan
  IN  /\ drafting[w].at = "thinking"
      /\ drafting' = IF status[p] # "archived" /\ version[p] = drafting[w].basis
                     THEN [drafting EXCEPT ![w].at = "updating"]
                     ELSE [drafting EXCEPT ![w] = AtRest]
      /\ UNCHANGED <<planVars, approvals, runs, page, order, cliVars>>

\* Its UPDATE, which asks for the version again, and the insert of the revision.
ReviseUpdate(w, s) ==
  LET d == drafting[w]
  IN  /\ d.at = "updating"
      /\ drafting' = [drafting EXCEPT ![w] = AtRest]
      /\ IF version[d.plan] = d.basis
         THEN Land(d.plan, d.basis + 1, s, "dashboard", d.basis)
         ELSE UNCHANGED planVars
      /\ UNCHANGED <<approvals, runs, page, order, cliVars>>

-----------------------------------------------------------------------------
(* The gate.                                                               *)

OpenPage(r, p) ==
  /\ Exists(p)
  /\ page' = [page EXCEPT ![r] = [AtRest EXCEPT !.at = "reading", !.plan = p, !.basis = version[p]]]
  /\ UNCHANGED <<planVars, approvals, runs, drafting, order, cliVars>>

\* movePlanStatus: one UPDATE on a status, and on no version.
MovePlanStatus(p, from, to) ==
  /\ status[p] = from
  /\ status' = [status EXCEPT ![p] = to]
  /\ UNCHANGED <<version, text, revisions>>

\* approvePlanAction, and the first half of approveAndRunPlanAction.
ApprovePlan(r) ==
  LET p == page[r].plan
  IN  /\ page[r].at = "reading"
      /\ MovePlanStatus(p, "draft", "approved")
      /\ approvals' = approvals \cup {[plan |-> p, version |-> version[p], read |-> page[r].basis]}
      /\ page' = [page EXCEPT ![r] = AtRest]
      /\ UNCHANGED <<runs, drafting, order, cliVars>>

\* sendBackPlanAction and archivePlanAction.
RetirePlan(r) ==
  /\ page[r].at = "reading"
  /\ \E from \in {"draft", "approved"} : MovePlanStatus(page[r].plan, from, "archived")
  /\ page' = [page EXCEPT ![r] = AtRest]
  /\ UNCHANGED <<approvals, runs, drafting, order, cliVars>>

-----------------------------------------------------------------------------
(* Runs asked for on the dashboard.                                        *)

Record(p, v, s, by) ==
  /\ Cardinality(runs) < MaxRuns
  /\ runs' = runs \cup {[plan |-> p, version |-> v, text |-> s, by |-> by]}

\* enqueueRun's SELECT: the row of an approved plan.
RunSelect(o, p) ==
  /\ order[o].at = "idle" /\ status[p] = "approved"
  /\ order' = [order EXCEPT ![o] = [at |-> "selected", plan |-> p, basis |-> version[p],
                                    text |-> text[p]]]
  /\ UNCHANGED <<planVars, approvals, runs, drafting, page, cliVars>>

\* Mutant: the payload is read off the plan when the errand is written.
RunInsertLate_(o) ==
  /\ order[o].at = "selected"
  /\ \/ Record(order[o].plan, order[o].basis, text[order[o].plan], "dashboard")
     \/ UNCHANGED runs
  /\ order' = [order EXCEPT ![o] = NoOrder]
  /\ UNCHANGED <<planVars, approvals, drafting, page, cliVars>>

\* Its INSERTs: the run and the errand carry the row as it was selected; a run of
\* the plan that is already live leaves nothing to insert.
RunInsert(o) ==
  /\ order[o].at = "selected"
  /\ \/ Record(order[o].plan, order[o].basis, order[o].text, "dashboard")
     \/ UNCHANGED runs
  /\ order' = [order EXCEPT ![o] = NoOrder]
  /\ UNCHANGED <<planVars, approvals, drafting, page, cliVars>>

-----------------------------------------------------------------------------
(* A developer's terminal.                                                 *)

OnlyTerm == UNCHANGED <<planVars, approvals, runs, webVars>>

\* A draft file is edited by hand, or thrown away.
ChangeFile(f, s) ==
  /\ file[f] # NoText /\ file[f] # s
  /\ file' = [file EXCEPT ![f] = s]
  /\ OnlyTerm /\ UNCHANGED <<held, term>>

\* gritqa --draft: a name that is free, and then the push under whatever plan this
\* machine remembers for that name.
DraftAtTerminal(t, f, s) ==
  /\ term[t].at = "idle" /\ file[f] = NoText
  /\ file' = [file EXCEPT ![f] = s]
  /\ term' = [term EXCEPT ![t] = [at |-> "sending", file |-> f, plan |-> held[f], basis |-> 0,
                                  text |-> s, reporting |-> FALSE]]
  /\ OnlyTerm /\ UNCHANGED held

\* gritqa --plan: the file is read, and run.
RunFile(t, f) ==
  /\ term[t].at = "idle" /\ file[f] # NoText
  /\ term' = [term EXCEPT ![t] = [at |-> "ran", file |-> f, plan |-> NoPlan, basis |-> 0,
                                  text |-> file[f], reporting |-> FALSE]]
  /\ OnlyTerm /\ UNCHANGED <<file, held>>

\* pushes.run for a file that never went up: the plan goes first.
PushFirst(t) ==
  /\ term[t].at = "ran" /\ held[term[t].file] = NoPlan
  /\ term' = [term EXCEPT ![t].at = "sending", ![t].plan = NoPlan, ![t].reporting = TRUE]
  /\ OnlyTerm /\ UNCHANGED <<file, held>>

\* recordRun: filed under the plan's version of that moment.
RecordRun(t) ==
  LET p == held[term[t].file]
  IN  /\ term[t].at = "ran" /\ p # NoPlan
      /\ Record(p, version[p], term[t].text, "terminal")
      /\ term' = [term EXCEPT ![t] = AtPrompt]
      /\ UNCHANGED <<planVars, approvals, webVars, file, held>>

\* savePlan with no plan named.
SaveNewPlan(t, p) ==
  /\ term[t].at = "sending" /\ term[t].plan = NoPlan
  /\ IsNext(p)
  /\ Land(p, 1, term[t].text, "terminal", 0)
  /\ term' = [term EXCEPT ![t].at = "filing", ![t].plan = p]
  /\ UNCHANGED <<approvals, runs, webVars, file, held>>

Canonical(a, b) == a = b

\* savePlan's SELECT: refused when archived, answered when the text is the same.
SaveSelect(t) ==
  LET p == term[t].plan
  IN  /\ term[t].at = "sending" /\ p # NoPlan
      /\ term' = IF status[p] = "archived" THEN [term EXCEPT ![t] = AtPrompt]
                 ELSE IF Canonical(text[p], term[t].text) THEN [term EXCEPT ![t].at = "filing"]
                 ELSE [term EXCEPT ![t].at = "saving", ![t].basis = version[p]]
      /\ OnlyTerm /\ UNCHANGED <<file, held>>

\* Its UPDATE, under the version it selected.
SaveUpdate(t) ==
  LET p == term[t].plan
  IN  /\ term[t].at = "saving" /\ version[p] = term[t].basis
      /\ version[p] < MaxVersion
      /\ Land(p, version[p] + 1, term[t].text, "terminal", version[p])
      /\ term' = [term EXCEPT ![t].at = "filing"]
      /\ UNCHANGED <<approvals, runs, webVars, file, held>>

\* The version moved in between: the answer is "unknown", a 404, and pushes.plan takes
\* it that the plan is gone and sends the text again as a new one.
SaveLosesRace(t) ==
  /\ term[t].at = "saving" /\ version[term[t].plan] # term[t].basis
  /\ term' = [term EXCEPT ![t].at = "sending", ![t].plan = NoPlan]
  /\ OnlyTerm /\ UNCHANGED <<file, held>>

SaveRemotePlan(t) ==
  /\ term[t].at = "filing"
  /\ held' = [held EXCEPT ![term[t].file] = term[t].plan]
  /\ term' = [term EXCEPT ![t] = IF @.reporting THEN [@ EXCEPT !.at = "ran"] ELSE AtPrompt]
  /\ OnlyTerm /\ UNCHANGED file

\* The process is stopped, or a call of it fails or loses its answer.
TerminalGivesUp(t) ==
  /\ term[t].at # "idle"
  /\ term' = [term EXCEPT ![t] = AtPrompt]
  /\ OnlyTerm /\ UNCHANGED <<file, held>>

-----------------------------------------------------------------------------
Revising(w) == ReviseSelect(w) \/ \E s \in Text : ReviseUpdate(w, s)

Saving(t) ==
  \/ \E p \in Plan : SaveNewPlan(t, p)
  \/ SaveSelect(t) \/ SaveUpdate(t) \/ SaveLosesRace(t) \/ SaveRemotePlan(t)

Next ==
  \/ \E p \in Plan, s \in Text : WriteNewPlan(p, s)
  \/ \E w \in Writer : Revising(w) \/ \E p \in Plan : ReadToRevise(w, p)
  \/ \E r \in Reader : ApprovePlan(r) \/ RetirePlan(r) \/ \E p \in Plan : OpenPage(r, p)
  \/ \E o \in Order : RunInsert(o) \/ \E p \in Plan : RunSelect(o, p)
  \/ \E f \in File, s \in Text \cup {NoText} : ChangeFile(f, s)
  \/ \E t \in Terminal, f \in File : RunFile(t, f) \/ \E s \in Text : DraftAtTerminal(t, f, s)
  \/ \E t \in Terminal : PushFirst(t) \/ RecordRun(t) \/ Saving(t) \/ TerminalGivesUp(t)

Spec == Init /\ [][Next]_vars

-----------------------------------------------------------------------------
(* Properties.                                                             *)

\* Every row and every request holds values of its type.
PlansTypeOK ==
  /\ status \in [Plan -> {"none", "draft", "approved", "archived"}]
  /\ version \in [Plan -> 0..MaxVersion]
  /\ text \in [Plan -> Text \cup {NoText}]
  /\ \A p \in Plan, v \in Version :
       revisions[p][v] \in [by : {"dashboard", "terminal"}, basis : 0..MaxVersion, text : Text]
                           \cup {NoRevision}
  /\ approvals \subseteq [plan : Plan, version : Version, read : Version]
  /\ runs \subseteq [plan : Plan, version : Version, text : Text, by : {"dashboard", "terminal"}]
  /\ \A w \in Writer : drafting[w].at \in {"idle", "thinking", "updating"}
  /\ held \in [File -> Plan \cup {NoPlan}]
  /\ file \in [File -> Text \cup {NoText}]

\* The revision thread is the plan's whole history: one row for every version up to
\* the current one, none beyond it, and the current text is what the last row brought.
ThreadIsTheHistory ==
  \A p \in Plan :
    /\ \A v \in Version : (revisions[p][v] = NoRevision) <=> (v > version[p])
    /\ version[p] > 0 => text[p] = revisions[p][version[p]].text

\* Nobody's work is applied on top of a plan it never read: every version answers the
\* one just before it.
RevisionAnswersWhatItRead ==
  \A p \in Plan, v \in Version : revisions[p][v] # NoRevision => revisions[p][v].basis = v - 1

\* Approval is of a particular text: a plan is approved only at a version somebody
\* approved, however revisions, pushes and clicks cross.
ApprovedAtThisVersion ==
  \A p \in Plan : status[p] = "approved" =>
    \E a \in approvals : a.plan = p /\ a.version = version[p]

\* A run asked for on the dashboard executes the text of the version it names, and
\* that version was approved.
RunTextWasApproved ==
  \A r \in runs : r.by = "dashboard" =>
    /\ r.text = revisions[r.plan][r.version].text
    /\ \E a \in approvals : a.plan = r.plan /\ a.version = r.version

\* A push makes a version only of a text that differs from the version it replaces.
PushedVersionIsNews ==
  \A p \in Plan, v \in Version : (v > 1 /\ revisions[p][v].by = "terminal") =>
    revisions[p][v].text # revisions[p][v - 1].text

-----------------------------------------------------------------------------
(* Claims of the code's comments that do not hold: added to a              *)
(* configuration, each gives the trace its finding tells.                  *)

\* The person who approves a plan has read what is approved (actions/plans.ts: "nothing
\* runs until you say so"; approve-confirm.tsx: "should have read the statement").
ApprovalIsOfReadText == \A a \in approvals : a.read = a.version

\* A retired plan takes no new version ("Restore it before revising it"; nothing in the
\* dashboard restores one).
ArchivedStaysArchived ==
  [][\A p \in Plan : status[p] = "archived" => status'[p] = "archived"]_vars

\* A terminal run is filed under the version whose text it read ("the two agree by
\* construction").
TerminalRunNamesItsText ==
  \A r \in runs : r.by = "terminal" => r.text = revisions[r.plan][r.version].text
=============================================================================
