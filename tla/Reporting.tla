----------------------------- MODULE Reporting ------------------------------
(***************************************************************************)
(* What is told of a run, and to whom: the report a machine sends          *)
(* (cli/internal/cloud/report.go), the local history it keeps              *)
(* (cli/internal/app/run.go, cli/internal/index/history.go), what the      *)
(* route takes of the report (web/src/lib/cli/report.ts), the rows it      *)
(* becomes (web/src/lib/db/cli.ts) and what is read off the rows           *)
(* (web/src/lib/runs.ts, web/src/lib/db/runs.ts, coverage.ts).             *)
(*                                                                         *)
(* A text is a sequence of characters, told apart by what some step of the *)
(* way makes of them: "white" is blank to both sides and "feff" to the web *)
(* alone, "wide" takes two bytes, "quote" two where it is quoted, "bad" is *)
(* a byte that is no UTF-8, "nul" is U+0000, "base" is the base URL.       *)
(* A body is a text and whether it is JSON.  Unsaid is a field that is not *)
(* in a JSON object, null, and SQL's NULL.                                 *)
(* A run.Result is [outcome, steps, moved, stateErr], and runs are held    *)
(* against what the plan declared, a function of step ids.                 *)
(*                                                                         *)
(* Operators whose names end in _ are mutants of the operator after them.  *)
(***************************************************************************)
EXTENDS Integers, Sequences, SequencesExt

CONSTANTS
  Unsaid,      \* no value
  MaxSteps,    \* steps of a report (500)
  MaxId,       \* bytes of an id or a name on one side, characters on the other (255)
  MaxText,     \* the same of any other text (4096)
  MaxBody,     \* bytes of a body (65536)
  MaxMoved     \* ledger rows of a report (2000)

-----------------------------------------------------------------------------
(* Texts.                                                                  *)

Char == {"plain", "wide", "quote", "white", "feff", "mark", "base", "bad", "nul"}

Width  == [c \in Char |-> CASE c = "wide" -> 2 [] c \in {"feff", "mark", "base"} -> 3 [] OTHER -> 1]
Quoted == [c \in Char |-> CASE c = "quote" -> 2 [] c = "nul" -> 6 [] OTHER -> Width[c]]

Total(t, size) == LET upTo[k \in 0..Len(t)] == IF k = 0 THEN 0 ELSE upTo[k - 1] + size[t[k]] IN upTo[Len(t)]
Bytes(t)       == Total(t, Width)
QuotedBytes(t) == 2 + Total(t, Quoted)

Stripped(t, blank) ==
  LET inked == {k \in DOMAIN t : t[k] \notin blank}
  IN  IF inked = {} THEN <<>> ELSE SubSeq(t, Min(inked), Max(inked))

Spaces   == {"white"}            \* unicode.IsSpace
JSSpaces == {"white", "feff"}    \* String.prototype.trim

\* cut: to a number of bytes, and then back to where the text is UTF-8 again.
Cut(t, n) ==
  LET s    == Stripped(t, Spaces)
      head == SubSeq(s, 1, Max({k \in 0..Len(s) : Bytes(SubSeq(s, 1, k)) <= n}))
      bad  == {k \in DOMAIN head : head[k] = "bad"}
  IN  IF Bytes(s) <= n THEN s ELSE IF bad = {} THEN head ELSE SubSeq(head, 1, Min(bad) - 1)

\* encoding/json: a byte that is no UTF-8 becomes U+FFFD, and omitempty leaves "" out.
OnWire(t) == [k \in DOMAIN t |-> IF t[k] = "bad" THEN "mark" ELSE t[k]]
Omitted(t) == IF t = <<>> THEN Unsaid ELSE OnWire(t)

\* str: trimmed, null when nothing is left, shortened.
Str(t, n) ==
  IF t = Unsaid \/ Stripped(t, JSSpaces) = <<>> THEN Unsaid
  ELSE LET s == Stripped(t, JSSpaces) IN SubSeq(s, 1, Min({Len(s), n}))

TooBig(n) == [truncated |-> n]

\* payload: as it is when it is JSON, quoted when it is not, its size when it is too big.
Payload(b) ==
  CASE b.text = <<>>           -> Unsaid
    [] Bytes(b.text) > MaxBody -> TooBig(Bytes(b.text))
    [] OTHER                   -> [b EXCEPT !.text = IF b.json THEN @ ELSE OnWire(@)]

\* bounded: what was sent, or its size as it was sent.
Bounded(v) ==
  IF v = Unsaid \/ "truncated" \in DOMAIN v THEN v
  ELSE LET n == IF v.json THEN Bytes(v.text) ELSE QuotedBytes(v.text)
       IN  IF n > MaxBody THEN TooBig(n) ELSE v

-----------------------------------------------------------------------------
(* The report.                                                             *)

Bad == {"failed", "error"}

BrokeIn(steps) == \E k \in DOMAIN steps : steps[k].status \in Bad

\* pattern: the URL as the plan wrote it, for a request alone.
Pattern(s, declared) ==
  LET url == IF declared.url # <<>> THEN declared.url ELSE s.url
  IN  IF s.kind # "http" THEN <<>>
      ELSE IF url # <<>> /\ Head(url) = "base" THEN Tail(url) ELSE url

Units(moved) == IF moved = <<>> THEN Unsaid ELSE moved

OrElse(t, u) == IF t = <<>> THEN u ELSE t

\* step: no rows and an exit of nothing are answers, and are sent.
WireStep(i, s, declared) ==
  LET id == OrElse(Cut(s.id, MaxId), <<"step", ToString(i)>>) IN
  [stepId |-> OnWire(id), stepName |-> OnWire(OrElse(Cut(s.name, MaxId), id)),
   status |-> s.status, kind |-> IF s.kind = "http" THEN Unsaid ELSE s.kind,
   method |-> IF s.method = "" THEN Unsaid ELSE s.method,
   routePattern   |-> Omitted(Cut(Pattern(s, declared), MaxText)),
   requestUrl     |-> Omitted(Cut(s.url, MaxText)),
   requestBody    |-> Payload(declared.body),
   responseStatus |-> IF s.code = 0 THEN Unsaid ELSE s.code,
   responseBody   |-> Payload(s.body),
   rowCount       |-> IF s.kind = "sql" THEN s.rows ELSE Unsaid,
   exitCode       |-> IF s.kind = "shell" THEN s.exit ELSE Unsaid,
   output         |-> IF s.kind = "shell" THEN Omitted(Cut(s.out, MaxText)) ELSE Unsaid,
   assertions     |-> IF s.checks = <<>> THEN Unsaid ELSE s.checks,
   errorMessage   |-> Omitted(Cut(s.err, MaxText)),
   moved          |-> Units(s.moved)]

Unmet(checks) == IF checks = Unsaid THEN {} ELSE {k \in DOMAIN checks : ~checks[k]}

\* reason: what a step that did not pass says of it.
Reason(w) ==
  CASE w.status \in {"error", "skipped"} -> w.errorMessage
    [] w.status = "failed" -> IF Unmet(w.assertions) = {} THEN w.errorMessage ELSE Unmet(w.assertions)
    [] OTHER -> Unsaid

\* why: the first step with a reason, and how many more there are.
Why(steps) ==
  LET told == {k \in DOMAIN steps : Reason(steps[k]) # Unsaid}
  IN  IF told = {} THEN Unsaid ELSE [first |-> Min(told), more |-> Cardinality(told) - 1]

\* fit: a failed report keeps a step that broke.
Fit(steps, outcome) ==
  LET kept    == SubSeq(steps, 1, Min({Len(steps), MaxSteps}))
      dropped == Len(steps) - Len(kept)
      broken  == {k \in DOMAIN steps : k > MaxSteps /\ steps[k].status \in Bad}
  IN  [dropped |-> dropped,
       kept |-> IF dropped = 0 \/ outcome # "failed" \/ BrokeIn(kept) \/ broken = {} THEN kept
                ELSE [kept EXCEPT ![MaxSteps] = steps[Min(broken)]]]

Undeclared == [url |-> <<>>, body |-> [json |-> FALSE, text |-> <<>>]]

DeclaredAs(declared, id) == IF id \in DOMAIN declared THEN declared[id] ELSE Undeclared

\* Reported, of steps as they are sent.
ReportOf(res, steps, fit) ==
  LET note == [why |-> Why(steps), dropped |-> fit.dropped]
  IN  [outcome |-> res.outcome, steps |-> fit.kept, moved |-> Units(res.moved),
       stateNote |-> Omitted(Cut(res.stateErr, MaxText)),
       errorMessage |-> IF note = [why |-> Unsaid, dropped |-> 0] THEN Unsaid ELSE note]

Reported(res, declared) ==
  LET steps == [k \in DOMAIN res.steps |-> WireStep(k, res.steps[k], DeclaredAs(declared, res.steps[k].id))]
  IN  ReportOf(res, steps, Fit(steps, res.outcome))

\* Failed: an errand that could not be carried out.
CouldNot == [outcome |-> "error", steps |-> <<>>, moved |-> Unsaid, stateNote |-> Unsaid,
             errorMessage |-> [why |-> Unsaid, dropped |-> 0]]

-----------------------------------------------------------------------------
(* What the route takes.                                                   *)

\* parseMoved: the whole ledger or, where a unit has no name it can keep, nothing.
ParsedMoved(moved) ==
  LET units == IF moved = Unsaid THEN <<>>
               ELSE [k \in DOMAIN moved |-> [moved[k] EXCEPT !.unit = Stripped(@, JSSpaces)]]
  IN  IF \A k \in DOMAIN units : Len(units[k].unit) \in 1..MaxText THEN units ELSE Unsaid

\* parseStep.
ParsedStep(w) ==
  LET id    == Stripped(w.stepId, JSSpaces)
      name  == Stripped(w.stepName, JSSpaces)
      kind  == IF w.kind = Unsaid THEN "http" ELSE w.kind
      moved == ParsedMoved(w.moved)
      taken == /\ {Len(id), Len(name)} \subseteq 1..MaxId
               /\ w.status \in {"pending", "passed", "failed", "skipped", "error"}
               /\ kind \in {"http", "sql", "shell"}
               /\ moved # Unsaid
  IN  IF ~taken THEN Unsaid
      ELSE [w EXCEPT !.stepId = id, !.stepName = name, !.kind = kind, !.moved = moved,
              !.routePattern = IF kind = "http" THEN Str(@, MaxText) ELSE Unsaid,
              !.requestUrl = Str(@, MaxText), !.output = Str(@, MaxText),
              !.errorMessage = Str(@, MaxText),
              !.requestBody = Bounded(@), !.responseBody = Bounded(@)]

LedgerRows(steps, moved) == Len(FlattenSeq([k \in DOMAIN steps |-> steps[k].moved])) + Len(moved)

Contradictory(outcome, steps) ==
  \/ outcome = "passed" /\ BrokeIn(steps)
  \/ outcome = "failed" /\ ~BrokeIn(steps)

\* parseReport: the report as it is kept, or the first thing that is wrong with it.
Accepted(rep, steps, moved) ==
  LET error == CASE rep.outcome \notin {"passed", "failed", "error"} -> "invalid_outcome"
                 [] Len(rep.steps) > MaxSteps                        -> "too_many_steps"
                 [] \E k \in DOMAIN steps : steps[k] = Unsaid        -> "invalid_step"
                 [] Contradictory(rep.outcome, steps)                -> "contradictory_outcome"
                 [] moved = Unsaid                                   -> "invalid_moved"
                 [] LedgerRows(steps, moved) > MaxMoved              -> "too_much_state"
                 [] OTHER                                            -> "none"
  IN  [error |-> error,
       report |-> IF error # "none" THEN Unsaid
                  ELSE [rep EXCEPT !.steps = steps, !.moved = moved, !.stateNote = Str(@, MaxText)]]

ParsedReport(rep) ==
  Accepted(rep, [k \in DOMAIN rep.steps |-> ParsedStep(rep.steps[k])], ParsedMoved(rep.moved))

\* Postgres keeps no U+0000, in a text or in a jsonb.
Nul(t) == t # Unsaid /\ \E k \in DOMAIN t : t[k] = "nul"
NulIn(v) == v # Unsaid /\ "text" \in DOMAIN v /\ Nul(v.text)

\* testResults and executionState: a row of each can be kept.
StorableResult(r) ==
  /\ ~NulIn(r.requestBody) /\ ~NulIn(r.responseBody)
  /\ \A t \in {r.stepId, r.stepName, r.routePattern, r.requestUrl, r.output, r.errorMessage} : ~Nul(t)

StorableUnit(m) == ~Nul(m.unit)

Storable(report) ==
  \A k \in DOMAIN report.steps :
    /\ StorableResult(report.steps[k])
    /\ \A j \in DOMAIN report.steps[k].moved : StorableUnit(report.steps[k].moved[j])

-----------------------------------------------------------------------------
(* The rows, and what is read off them.                                    *)

\* writeResults: the row of a margin is found by its step id, and an id that comes twice is
\* the later row.
RowOf(steps, id) == Max({k \in DOMAIN steps : steps[k].stepId = id})

LedgerOf(report) ==
  FlattenSeq([k \in DOMAIN report.steps |->
    [j \in DOMAIN report.steps[k].moved |->
       [moved |-> report.steps[k].moved[j], row |-> RowOf(report.steps, report.steps[k].stepId)]]])
  \o [j \in DOMAIN report.moved |-> [moved |-> report.moved[j], row |-> 0]]

\* completeJob and recordRun: the run as it is filed.
Filed(report) ==
  [status |-> report.outcome, rows |-> report.steps, ledger |-> LedgerOf(report),
   errorMessage |-> report.errorMessage, stateNote |-> report.stateNote]

Cells(rows) ==
  [k \in DOMAIN rows |->
    IF rows[k].status = "passed" THEN "p" ELSE IF rows[k].status \in Bad THEN "f" ELSE "s"]

\* stoppedAt, counted from one; none is 0.
StoppedAt(rows) == SelectInSeq(Cells(rows), LAMBDA c : c = "f")

\* runOutcome.
RunOutcome(run) ==
  CASE StoppedAt(run.rows) > 0              -> <<"stopped on", StoppedAt(run.rows)>>
    [] run.status \in {"pending", "running"} -> <<run.status>>
    [] run.status = "passed"                -> <<"all passed", Len(run.rows)>>
    [] OTHER                                -> <<"stopped after", Len(run.rows)>>

\* stepOutcome: the number a step came back with.
StepOutcome(row) ==
  CASE row.kind = "sql" -> row.rowCount [] row.kind = "shell" -> row.exitCode [] OTHER -> row.responseStatus

\* recentExecutions: a row's margins, and the run's own reading.
MovedAt(run, k) == SelectSeq(run.ledger, LAMBDA l : l.row = k)

\* stripStatsOf.
StripStats(runs) ==
  LET cells == FlattenSeq([k \in DOMAIN runs |-> Cells(runs[k].rows)])
      those(c) == Cardinality({k \in DOMAIN cells : cells[k] = c})
  IN  [total |-> Len(cells), failed |-> those("f"), skipped |-> those("s"),
       passed |-> Len(cells) - those("f") - those("s")]

-----------------------------------------------------------------------------
(* The local history and the terminal.                                     *)

\* Mutant: a count of nothing is kept as no count.
NullIfZero_(n) == IF n = 0 THEN Unsaid ELSE n

\* ptrInt.
PtrInt(n) == n

\* reasons.
ReasonsFor(s) ==
  CASE s.status \in {"error", "skipped"} -> IF s.err = <<>> THEN Unsaid ELSE s.err
    [] s.status = "failed" -> Unmet(s.checks)
    [] OTHER -> Unsaid

\* StepRow: a number it may not have is a pointer.
LocalRow(s) ==
  [stepId |-> s.id, name |-> s.name, status |-> s.status, kind |-> s.kind,
   path     |-> IF s.kind = "http" /\ s.url # <<>> /\ Head(s.url) = "base" THEN Tail(s.url) ELSE s.url,
   method   |-> IF s.kind = "http" THEN s.method ELSE "",
   code     |-> IF s.kind = "http" THEN s.code ELSE 0,
   rowCount |-> IF s.kind = "sql" THEN s.rows ELSE Unsaid,
   exitCode |-> IF s.kind = "shell" THEN s.exit ELSE Unsaid,
   output   |-> IF s.kind = "shell" THEN s.out ELSE <<>>,
   detail   |-> ReasonsFor(s), moved |-> s.moved, verdict |-> Unsaid]

\* execution.
Execution(res) ==
  [status |-> res.outcome, stateNote |-> res.stateErr, moved |-> res.moved,
   steps |-> [k \in DOMAIN res.steps |-> LocalRow(res.steps[k])]]

\* A code that is 0 is kept as NULL, a pointer as what it points at.
NullInt(n) == IF n = 0 THEN Unsaid ELSE n

OrUndecided(v) == IF v = Unsaid THEN "undecided" ELSE v

SaveExecution(e) ==
  [e EXCEPT !.steps = [k \in DOMAIN @ |->
     [@[k] EXCEPT !.code = NullInt(@), !.rowCount = PtrInt(@), !.exitCode = PtrInt(@),
                  !.verdict = OrUndecided(@)]]]

\* Executions, steps: a code that is NULL is read as 0.
Recalled(row) ==
  [row EXCEPT !.steps = [k \in DOMAIN @ |-> [@[k] EXCEPT !.code = IF @ = Unsaid THEN 0 ELSE @]]]

\* verdict, in app/run.go: the transcript's last block.
Headline(res) ==
  IF res.outcome = "passed" THEN <<"all passed", Len(res.steps)>>
  ELSE <<"passed", Cardinality({k \in DOMAIN res.steps : res.steps[k].status = "passed"}), Len(res.steps)>>

LocalOutcome(row) ==
  CASE row.kind = "sql" -> row.rowCount [] row.kind = "shell" -> row.exitCode
    [] OTHER -> IF row.code = 0 THEN Unsaid ELSE row.code

-----------------------------------------------------------------------------
(* The square of an endpoint.                                              *)

\* Mutant: a step that was not reached is evidence.
EvidenceOfAny_(row, sig) == row.routePattern = sig.path /\ row.method = sig.method

\* settledVerdicts: what a row says of an endpoint.
EvidenceOn(row, sig) ==
  row.routePattern = sig.path /\ row.method = sig.method /\ row.status \in {"passed"} \cup Bad

\* Runs are in the order their rows were written; the newest start comes first, and one that
\* is NULL before them all.
Later(runs, x, y) ==
  LET start(p) == runs[p[1]].startedAt IN
  CASE start(x) = start(y) -> x[1] > y[1] \/ (x[1] = y[1] /\ x[2] > y[2])
    [] start(x) = Unsaid   -> TRUE
    [] start(y) = Unsaid   -> FALSE
    [] OTHER               -> start(x) > start(y)

SettledVerdict(runs, sig) ==
  LET told == {p \in UNION {{k} \X DOMAIN runs[k].rows : k \in DOMAIN runs} :
                 EvidenceOn(runs[p[1]].rows[p[2]], sig)}
  IN  IF told = {} THEN Unsaid
      ELSE LET p == CHOOSE x \in told : \A y \in told \ {x} : Later(runs, x, y)
           IN  [status |-> runs[p[1]].rows[p[2]].status, at |-> runs[p[1]].startedAt]

\* recordCheck: a probe that got no answer is no evidence.
Proof(code, when) ==
  IF code = Unsaid THEN Unsaid ELSE [verdict |-> IF code \in {404, 501} THEN "fake" ELSE "real", at |-> when]

\* stateOf, where a start that is NULL is before every probe.
SquareOf(runs, sig, proof, claimedBy) ==
  LET told   == SettledVerdict(runs, sig)
      passed == told # Unsaid /\ told.status = "passed"
      proved(v) == proof # Unsaid /\ proof.verdict = v
  IN  CASE proved("fake") /\ ~(passed /\ told.at # Unsaid /\ told.at > proof.at) -> "invalid"
        [] told # Unsaid /\ ~passed -> "failing"
        [] claimedBy = "approved"   -> "approved"
        [] proved("real")           -> "tested"
        [] claimedBy = "draft"      -> "draft"
        [] OTHER                    -> "none"

-----------------------------------------------------------------------------
(* Properties of every result.                                             *)

\* The route takes the report of the run (report.go: "a run whose results were thrown away
\* at the door is worse than one reported with a trimmed name").
TakenAtTheDoor(res, declared) == ParsedReport(Reported(res, declared)).error = "none"

\* The terminal, the history of this machine and the dashboard say one thing of a run: the
\* verdict; of each step that was kept, how it went and the number it came back with, where
\* nothing and none are two answers; the step a run stopped on; and what each step moved,
\* under that step.
SayTheSame(res, filed, local) ==
  LET whole == Len(res.steps) <= MaxSteps
      broken == {k \in DOMAIN res.steps : res.steps[k].status \in Bad}
  IN  /\ filed.status = local.status
      /\ filed.status = "passed" <=> Head(Headline(res)) = "all passed"
      /\ filed.status = "passed" <=> Head(RunOutcome(filed)) = "all passed"
      /\ filed.status = "failed" => StoppedAt(filed.rows) > 0
      /\ whole /\ broken # {} => RunOutcome(filed) = <<"stopped on", Min(broken)>>
      /\ \A k \in DOMAIN filed.rows : \E j \in DOMAIN res.steps :
           /\ j = k \/ (~whole /\ k = MaxSteps /\ j > MaxSteps)
           /\ filed.rows[k].status = local.steps[j].status
           /\ StepOutcome(filed.rows[k]) = LocalOutcome(local.steps[j])
           /\ Len(MovedAt(filed, k)) = Len(local.steps[j].moved)
      /\ whole => /\ Len(filed.rows) = Len(local.steps)
                  /\ StripStats(<<filed>>).passed = Cardinality({k \in DOMAIN local.steps : local.steps[k].status = "passed"})
      /\ filed.rows # <<>> /\ filed.status # "passed" => filed.errorMessage # Unsaid

RecordsSayTheSame(res, declared) ==
  SayTheSame(res, Filed(ParsedReport(Reported(res, declared)).report), Recalled(SaveExecution(Execution(res))))
=============================================================================
