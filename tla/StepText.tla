------------------------------ MODULE StepText ------------------------------
(***************************************************************************)
(* The text of one step, in the hands of the four parties that write,      *)
(* judge and read it: the model's reply and the gate it passes             *)
(* (web/src/lib/agent/plan-schema.ts, lib/plan.ts), the form somebody      *)
(* opens it in (components/app/plan/step-form.tsx) and the editor's gate   *)
(* (lib/plan-edit.ts, lib/actions/edit.ts), a draft file on its way up     *)
(* (cli/internal/cloud/plans.go, api/cli/plans/route.ts), and the loader   *)
(* of the machine that runs it (cli/internal/plan/load.go, plan.go).       *)
(*                                                                         *)
(* A step:                                                                 *)
(*   id, name, onFailure                                                   *)
(*   kind         "http", "sql", "shell", or Missing                       *)
(*   request      [method, url, value, body], or Missing; value is what    *)
(*                its one header or query parameter says                   *)
(*   action       [statement, target, command], or Missing                 *)
(*   extract      what it hands on, [name, path, source]                   *)
(*   checks       what it asserts, [type, operator, target, expected]      *)
(*   retry        [attempts, delay], or Missing                            *)
(* A text is "", "blank" (white space), "padded" (white space around it),  *)
(* "bad" (it holds a {{ that is no reference), "query" (a url that is only *)
(* a query), or a word.  A body is an "object", a "bad" one, or an "array" *)
(* and, while it is text, also a "scalar" or "broken".                     *)
(*                                                                         *)
(* What a step waits for is in PlanGate and RunEngine.  Operators whose    *)
(* names end in _ are mutants of the operator after them.                  *)
(***************************************************************************)
EXTENDS Integers

CONSTANT Missing        \* a key that is not in the document

Trim(t) == CASE t = "blank" -> "" [] t = "padded" -> "ok" [] OTHER -> t

\* What JavaScript takes for no text.
Blank(t) == t \in {Missing, ""}

Methods   == {"GET", "POST"}
Operators == {"equals", "exists"}
Sources   == {"body", "header", "result", "stdout"}
Purposes  == {Missing, "setup", "verify"}

AssertionsByKind == [http  |-> {"status", "bodyField", "header", "responseTime"},
                     sql   |-> {"rowCount", "valueEquals"},
                     shell |-> {"exitCode", "stdoutContains"}]

Types == UNION {AssertionsByKind[k] : k \in DOMAIN AssertionsByKind}

\* The parts of a step, as both programs type them.  A text is a string; the words that are
\* told apart here, and some that are not words of the format, are strings too, which a prover
\* has to be told.  An empty kind, target or onFailure is none to the machine, and is written
\* Missing.
Words == {"", "blank", "padded", "bad", "query", "ok", "object", "array", "scalar", "broken",
          "http", "sql", "shell", "setup", "verify", "abort", "continue", "GET", "POST",
          "get", "list", "ftp", "TRACE", "stop", "neither"}
         \cup Types \cup Operators \cup Sources

Phrase == STRING \cup Words
Given  == Phrase \cup {Missing}
Named  == Given \ {""}

Requested == [method: Phrase, url: Phrase, value: Given, body: Given]
Acted     == [statement: Given, target: Named, command: Given]
Retried   == [attempts: Int, delay: Int]
HandedOn  == [name: Phrase, path: Phrase, source: Phrase]
Checked   == [type: Phrase, operator: Phrase, target: Phrase, expected: Given]

TextOfStep == [id: Phrase, name: Phrase, kind: Named, onFailure: Named,
               request: Requested \cup {Missing}, action: Acted \cup {Missing},
               extract: SUBSET HandedOn, checks: SUBSET Checked, retry: Retried \cup {Missing}]

ASSUME MissingAssumption == Missing \notin Phrase \cup Requested \cup Acted \cup Retried

KindOf(s) == IF s.kind = Missing THEN "http" ELSE s.kind

-----------------------------------------------------------------------------
(* The stored shape, and the gates of the dashboard.                       *)

\* requestSchema, actionSchema: blanks are texts, an array is no record.
ShapedRequest(r) ==
  /\ r.method \in Methods
  /\ r.url # ""
  /\ r.body \in {Missing, "object", "bad"}

ShapedAction(a) == a.statement # "" /\ a.target \in Purposes /\ a.command # ""

\* extractionSchema, assertionSchema.
ShapedExtraction(e) == e.name # "" /\ e.path # "" /\ e.source \in Sources
ShapedAssertion(a) ==
  /\ a.type \in Types /\ a.operator \in Operators
  /\ a.target # "" /\ a.expected # "list"

\* stepSchema.
Shaped(s) ==
  /\ s.id # "" /\ s.name # ""
  /\ s.kind \in {Missing, "http", "sql", "shell"}
  /\ s.request # Missing => ShapedRequest(s.request)
  /\ s.action # Missing => ShapedAction(s.action)
  /\ \A e \in s.extract : ShapedExtraction(e)
  /\ \A a \in s.checks : ShapedAssertion(a)
  /\ s.onFailure \in {"abort", "continue"}
  /\ s.retry # Missing => s.retry.attempts >= 1 /\ s.retry.delay >= 0

\* Mutant: only the checks are asked for, and a payload that is missing is nobody's.
InconsistentChecks_(s) == \E a \in s.checks : a.type \notin AssertionsByKind[KindOf(s)]

\* stepInconsistency.
Inconsistent(s) ==
  \/ \E a \in s.checks : a.type \notin AssertionsByKind[KindOf(s)]
  \/ KindOf(s) = "http"  /\ (s.request = Missing \/ Blank(s.request.url))
  \/ KindOf(s) = "sql"   /\ (s.action = Missing \/ Blank(s.action.statement))
  \/ KindOf(s) = "shell" /\ (s.action = Missing \/ Blank(s.action.command))

\* unloadable: badReference of everything it reads, deep or not.
Unloadable(s) ==
  \/ s.request # Missing /\ "bad" \in {s.request.url, s.request.value, s.request.body}
  \/ s.action # Missing /\ "bad" \in {s.action.statement, s.action.command}
  \/ \E a \in s.checks : a.expected = "bad"

\* planProblems, about one step.
Problem(s) ==
  \/ Trim(s.id) = "" \/ Trim(s.name) = ""
  \/ Inconsistent(s)
  \/ \E a \in s.checks : a.operator # "exists" /\ a.expected = Missing
  \/ Unloadable(s)

\* submitted and refusal: what the editor sends, held to the schema and to planProblems.
EditorTakes(s) == Shaped(s) /\ ~Problem(s)

\* stepIsHeavy: approving it asks twice.
Heavy(s) ==
  \/ s.kind = "shell"
  \/ s.kind = "sql" /\ ~(s.action # Missing /\ s.action.target = "verify")

-----------------------------------------------------------------------------
(* The model's reply.  A request and an action may both be there, and a     *)
(* body is text.                                                           *)

\* wireStepSchema.
ShapedReply(w) ==
  /\ w.id # "" /\ w.name # ""
  /\ w.kind \in {"http", "sql", "shell"}
  /\ w.request # Missing => w.request.method \in Methods
  /\ w.action # Missing => w.action.target \in Purposes
  /\ w.retry # Missing => w.retry.attempts >= 0 /\ w.retry.delay >= 0
  /\ \A e \in w.extract : ShapedExtraction(e)
  /\ \A a \in w.checks : ShapedAssertion(a)
  /\ w.onFailure \in {"abort", "continue"}

\* body: parsed, and what is not an object is dropped with a warning; but an array is one.
Body(text) == IF text \in {"object", "bad", "array"} THEN text ELSE Missing

Statement(a) ==
  IF a = Missing THEN [statement |-> Missing, target |-> "verify", command |-> Missing]
  ELSE [a EXCEPT !.target = IF @ = Missing THEN "verify" ELSE @, !.command = Missing]

Command(a) ==
  [statement |-> Missing, target |-> Missing, command |-> IF a = Missing THEN Missing ELSE a.command]

\* stepFromWire, before it is asked whether it is consistent.
FromWire(w) ==
  [w EXCEPT
     !.retry   = IF w.retry # Missing /\ w.retry.attempts > 0 THEN w.retry ELSE Missing,
     !.request = IF w.kind = "http" /\ w.request # Missing
                 THEN [w.request EXCEPT !.body = Body(@)] ELSE Missing,
     !.action  = CASE w.kind = "http"  -> Missing
                   [] w.kind = "sql"   -> Statement(w.action)
                   [] w.kind = "shell" -> Command(w.action)]

\* draftFromWire, revisionFromWire, loadable.
DraftTakes(w) == ShapedReply(w) /\ ~Inconsistent(FromWire(w)) /\ ~Unloadable(FromWire(w))

-----------------------------------------------------------------------------
(* The machine.                                                            *)

\* literal, in every place braces looks.
Braces(s) ==
  \/ s.request # Missing /\ "bad" \in {s.request.url, s.request.value, s.request.body}
  \/ s.action # Missing /\ "bad" \in {s.action.statement, s.action.command}
  \/ \E a \in s.checks : a.expected = "bad"

\* validateHTTPStep, validateSQLStep, validateShellStep.
Upper(method) == IF method = "get" THEN "GET" ELSE method
ValidPayload(s) ==
  CASE KindOf(s) = "http"  -> s.request # Missing /\ Upper(s.request.method) \in Methods
                              /\ Trim(s.request.url) # ""
    [] KindOf(s) = "sql"   -> s.action # Missing /\ Trim(s.action.statement) \notin {"", Missing}
                              /\ s.action.target \in Purposes
    [] KindOf(s) = "shell" -> s.action # Missing /\ Trim(s.action.command) \notin {"", Missing}
    [] OTHER               -> FALSE

\* validateExtractions, validateAssertions.
ValidExtraction(e) == e.name # "" /\ Trim(e.path) # "" /\ e.source \in Sources
ValidAssertion(a) ==
  /\ a.type \in Types /\ a.operator \in Operators
  /\ a.type \in {"bodyField", "header", "valueEquals"} => Trim(a.target) # ""
  /\ a.operator # "exists" => a.expected # Missing

\* Parse, validateStep, validateCommon.
Loads(s) ==
  /\ s.request # Missing => s.request.body # "array"
  /\ s.id # ""
  /\ ValidPayload(s)
  /\ s.onFailure \in {Missing, "abort", "continue"}
  /\ ~Braces(s)
  /\ \A e \in s.extract : ValidExtraction(e)
  /\ \A a \in s.checks : ValidAssertion(a)
  /\ s.retry # Missing => s.retry.attempts >= 1

\* What it will do of a step it loaded.  A check whose type names its channel has no use
\* for a target; a sql step that does not say what it is for is executed.
Own == {"status", "responseTime", "rowCount", "exitCode", "stdoutContains"}

Meaning(s) ==
  [does    |-> CASE KindOf(s) = "http"  -> [s.request EXCEPT !.method = Upper(@)]
                 [] KindOf(s) = "sql"   -> <<Trim(s.action.statement), s.action.target = "verify">>
                 [] KindOf(s) = "shell" -> <<Trim(s.action.command)>>,
   extract |-> s.extract,
   checks  |-> {[a EXCEPT !.target = IF a.type \in Own THEN a.type ELSE @] : a \in s.checks},
   aborts  |-> s.onFailure \in {Missing, "abort"},
   tries   |-> IF s.retry = Missing THEN <<1, 0>> ELSE <<s.retry.attempts, s.retry.delay>>]

-----------------------------------------------------------------------------
(* A draft file on its way to the dashboard.                               *)

\* Mutant: a check that names its own channel goes up without a target.
TargetedAsIs_(a) == a

\* assertions.
Targeted(a) == IF Trim(a.target) = "" THEN [a EXCEPT !.target = a.type] ELSE a

OmitEmpty(t) == IF t = "" THEN Missing ELSE t

\* wireStep, cut, and what the encoder leaves out.
Pushed(s) ==
  LET http == s.kind \in {Missing, "http"}
      id   == Trim(s.id)
  IN  [s EXCEPT
         !.id        = id,
         !.name      = IF Trim(s.name) = "" THEN id ELSE Trim(s.name),
         !.kind      = IF http THEN Missing ELSE s.kind,
         !.request   = IF http THEN [s.request EXCEPT !.method = Upper(@)] ELSE Missing,
         !.action    = IF s.action = Missing THEN Missing
                       ELSE [s.action EXCEPT !.statement = OmitEmpty(@), !.command = OmitEmpty(@)],
         !.checks    = {Targeted(a) : a \in s.checks},
         !.onFailure = IF s.onFailure = Missing THEN "abort" ELSE s.onFailure]

\* Endpoints, covered: the path before the query; none, and the endpoint is not listed.
Path(url) == IF url = "query" THEN "" ELSE url

Covered(s) ==
  IF KindOf(s) = "http" /\ Path(s.request.url) # "" /\ Upper(s.request.method) \in Methods
  THEN {[method |-> Upper(s.request.method), path |-> Path(s.request.url)]}
  ELSE {}

\* The route: pushSchema, stepInconsistency, unloadable.
PushTaken(s) ==
  LET p == Pushed(s)
  IN  /\ Shaped(p) /\ ~Inconsistent(p) /\ ~Unloadable(p)
      /\ \A c \in Covered(s) : c.path # ""

-----------------------------------------------------------------------------
(* The step form.  draft is the copy it edits, body the text of its body.  *)

\* CHANNEL: what the form puts in the target of a check that has only one.
Channel(type) ==
  CASE type \in {"status", "responseTime", "rowCount", "exitCode"} -> type
    [] type = "stdoutContains" -> "stdout"
    [] OTHER -> ""

Opened(s) ==
  [draft |-> s,
   body  |-> IF s.request = Missing \/ s.request.body = Missing THEN "" ELSE s.request.body]

NewRequest == [method |-> "GET", url |-> "", value |-> Missing, body |-> Missing]

\* blankStep.
BlankStep(id, kind) ==
  [id |-> id, name |-> "", kind |-> kind,
   request |-> IF kind = "http" THEN NewRequest ELSE Missing,
   action  |-> CASE kind = "http"  -> Missing
                 [] kind = "sql"   -> [statement |-> "", target |-> "verify", command |-> Missing]
                 [] kind = "shell" -> [statement |-> Missing, target |-> Missing, command |-> ""],
   extract |-> {}, checks |-> {}, onFailure |-> "abort", retry |-> Missing]

OrEmpty(t) == IF t = Missing THEN "" ELSE t

\* The action of a kind, out of the one there was.
Action(a, kind) ==
  LET had == IF a = Missing THEN [statement |-> Missing, target |-> Missing, command |-> Missing] ELSE a
  IN  CASE kind = "http"  -> Missing
        [] kind = "sql"   -> [statement |-> OrEmpty(had.statement), command |-> Missing,
                              target |-> IF had.target = Missing THEN "verify" ELSE had.target]
        [] kind = "shell" -> [statement |-> Missing, target |-> Missing, command |-> OrEmpty(had.command)]

Trimmed(a) == IF a = Missing THEN a ELSE [a EXCEPT !.statement = Trim(@), !.command = Trim(@)]

\* changeKind: the other kind's payload goes, and the checks it has nothing to answer.
ChangeKind(f, kind) ==
  LET d == f.draft
  IN  [f EXCEPT !.draft = [d EXCEPT
         !.kind    = kind,
         !.request = IF kind # "http" THEN Missing ELSE IF d.request = Missing THEN NewRequest ELSE d.request,
         !.action  = Action(d.action, kind),
         !.checks  = {a \in d.checks : a.type \in AssertionsByKind[kind]}]]

\* fillFrom: a call a run has made; its body is offered where it is an object.
FillFrom(f, call) ==
  [f EXCEPT
     !.draft.request = [method |-> call.method, url |-> call.url, body |-> Missing,
                        value |-> IF @ = Missing THEN Missing ELSE @.value],
     !.body          = IF call.body \in {"object", "bad"} THEN call.body ELSE @]

\* The rows of checks: one more, another type, another operator, what is typed, one less.
AddCheck(f) ==
  LET type == CASE KindOf(f.draft) = "http" -> "status" [] KindOf(f.draft) = "sql" -> "rowCount"
                [] KindOf(f.draft) = "shell" -> "exitCode"
  IN  [f EXCEPT !.draft.checks =
         @ \cup {[type |-> type, operator |-> "equals", target |-> Channel(type), expected |-> Missing]}]

Retyped(a, type) ==
  [a EXCEPT !.type = type,
            !.target = IF @ = "" \/ @ = Channel(a.type) THEN Channel(type) ELSE @]

SetCheck(f, a, b) == [f EXCEPT !.draft.checks = (@ \ {a}) \cup {b}]

CheckEdits(f, a) ==
  {SetCheck(f, a, Retyped(a, t)) : t \in AssertionsByKind[KindOf(f.draft)]}
  \cup {SetCheck(f, a, [a EXCEPT !.operator = o]) : o \in Operators}
  \cup {SetCheck(f, a, [a EXCEPT !.expected = e]) : e \in {Missing, "ok", "bad"}}
  \cup {[f EXCEPT !.draft.checks = @ \ {a}]}
  \cup (IF Channel(a.type) = "" THEN {SetCheck(f, a, [a EXCEPT !.target = t]) : t \in {"", "ok"}} ELSE {})

\* The rows of values it hands on.
AddExtraction(f) ==
  LET source == CASE KindOf(f.draft) = "http" -> "body" [] KindOf(f.draft) = "sql" -> "result"
                  [] KindOf(f.draft) = "shell" -> "stdout"
  IN  [f EXCEPT !.draft.extract = @ \cup {[name |-> "", path |-> "", source |-> source]}]

ExtractionEdits(f, e) ==
  {[f EXCEPT !.draft.extract = (@ \ {e}) \cup {[e EXCEPT !.name = t]}] : t \in {"", "ok"}}
  \cup {[f EXCEPT !.draft.extract = (@ \ {e}) \cup {[e EXCEPT !.path = t]}] : t \in {"", "blank", "ok"}}
  \cup {[f EXCEPT !.draft.extract = (@ \ {e}) \cup {[e EXCEPT !.source = s]}] : s \in Sources}
  \cup {[f EXCEPT !.draft.extract = @ \ {e}]}

\* Attempts and the time between them: one attempt is no retry.
SetAttempts(f, n) ==
  [f EXCEPT !.draft.retry =
     IF n <= 1 THEN Missing
     ELSE [attempts |-> n, delay |-> IF @ = Missing THEN 250 ELSE @.delay]]

\* What is typed into the fields the kind shows.
Typed(f) ==
  LET texts == {"", "blank", "padded", "bad", "ok"}
  IN  {[f EXCEPT !.draft.name = t] : t \in texts} \cup {[f EXCEPT !.draft.id = t] : t \in texts}
      \cup CASE KindOf(f.draft) = "http" ->
                  {[f EXCEPT !.draft.request.url = t] : t \in texts \cup {"query"}}
                  \cup {[f EXCEPT !.draft.request.value = t] : t \in {Missing, "ok", "bad"}}
                  \cup {[f EXCEPT !.body = t] : t \in {"", "object", "bad", "array", "scalar", "broken"}}
             [] KindOf(f.draft) = "sql"   -> {[f EXCEPT !.draft.action.statement = t] : t \in texts}
             [] KindOf(f.draft) = "shell" -> {[f EXCEPT !.draft.action.command = t] : t \in texts}

\* What is chosen: what a statement is for, a method, what a failure does to the rest.
Chosen(f) ==
  {[f EXCEPT !.draft.onFailure = o] : o \in {"abort", "continue"}}
  \cup CASE KindOf(f.draft) = "http"  -> {[f EXCEPT !.draft.request.method = m] : m \in Methods}
         [] KindOf(f.draft) = "sql"   -> {[f EXCEPT !.draft.action.target = t] : t \in {"setup", "verify"}}
         [] KindOf(f.draft) = "shell" -> {}

\* The form, one edit later.
Edits(f) ==
  {ChangeKind(f, k) : k \in {"http", "sql", "shell"}}
  \cup (IF KindOf(f.draft) = "http"
        THEN {FillFrom(f, [method |-> "POST", url |-> "ok", body |-> b]) : b \in {"", "object", "array", "scalar"}}
        ELSE {})
  \cup {AddCheck(f), AddExtraction(f)}
  \cup (UNION {CheckEdits(f, a) : a \in f.draft.checks})
  \cup (UNION {ExtractionEdits(f, e) : e \in f.draft.extract})
  \cup {SetAttempts(f, n) : n \in 1..2}
  \cup Typed(f) \cup Chosen(f)

\* save, once the body parses as an object.
Saved(f) ==
  LET d    == f.draft
      body == IF Trim(f.body) = "" THEN Missing ELSE f.body
  IN  [d EXCEPT !.id = Trim(d.id), !.name = Trim(d.name),
         !.request = IF KindOf(d) # "http" THEN Missing ELSE [d.request EXCEPT !.url = Trim(@), !.body = body],
         !.action  = Trimmed(Action(d.action, KindOf(d)))]

\* "Keep this step": the step it hands to the plan, or none and a problem to read.
Kept(f) ==
  LET next == Saved(f)
  IN  IF \/ KindOf(f.draft) = "http" /\ f.body \in {"array", "scalar", "broken"}
         \/ next.id = "" \/ next.name = "" \/ Inconsistent(next)
      THEN {} ELSE {next}

-----------------------------------------------------------------------------
(* Properties of one step.                                                 *)

\* What only the loader asks: a path or a target that is more than white space.
Blanked(s) ==
  \/ \E e \in s.extract : Trim(e.path) = ""
  \/ \E a \in s.checks : Trim(a.target) = ""
  \/ s.request # Missing /\ Trim(s.request.url) = ""
  \/ s.action # Missing /\ "blank" \in {s.action.statement, s.action.command}

\* And what the agent's gate does not ask either: something to compare against, and a
\* body that is no array.
Unasked(s) ==
  \/ Blanked(s)
  \/ \E a \in s.checks : a.operator # "exists" /\ a.expected = Missing
  \/ s.request # Missing /\ s.request.body = "array"

\* A step the agent's gate lets through is one the machine loads.
ReplyLoads(w) == DraftTakes(w) /\ ~Unasked(FromWire(w)) => Loads(FromWire(w))

\* A step that was kept in the form and that the editor lets through is one the machine
\* loads, and its body is what was on the screen.
KeptLoads(f) ==
  \A s \in Kept(f) : EditorTakes(s) /\ ~Blanked(s) =>
    /\ Loads(s)
    /\ s.request # Missing => s.request.body = IF Trim(f.body) = "" THEN Missing ELSE f.body

\* A step of a file the machine loads goes up, but for what only the dashboard asks: an id
\* that is more than white space, checks of the step's own kind and on a single value, a
\* body that is a record, a delay that is not negative, and one of the two targets also
\* where nothing reads it.
LoadedIsPushed(s) ==
  Loads(s) /\ Trim(s.id) # ""
  /\ (\A a \in s.checks : a.type \in AssertionsByKind[KindOf(s)] /\ a.expected # "list")
  /\ (s.retry # Missing => s.retry.delay >= 0)
  /\ (s.action # Missing => s.action.target \in Purposes)
  => PushTaken(s)

\* What comes back down is the step that went up: the machine does the same, and the
\* dashboard asks twice before it approves exactly what writes past the requests.
PushedMeansTheSame(s) ==
  Loads(s) /\ PushTaken(s) =>
    /\ Loads(Pushed(s))
    /\ Meaning(Pushed(s)) = Meaning(s)
    /\ Heavy(Pushed(s)) <=> KindOf(s) = "shell" \/ (KindOf(s) = "sql" /\ s.action.target # "verify")

\* Opening a step and keeping it changes nothing the machine reads, nor what approving it
\* asks, but for white space around a url, which the machine would have sent; a sql step
\* that does not say what it is for is not covered, see OpenedUntargeted.
OpenedMeansTheSame(s) ==
  EditorTakes(s) /\ Loads(s) /\ ~(s.kind = "sql" /\ s.action.target = Missing)
  /\ ~(s.request # Missing /\ s.request.url = "padded") =>
    /\ Kept(Opened(s)) # {}
    /\ \A t \in Kept(Opened(s)) : Meaning(t) = Meaning(s) /\ (Heavy(t) <=> Heavy(s))

\* plan.go: "Empty reads as Setup", which the form does not keep.
OpenedUntargeted(s) ==
  EditorTakes(s) /\ Loads(s) => \A t \in Kept(Opened(s)) : Meaning(t) = Meaning(s)

=============================================================================
