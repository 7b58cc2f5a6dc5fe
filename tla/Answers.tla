------------------------------ MODULE Answers -------------------------------
(***************************************************************************)
(* What one step asks, what comes back, and what is made of it             *)
(* (cli/internal/run: interpolate.go, path.go, assert.go, extract.go,      *)
(* step.go, step_sql.go, step_shell.go).                                   *)
(*                                                                         *)
(* A text is a sequence of tokens: <<"num", n>>, <<"word", w>>, <<"white">>*)
(* <<"ref", x>> for {{x}}, <<"json", v>> for a value printed as JSON, and  *)
(* <<"hidden">> for a secret that was masked.  A path is a sequence of     *)
(* <<"key", k>> and <<"index", i>>, and a value is a function of its       *)
(* paths: the empty one says what it is, <<"null">>, <<"text", t>>,        *)
(* <<"num", n>>, <<"bool", b>>, <<"list">> or <<"map">>, and a list or a   *)
(* map has the paths of what is in it.                                     *)
(* A response is [status, headers, json, elapsed]; a header that was not   *)
(* sent is not in the domain of headers, and json is Absent when the body  *)
(* was none.  vars are the variables of the run.                           *)
(*                                                                         *)
(* Operators whose names end in _ are mutants of the operator after them.  *)
(***************************************************************************)
EXTENDS Integers, Sequences, SequencesExt

CONSTANTS
  Absent,      \* no value
  Secrets,      \* the words that are configured as secrets
  Wide,         \* the integers up to here are floats of their own (2^53)
  MaxSQLRows    \* a result set is read up to here (200)

-----------------------------------------------------------------------------
(* Templates.                                                              *)

Refs(text) == {text[i][2] : i \in {j \in 1..Len(text) : text[j][1] = "ref"}}

\* Mutant: what a variable says is read as a template in its turn.
FilledTwice_(text, vars) ==
  LET once == FlattenSeq([i \in 1..Len(text) |-> IF text[i][1] = "ref" THEN vars[text[i][2]] ELSE <<text[i]>>])
  IN  FlattenSeq([i \in 1..Len(once) |->
        IF once[i][1] = "ref" /\ once[i][2] \in DOMAIN vars THEN vars[once[i][2]] ELSE <<once[i]>>])

\* ReplaceAllStringFunc: one pass.
Filled(text, vars) ==
  FlattenSeq([i \in 1..Len(text) |-> IF text[i][1] = "ref" THEN vars[text[i][2]] ELSE <<text[i]>>])

\* Text: a variable nothing has set is an error, not an empty text.
Interpolated(text, vars) == IF Refs(text) \subseteq DOMAIN vars THEN Filled(text, vars) ELSE Absent

\* Strings and Body: of all of them, or none.
AllOf(f) == IF Absent \in {f[k] : k \in DOMAIN f} THEN Absent ELSE f

\* What a value is; the value that is no more than this; a list or a map of values.
Kind(v) == v[<<>>][1]
Said(v) == v[<<>>][2]
Leaf(x) == [p \in {<<>>} |-> x]
Node(kind, of) ==
  [p \in {<<>>} \cup UNION {{<<seg>> \o q : q \in DOMAIN of[seg]} : seg \in DOMAIN of} |->
     IF p = <<>> THEN <<kind>> ELSE of[Head(p)][Tail(p)]]

\* A result set is read up to a number of rows; no value is neither a count nor where one is.
ASSUME CountAssumption ==
  /\ MaxSQLRows \in Nat /\ Absent # <<<<"key", "rowCount">>>>
  /\ \A n \in 0..MaxSQLRows : Absent # <<"num", n>> /\ Absent # Leaf(<<"num", n>>)

\* A text that is there: neither it nor a value that says it is no value.
Spoken(t) ==
  /\ t # Absent /\ <<"text", t>> # Absent /\ Leaf(<<"text", t>>) # Absent
  /\ [k |-> t] # Absent

\* Deep: a number stays a number.
Deep(v, vars) ==
  AllOf([p \in DOMAIN v |->
    IF v[p][1] # "text" THEN v[p]
    ELSE LET t == Interpolated(v[p][2], vars) IN IF t = Absent THEN Absent ELSE <<"text", t>>])

\* build: method, url, headers and query, and body; Absent when one cannot be filled in.
Built(request, vars) ==
  AllOf([url    |-> Interpolated(request.url, vars),
         values |-> AllOf([k \in DOMAIN request.values |-> Interpolated(request.values[k], vars)]),
         body   |-> Deep(request.body, vars)])

-----------------------------------------------------------------------------
(* Reading an answer.                                                      *)

\* encoding/json: every number is a float.
Decoded(v) ==
  [p \in DOMAIN v |-> IF v[p][1] = "num" /\ v[p][2] > Wide THEN <<"num", 2 * (v[p][2] \div 2)>> ELSE v[p]]

\* segments and Value: Absent for a path that is not closed, or points at nothing.
Value(doc, path) ==
  IF path \in {Absent, <<>>} \/ path \notin DOMAIN doc THEN Absent
  ELSE [q \in {SubSeq(p, Len(path) + 1, Len(p)) : p \in {r \in DOMAIN doc : IsPrefix(path, r)}} |->
          doc[path \o q]]

\* A body that is null is taken for none.
IsJSON(res) == res.json # Absent /\ Kind(res.json) # "null"

\* normalise.
Normalise(v) ==
  CASE Kind(v) = "null" -> <<>>
    [] Kind(v) = "text" -> Said(v)
    [] Kind(v) = "num"  -> <<<<"num", Said(v)>>>>
    [] Kind(v) = "bool" -> <<<<"word", Said(v)>>>>
    [] OTHER            -> <<<<"json", v>>>>

\* number: Absent when it is none.
Number(v) ==
  CASE Kind(v) = "num"  -> Said(v)
    [] Kind(v) = "text" ->
         LET t == SelectSeq(Said(v), LAMBDA token : token # <<"white">>)
         IN  IF Len(t) = 1 /\ t[1][1] = "num" THEN t[1][2] ELSE Absent
    [] OTHER -> Absent

Holds(s, t) == \E i \in 0..(Len(s) - Len(t)) : SubSeq(s, i + 1, i + Len(t)) = t

\* compare, of a value that may be Absent: "passed", "failed" or "error".
Verdict(holds) == IF holds THEN "passed" ELSE "failed"

Compare(op, actual, expected) ==
  LET found == actual # Absent
      e     == Normalise(expected)
  IN  CASE op = "exists"      -> Verdict(found /\ Kind(actual) # "null")
        [] op = "equals"      -> Verdict(found /\ Normalise(actual) = e)
        [] op = "notEquals"   -> Verdict(found => Normalise(actual) # e)
        [] op = "contains"    -> Verdict(found /\ Holds(Normalise(actual), e))
        [] op = "notContains" -> Verdict(found => ~Holds(Normalise(actual), e))
        [] op \in {"lt", "gt"} ->
             IF ~found THEN "error"
             ELSE LET a == Number(actual)
                      b == Number(expected)
                  IN  IF Absent \in {a, b} THEN "error"
                      ELSE Verdict(IF op = "lt" THEN a < b ELSE a > b)

Channels == [exitCode |-> "exitCode", rowCount |-> "rowCount", stdoutContains |-> "stdout"]

\* Mutant: the target says where to look, whatever the type is called.
ReadAtTarget_(a) == a.target

\* readAt.
ReadAt(a) == IF a.type \in DOMAIN Channels THEN <<<<"key", Channels[a.type]>>>> ELSE a.target

\* actualOf.  A header's target is its name.
ActualOf(a, res) ==
  CASE a.type = "status"       -> Leaf(<<"num", res.status>>)
    [] a.type = "responseTime" -> Leaf(<<"num", res.elapsed>>)
    [] a.type = "header"       -> IF a.target \in DOMAIN res.headers /\ res.headers[a.target] # <<>>
                                  THEN Leaf(<<"text", res.headers[a.target]>>) ELSE Absent
    [] OTHER                   -> Value(res.json, ReadAt(a))

\* Assert, one of them.
Outcome(a, res, vars) ==
  LET expected == Deep(a.expected, vars)
  IN  IF (a.type = "bodyField" /\ ~IsJSON(res)) \/ expected = Absent THEN "error"
      ELSE Compare(a.operator, ActualOf(a, res), expected)

Outcomes(as, res, vars) == {Outcome(as[i], res, vars) : i \in 1..Len(as)}

\* Extract, one of them: the text it binds, Absent when the response has none.
Read(e, res) ==
  IF e.source = "header"
  THEN IF e.path \in DOMAIN res.headers /\ res.headers[e.path] # <<>> THEN res.headers[e.path] ELSE Absent
  ELSE LET v == IF IsJSON(res) THEN Value(res.json, e.path) ELSE Absent
       IN  IF v = Absent THEN Absent ELSE Normalise(v)

Bind(e, res, vars) == [x \in DOMAIN vars \cup {e.name} |-> IF x = e.name THEN Read(e, res) ELSE vars[x]]

\* Extract: in order, up to the first that has no value; what is bound before that stays.
Extract(es, res, vars) ==
  LET after[n \in 0..Len(es)] ==
        IF n = 0 THEN [broken |-> FALSE, vars |-> vars]
        ELSE IF after[n - 1].broken \/ Read(es[n], res) = Absent THEN [after[n - 1] EXCEPT !.broken = TRUE]
        ELSE [after[n - 1] EXCEPT !.vars = Bind(es[n], res, @)]
  IN  after[Len(es)]

-----------------------------------------------------------------------------
(* The answers of the three kinds.                                         *)

\* send: a body that is no JSON is none.
Served(code, headers, raw, elapsed) ==
  [status |-> code, headers |-> headers, elapsed |-> elapsed,
   json |-> IF raw = Absent THEN Absent ELSE Decoded(raw)]

\* synthetic: what the other kinds answer, under their own names.
Synthetic(answers) ==
  [status |-> 200, headers |-> <<>>, elapsed |-> 0,
   json |-> Node("map", [seg \in {<<"key", k>> : k \in DOMAIN answers} |-> answers[seg[2]]])]

Rows(found) == Node("list", [seg \in {<<"index", i>> : i \in 0..(Len(found) - 1)} |-> found[seg[2] + 1]])

\* runStatement, query, cell: a statement that finds these rows, or moves so many.
RunStatement(target, rows, moved) ==
  IF target # "verify"
  THEN Synthetic([k \in {"rowsAffected", "rowCount"} |-> Leaf(<<"num", moved>>)])
  ELSE LET found == SubSeq(rows, 1, IF Len(rows) < MaxSQLRows THEN Len(rows) ELSE MaxSQLRows)
       IN  Synthetic([k \in {"rowCount", "rows"} \cup (IF found = <<>> THEN {} ELSE {"row"}) |->
             CASE k = "rowCount" -> Leaf(<<"num", Len(found)>>)
               [] k = "rows"     -> Rows(found)
               [] k = "row"      -> found[1]])

\* mask.
Mask(text) == [i \in 1..Len(text) |-> IF text[i][1] = "word" /\ text[i][2] \in Secrets THEN <<"hidden">> ELSE text[i]]

\* shellStep: masked before anything reads it.
Ran(stdout, stderr, code) ==
  Synthetic([exitCode  |-> Leaf(<<"num", code>>), stdout |-> Leaf(<<"text", Mask(stdout)>>),
             stderr    |-> Leaf(<<"text", Mask(stderr)>>),
             lineCount |-> Leaf(<<"num", IF stdout = <<>> THEN 0 ELSE 1>>)])

-----------------------------------------------------------------------------
(* One step: its tries, against what the world answers to each of them.    *)

\* What a failed attempt says beside its checks: a command, what it complained of.
Complains(s, res) == s.kind = "shell" /\ Value(res.json, <<<<"key", "stderr">>>>) # Leaf(<<"text", <<>>>>)

\* An attempt of httpStep, sqlStep or shellStep; res is Absent when nothing came back.  Only
\* a request takes back what an earlier attempt said was wrong.
Try(s, res, got) ==
  IF got.over THEN got
  ELSE IF res = Absent THEN [got EXCEPT !.status = "error", !.err = TRUE]
  ELSE LET outcomes == Outcomes(s.assertions, res, got.vars)
           bound    == Extract(s.extract, res, got.vars)
           said     == got.err /\ s.kind # "http"
       IN  IF "error" \in outcomes THEN [got EXCEPT !.status = "error", !.err = TRUE]
           ELSE IF "failed" \in outcomes THEN [got EXCEPT !.status = "failed", !.err = said \/ Complains(s, res)]
           ELSE [status |-> IF bound.broken THEN "error" ELSE "passed", vars |-> bound.vars, over |-> TRUE,
                 err |-> said \/ bound.broken]

Tried(s, answers, vars) ==
  LET after[n \in 0..Len(answers)] ==
        IF n = 0 THEN [status |-> "pending", vars |-> vars, over |-> FALSE, err |-> FALSE]
        ELSE Try(s, answers[n], after[n - 1])
  IN  after[Len(answers)]

-----------------------------------------------------------------------------
(* Properties of one case.                                                 *)

\* A value that was read into a variable is, wherever the variable is written, the text of
\* what was sent: it compares equal to where it came from, in a request it is sent as it
\* was read, and what it says is not read as a template.  Where a whole number is beyond the
\* floats, or a secret was masked, what was read is not what was sent.
ComesBack(given, res, path, vars, name) ==
  LET v     == Value(given, path)
      after == Extract(<<[name |-> name, path |-> path, source |-> "body"]>>, res, vars)
      ref   == <<<<"ref", name>>>>
      claim == [type |-> "bodyField", target |-> path, operator |-> "equals", expected |-> Leaf(<<"text", ref>>)]
      Asks(t) == [url |-> t, values |-> [k |-> t], body |-> Leaf(<<"text", t>>)]
  IN  res.json = given /\ IsJSON(res) /\ v # Absent =>
        /\ ~after.broken
        /\ Outcome(claim, res, after.vars) = "passed"
        /\ Built(Asks(ref), after.vars) = Asks(Normalise(v))

\* An assertion and its opposite never agree, whatever came back, unless neither can be
\* answered.
Disagree(a, res, vars) ==
  \A op \in {<<"equals", "notEquals">>, <<"contains", "notContains">>} :
    LET one   == Outcome([a EXCEPT !.operator = op[1]], res, vars)
        other == Outcome([a EXCEPT !.operator = op[2]], res, vars)
    IN  {one, other} \in {{"passed", "failed"}, {"error"}}

\* An assertion that is called by its channel reads that channel, whatever its target says
\* (a repair may change a target and not a type).
Pinned(a, target, res, vars) ==
  a.type \in DOMAIN Channels => Outcome([a EXCEPT !.target = target], res, vars) = Outcome(a, res, vars)

\* rowCount is how many rows a statement found or moved, whichever it was for, as far as a
\* result set is read.
Counted(target, rows, moved) ==
  LET n == IF target = "verify" THEN Len(rows) ELSE moved
  IN  n <= MaxSQLRows =>
        Outcome([type |-> "rowCount", operator |-> "equals", target |-> Absent, expected |-> Leaf(<<"num", n>>)],
                RunStatement(target, rows, moved), <<>>) = "passed"

\* A step hands on only what the attempt that passed was answered: until then the variables
\* are those it was given, and then they are that attempt's.  A request that passed says
\* no error; of the other kinds see PassedSaysNoError.
HandedOnByThePassing(s, answers, vars) ==
  LET out  == Tried(s, answers, vars)
      good == {i \in 1..Len(answers) : answers[i] # Absent
                 /\ Outcomes(s.assertions, answers[i], vars) \subseteq {"passed"}}
  IN  IF good = {} THEN out.vars = vars /\ out.status \in {"failed", "error"}
      ELSE LET first == CHOOSE i \in good : \A j \in good : i <= j
           IN  /\ out.status = "passed" /\ (s.kind = "http" \/ first = 1) => ~out.err
               /\ out.status = "passed" =>
                    \A i \in 1..Len(s.extract) :
                      /\ s.extract[i].name \in DOMAIN out.vars
                      /\ (\A j \in (i + 1)..Len(s.extract) : s.extract[j].name # s.extract[i].name) =>
                           out.vars[s.extract[i].name] = Read(s.extract[i], answers[first])
               /\ \A x \in DOMAIN vars : (\A i \in 1..Len(s.extract) : s.extract[i].name # x) =>
                    out.vars[x] = vars[x]

\* The error of a result is of the attempt that decided it.
PassedSaysNoError(s, answers, vars) ==
  LET out == Tried(s, answers, vars) IN out.status = "passed" => ~out.err

=============================================================================
