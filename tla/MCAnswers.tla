------------------------------ MODULE MCAnswers ------------------------------
(* Answers, and what a step makes of them, for TLC. *)
EXTENDS Answers

Num(n)  == Leaf(<<"num", n>>)
Text(t) == Leaf(<<"text", t>>)
Null    == Leaf(<<"null">>)
Word(w) == <<"word", w>>
Key(k)  == <<"key", k>>

\* No variable is set, or one.
VarCases == {<<>>, [known |-> <<<<"num", 1>>>>]}

Scalars ==
  {Null, Leaf(<<"bool", "true">>), Num(1), Num(5), Text(<<>>), Text(<<<<"num", 1>>>>),
   Text(<<Word("a"), <<"white">>, <<"num", 1>>>>), Text(<<<<"white">>, <<"num", 1>>>>),
   Text(<<<<"ref", "known">>>>), Text(<<<<"ref", "new">>, Word("a")>>), Text(<<Word("secret")>>)}

MapOf(k, v) == Node("map", [seg \in {Key(k)} |-> v])

Bodies ==
  {Absent} \cup Scalars
  \cup {Rows(<<v, w>>) : v, w \in Scalars}
  \cup {MapOf("a", v) : v \in Scalars}
  \cup {Node("map", [seg \in {Key("a"), Key("b")} |-> IF seg = Key("a") THEN Rows(<<v>>) ELSE MapOf("c", v)]) :
          v \in Scalars}

PathCases ==
  {Absent, <<>>, <<Key("a")>>, <<Key("b"), Key("c")>>, <<Key("a"), <<"index", 0>>>>, <<<<"index", 1>>>>,
   <<Key("b")>>, <<Key("none")>>}

Row(v) == MapOf("n", v)

RowSets ==
  {<<>>} \cup {<<Row(v)>> : v \in Scalars} \cup {<<Row(v), Row(w)>> : v \in Scalars, w \in {Num(1), Null}}
  \cup {<<Row(Num(1)), Row(Num(1)), Row(Num(1))>>}

Targets == {"setup", "verify", Absent}

HTTPAnswers ==
  {Served(200, h, raw, 3) : h \in {<<>>, [etag |-> <<Word("a")>>], [etag |-> <<>>]}, raw \in Bodies}
SQLAnswers   == {RunStatement(t, rows, m) : t \in Targets, rows \in RowSets, m \in 0..3}
ShellAnswers ==
  {Ran(out, err, c) : err \in {<<>>, <<Word("a")>>}, out \in {<<>>, <<Word("a"), <<"num", 1>>>>, <<Word("secret"), Word("a")>>}, c \in 0..1}

OwnPaths ==
  {<<Key(k)>> : k \in {"exitCode", "stdout", "lineCount", "rowCount", "rows"}}
  \cup {<<Key("row"), Key("n")>>, <<Key("rows"), <<"index", 1>>, Key("n")>>}

Expectations ==
  {Null, Num(1), Num(5), Text(<<<<"num", 1>>>>), Text(<<Word("a")>>), Text(<<<<"ref", "known">>>>)}

Claims(types, targets) ==
  [type: types, target: targets, operator: {"exists", "equals", "contains", "lt", "gt"}, expected: Expectations]

\* Steps with a check or none, and with every order of what they hand on.
FromBody(name, keys) == [name |-> name, path |-> keys, source |-> "body"]
StepsThat(kind, checks, extracts) ==
  [kind: {kind}, extract: extracts,
   assertions: {<<>>} \cup {<<c>> : c \in [type: {checks[1]}, target: {checks[2]}, operator: {"equals"},
                                           expected: Expectations]}]

HTTPSteps ==
  StepsThat("http", <<"bodyField", <<Key("a")>>>>,
            {<<>>, <<FromBody("new", <<Key("a")>>)>>,
             <<FromBody("new", <<Key("a")>>), FromBody("new", <<Key("b")>>)>>,
             <<FromBody("known", <<Key("a")>>), [name |-> "new", path |-> "etag", source |-> "header"]>>})
Statements ==
  StepsThat("sql", <<"rowCount", Absent>>, {<<>>, <<FromBody("new", <<Key("row"), Key("n")>>)>>})
Commands ==
  StepsThat("shell", <<"exitCode", Absent>>, {<<>>, <<FromBody("new", <<Key("stdout")>>)>>})

Attempts(kind) ==
  {Absent} \cup
  CASE kind = "http"  -> {Served(200, h, MapOf("a", v), 1) : h \in {<<>>, [etag |-> <<Word("a")>>]}, v \in Scalars}
    [] kind = "sql"   -> {a \in SQLAnswers : Value(a.json, <<Key("rowsAffected")>>) = Absent}
    [] kind = "shell" -> ShellAnswers

\* No value is no text: none that is read out of these answers.
ASSUME TextAssumption ==
  \A doc \in (Bodies \ {Absent}) \cup {res.json : res \in SQLAnswers \cup ShellAnswers},
     path \in PathCases \cup OwnPaths :
    Value(doc, path) # Absent => Spoken(Normalise(Value(doc, path)))

EveryValueComesBack ==
  /\ \A raw \in Bodies \ {Absent}, path \in PathCases, vars \in VarCases :
       ComesBack(raw, Served(200, <<>>, raw, 3), path, vars, "new")
  /\ \A res \in SQLAnswers \cup ShellAnswers, path \in OwnPaths, vars \in VarCases :
       ComesBack(res.json, res, path, vars, "new")
  /\ \A s \in HTTPSteps \cup Statements \cup Commands :
       \A first, second \in Attempts(s.kind), vars \in VarCases :
         HandedOnByThePassing(s, <<first, second>>, vars)

EveryCheckReadsItsChannel ==
  /\ \A res \in HTTPAnswers, vars \in VarCases,
        a \in Claims({"status", "bodyField", "responseTime"}, PathCases) \cup Claims({"header"}, {"etag"}) :
       Disagree(a, res, vars)
  /\ \A res \in SQLAnswers \cup ShellAnswers, vars \in VarCases, path \in OwnPaths,
        a \in Claims({"rowCount", "exitCode", "stdoutContains"}, {Absent}) :
       Pinned(a, path, res, vars)
  /\ \A target \in Targets, rows \in RowSets, moved \in 0..3 : Counted(target, rows, moved)
=============================================================================
