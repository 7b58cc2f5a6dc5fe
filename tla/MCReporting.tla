----------------------------- MODULE MCReporting -----------------------------
(* Reporting over the results of small runs, for TLC. *)
EXTENDS PlanReads

Ink == <<"plain">>

\* An id, a name or an error of every kind.
TextCases ==
  {Ink, <<"white", "plain">>, <<"wide", "wide">>, <<"plain", "plain", "plain">>, <<"plain", "wide">>,
   <<"bad", "plain", "plain">>, <<"feff">>, <<"feff", "plain">>, <<"nul">>, <<"white">>}

BodyCases ==
  [json: BOOLEAN,
   text: {<<>>, Ink, <<"quote", "quote">>, <<"plain", "plain", "plain", "plain", "plain">>,
          <<"bad">>, <<"nul">>}]

NoBody == [json |-> FALSE, text |-> <<>>]

\* A step that went well, by kind, and what it would say had it gone another way.
WentBy(kind, how, id) ==
  [id |-> id, name |-> Ink, kind |-> kind, status |-> how, url |-> <<"base", "plain">>,
   method |-> IF kind = "http" THEN "GET" ELSE "",
   code   |-> IF kind = "http" /\ how \in {"passed", "failed"} THEN 200 ELSE 0,
   rows   |-> 0, exit |-> IF how = "failed" THEN 1 ELSE 0, out |-> <<>>, body |-> NoBody,
   checks |-> CASE how = "passed" -> <<TRUE>> [] how = "failed" -> <<TRUE, FALSE>> [] OTHER -> <<>>,
   err    |-> IF how \in {"error", "skipped"} THEN Ink ELSE <<>>,
   moved  |-> <<>>]

Hows  == {"pending", "passed", "failed", "skipped", "error"}
Sorts == {"http", "sql", "shell"}

OutcomeOf(hows) == IF "failed" \in hows THEN "failed" ELSE IF "error" \in hows THEN "error" ELSE "passed"

RunOf(steps) ==
  [outcome |-> OutcomeOf({steps[k].status : k \in DOMAIN steps}), steps |-> steps,
   moved |-> <<>>, stateErr |-> <<>>]

\* A step of every kind that went every way, with one field out of the ordinary, and after it
\* another of no kind in particular.
OddSteps ==
  UNION {LET s == WentBy(kind, how, Ink) IN
         UNION {{[s EXCEPT !.id = t], [s EXCEPT !.name = t], [s EXCEPT !.out = t], [s EXCEPT !.url = t],
                 [s EXCEPT !.err = IF @ = <<>> \/ Cut(t, MaxText) = <<>> THEN @ ELSE t]} : t \in TextCases}
         \cup {[s EXCEPT !.body = b] : b \in BodyCases} \cup {[s EXCEPT !.rows = n] : n \in 0..1} :
         kind \in Sorts, how \in Hows}

Others == {WentBy("http", how, id) : how \in {"passed", "failed"}, id \in {<<"plain", "plain">>, <<"wide">>}}

OddRuns == {RunOf(<<s>>) : s \in OddSteps} \cup {RunOf(<<s, t>>) : s \in OddSteps, t \in Others}

\* What the two sides do not agree on: a name with nothing in it that the web would keep.
Tellable(res) ==
  \A k \in DOMAIN res.steps :
    \A t \in {res.steps[k].id, res.steps[k].name} : Stripped(t, JSSpaces) # <<>> \/ Stripped(t, Spaces) = <<>>

TextsOf(s) == {s.id, s.name, s.url, s.err, s.out, s.body.text}

NulFree(res) == \A k \in DOMAIN res.steps : \A t \in TextsOf(res.steps[k]) : ~Nul(t)

Plan1 == [id \in {Ink} |-> [url |-> <<"base", "plain", "wide">>, body |-> [json |-> TRUE, text |-> Ink]]]

EveryReportIsTaken ==
  \A res \in OddRuns :
    Tellable(res) =>
      /\ TakenAtTheDoor(res, Plan1)
      /\ NulFree(res) => Storable(ParsedReport(Reported(res, Plan1)).report)

EveryRecordAgrees ==
  \A res \in OddRuns : Tellable(res) => RecordsSayTheSame(res, Plan1)

-----------------------------------------------------------------------------
(* Squares.                                                                *)

Sig == [method |-> "GET", path |-> Ink]

RowThat(how, path) ==
  LET run == RunOf(<<[WentBy("http", how, Ink) EXCEPT !.url = path]>>)
  IN  ParsedReport(Reported(run, <<>>)).report.steps

Started == {Unsaid, 1, 2, 3}

RunCases == [rows: {RowThat(how, path) : how \in Hows, path \in {Ink, <<"wide">>}}, startedAt: Started]

\* The square of an endpoint is not red for what a later run has put right, nor its endpoint
\* said to be none where the newest run since the probe was served by it.
SquaresAreNews ==
  \A first, second \in RunCases, code \in {Unsaid, 200, 404},
     claimedBy \in {"approved", "draft", "none"} :
    LET runs == <<first, second>>
        square == SquareOf(runs, Sig, Proof(code, 1), claimedBy)
        saw(run, hows) == run.rows[1].routePattern = Ink /\ run.rows[1].status \in hows
    IN  (Unsaid \notin {first.startedAt, second.startedAt} /\ first.startedAt < second.startedAt) =>
          /\ saw(second, {"passed"}) => square # "failing"
          /\ saw(first, {"passed"}) /\ saw(second, {"skipped", "pending"}) => square # "failing"
          /\ saw(second, {"passed"}) /\ second.startedAt > 1 => square # "invalid"
          /\ saw(second, {"failed", "error"}) => square \in {"failing", "invalid"}
          /\ saw(first, {"failed"}) /\ saw(second, {"skipped", "pending"}) => square \in {"failing", "invalid"}
          /\ square \in {"failing", "invalid"} =>
               saw(first, Bad) \/ saw(second, Bad) \/ code = 404

-----------------------------------------------------------------------------
(* Histories of a plan whose text is now at version 2.                     *)

RowsThatWent(hows) ==
  LET ids == <<Ink, <<"plain", "plain">>>> IN
  ParsedReport(Reported(RunOf([k \in DOMAIN hows |-> WentBy("http", hows[k], ids[k])]), <<>>)).report.steps

Courses ==
  {<<"passed">>, <<"failed">>, <<"error">>, <<"passed", "passed">>, <<"passed", "failed">>,
   <<"failed", "skipped">>, <<"passed", "error">>, <<"failed", "passed">>, <<"failed", "failed">>}

\* Runs by when they started; one that is going on has said nothing, and one that was asked
\* for last is still to start.
RunsBegun(starts, versions) ==
  {[status |-> OutcomeOf(Range(hows)), version |-> v, createdAt |-> 0, startedAt |-> t,
    rows |-> RowsThatWent(hows)] : hows \in Courses, v \in versions, t \in starts}
  \cup {[status |-> "running", version |-> v, createdAt |-> 0, startedAt |-> t, rows |-> <<>>] :
          v \in versions, t \in starts}

Waiting == [status |-> "pending", version |-> 2, createdAt |-> 4, startedAt |-> Unsaid, rows |-> <<>>]

Threes ==
  {<<first, second, third>> : first \in RunsBegun({2}, {2}), second \in RunsBegun({3}, {2}),
                              third \in RunsBegun({1}, {2})}

PlanHistories ==
  {<<first, second>> : first \in RunsBegun({1, 3}, 1..2), second \in RunsBegun({2}, 1..2)}
  \cup {<<first, Waiting>> : first \in RunsBegun({1}, 1..2)}
  \cup Threes \cup {Append(three, Waiting) : three \in Threes}

PlanPagesAgree == \A runs \in PlanHistories : PagesSayTheSame(runs, 2, Sig, 2)
=============================================================================
