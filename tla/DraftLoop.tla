----------------------------- MODULE DraftLoop ------------------------------
(***************************************************************************)
(* What a job that revises a plan does between reading it and writing it   *)
(* (web/src/lib/agent/draft.ts and verify.ts, from lib/work/run.ts).       *)
(*                                                                         *)
(* A refinement writes a whole plan, has every step of it judged against   *)
(* the code, and writes it again while a step is left unconfirmed, so many *)
(* times at most.  A re-check has one step of the plan judged again.       *)
(*                                                                         *)
(* What a step says is a value of Content.  A verdict carries, beside the  *)
(* step it names, the content that was judged: the row in the database has *)
(* the step's id only.  "wrong" and "unsupported" are one verdict here,    *)
(* "unsettled": both mean another round.                                   *)
(*                                                                         *)
(* Operators whose names end in _ are mutants of the operator after them.  *)
(***************************************************************************)
EXTENDS Naturals

CONSTANTS
  Job,        \* refinements and re-checks
  Step,       \* step ids
  Content,    \* what a step may say
  Absent,     \* nothing: the plan has no such step
  Text,       \* the texts a plan may have: its steps, and what each says
  MaxSubmits  \* MAX_SUBMITS

ASSUME ContentAssumption == Absent \notin Content
ASSUME TextAssumption == Text \subseteq [Step -> Content \cup {Absent}]
ASSUME SubmitsAssumption == MaxSubmits \in Nat \ {0}

VARIABLE loop

Verdict == [step: Step, verdict: {"confirmed", "unsettled"}, of: Content]

StepsOf(text) == {s \in Step : text[s] # Absent}

\* Every verdict is about what the text says.
About(checks, text) == \A c \in checks : text[c.step] = c.of

\* checksFor: one verdict for each step of the text, whatever the model left out.
Judged(text, given) ==
  {[step |-> s, verdict |-> given[s], of |-> text[s]] : s \in StepsOf(text)}

\*  at      what the job is doing
\*  looks   the step a re-check is about
\*  from    the version it read
\*  text    what a re-check read, what a refinement wrote last
\*  checks  the verdicts that go with it
NoText == [s \in Step |-> Absent]
Idle == [at |-> "idle", from |-> 0, round |-> 0, text |-> NoText, checks |-> {}]

-----------------------------------------------------------------------------
(* refinePlan, runLoop.                                                    *)

\* refineJob and recheckJob read the plan when they work, not when they are asked for.
ReadPlan(j, version, text, checks) ==
  /\ loop[j].at = "idle"
  /\ \/ loop' = [loop EXCEPT ![j] = [at |-> "writing", from |-> version, round |-> 1,
                                     text |-> NoText, checks |-> {}]]
     \/ loop' = [loop EXCEPT ![j] = [at |-> "looking", from |-> version, round |-> 0,
                                     text |-> text, checks |-> checks]]

\* submitRound: a whole plan; a refused shape is asked for once more in there.
Submit(j) ==
  /\ loop[j].at = "writing"
  /\ \E text \in Text :
       loop' = [loop EXCEPT ![j].at = "judging", ![j].text = text]

\* What the loop does with the verdicts of a round.
Rule(j, checks) ==
  IF (\A c \in checks : c.verdict = "confirmed") \/ loop[j].round >= MaxSubmits
    THEN loop' = [loop EXCEPT ![j].at = "landing", ![j].checks = checks]
    ELSE loop' = [loop EXCEPT ![j].at = "writing", ![j].round = @ + 1, ![j].text = NoText]

\* verifyPlan: it never fails, and one that breaks has no verdicts to give.
Verify(j) ==
  /\ loop[j].at = "judging"
  /\ \/ \E given \in [Step -> {"confirmed", "unsettled"}] : Rule(j, Judged(loop[j].text, given))
     \/ Rule(j, {})

\* recheckJob: the fresh verdict replaces that step's old one.
Merged(checks, check) == {c \in checks : c.step # check.step} \cup {check}

\* recheckStep: a verdict, or, when it breaks, one that settles nothing.
Look(j) ==
  /\ loop[j].at = "looking"
  /\ \E s \in StepsOf(loop[j].text), v \in {"confirmed", "unsettled"} :
       loop' = [loop EXCEPT ![j].at = "merging",
                            ![j].checks = Merged(@, [step |-> s, verdict |-> v,
                                                     of |-> loop[j].text[s]])]

\* No model, no machine, a shape refused twice: the job fails, and writes nothing.
Fail(j) ==
  /\ loop[j].at \in {"writing", "looking"}
  /\ loop' = [loop EXCEPT ![j] = [Idle EXCEPT !.at = "over"]]

\* The revision was written, or refused.
Over(j) == loop' = [loop EXCEPT ![j] = [Idle EXCEPT !.at = "over"]]

Think(j) == Submit(j) \/ Verify(j) \/ Look(j) \/ Fail(j)

Loops == [at: {"idle", "writing", "judging", "landing", "looking", "merging", "over"},
          from: Nat, round: 0..MaxSubmits, text: Text \cup {NoText}, checks: SUBSET Verdict]

=============================================================================
