------------------------------ MODULE PlanEdit -------------------------------
(***************************************************************************)
(* The versions of one plan, the verdicts shown beside its steps, and the  *)
(* people and jobs that revise it at the same time                         *)
(* (web/src/components/app/plan/plan-editor.tsx, lib/actions/edit.ts,      *)
(* lib/plan-edit.ts, lib/work/run.ts; the jobs' own part is DraftLoop).    *)
(*                                                                         *)
(* A tab renders a version and a text, read one after the other, and keeps *)
(* what its user typed in memory and in the browser's storage, under a key *)
(* with the version.  A poller may have the page rendered again at any     *)
(* time, under the typing.  Saving posts the version the tab shows; the    *)
(* action reads the plan, writes the account of the difference, picks the  *)
(* verdicts that still hold, and writes the revision if nobody else did.   *)
(*                                                                         *)
(* Plans has the version lock, approval and archiving in full; here a      *)
(* revision lands or not in one step.                                      *)
(*                                                                         *)
(* Operators whose names end in _ are mutants of the operator after them.  *)
(***************************************************************************)
EXTENDS DraftLoop, Sequences

CONSTANTS
  Tab,        \* browser tabs on the plan's page, sharing one storage
  Nothing,
  MaxVersion  \* bound: versions of the plan

ASSUME VersionAssumption == MaxVersion \in Nat \ {0}

VARIABLES
  hist,    \* plan_revisions: [by, text, said, begun]
  checks,  \* plan_json.checks
  stash,   \* localStorage: [key, text, begun], or Nothing
  tab

vars == <<loop, hist, checks, stash, tab>>

version == Len(hist)
current == hist[version].text

\*  shown   target.version
\*  of      the version initial is the text of
\*  fetch   the version a render in progress has read, or 0
\*  anew    whether that render is of the page loaded anew
\*  copy    edited: [text, begun], where begun is the version it was begun from
\*  save    a save in progress
NewTab ==
  [shown |-> 1, of |-> 1, fetch |-> 0, anew |-> FALSE, copy |-> Nothing, save |-> Nothing]

Init ==
  /\ \E text \in Text :
       /\ hist = <<[by |-> "agent", text |-> text, said |-> {}, begun |-> 0]>>
       /\ \E given \in [Step -> {"confirmed", "unsettled"}] : checks = Judged(text, given)
       /\ loop = [j \in Job |-> Idle]
  /\ stash = Nothing
  /\ tab = [t \in Tab |-> NewTab]

-----------------------------------------------------------------------------
(* Writing a revision.                                                     *)

\* Mutant: a revision lands on whatever is there.
LandsAnyway_(from) == version < MaxVersion

\* writeRevision: the version predicate of its SELECT and of its UPDATE.
Lands(from) == version = from /\ version < MaxVersion

\* Bound: nothing is written past the last version.
Write(rev, kept) == hist' = Append(hist, rev) /\ checks' = kept

\* changesBetween: the steps that were added, removed or say something else.
Changes(before, after) == {s \in Step : before[s] # after[s]}

\* Mutant: a verdict is kept for every step that is still there.
ChecksById_(before, after, cs) == {c \in cs : c.step \in StepsOf(after)}

\* checksAfter: the verdicts on steps the edit left as they were.
ChecksAfter(before, after, cs) ==
  {c \in cs : c.step \in StepsOf(before) /\ before[c.step] = after[c.step]}

-----------------------------------------------------------------------------
(* Jobs.                                                                   *)

Begin(j) == ReadPlan(j, version, current, checks) /\ UNCHANGED <<hist, checks, stash, tab>>

Work(j) == Think(j) /\ UNCHANGED <<hist, checks, stash, tab>>

\* refineJob and recheckJob, once they know what to write.
Land(j) ==
  /\ loop[j].at \in {"landing", "merging"}
  /\ IF Lands(loop[j].from)
       THEN Write([by |-> IF loop[j].at = "landing" THEN "agent" ELSE "recheck",
                   text |-> loop[j].text, said |-> {}, begun |-> loop[j].from],
                  loop[j].checks)
       ELSE UNCHANGED <<hist, checks>>
  /\ Over(j)
  /\ UNCHANGED <<stash, tab>>

-----------------------------------------------------------------------------
(* A tab.                                                                  *)

\* heldText, heldPlan: what the storage holds under this key.
Held(key) == stash # Nothing /\ stash.key = key

\* edited ?? held ?? initial.
Shown(p) ==
  IF p.copy # Nothing THEN p.copy
  ELSE IF Held(p.shown) THEN [text |-> stash.text, begun |-> stash.begun]
  ELSE [text |-> hist[p.of].text, begun |-> p.of]

\* The effect after a render: the storage keeps an unsaved edit under the version the tab
\* shows, and nothing under any other version of the plan.
Stashed(p) ==
  LET plan == Shown(p) IN
  IF Changes(hist[p.of].text, plan.text) = {} THEN Nothing
  ELSE IF p.copy # Nothing THEN [key |-> p.shown, text |-> plan.text, begun |-> plan.begun]
  ELSE stash

Render(t, p) == tab' = [tab EXCEPT ![t] = p] /\ stash' = Stashed(p)

\* The page is rendered again.  router.refresh (MachinePulse, an answer in the panel over
\* the page) keeps what was typed; the page loaded anew does not, and waits for the answer to
\* a save.  getAllPlans reads the version first.
Refresh(t) ==
  /\ \E anew \in BOOLEAN :
       /\ anew => tab[t].save = Nothing
       /\ tab' = [tab EXCEPT ![t].fetch = version, ![t].anew = anew]
  /\ UNCHANGED <<loop, hist, checks, stash>>

\* getPlanDetail reads the text, and the page is there.  What was typed and is in the
\* storage under this version is found again.
Arrive(t) ==
  /\ tab[t].fetch # 0
  /\ Render(t, [tab[t] EXCEPT !.shown = tab[t].fetch, !.of = version, !.fetch = 0,
                              !.anew = FALSE,
                              !.copy = IF tab[t].anew THEN Nothing ELSE @])
  /\ UNCHANGED <<loop, hist, checks>>

\* The user types.
Edit(t) ==
  /\ \E text \in Text :
       /\ text # Shown(tab[t]).text
       /\ Render(t, [tab[t] EXCEPT !.copy = [text |-> text, begun |-> Shown(tab[t]).begun]])
  /\ UNCHANGED <<loop, hist, checks>>

\* SaveEdit's form, whose button is disabled while nothing has changed.
Submitted(t) ==
  LET plan == Shown(tab[t]) IN
  /\ tab[t].save = Nothing
  /\ Changes(hist[tab[t].of].text, plan.text) # {}
  /\ tab' = [tab EXCEPT ![t].save =
       [at |-> "sent", from |-> tab[t].shown, text |-> plan.text, begun |-> plan.begun,
        said |-> {}, kept |-> {}]]
  /\ UNCHANGED <<loop, hist, checks, stash>>

\* savePlanEditAction as far as the diff: the plan is read, and held to the posted version.
SaveReads(t) ==
  LET save == tab[t].save
      said == Changes(current, save.text)
  IN  /\ save # Nothing /\ save.at = "sent"
      /\ tab' = [tab EXCEPT ![t].save =
           IF version # save.from \/ said = {} THEN Nothing
           ELSE [save EXCEPT !.at = "read", !.said = said,
                             !.kept = ChecksAfter(current, save.text, checks)]]
      /\ UNCHANGED <<loop, hist, checks, stash>>

\* Its write.  A save that landed has the page rendered again in the same answer.  What was
\* typed stays in memory; it is what the plan now says.
SaveWrites(t) ==
  LET save == tab[t].save IN
  /\ save # Nothing /\ save.at = "read"
  /\ IF Lands(save.from)
       THEN /\ Write([by |-> "hand", text |-> save.text, said |-> save.said,
                      begun |-> save.begun], save.kept)
            /\ tab' = [tab EXCEPT ![t].save = Nothing, ![t].fetch = version + 1,
                 ![t].anew = FALSE,
                 ![t].copy = IF @ # Nothing /\ @.text = save.text
                             THEN [@ EXCEPT !.begun = version + 1] ELSE @]
       ELSE tab' = [tab EXCEPT ![t].save = Nothing] /\ UNCHANGED <<hist, checks>>
  /\ UNCHANGED <<loop, stash>>

-----------------------------------------------------------------------------
Next ==
  \/ \E j \in Job : Begin(j) \/ Work(j) \/ Land(j)
  \/ \E t \in Tab : \/ Refresh(t) \/ Arrive(t) \/ Edit(t) \/ Submitted(t)
                    \/ SaveReads(t) \/ SaveWrites(t)

Spec == Init /\ [][Next]_vars

-----------------------------------------------------------------------------
(* Properties.                                                             *)

Version  == 1..MaxVersion
Edited   == [text: Text, begun: Version]
Saving   == [at: {"sent", "read"}, from: Version, text: Text, begun: Version,
             said: SUBSET Step, kept: SUBSET Verdict]
Revision == [by: {"agent", "recheck", "hand"}, text: Text, said: SUBSET Step,
             begun: 0..MaxVersion]
Page     == [shown: Version, of: Version, fetch: 0..MaxVersion, anew: BOOLEAN,
             copy: Edited \cup {Nothing}, save: Saving \cup {Nothing}]

\* Every variable keeps to its type.
EditTypeOK ==
  /\ hist \in Seq(Revision)
  /\ version \in Version
  /\ checks \subseteq Verdict
  /\ loop \in [Job -> Loops]
  /\ stash \in [key: Version, text: Text, begun: Version] \cup {Nothing}
  /\ tab \in [Tab -> Page]

\* A verdict is never shown beside a step it was not given on, through any mixture of
\* refinements, second looks and hand edits (plan-edit.ts: "a `confirmed` carried blindly
\* across an edit is the worst possible outcome of having verification at all"), and no
\* step has two.
VerdictsAreOfTheText ==
  /\ About(checks, current)
  /\ \A c, d \in checks : c.step = d.step => c = d

\* The account of a hand edit names what moved from the version before it, and a second
\* look leaves the text alone, whoever else revised the plan meanwhile (edit.ts: "a stale
\* working copy would otherwise produce a truthful-looking account of a change from text
\* nobody is looking at").
ReceiptsAreTrue ==
  \A n \in 2..version :
    /\ hist[n].by = "hand" => hist[n].said = Changes(hist[n - 1].text, hist[n].text)
    /\ hist[n].by = "recheck" => hist[n].text = hist[n - 1].text

-----------------------------------------------------------------------------
(* What the code says of itself and does not hold; see the README.                       *)

\* An edit begun against a version is saved on top of that version only (plan-editor.tsx:
\* "an edit begun against v3 is simply not offered once the plan is v4").
NoEditOverNews ==
  \A n \in 2..version : hist[n].by = "hand" => hist[n].begun = n - 1

=============================================================================
