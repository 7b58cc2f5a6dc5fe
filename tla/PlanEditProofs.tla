--------------------------- MODULE PlanEditProofs ----------------------------
(***************************************************************************)
(* Proofs about PlanEdit, for any number of jobs, tabs, steps, texts and   *)
(* versions: a verdict is never beside a step it was not given on, and the *)
(* account of a revision tells the truth about it.                         *)
(***************************************************************************)
EXTENDS PlanEdit, TLAPS

-----------------------------------------------------------------------------
(* The strengthening: what jobs and saves hold stays true of the version   *)
(* they took it from, however the plan moves on.                           *)

\* Verdicts that may be shown beside this text.
Sound(cs, text) == About(cs, text) /\ \A c, d \in cs : c.step = d.step => c = d

\* A re-check holds the text of the version it read; verdicts on the way to the plan are
\* about the text they will be written with.
JobHolds(l) ==
  /\ l.at \in {"looking", "merging"} => l.from \in 1..version /\ l.text = hist[l.from].text
  /\ l.at \in {"looking", "merging", "landing"} => Sound(l.checks, l.text)
  /\ l.at \in {"judging", "looking", "merging", "landing"} => l.text \in Text

\* A save past its reading holds the difference from the version it was posted against.
SaveHolds(save) ==
  save # Nothing /\ save.at = "read" =>
    /\ save.from \in 1..version
    /\ save.said = Changes(hist[save.from].text, save.text)
    /\ Sound(save.kept, save.text)

TabHolds(p) == p.of \in 1..version /\ SaveHolds(p.save)

Holds == (\A j \in Job : JobHolds(loop[j])) /\ (\A t \in Tab : TabHolds(tab[t]))

IInv == EditTypeOK /\ Holds /\ VerdictsAreOfTheText /\ ReceiptsAreTrue

-----------------------------------------------------------------------------
(* Verdicts.                                                               *)

LEMMA JudgedSound ==
  ASSUME NEW text \in Text, NEW given \in [Step -> {"confirmed", "unsettled"}]
  PROVE  Sound(Judged(text, given), text) /\ Judged(text, given) \subseteq Verdict
<1>1. text \in [Step -> Content \cup {Absent}]
  BY TextAssumption
<1>2. \A s \in StepsOf(text) :
        [step |-> s, verdict |-> given[s], of |-> text[s]] \in Verdict
  BY <1>1 DEF StepsOf, Verdict
<1> QED
  BY <1>2 DEF Sound, About, Judged

LEMMA MergedSound ==
  ASSUME NEW text \in Text, NEW cs \in SUBSET Verdict, Sound(cs, text),
         NEW s \in StepsOf(text), NEW v \in {"confirmed", "unsettled"}
  PROVE  LET now == Merged(cs, [step |-> s, verdict |-> v, of |-> text[s]])
         IN  Sound(now, text) /\ now \subseteq Verdict
<1>1. text \in [Step -> Content \cup {Absent}]
  BY TextAssumption
<1>2. [step |-> s, verdict |-> v, of |-> text[s]] \in Verdict
  BY <1>1 DEF StepsOf, Verdict
<1> QED
  BY <1>2 DEF Sound, About, Merged

LEMMA KeptSound ==
  ASSUME NEW before, NEW after, NEW cs \in SUBSET Verdict, Sound(cs, before)
  PROVE  LET kept == ChecksAfter(before, after, cs)
         IN  Sound(kept, after) /\ kept \subseteq Verdict
BY DEF Sound, About, ChecksAfter

-----------------------------------------------------------------------------
(* Writing a revision, or none.                                            *)

LEMMA VersionIsNumber == ASSUME EditTypeOK PROVE version \in Nat /\ version >= 1
<1>1. version \in Version
  BY DEF EditTypeOK
<1> QED
  BY <1>1, VersionAssumption DEF Version

\* A revision that lands adds a version and leaves the earlier ones alone.
LEMMA Written ==
  ASSUME EditTypeOK, NEW rev \in Revision, version < MaxVersion, hist' = Append(hist, rev)
  PROVE  /\ hist' \in Seq(Revision) /\ version' = version + 1 /\ version' \in Version
         /\ \A n \in 1..version : hist'[n] = hist[n]
         /\ hist'[version + 1] = rev
<1>1. hist \in Seq(Revision) /\ Len(hist) \in Version
  BY DEF EditTypeOK, version
<1>2. Len(hist) \in Nat /\ Len(hist) + 1 \in Version
  BY <1>1, VersionAssumption DEF version, Version
<1> QED
  BY <1>1, <1>2 DEF version

\* What is held of an earlier version is held of it still.
LEMMA HeldStill ==
  ASSUME EditTypeOK, NEW rev \in Revision, version < MaxVersion,
         hist' = Append(hist, rev)
  PROVE  /\ \A l \in Loops : JobHolds(l) => JobHolds(l)'
         /\ \A p \in Page : TabHolds(p) => TabHolds(p)'
<1>1. /\ version' = version + 1 /\ version \in Nat
      /\ \A n \in 1..version : hist'[n] = hist[n]
  BY Written, VersionIsNumber
<1>2. \A n \in 1..version : n \in 1..version'
  BY <1>1
<1>3. ASSUME NEW l \in Loops, JobHolds(l) PROVE JobHolds(l)'
  BY <1>1, <1>2, <1>3 DEF JobHolds
<1>4. ASSUME NEW p \in Page, TabHolds(p) PROVE TabHolds(p)'
  BY <1>1, <1>2, <1>4 DEF TabHolds, SaveHolds
<1> QED
  BY <1>3, <1>4

\* The two invariants after a revision whose account is true and whose verdicts are its own.
LEMMA WrittenTruly ==
  ASSUME EditTypeOK, VerdictsAreOfTheText, ReceiptsAreTrue,
         NEW rev \in Revision, version < MaxVersion, NEW kept, Write(rev, kept),
         Sound(kept, rev.text),
         rev.by = "hand" => rev.said = Changes(current, rev.text),
         rev.by = "recheck" => rev.text = current
  PROVE  VerdictsAreOfTheText' /\ ReceiptsAreTrue'
<1>1. /\ version' = version + 1 /\ version \in Nat /\ version >= 1
      /\ \A n \in 1..version : hist'[n] = hist[n]
      /\ hist'[version + 1] = rev /\ checks' = kept
  BY Written, VersionIsNumber DEF Write
<1>2. current' = rev.text
  BY <1>1 DEF current
<1>3. VerdictsAreOfTheText'
  BY <1>1, <1>2 DEF VerdictsAreOfTheText, Sound, About
<1>4. ASSUME NEW n \in 2..version'
      PROVE  /\ hist'[n].by = "hand" => hist'[n].said = Changes(hist'[n - 1].text, hist'[n].text)
             /\ hist'[n].by = "recheck" => hist'[n].text = hist'[n - 1].text
  <2>1. CASE n \in 2..version
    <3>1. n \in 1..version /\ n - 1 \in 1..version
      BY <2>1, <1>1
    <3> QED
      BY <3>1, <2>1, <1>1 DEF ReceiptsAreTrue
  <2>2. CASE n = version + 1
    <3>1. n - 1 = version /\ version \in 1..version
      BY <2>2, <1>1
    <3> QED
      BY <3>1, <2>2, <1>1 DEF current
  <2> QED
    BY <1>1, <1>4, <2>1, <2>2
<1>5. ReceiptsAreTrue'
  BY <1>4 DEF ReceiptsAreTrue
<1> QED
  BY <1>3, <1>5

\* What goes on when the plan does not.
LEMMA NothingWritten ==
  ASSUME IInv, UNCHANGED <<hist, checks>>
  PROVE  /\ \A l \in Loops : JobHolds(l) <=> JobHolds(l)'
         /\ \A p \in Page : TabHolds(p) <=> TabHolds(p)'
         /\ VerdictsAreOfTheText' /\ ReceiptsAreTrue'
         /\ hist' \in Seq(Revision) /\ version' \in Version /\ checks' \subseteq Verdict
<1>1. hist' = hist /\ checks' = checks /\ version' = version /\ current' = current
  BY DEF version, current
<1>2. VerdictsAreOfTheText' /\ ReceiptsAreTrue'
  BY <1>1 DEF VerdictsAreOfTheText, ReceiptsAreTrue, About, IInv
<1>3. ASSUME NEW l \in Loops PROVE JobHolds(l) <=> JobHolds(l)'
  BY <1>1 DEF JobHolds
<1>4. ASSUME NEW p \in Page PROVE TabHolds(p) <=> TabHolds(p)'
  BY <1>1 DEF TabHolds, SaveHolds
<1>5. hist' \in Seq(Revision) /\ version' \in Version /\ checks' \subseteq Verdict
  BY <1>1 DEF EditTypeOK, IInv
<1> QED
  BY <1>2, <1>3, <1>4, <1>5

-----------------------------------------------------------------------------
(* Jobs.                                                                   *)

\* A step of a job that writes nothing keeps the invariant if what it then holds is so.
LEMMA JobMoves ==
  ASSUME IInv, NEW j \in Job, NEW l \in Loops, loop' = [loop EXCEPT ![j] = l],
         UNCHANGED <<hist, checks, stash, tab>>, JobHolds(l)
  PROVE  IInv'
<1>1. loop \in [Job -> Loops] /\ tab \in [Tab -> Page]
  BY DEF IInv, EditTypeOK
<1>2. loop' \in [Job -> Loops] /\ \A i \in Job : loop'[i] = IF i = j THEN l ELSE loop[i]
  BY <1>1
<1>3. /\ \A k \in Loops : JobHolds(k) <=> JobHolds(k)'
      /\ \A p \in Page : TabHolds(p) <=> TabHolds(p)'
      /\ VerdictsAreOfTheText' /\ ReceiptsAreTrue'
      /\ hist' \in Seq(Revision) /\ version' \in Version /\ checks' \subseteq Verdict
  BY NothingWritten
<1>4. EditTypeOK'
  BY <1>2, <1>3 DEF IInv, EditTypeOK
<1>5. \A i \in Job : JobHolds(loop'[i])
  BY <1>1, <1>2 DEF IInv, Holds
<1>6. \A i \in Job : JobHolds(loop[i])'
  BY <1>1, <1>2, <1>3, <1>5
<1>7. \A t \in Tab : TabHolds(tab[t])'
  BY <1>1, <1>3 DEF IInv, Holds
<1> QED
  BY <1>3, <1>4, <1>6, <1>7 DEF IInv, Holds

LEMMA IdleIsLoop ==
  /\ Idle \in Loops /\ [Idle EXCEPT !.at = "over"] \in Loops
  /\ JobHolds([Idle EXCEPT !.at = "over"])
BY SubmitsAssumption DEF Idle, Loops, JobHolds

LEMMA BeginStep == ASSUME IInv, NEW j \in Job, Begin(j) PROVE IInv'
<1> DEFINE write == [at |-> "writing", from |-> version, round |-> 1, text |-> NoText,
                     checks |-> {}]
           look  == [at |-> "looking", from |-> version, round |-> 0, text |-> current,
                     checks |-> checks]
<1>1. version \in Nat /\ version >= 1
  BY VersionIsNumber DEF IInv
<1>2. hist[version] \in Revision /\ checks \subseteq Verdict
  <2>1. hist \in Seq(Revision) /\ version \in 1..Len(hist)
    BY <1>1 DEF IInv, EditTypeOK, version
  <2> QED
    BY <2>1 DEF IInv, EditTypeOK
<1>3. current \in Text
  BY <1>2 DEF current, Revision
<1>4. CASE loop' = [loop EXCEPT ![j] = write]
  <2>1. write \in Loops /\ JobHolds(write)
    BY <1>1, SubmitsAssumption DEF Loops, JobHolds
  <2> QED
    BY <1>4, <2>1, JobMoves DEF Begin
<1>5. CASE loop' = [loop EXCEPT ![j] = look]
  <2>1. look \in Loops
    BY <1>1, <1>2, <1>3, SubmitsAssumption DEF Loops
  <2>2. Sound(checks, current)
    BY DEF IInv, VerdictsAreOfTheText, Sound
  <2>3. JobHolds(look)
    BY <1>1, <1>3, <2>2 DEF JobHolds, current
  <2> QED
    BY <1>5, <2>1, <2>3, JobMoves DEF Begin
<1> QED
  BY <1>4, <1>5 DEF Begin, ReadPlan

LEMMA RuleStep ==
  ASSUME IInv, NEW j \in Job, loop[j].at = "judging", NEW cs \in SUBSET Verdict,
         Sound(cs, loop[j].text), Rule(j, cs), UNCHANGED <<hist, checks, stash, tab>>
  PROVE  IInv'
<1>1. loop \in [Job -> Loops] /\ loop[j] \in Loops /\ JobHolds(loop[j])
  BY DEF IInv, EditTypeOK, Holds
<1>2. loop[j].text \in Text
  BY <1>1 DEF JobHolds
<1> DEFINE land == [loop[j] EXCEPT !.at = "landing", !.checks = cs]
           more == [loop[j] EXCEPT !.at = "writing", !.round = @ + 1, !.text = NoText]
<1>3. CASE (\A c \in cs : c.verdict = "confirmed") \/ loop[j].round >= MaxSubmits
  <2>1. land \in Loops /\ JobHolds(land)
    BY <1>1, <1>2 DEF Loops, JobHolds
  <2>2. loop' = [loop EXCEPT ![j] = land]
    BY <1>1, <1>3 DEF Rule
  <2> QED
    BY <2>1, <2>2, JobMoves
<1>4. CASE ~((\A c \in cs : c.verdict = "confirmed") \/ loop[j].round >= MaxSubmits)
  <2>1. loop[j].round + 1 \in 0..MaxSubmits
    BY <1>1, <1>4, SubmitsAssumption DEF Loops
  <2>2. more \in Loops /\ JobHolds(more)
    BY <1>1, <2>1 DEF Loops, JobHolds
  <2>3. loop' = [loop EXCEPT ![j] = more]
    BY <1>1, <1>4 DEF Rule
  <2> QED
    BY <2>2, <2>3, JobMoves
<1> QED
  BY <1>3, <1>4

LEMMA WorkStep == ASSUME IInv, NEW j \in Job, Work(j) PROVE IInv'
<1>1. loop \in [Job -> Loops] /\ loop[j] \in Loops /\ JobHolds(loop[j])
  BY DEF IInv, EditTypeOK, Holds
<1>2. CASE Submit(j)
  <2>1. PICK text \in Text :
          loop' = [loop EXCEPT ![j].at = "judging", ![j].text = text]
    BY <1>2 DEF Submit
  <2> DEFINE l == [loop[j] EXCEPT !.at = "judging", !.text = text]
  <2>2. l \in Loops /\ JobHolds(l)
    BY <1>1 DEF Loops, JobHolds
  <2>3. loop' = [loop EXCEPT ![j] = l]
    BY <1>1, <2>1
  <2> QED
    BY <2>2, <2>3, JobMoves DEF Work
<1>3. CASE Verify(j)
  <2>1. loop[j].text \in Text /\ loop[j].at = "judging"
    BY <1>1, <1>3 DEF JobHolds, Verify
  <2>2. ASSUME NEW given \in [Step -> {"confirmed", "unsettled"}],
               Rule(j, Judged(loop[j].text, given))
        PROVE  IInv'
    BY <2>1, <2>2, JudgedSound, RuleStep DEF Work
  <2>3. CASE Rule(j, {})
    <3>1. Sound({}, loop[j].text)
      BY DEF Sound, About
    <3> QED
      BY <2>1, <2>3, <3>1, RuleStep DEF Work
  <2> QED
    BY <1>3, <2>2, <2>3 DEF Verify
<1>4. CASE Look(j)
  <2>1. PICK s \in StepsOf(loop[j].text), v \in {"confirmed", "unsettled"} :
          loop' = [loop EXCEPT ![j].at = "merging",
                               ![j].checks = Merged(@, [step |-> s, verdict |-> v,
                                                        of |-> loop[j].text[s]])]
    BY <1>4 DEF Look
  <2> DEFINE now == Merged(loop[j].checks, [step |-> s, verdict |-> v,
                                            of |-> loop[j].text[s]])
             l   == [loop[j] EXCEPT !.at = "merging", !.checks = now]
  <2>2. /\ loop[j].at = "looking" /\ loop[j].text \in Text
        /\ Sound(loop[j].checks, loop[j].text) /\ loop[j].checks \in SUBSET Verdict
    BY <1>1, <1>4 DEF Look, JobHolds, Loops
  <2>3. Sound(now, loop[j].text) /\ now \subseteq Verdict
    BY <2>2, MergedSound
  <2> HIDE DEF now
  <2>4. l \in Loops /\ JobHolds(l)
    BY <1>1, <2>2, <2>3 DEF Loops, JobHolds
  <2>5. loop' = [loop EXCEPT ![j] = l]
    BY <1>1, <2>1 DEF now
  <2> QED
    BY <2>4, <2>5, JobMoves DEF Work
<1>5. CASE Fail(j)
  BY <1>5, IdleIsLoop, JobMoves DEF Fail, Work
<1> QED
  BY <1>2, <1>3, <1>4, <1>5 DEF Work, Think

LEMMA LandStep == ASSUME IInv, NEW j \in Job, Land(j) PROVE IInv'
<1> DEFINE over == [Idle EXCEPT !.at = "over"]
           rev  == [by |-> IF loop[j].at = "landing" THEN "agent" ELSE "recheck",
                    text |-> loop[j].text, said |-> {}, begun |-> loop[j].from]
<1>1. /\ loop \in [Job -> Loops] /\ loop[j] \in Loops /\ JobHolds(loop[j])
      /\ tab \in [Tab -> Page] /\ loop' = [loop EXCEPT ![j] = over]
      /\ loop[j].at \in {"landing", "merging"}
  BY DEF IInv, EditTypeOK, Holds, Land, Over
<1>2. CASE ~Lands(loop[j].from)
  BY <1>1, <1>2, IdleIsLoop, JobMoves DEF Land
<1>3. CASE Lands(loop[j].from)
  <2>1. version = loop[j].from /\ version < MaxVersion /\ version \in Nat
    BY <1>3, VersionIsNumber DEF Lands, IInv
  <2>2. rev \in Revision
    <3>1. loop[j].text \in Text /\ loop[j].from \in 0..MaxVersion
      BY <1>1, <2>1, VersionAssumption DEF JobHolds
    <3> QED
      BY <3>1 DEF Revision
  <2>3. Write(rev, loop[j].checks) /\ stash' = stash /\ tab' = tab
    BY <1>3 DEF Land
  <2>4. /\ Sound(loop[j].checks, rev.text)
        /\ rev.by # "hand"
        /\ rev.by = "recheck" => rev.text = current
    BY <1>1, <2>1 DEF JobHolds, current
  <2> HIDE DEF rev
  <2>5. VerdictsAreOfTheText' /\ ReceiptsAreTrue'
    BY <2>1, <2>2, <2>3, <2>4, WrittenTruly DEF IInv
  <2>6. /\ hist' \in Seq(Revision) /\ version' \in Version
        /\ \A l \in Loops : JobHolds(l) => JobHolds(l)'
        /\ \A p \in Page : TabHolds(p) => TabHolds(p)'
    BY <2>1, <2>2, <2>3, Written, HeldStill DEF IInv, Write
  <2>7. loop' \in [Job -> Loops] /\ \A i \in Job : loop'[i] = IF i = j THEN over ELSE loop[i]
    BY <1>1, IdleIsLoop
  <2>8. EditTypeOK'
    <3>1. checks' \subseteq Verdict
      BY <1>1, <2>3 DEF Write, Loops
    <3> QED
      BY <2>3, <2>6, <2>7, <3>1 DEF IInv, EditTypeOK
  <2>9. \A i \in Job : JobHolds(loop'[i]) /\ loop'[i] \in Loops
    BY <1>1, <2>7, IdleIsLoop DEF IInv, Holds
  <2>10. \A i \in Job : JobHolds(loop[i])'
    BY <2>6, <2>9
  <2>11. \A t \in Tab : TabHolds(tab[t])'
    BY <1>1, <2>3, <2>6 DEF IInv, Holds
  <2> QED
    BY <2>5, <2>8, <2>10, <2>11 DEF IInv, Holds
<1> QED
  BY <1>2, <1>3

-----------------------------------------------------------------------------
(* Tabs.                                                                   *)

Stored == [key: Version, text: Text, begun: Version] \cup {Nothing}

\* A step of a tab that writes nothing keeps the invariant if what it then holds is so.
LEMMA TabMoves ==
  ASSUME IInv, NEW t \in Tab, NEW p \in Page, tab' = [tab EXCEPT ![t] = p],
         UNCHANGED <<loop, hist, checks>>, stash' \in Stored, TabHolds(p)
  PROVE  IInv'
<1>1. loop \in [Job -> Loops] /\ tab \in [Tab -> Page]
  BY DEF IInv, EditTypeOK
<1>2. tab' \in [Tab -> Page] /\ \A u \in Tab : tab'[u] = IF u = t THEN p ELSE tab[u]
  BY <1>1
<1>3. /\ \A k \in Loops : JobHolds(k) <=> JobHolds(k)'
      /\ \A q \in Page : TabHolds(q) <=> TabHolds(q)'
      /\ VerdictsAreOfTheText' /\ ReceiptsAreTrue'
      /\ hist' \in Seq(Revision) /\ version' \in Version /\ checks' \subseteq Verdict
  BY NothingWritten
<1>4. EditTypeOK'
  BY <1>2, <1>3 DEF IInv, EditTypeOK, Stored
<1>5. \A u \in Tab : TabHolds(tab'[u])
  BY <1>1, <1>2 DEF IInv, Holds
<1>6. \A u \in Tab : TabHolds(tab[u])'
  BY <1>1, <1>2, <1>3, <1>5
<1>7. \A j \in Job : JobHolds(loop[j])'
  BY <1>1, <1>3 DEF IInv, Holds
<1> QED
  BY <1>3, <1>4, <1>6, <1>7 DEF IInv, Holds

\* What a page shows is an edit of some version, and so is what the storage keeps of it.
LEMMA ShownTyped ==
  ASSUME IInv, NEW p \in Page, p.of \in 1..version
  PROVE  Shown(p) \in Edited /\ Stashed(p) \in Stored
<1>1. stash \in Stored
  BY DEF IInv, EditTypeOK, Stored
<1>2. hist[p.of] \in Revision
  <2>1. hist \in Seq(Revision) /\ p.of \in 1..Len(hist)
    BY DEF IInv, EditTypeOK, version
  <2> QED
    BY <2>1
<1>3. p.of \in Version /\ p.shown \in Version /\ p.copy \in Edited \cup {Nothing}
  BY DEF Page
<1>4. [text |-> hist[p.of].text, begun |-> p.of] \in Edited
  BY <1>2, <1>3 DEF Revision, Edited
<1>5. stash # Nothing => [text |-> stash.text, begun |-> stash.begun] \in Edited
  BY <1>1 DEF Stored, Edited
<1>6. Shown(p) \in Edited
  BY <1>3, <1>4, <1>5 DEF Shown, Held
<1>7. [key |-> p.shown, text |-> Shown(p).text, begun |-> Shown(p).begun] \in Stored
  BY <1>3, <1>6 DEF Edited, Stored
<1>8. Nothing \in Stored
  BY DEF Stored
<1> QED
  BY <1>1, <1>6, <1>7, <1>8 DEF Stashed

LEMMA RefreshStep == ASSUME IInv, NEW t \in Tab, Refresh(t) PROVE IInv'
<1>1. tab \in [Tab -> Page] /\ tab[t] \in Page /\ TabHolds(tab[t]) /\ stash \in Stored
  BY DEF IInv, EditTypeOK, Holds, Stored
<1>2. PICK anew \in BOOLEAN : tab' = [tab EXCEPT ![t].fetch = version, ![t].anew = anew]
  BY DEF Refresh
<1> DEFINE p == [tab[t] EXCEPT !.fetch = version, !.anew = anew]
<1>3. version \in 0..MaxVersion
  BY VersionAssumption DEF IInv, EditTypeOK, Version
<1>4. p \in Page /\ TabHolds(p)
  BY <1>1, <1>3 DEF Page, TabHolds
<1>5. tab' = [tab EXCEPT ![t] = p]
  BY <1>1, <1>2
<1> QED
  BY <1>1, <1>4, <1>5, TabMoves DEF Refresh

LEMMA ArriveStep == ASSUME IInv, NEW t \in Tab, Arrive(t) PROVE IInv'
<1>1. tab \in [Tab -> Page] /\ tab[t] \in Page /\ TabHolds(tab[t])
  BY DEF IInv, EditTypeOK, Holds
<1> DEFINE p == [tab[t] EXCEPT !.shown = tab[t].fetch, !.of = version, !.fetch = 0,
                               !.anew = FALSE,
                               !.copy = IF tab[t].anew THEN Nothing ELSE @]
<1>2. version \in Version /\ version \in 1..version /\ 0 \in 0..MaxVersion
  BY VersionIsNumber, VersionAssumption DEF IInv, EditTypeOK
<1>3. tab[t].fetch \in Version
  BY <1>1, VersionAssumption DEF Arrive, Page, Version
<1>4. p \in Page
  BY <1>1, <1>2, <1>3 DEF Page
<1>5. TabHolds(p) /\ p.of \in 1..version
  BY <1>1, <1>2 DEF TabHolds, Page
<1>6. Stashed(p) \in Stored
  BY <1>4, <1>5, ShownTyped
<1>7. tab' = [tab EXCEPT ![t] = p] /\ stash' = Stashed(p)
  BY DEF Arrive, Render
<1> HIDE DEF p
<1> QED
  BY <1>4, <1>5, <1>6, <1>7, TabMoves DEF Arrive

LEMMA EditStep == ASSUME IInv, NEW t \in Tab, Edit(t) PROVE IInv'
<1>1. tab \in [Tab -> Page] /\ tab[t] \in Page /\ TabHolds(tab[t])
  BY DEF IInv, EditTypeOK, Holds
<1>2. PICK text \in Text :
        Render(t, [tab[t] EXCEPT !.copy = [text |-> text, begun |-> Shown(tab[t]).begun]])
  BY DEF Edit
<1> DEFINE p == [tab[t] EXCEPT !.copy = [text |-> text, begun |-> Shown(tab[t]).begun]]
<1>3. Shown(tab[t]) \in Edited
  BY <1>1, ShownTyped DEF TabHolds
<1>4. [text |-> text, begun |-> Shown(tab[t]).begun] \in Edited
  BY <1>3 DEF Edited
<1>5. p \in Page
  BY <1>1, <1>4 DEF Page
<1>6. TabHolds(p) /\ p.of \in 1..version
  BY <1>1 DEF TabHolds, Page
<1>7. tab' = [tab EXCEPT ![t] = p] /\ stash' = Stashed(p)
  BY <1>2 DEF Render
<1> HIDE DEF p
<1> QED
  BY <1>5, <1>6, <1>7, ShownTyped, TabMoves DEF Edit

LEMMA SubmittedStep == ASSUME IInv, NEW t \in Tab, Submitted(t) PROVE IInv'
<1>1. tab \in [Tab -> Page] /\ tab[t] \in Page /\ TabHolds(tab[t]) /\ stash \in Stored
  BY DEF IInv, EditTypeOK, Holds, Stored
<1>2. Shown(tab[t]) \in Edited
  BY <1>1, ShownTyped DEF TabHolds
<1> DEFINE save == [at |-> "sent", from |-> tab[t].shown, text |-> Shown(tab[t]).text,
                    begun |-> Shown(tab[t]).begun, said |-> {}, kept |-> {}]
           p    == [tab[t] EXCEPT !.save = save]
<1>3. save \in Saving
  BY <1>1, <1>2 DEF Page, Edited, Saving
<1>4. SaveHolds(save)
  BY DEF SaveHolds
<1> HIDE DEF save
<1>5. p \in Page /\ TabHolds(p)
  BY <1>1, <1>3, <1>4 DEF Page, TabHolds
<1>6. tab' = [tab EXCEPT ![t] = p]
  BY <1>1 DEF Submitted, save
<1> QED
  BY <1>1, <1>5, <1>6, TabMoves DEF Submitted

LEMMA SaveReadsStep == ASSUME IInv, NEW t \in Tab, SaveReads(t) PROVE IInv'
<1>1. tab \in [Tab -> Page] /\ tab[t] \in Page /\ TabHolds(tab[t]) /\ stash \in Stored
  BY DEF IInv, EditTypeOK, Holds, Stored
<1> DEFINE save == tab[t].save
           said == Changes(current, save.text)
           kept == ChecksAfter(current, save.text, checks)
           read == [save EXCEPT !.at = "read", !.said = said, !.kept = kept]
<1>2. save \in Saving /\ save # Nothing
  BY <1>1 DEF SaveReads, Page
<1>3. CASE tab' = [tab EXCEPT ![t].save = Nothing]
  <2> DEFINE p == [tab[t] EXCEPT !.save = Nothing]
  <2>1. p \in Page /\ TabHolds(p)
    BY <1>1 DEF Page, TabHolds, SaveHolds
  <2>2. tab' = [tab EXCEPT ![t] = p]
    BY <1>1, <1>3
  <2> QED
    BY <1>1, <2>1, <2>2, TabMoves DEF SaveReads
<1>4. CASE version = save.from /\ tab' = [tab EXCEPT ![t].save = read]
  <2> DEFINE p == [tab[t] EXCEPT !.save = read]
  <2>1. said \subseteq Step
    BY DEF Changes
  <2>2. Sound(kept, save.text) /\ kept \subseteq Verdict
    BY KeptSound DEF IInv, EditTypeOK, VerdictsAreOfTheText, Sound
  <2>3. version \in 1..version
    BY VersionIsNumber DEF IInv
  <2>4. read \in Saving
    BY <1>2, <2>1, <2>2 DEF Saving
  <2>5. SaveHolds(read)
    <3>1. /\ read.from = version /\ read.text = save.text /\ read.said = said
          /\ read.kept = kept
      BY <1>2, <1>4 DEF Saving
    <3> QED
      BY <2>2, <2>3, <3>1 DEF SaveHolds, current
  <2> HIDE DEF read
  <2>6. p \in Page /\ TabHolds(p)
    BY <1>1, <2>4, <2>5 DEF Page, TabHolds
  <2>7. tab' = [tab EXCEPT ![t] = p]
    BY <1>1, <1>4
  <2> QED
    BY <1>1, <2>6, <2>7, TabMoves DEF SaveReads
<1>5. tab' = [tab EXCEPT ![t].save = IF version # save.from \/ said = {} THEN Nothing
                                     ELSE read]
  BY DEF SaveReads
<1> QED
  BY <1>3, <1>4, <1>5

LEMMA SaveWritesStep == ASSUME IInv, NEW t \in Tab, SaveWrites(t) PROVE IInv'
<1>1. /\ loop \in [Job -> Loops] /\ tab \in [Tab -> Page] /\ tab[t] \in Page
      /\ TabHolds(tab[t]) /\ stash \in Stored /\ loop' = loop /\ stash' = stash
  BY DEF IInv, EditTypeOK, Holds, Stored, SaveWrites
<1> DEFINE save == tab[t].save
           rev  == [by |-> "hand", text |-> save.text, said |-> save.said,
                    begun |-> save.begun]
           copy == IF tab[t].copy # Nothing /\ tab[t].copy.text = save.text
                   THEN [tab[t].copy EXCEPT !.begun = version + 1] ELSE tab[t].copy
           back == [tab[t] EXCEPT !.save = Nothing]
           done == [tab[t] EXCEPT !.save = Nothing, !.fetch = version + 1, !.anew = FALSE,
                                  !.copy = copy]
<1>2. save \in Saving /\ save # Nothing /\ save.at = "read"
  BY <1>1 DEF SaveWrites, Page
<1>3. CASE ~Lands(save.from)
  <2>1. back \in Page /\ TabHolds(back)
    BY <1>1 DEF Page, TabHolds, SaveHolds
  <2>2. tab' = [tab EXCEPT ![t] = back] /\ hist' = hist /\ checks' = checks
    BY <1>1, <1>3 DEF SaveWrites
  <2> QED
    BY <1>1, <2>1, <2>2, TabMoves
<1>4. CASE Lands(save.from)
  <2>1. version = save.from /\ version < MaxVersion /\ version \in Nat
    BY <1>4, VersionIsNumber DEF Lands, IInv
  <2>2. rev \in Revision
    BY <1>2, VersionAssumption DEF Saving, Revision, Version
  <2>3. Write(rev, save.kept)
    BY <1>4 DEF SaveWrites
  <2>4. /\ save.said = Changes(current, save.text) /\ Sound(save.kept, save.text)
    BY <1>1, <1>2, <2>1 DEF TabHolds, SaveHolds, current
  <2>5. VerdictsAreOfTheText' /\ ReceiptsAreTrue'
    BY <2>1, <2>2, <2>3, <2>4, WrittenTruly DEF IInv
  <2>6. /\ hist' \in Seq(Revision) /\ version' = version + 1 /\ version' \in Version
        /\ \A l \in Loops : JobHolds(l) => JobHolds(l)'
        /\ \A p \in Page : TabHolds(p) => TabHolds(p)'
    BY <2>1, <2>2, <2>3, Written, HeldStill DEF IInv, Write
  <2>7. version + 1 \in Version /\ version + 1 \in 0..MaxVersion
    BY <2>1, <2>6, VersionAssumption
  <2>8. copy \in Edited \cup {Nothing}
    <3>1. CASE tab[t].copy # Nothing /\ tab[t].copy.text = save.text
      <4>1. tab[t].copy \in Edited
        BY <1>1, <3>1 DEF Page
      <4> QED
        BY <3>1, <4>1, <2>7 DEF Edited
    <3>2. CASE ~(tab[t].copy # Nothing /\ tab[t].copy.text = save.text)
      BY <1>1, <3>2 DEF Page
    <3> QED
      BY <3>1, <3>2
  <2>9. tab' = [tab EXCEPT ![t] = done]
    BY <1>1, <1>4 DEF SaveWrites
  <2> HIDE DEF copy, rev
  <2>10. done \in Page /\ TabHolds(done)
    BY <1>1, <2>7, <2>8 DEF Page, TabHolds, SaveHolds
  <2> HIDE DEF done
  <2>11. tab' \in [Tab -> Page] /\ \A u \in Tab : tab'[u] = IF u = t THEN done ELSE tab[u]
    BY <1>1, <2>9, <2>10
  <2>12. EditTypeOK'
    <3>1. checks' \subseteq Verdict
      BY <1>2, <2>3 DEF Write, Saving
    <3> QED
      BY <1>1, <2>6, <2>11, <3>1 DEF IInv, EditTypeOK, Stored
  <2>13. \A u \in Tab : TabHolds(tab'[u]) /\ tab'[u] \in Page
    BY <1>1, <2>10, <2>11 DEF IInv, Holds
  <2>14. \A u \in Tab : TabHolds(tab[u])'
    BY <2>6, <2>13
  <2>15. \A j \in Job : JobHolds(loop[j])'
    BY <1>1, <2>6 DEF IInv, Holds
  <2> QED
    BY <2>5, <2>12, <2>14, <2>15 DEF IInv, Holds
<1> QED
  BY <1>3, <1>4

-----------------------------------------------------------------------------
(* The theorems.                                                           *)

LEMMA InitInvariant == ASSUME Init PROVE IInv
<1>1. PICK text \in Text, given \in [Step -> {"confirmed", "unsettled"}] :
        /\ hist = <<[by |-> "agent", text |-> text, said |-> {}, begun |-> 0]>>
        /\ checks = Judged(text, given) /\ loop = [j \in Job |-> Idle]
        /\ stash = Nothing /\ tab = [t \in Tab |-> NewTab]
  BY DEF Init
<1>2. [by |-> "agent", text |-> text, said |-> {}, begun |-> 0] \in Revision
  BY VersionAssumption DEF Revision
<1>3. hist \in Seq(Revision) /\ version = 1 /\ current = text
  BY <1>1, <1>2 DEF version, current
<1>4. Sound(checks, current) /\ checks \subseteq Verdict
  BY <1>1, <1>3, JudgedSound
<1>5. 1 \in Version /\ 0 \in 0..MaxVersion /\ 1 \in 1..version
  BY <1>3, VersionAssumption DEF Version
<1>6. NewTab \in Page /\ TabHolds(NewTab)
  BY <1>5 DEF NewTab, Page, TabHolds, SaveHolds
<1>7. Idle \in Loops /\ JobHolds(Idle)
  BY SubmitsAssumption DEF Idle, Loops, JobHolds
<1>8. EditTypeOK
  BY <1>1, <1>3, <1>4, <1>5, <1>6, <1>7 DEF EditTypeOK
<1>9. Holds
  BY <1>1, <1>6, <1>7 DEF Holds
<1>10. VerdictsAreOfTheText
  BY <1>4 DEF VerdictsAreOfTheText, Sound
<1>11. ReceiptsAreTrue
  BY <1>3 DEF ReceiptsAreTrue
<1> QED
  BY <1>8, <1>9, <1>10, <1>11 DEF IInv

LEMMA StepInvariant == ASSUME IInv, [Next]_vars PROVE IInv'
<1>1. CASE UNCHANGED vars
  <2>1. UNCHANGED <<loop, hist, checks, stash, tab>> /\ version' = version /\ current' = current
    BY <1>1 DEF vars, version, current
  <2> QED
    BY <2>1 DEF IInv, EditTypeOK, Holds, JobHolds, TabHolds, SaveHolds, Sound, About,
                VerdictsAreOfTheText, ReceiptsAreTrue
<1>2. CASE Next
  BY <1>2, BeginStep, WorkStep, LandStep, RefreshStep, ArriveStep, EditStep, SubmittedStep,
     SaveReadsStep, SaveWritesStep DEF Next
<1> QED
  BY <1>1, <1>2

\* The inductive invariant holds in every reachable state.
THEOREM Invariance == Spec => []IInv
<1> QED
  BY InitInvariant, StepInvariant, PTL DEF Spec

\* Every variable keeps to its type, for any number of tabs, jobs, steps and texts.
THEOREM EditTyped == Spec => []EditTypeOK
<1>1. IInv => EditTypeOK
  BY DEF IInv
<1> QED
  BY <1>1, Invariance, PTL

\* However refinements, second looks and hand edits cross, a verdict is shown beside what
\* was judged and beside nothing else (checksAfter, recheckJob, writeRevision).
THEOREM VerdictsStayTrue == Spec => []VerdictsAreOfTheText
<1>1. IInv => VerdictsAreOfTheText
  BY DEF IInv
<1> QED
  BY <1>1, Invariance, PTL

\* However stale the page it was posted from, a hand edit's account is of the change it
\* made, and a second look changes no step (savePlanEditAction, recheckJob).
THEOREM ReceiptsStayTrue == Spec => []ReceiptsAreTrue
<1>1. IInv => ReceiptsAreTrue
  BY DEF IInv
<1> QED
  BY <1>1, Invariance, PTL

=============================================================================
