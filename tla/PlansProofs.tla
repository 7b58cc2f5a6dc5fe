----------------------------- MODULE PlansProofs -----------------------------
(***************************************************************************)
(* Theorems about Plans, for any number of plans, versions, texts, writers, *)
(* readers, requests, terminals and draft files.                           *)
(***************************************************************************)
EXTENDS Plans, TLAPS

USE DEF Plan, NoPlan, Version

-----------------------------------------------------------------------------
(* The inductive invariant.                                                *)

Stage    == {"idle", "sending", "saving", "filing", "ran"}
Revision == [by : {"dashboard", "terminal"}, basis : 0..MaxVersion, text : Text]
            \cup {NoRevision}

RowTypes ==
  /\ status \in [Plan -> {"none", "draft", "approved", "archived"}]
  /\ version \in [Plan -> 0..MaxVersion]
  /\ text \in [Plan -> Text \cup {NoText}]
  /\ revisions \in [Plan -> [Version -> Revision]]

LogTypes ==
  /\ approvals \subseteq [plan : Plan, version : Version, read : Version]
  /\ runs \subseteq [plan : Plan, version : Version, text : Text, by : {"dashboard", "terminal"}]

WebTypes ==
  /\ drafting \in [Writer -> [at : {"idle", "thinking", "updating"}, plan : Plan \cup {NoPlan},
                              basis : 0..MaxVersion]]
  /\ page \in [Reader -> [at : {"idle", "reading"}, plan : Plan \cup {NoPlan},
                          basis : 0..MaxVersion]]
  /\ order \in [Order -> [at : {"idle", "selected"}, plan : Plan \cup {NoPlan},
                          basis : 0..MaxVersion, text : Text \cup {NoText}]]

\* What a gritqa process may be doing.
Process == [at : Stage, file : File \cup {NoFile}, plan : Plan \cup {NoPlan},
            basis : 0..MaxVersion, text : Text \cup {NoText}, reporting : BOOLEAN]

CliTypes ==
  /\ file \in [File -> Text \cup {NoText}]
  /\ held \in [File -> Plan \cup {NoPlan}]
  /\ term \in [Terminal -> Process]

\* A plan that was made has a first version and something to say.
PlanShape ==
  \A p \in Plan :
    /\ Exists(p) <=> (version[p] > 0)
    /\ Exists(p) => text[p] \in Text

\* A writer read a plan that was there, at a version with room for another.
WriterShape ==
  \A w \in Writer : drafting[w].at # "idle" =>
    /\ drafting[w].plan \in Plan /\ Exists(drafting[w].plan)
    /\ drafting[w].basis < MaxVersion

\* A page shows a version the plan has had.
ReaderShape ==
  \A r \in Reader : page[r].at = "reading" =>
    /\ page[r].plan \in Plan /\ Exists(page[r].plan)
    /\ page[r].basis \in Version

\* What was asked to run is the text of a version, and that version was approved.
OrderShape ==
  \A o \in Order : order[o].at = "selected" =>
    /\ order[o].plan \in Plan
    /\ order[o].basis \in 1..version[order[o].plan]
    /\ order[o].text = revisions[order[o].plan][order[o].basis].text
    /\ \E a \in approvals : a.plan = order[o].plan /\ a.version = order[o].basis

\* What a draft file became is still there.
HeldShape == \A f \in File : held[f] # NoPlan => Exists(held[f])

\* What a terminal sends is a text, and what it is about to save is news to the
\* version it compared it with.
TerminalOK(t) ==
  /\ term[t].at # "idle" => term[t].file \in File /\ term[t].text \in Text
  /\ term[t].plan # NoPlan => Exists(term[t].plan)
  /\ term[t].at \in {"saving", "filing"} => term[t].plan # NoPlan
  /\ term[t].at = "saving" =>
       /\ term[t].basis \in 1..version[term[t].plan]
       /\ revisions[term[t].plan][term[t].basis].text # term[t].text

TerminalShape == \A t \in Terminal : TerminalOK(t)

\* A run names a version its plan has had.
RunShape == \A r \in runs : r.version \in 1..version[r.plan]

Types   == RowTypes /\ LogTypes /\ WebTypes /\ CliTypes
History == /\ PlanShape /\ ThreadIsTheHistory /\ RevisionAnswersWhatItRead
           /\ ApprovedAtThisVersion /\ PushedVersionIsNews
Runs    == RunShape /\ RunTextWasApproved

IInv == Types /\ History /\ Runs /\ WriterShape /\ ReaderShape /\ OrderShape /\ HeldShape /\ TerminalShape

\* What every step does to the plans: versions and approvals are only added.
Grows ==
  /\ \A p \in Plan :
       /\ version'[p] >= version[p]
       /\ Exists(p) => Exists(p)'
       /\ \A v \in 1..version[p] : revisions'[p][v] = revisions[p][v]
  /\ approvals \subseteq approvals'

-----------------------------------------------------------------------------
(* The initial state, and the shapes as types.                             *)

LEMMA InitInvariant == Init => IInv
<1> SUFFICES ASSUME Init PROVE IInv
  OBVIOUS
<1> USE NullsAssumption, PlanBoundsAssumption DEF Init
<1>1. Types
  BY DEF Types, RowTypes, LogTypes, WebTypes, CliTypes, Revision, Stage, AtRest, NoOrder, AtPrompt, Process
<1>2. History
  BY DEF History, PlanShape, Exists, ThreadIsTheHistory, RevisionAnswersWhatItRead,
         ApprovedAtThisVersion, PushedVersionIsNews, NoRevision
<1>3. Runs /\ WriterShape /\ ReaderShape /\ OrderShape /\ HeldShape /\ TerminalShape
  BY DEF Runs, RunShape, RunTextWasApproved, WriterShape, ReaderShape, OrderShape, HeldShape,
         TerminalShape, TerminalOK, AtRest, NoOrder, AtPrompt
<1> QED
  BY <1>1, <1>2, <1>3 DEF IInv

LEMMA TypeConsequence == Types => PlansTypeOK
<1> SUFFICES ASSUME Types PROVE PlansTypeOK
  OBVIOUS
<1>1. \A p \in Plan, v \in Version : revisions[p][v] \in Revision
  BY DEF Types, RowTypes
<1>2. \A w \in Writer : drafting[w].at \in {"idle", "thinking", "updating"}
  BY DEF Types, WebTypes
<1> QED
  BY <1>1, <1>2 DEF Types, RowTypes, LogTypes, CliTypes, Revision, PlansTypeOK

-----------------------------------------------------------------------------
(* The next version of a plan, made by whoever read the current one.       *)

LEMMA LandKeepsHistory ==
  ASSUME Types, History, NEW p \in Plan, NEW s \in Text, NEW author \in {"dashboard", "terminal"},
         version[p] < MaxVersion,
         (author = "terminal" /\ version[p] > 0) => s # text[p],
         Land(p, version[p] + 1, s, author, version[p]), UNCHANGED approvals
  PROVE  RowTypes' /\ History' /\ Grows
<1> DEFINE n   == version[p] + 1
           row == [by |-> author, basis |-> version[p], text |-> s]
<1> USE NullsAssumption, PlanBoundsAssumption
<1>1. /\ n \in Version /\ n > 0 /\ n - 1 = version[p] /\ version[p] \in 0..MaxVersion
      /\ row \in Revision /\ row # NoRevision
  BY DEF Types, RowTypes, Revision, NoRevision
<1>2. /\ status' = [status EXCEPT ![p] = "draft"]
      /\ version' = [version EXCEPT ![p] = n]
      /\ text' = [text EXCEPT ![p] = s]
      /\ revisions' = [revisions EXCEPT ![p][n] = row]
  BY DEF Land
<1>3. RowTypes'
  <2>1. revisions' \in [Plan -> [Version -> Revision]]
    BY <1>1, <1>2 DEF Types, RowTypes
  <2> QED
    BY <1>1, <1>2, <2>1 DEF Types, RowTypes
<1>4. /\ status'[p] = "draft" /\ version'[p] = n /\ text'[p] = s
      /\ \A v \in Version : revisions'[p][v] = IF v = n THEN row ELSE revisions[p][v]
      /\ \A q \in Plan : q # p => /\ status'[q] = status[q] /\ version'[q] = version[q]
                                  /\ text'[q] = text[q] /\ revisions'[q] = revisions[q]
  BY <1>1, <1>2 DEF Types, RowTypes
<1> HIDE DEF n, row
<1>5. row.by = author /\ row.basis = version[p] /\ row.text = s
  BY DEF row
<1>6. Grows
  <2> SUFFICES ASSUME NEW q \in Plan
               PROVE  /\ version'[q] >= version[q]
                      /\ Exists(q) => Exists(q)'
                      /\ \A v \in 1..version[q] : revisions'[q][v] = revisions[q][v]
    BY DEF Grows
  <2>1. version[q] \in 0..MaxVersion
    BY DEF Types, RowTypes
  <2>2. CASE q = p
    BY <1>1, <1>4, <2>1, <2>2 DEF Exists, n
  <2>3. CASE q # p
    BY <1>4, <2>1, <2>3 DEF Exists
  <2> QED
    BY <2>2, <2>3
<1>7. PlanShape'
  BY <1>1, <1>4 DEF History, PlanShape, Exists
<1>8. ThreadIsTheHistory'
  BY <1>1, <1>4, <1>5 DEF History, ThreadIsTheHistory, n
<1>9. RevisionAnswersWhatItRead'
  BY <1>1, <1>4, <1>5 DEF History, RevisionAnswersWhatItRead
<1>10. ApprovedAtThisVersion'
  BY <1>4 DEF History, ApprovedAtThisVersion
<1>11. PushedVersionIsNews'
  <2> SUFFICES ASSUME NEW q \in Plan, NEW v \in Version, v > 1, revisions'[q][v].by = "terminal"
               PROVE  revisions'[q][v].text # revisions'[q][v - 1].text
    BY DEF PushedVersionIsNews
  <2>1. CASE q = p /\ v = n
    <3>1. v - 1 \in Version /\ v - 1 # n /\ v - 1 = version[p] /\ version[p] > 0
      BY <1>1, <2>1
    <3>2. s # text[p]
      BY <1>4, <1>5, <2>1, <3>1
    <3>3. revisions[p][v - 1].text = text[p]
      BY <3>1 DEF History, ThreadIsTheHistory
    <3> QED
      BY <1>4, <1>5, <2>1, <3>1, <3>2, <3>3
  <2>2. CASE q = p /\ v # n
    <3>1. v - 1 \in Version
      BY PlanBoundsAssumption
    <3>2. CASE v - 1 = n
      <4>1. revisions[p][v] = NoRevision
        BY <1>1, <3>2 DEF History, ThreadIsTheHistory
      <4> QED
        BY <1>4, <2>2, <4>1 DEF NoRevision
    <3> QED
      BY <1>4, <2>2, <3>1, <3>2 DEF History, PushedVersionIsNews
  <2>3. CASE q # p
    BY <1>4, <2>3 DEF History, PushedVersionIsNews
  <2> QED
    BY <2>1, <2>2, <2>3
<1> QED
  BY <1>3, <1>6, <1>7, <1>8, <1>9, <1>10, <1>11 DEF History

\* A plan approved or retired keeps its versions.
LEMMA MoveKeepsHistory ==
  ASSUME Types, History, NEW p \in Plan, Exists(p), NEW from, NEW to \in {"approved", "archived"},
         MovePlanStatus(p, from, to), approvals \subseteq approvals',
         to = "approved" => \E a \in approvals' : a.plan = p /\ a.version = version[p]
  PROVE  RowTypes' /\ History' /\ Grows
<1>1. /\ status' = [status EXCEPT ![p] = to]
      /\ version' = version /\ text' = text /\ revisions' = revisions
  BY DEF MovePlanStatus
<1>2. RowTypes' /\ status'[p] = to /\ \A q \in Plan : q # p => status'[q] = status[q]
  BY <1>1 DEF Types, RowTypes
<1>3. \A q \in Plan : Exists(q)' <=> Exists(q)
  BY <1>2 DEF Exists
<1>4. PlanShape'
  BY <1>1, <1>3 DEF History, PlanShape
<1>5. Grows
  BY <1>1, <1>3 DEF Grows, Types, RowTypes
<1>6. ThreadIsTheHistory' /\ RevisionAnswersWhatItRead' /\ PushedVersionIsNews'
  BY <1>1 DEF History, ThreadIsTheHistory, RevisionAnswersWhatItRead, PushedVersionIsNews
<1>7. ApprovedAtThisVersion'
  BY <1>1, <1>2 DEF History, ApprovedAtThisVersion
<1> QED
  BY <1>2, <1>4, <1>5, <1>6, <1>7 DEF History

\* So does a plan nobody touches.
LEMMA StayKeepsHistory ==
  ASSUME Types, History, UNCHANGED <<planVars, approvals>>
  PROVE  RowTypes' /\ History' /\ Grows
<1> USE DEF planVars
<1>1. RowTypes' /\ Grows
  BY DEF Types, RowTypes, Grows, Exists
<1>2. History'
  BY DEF History, PlanShape, Exists, ThreadIsTheHistory, RevisionAnswersWhatItRead,
         ApprovedAtThisVersion, PushedVersionIsNews
<1> QED
  BY <1>1, <1>2

-----------------------------------------------------------------------------
(* What a client holds stays good while plans only grow.                   *)

LEMMA WritersFollow ==
  ASSUME Types, WriterShape, Grows, UNCHANGED drafting
  PROVE  WriterShape'
BY DEF WriterShape, Grows, Exists

LEMMA ReadersFollow ==
  ASSUME Types, ReaderShape, Grows, UNCHANGED page
  PROVE  ReaderShape'
BY DEF ReaderShape, Grows, Exists

LEMMA OrdersFollow ==
  ASSUME Types, RowTypes', OrderShape, Grows, UNCHANGED order
  PROVE  OrderShape'
BY DEF OrderShape, Grows, Types, RowTypes, WebTypes

LEMMA HeldFollow ==
  ASSUME Types, HeldShape, Grows, UNCHANGED held
  PROVE  HeldShape'
BY DEF HeldShape, Grows, Exists, Types, CliTypes

LEMMA TerminalFollows ==
  ASSUME Types, RowTypes', NEW t \in Terminal, TerminalOK(t), Grows, term'[t] = term[t]
  PROVE  TerminalOK(t)'
BY DEF TerminalOK, Grows, Exists, Types, RowTypes, CliTypes, Process

LEMMA TerminalsFollow ==
  ASSUME Types, RowTypes', TerminalShape, Grows, UNCHANGED term
  PROVE  TerminalShape'
BY TerminalFollows DEF TerminalShape

LEMMA RunsFollow ==
  ASSUME Types, RowTypes', Runs, Grows, UNCHANGED runs
  PROVE  Runs'
BY DEF Runs, RunShape, RunTextWasApproved, Grows, Types, RowTypes, LogTypes

\* All of it together, as every step uses it.
LEMMA Follow ==
  ASSUME IInv, RowTypes', Grows
  PROVE  /\ UNCHANGED drafting => WriterShape'
         /\ UNCHANGED page => ReaderShape'
         /\ UNCHANGED order => OrderShape'
         /\ UNCHANGED held => HeldShape'
         /\ UNCHANGED term => TerminalShape'
         /\ UNCHANGED runs => Runs'
BY WritersFollow, ReadersFollow, OrdersFollow, HeldFollow, TerminalsFollow, RunsFollow DEF IInv

\* A run recorded with the text of an approved version keeps the record true.
LEMMA RecordKeepsRuns ==
  ASSUME IInv, RowTypes', Grows, NEW p \in Plan, NEW v \in 1..version[p], NEW s \in Text,
         NEW by \in {"dashboard", "terminal"}, Record(p, v, s, by),
         by = "dashboard" => /\ s = revisions[p][v].text
                             /\ \E a \in approvals : a.plan = p /\ a.version = v
  PROVE  Runs' /\ runs' \subseteq [plan : Plan, version : Version, text : Text,
                                   by : {"dashboard", "terminal"}]
<1> DEFINE new == [plan |-> p, version |-> v, text |-> s, by |-> by]
<1>1. version[p] \in 0..MaxVersion /\ v \in Version /\ runs' = runs \cup {new}
  BY PlanBoundsAssumption DEF IInv, Types, RowTypes, Record
<1>2. /\ new.plan = p /\ new.version = v /\ new.text = s /\ new.by = by
      /\ new \in [plan : Plan, version : Version, text : Text, by : {"dashboard", "terminal"}]
  BY <1>1
<1> HIDE DEF new
<1>3. /\ v \in 1..version'[p]
      /\ revisions'[p][v] = revisions[p][v]
      /\ approvals \subseteq approvals'
  BY <1>1 DEF Grows, RowTypes
<1>4. \A r \in runs : /\ r.version \in 1..version'[r.plan]
                      /\ r.by = "dashboard" =>
                           /\ r.text = revisions'[r.plan][r.version].text
                           /\ \E a \in approvals' : a.plan = r.plan /\ a.version = r.version
  BY DEF Runs, RunShape, RunTextWasApproved, Grows, IInv, Types, RowTypes, LogTypes
<1>5. RunShape'
  BY <1>1, <1>2, <1>3, <1>4 DEF RunShape
<1>6. RunTextWasApproved'
  BY <1>1, <1>2, <1>3, <1>4 DEF RunTextWasApproved
<1> QED
  BY <1>1, <1>2, <1>5, <1>6 DEF Runs, IInv, Types, LogTypes

-----------------------------------------------------------------------------
(* Every step keeps the invariant.                                         *)

LEMMA WebStep ==
  ASSUME IInv
  PROVE  /\ \A p \in Plan, s \in Text : WriteNewPlan(p, s) => IInv'
         /\ \A w \in Writer, p \in Plan : ReadToRevise(w, p) => IInv'
         /\ \A w \in Writer : ReviseSelect(w) => IInv'
         /\ \A w \in Writer, s \in Text : ReviseUpdate(w, s) => IInv'
<1> USE DEF webVars, cliVars
<1>1. ASSUME NEW p \in Plan, NEW s \in Text, WriteNewPlan(p, s) PROVE IInv'
  <2>1. version[p] = 0 /\ version[p] < MaxVersion
    BY <1>1, PlanBoundsAssumption
       DEF WriteNewPlan, IsNext, IInv, Types, RowTypes, History, PlanShape
  <2>2. Land(p, version[p] + 1, s, "dashboard", version[p]) /\ UNCHANGED approvals
    BY <1>1, <2>1 DEF WriteNewPlan
  <2>3. RowTypes' /\ History' /\ Grows
    BY <2>1, <2>2, LandKeepsHistory DEF IInv
  <2>4. LogTypes' /\ WebTypes' /\ CliTypes'
    BY <1>1 DEF WriteNewPlan, IInv, Types, LogTypes, WebTypes, CliTypes
  <2> QED
    BY <1>1, <2>3, <2>4, Follow DEF WriteNewPlan, IInv, Types
<1>2. ASSUME NEW w \in Writer, NEW p \in Plan, ReadToRevise(w, p) PROVE IInv'
  <2>1. RowTypes' /\ History' /\ Grows
    BY <1>2, StayKeepsHistory DEF ReadToRevise, IInv
  <2>2. LogTypes' /\ WebTypes' /\ CliTypes'
    BY <1>2 DEF ReadToRevise, IInv, Types, RowTypes, LogTypes, WebTypes, CliTypes
  <2>3. WriterShape'
    BY <1>2 DEF ReadToRevise, WriterShape, Exists, planVars, IInv, Types, WebTypes
  <2> QED
    BY <1>2, <2>1, <2>2, <2>3, Follow DEF ReadToRevise, IInv, Types
<1>3. ASSUME NEW w \in Writer, ReviseSelect(w) PROVE IInv'
  <2>1. RowTypes' /\ History' /\ Grows
    BY <1>3, StayKeepsHistory DEF ReviseSelect, IInv
  <2>2. LogTypes' /\ WebTypes' /\ CliTypes'
    BY <1>3, PlanBoundsAssumption
       DEF ReviseSelect, AtRest, IInv, Types, LogTypes, WebTypes, CliTypes
  <2>3. WriterShape'
    BY <1>3 DEF ReviseSelect, AtRest, WriterShape, Exists, planVars, IInv, Types, WebTypes
  <2> QED
    BY <1>3, <2>1, <2>2, <2>3, Follow DEF ReviseSelect, IInv, Types
<1>4. ASSUME NEW w \in Writer, NEW s \in Text, ReviseUpdate(w, s) PROVE IInv'
  <2> DEFINE p == drafting[w].plan
  <2>1. p \in Plan /\ drafting[w].basis < MaxVersion
    BY <1>4 DEF ReviseUpdate, IInv, WriterShape
  <2>2. RowTypes' /\ History' /\ Grows
    <3>1. CASE version[p] = drafting[w].basis
      <4>1. Land(p, version[p] + 1, s, "dashboard", version[p]) /\ UNCHANGED approvals
        BY <1>4, <3>1 DEF ReviseUpdate
      <4> QED
        BY <2>1, <3>1, <4>1, LandKeepsHistory DEF IInv
    <3>2. CASE version[p] # drafting[w].basis
      BY <1>4, <3>2, StayKeepsHistory DEF ReviseUpdate, IInv
    <3> QED
      BY <3>1, <3>2
  <2>3. LogTypes' /\ WebTypes' /\ CliTypes'
    BY <1>4, PlanBoundsAssumption
       DEF ReviseUpdate, AtRest, IInv, Types, LogTypes, WebTypes, CliTypes
  <2>4. WriterShape'
    <3>1. /\ drafting'[w].at = "idle"
          /\ \A x \in Writer : x # w => drafting'[x] = drafting[x]
      BY <1>4 DEF ReviseUpdate, AtRest, IInv, Types, WebTypes
    <3> QED
      BY <2>2, <3>1 DEF WriterShape, Grows, IInv, Types, RowTypes, Exists
  <2> QED
    BY <1>4, <2>2, <2>3, <2>4, Follow DEF ReviseUpdate, IInv, Types
<1> QED
  BY <1>1, <1>2, <1>3, <1>4

LEMMA GateStep ==
  ASSUME IInv
  PROVE  /\ \A r \in Reader, p \in Plan : OpenPage(r, p) => IInv'
         /\ \A r \in Reader : ApprovePlan(r) => IInv'
         /\ \A r \in Reader : RetirePlan(r) => IInv'
<1> USE DEF cliVars
<1>1. ASSUME NEW r \in Reader, NEW p \in Plan, OpenPage(r, p) PROVE IInv'
  <2>1. RowTypes' /\ History' /\ Grows
    BY <1>1, StayKeepsHistory DEF OpenPage, IInv
  <2>2. LogTypes' /\ WebTypes' /\ CliTypes'
    BY <1>1 DEF OpenPage, AtRest, IInv, Types, RowTypes, LogTypes, WebTypes, CliTypes
  <2>3. ReaderShape'
    <3>1. version[p] \in Version
      BY <1>1, PlanBoundsAssumption DEF OpenPage, IInv, Types, RowTypes, History, PlanShape
    <3> QED
      BY <1>1, <3>1 DEF OpenPage, AtRest, ReaderShape, Exists, planVars, IInv, Types, WebTypes
  <2> QED
    BY <1>1, <2>1, <2>2, <2>3, Follow DEF OpenPage, IInv, Types
<1>2. ASSUME NEW r \in Reader, ApprovePlan(r) PROVE IInv'
  <2> DEFINE p == page[r].plan
             a == [plan |-> p, version |-> version[p], read |-> page[r].basis]
  <2>1. p \in Plan /\ Exists(p) /\ page[r].basis \in Version
    BY <1>2 DEF ApprovePlan, IInv, ReaderShape
  <2>2. version[p] \in Version
    BY <2>1, PlanBoundsAssumption DEF IInv, Types, RowTypes, History, PlanShape
  <2>3. MovePlanStatus(p, "draft", "approved") /\ approvals' = approvals \cup {a}
    BY <1>2 DEF ApprovePlan
  <2>4. a \in [plan : Plan, version : Version, read : Version] /\ a.plan = p
        /\ a.version = version[p]
    BY <2>1, <2>2
  <2>5. RowTypes' /\ History' /\ Grows
    <3>1. approvals \subseteq approvals' /\ \E b \in approvals' : b.plan = p /\ b.version = version[p]
      BY <2>3, <2>4
    <3> QED
      BY <2>1, <2>3, <3>1, MoveKeepsHistory DEF IInv
  <2>6. LogTypes' /\ WebTypes' /\ CliTypes'
    BY <1>2, <2>3, <2>4, PlanBoundsAssumption
       DEF ApprovePlan, AtRest, IInv, Types, LogTypes, WebTypes, CliTypes
  <2>7. ReaderShape'
    BY <1>2, <2>5 DEF ApprovePlan, AtRest, ReaderShape, Grows, Exists, IInv, Types, WebTypes
  <2> QED
    BY <1>2, <2>5, <2>6, <2>7, Follow DEF ApprovePlan, IInv, Types
<1>3. ASSUME NEW r \in Reader, RetirePlan(r) PROVE IInv'
  <2>1. page[r].plan \in Plan /\ Exists(page[r].plan)
    BY <1>3 DEF RetirePlan, IInv, ReaderShape
  <2>2. PICK from \in {"draft", "approved"} : MovePlanStatus(page[r].plan, from, "archived")
    BY <1>3 DEF RetirePlan
  <2>3. RowTypes' /\ History' /\ Grows
    BY <1>3, <2>1, <2>2, MoveKeepsHistory DEF RetirePlan, IInv
  <2>4. LogTypes' /\ WebTypes' /\ CliTypes'
    BY <1>3, PlanBoundsAssumption
       DEF RetirePlan, AtRest, IInv, Types, LogTypes, WebTypes, CliTypes
  <2>5. ReaderShape'
    BY <1>3, <2>3 DEF RetirePlan, AtRest, ReaderShape, Grows, Exists, IInv, Types, WebTypes
  <2> QED
    BY <1>3, <2>3, <2>4, <2>5, Follow DEF RetirePlan, IInv, Types
<1> QED
  BY <1>1, <1>2, <1>3

LEMMA OrderStep ==
  ASSUME IInv
  PROVE  /\ \A o \in Order, p \in Plan : RunSelect(o, p) => IInv'
         /\ \A o \in Order : RunInsert(o) => IInv'
<1> USE DEF cliVars
<1>1. ASSUME NEW o \in Order, NEW p \in Plan, RunSelect(o, p) PROVE IInv'
  <2>1. RowTypes' /\ History' /\ Grows
    BY <1>1, StayKeepsHistory DEF RunSelect, IInv
  <2>2. LogTypes' /\ WebTypes' /\ CliTypes'
    BY <1>1 DEF RunSelect, IInv, Types, RowTypes, LogTypes, WebTypes, CliTypes
  <2>3. OrderShape'
    <3>1. /\ version[p] \in 1..version[p]
          /\ text[p] = revisions[p][version[p]].text
          /\ \E a \in approvals : a.plan = p /\ a.version = version[p]
      BY <1>1 DEF RunSelect, IInv, Types, RowTypes, History, PlanShape, Exists,
                  ThreadIsTheHistory, ApprovedAtThisVersion
    <3> QED
      BY <1>1, <3>1 DEF RunSelect, OrderShape, planVars, IInv, Types, WebTypes
  <2> QED
    BY <1>1, <2>1, <2>2, <2>3, Follow DEF RunSelect, IInv, Types
<1>2. ASSUME NEW o \in Order, RunInsert(o) PROVE IInv'
  <2>1. RowTypes' /\ History' /\ Grows
    BY <1>2, StayKeepsHistory DEF RunInsert, IInv
  <2>2. WebTypes' /\ CliTypes' /\ UNCHANGED approvals
    BY <1>2, PlanBoundsAssumption DEF RunInsert, NoOrder, IInv, Types, WebTypes, CliTypes
  <2>3. OrderShape'
    BY <1>2 DEF RunInsert, NoOrder, OrderShape, planVars, IInv, Types, WebTypes
  <2>4. Runs' /\ LogTypes'
    <3>1. CASE Record(order[o].plan, order[o].basis, order[o].text, "dashboard")
      <4>1. /\ order[o].plan \in Plan
            /\ order[o].basis \in 1..version[order[o].plan]
            /\ order[o].text = revisions[order[o].plan][order[o].basis].text
            /\ \E a \in approvals : a.plan = order[o].plan /\ a.version = order[o].basis
        BY <1>2 DEF RunInsert, IInv, OrderShape
      <4>2. order[o].text \in Text
        <5>1. order[o].basis \in Version /\ ~(order[o].basis > version[order[o].plan])
          <6>1. version[order[o].plan] \in 0..MaxVersion
            BY <4>1 DEF IInv, Types, RowTypes
          <6> QED
            BY <4>1, <6>1, PlanBoundsAssumption
        <5>2. revisions[order[o].plan][order[o].basis] # NoRevision
          BY <4>1, <5>1 DEF IInv, History, ThreadIsTheHistory
        <5>3. revisions[order[o].plan][order[o].basis] \in Revision
          BY <4>1, <5>1 DEF IInv, Types, RowTypes
        <5> QED
          BY <4>1, <5>2, <5>3 DEF Revision
      <4> QED
        BY <2>1, <2>2, <3>1, <4>1, <4>2, RecordKeepsRuns DEF IInv, Types, LogTypes
    <3>2. CASE UNCHANGED runs
      BY <2>1, <2>2, <3>2, Follow DEF IInv, Types, LogTypes
    <3> QED
      BY <1>2, <3>1, <3>2 DEF RunInsert
  <2> QED
    BY <1>2, <2>1, <2>2, <2>3, <2>4, Follow DEF RunInsert, IInv, Types
<1> QED
  BY <1>1, <1>2

-----------------------------------------------------------------------------
(* The terminal's steps.                                                   *)

\* A step that touches neither plans nor runs.
LEMMA TerminalOnly ==
  ASSUME IInv, OnlyTerm, CliTypes', HeldShape', TerminalShape'
  PROVE  IInv'
<1>1. RowTypes' /\ History' /\ Grows
  BY StayKeepsHistory DEF OnlyTerm, IInv
<1>2. LogTypes' /\ WebTypes'
  BY DEF OnlyTerm, webVars, IInv, Types, LogTypes, WebTypes
<1> QED
  BY <1>1, <1>2, Follow DEF OnlyTerm, webVars, IInv, Types

\* A process replaced by another is all the difference to the terminal's types.
LEMMA TerminalTyped ==
  ASSUME CliTypes, NEW t \in Terminal, NEW r \in Process, term' = [term EXCEPT ![t] = r],
         file' \in [File -> Text \cup {NoText}], UNCHANGED held
  PROVE  CliTypes' /\ term'[t] = r /\ \A u \in Terminal : u # t => term'[u] = term[u]
BY DEF CliTypes

\* A terminal's own record is all that its step has to answer for.
LEMMA OthersTerminals ==
  ASSUME IInv, NEW t \in Terminal, OnlyTerm,
         \A u \in Terminal : u # t => term'[u] = term[u],
         /\ term'[t].at # "idle" => term'[t].file \in File /\ term'[t].text \in Text
         /\ term'[t].plan # NoPlan => Exists(term'[t].plan)
         /\ term'[t].at \in {"saving", "filing"} => term'[t].plan # NoPlan
         /\ term'[t].at = "saving" =>
              /\ term'[t].basis \in 1..version[term'[t].plan]
              /\ revisions[term'[t].plan][term'[t].basis].text # term'[t].text
  PROVE  TerminalShape'
<1> SUFFICES ASSUME NEW u \in Terminal
             PROVE  /\ term'[u].at # "idle" => term'[u].file \in File /\ term'[u].text \in Text
                    /\ term'[u].plan # NoPlan => Exists(term'[u].plan)
                    /\ term'[u].at \in {"saving", "filing"} => term'[u].plan # NoPlan
                    /\ term'[u].at = "saving" =>
                         /\ term'[u].basis \in 1..version[term'[u].plan]
                         /\ revisions[term'[u].plan][term'[u].basis].text # term'[u].text
  BY DEF OnlyTerm, planVars, TerminalShape, TerminalOK, Exists
<1>1. CASE u = t
  BY <1>1
<1>2. CASE u # t
  BY <1>2 DEF IInv, TerminalShape, TerminalOK
<1> QED
  BY <1>1, <1>2

LEMMA FileStep ==
  ASSUME IInv
  PROVE  /\ \A f \in File, s \in Text \cup {NoText} : ChangeFile(f, s) => IInv'
         /\ \A t \in Terminal, f \in File, s \in Text : DraftAtTerminal(t, f, s) => IInv'
         /\ \A t \in Terminal, f \in File : RunFile(t, f) => IInv'
         /\ \A t \in Terminal : PushFirst(t) => IInv'
         /\ \A t \in Terminal : SaveRemotePlan(t) => IInv'
         /\ \A t \in Terminal : TerminalGivesUp(t) => IInv'
<1> USE PlanBoundsAssumption DEF Stage, Process
<1>1. ASSUME NEW f \in File, NEW s \in Text \cup {NoText}, ChangeFile(f, s) PROVE IInv'
  <2>1. CliTypes' /\ UNCHANGED <<held, term>>
    BY <1>1 DEF ChangeFile, IInv, Types, CliTypes
  <2>2. HeldShape' /\ TerminalShape'
    BY <1>1, <2>1 DEF ChangeFile, OnlyTerm, planVars, IInv, HeldShape, TerminalShape, TerminalOK, Exists
  <2> QED
    BY <1>1, <2>1, <2>2, TerminalOnly DEF ChangeFile
<1>2. ASSUME NEW t \in Terminal, NEW f \in File, NEW s \in Text, DraftAtTerminal(t, f, s)
      PROVE  IInv'
  <2> DEFINE r == [at |-> "sending", file |-> f, plan |-> held[f], basis |-> 0, text |-> s,
                     reporting |-> FALSE]
  <2>1. CliTypes'
    <3>1. r \in Process
      <4>1. held[f] \in Plan \cup {NoPlan}
        BY DEF IInv, Types, CliTypes
      <4> QED
        BY <4>1
    <3>2. file' \in [File -> Text \cup {NoText}] /\ term' = [term EXCEPT ![t] = r] /\ UNCHANGED held
      BY <1>2 DEF DraftAtTerminal, IInv, Types, CliTypes
    <3> HIDE DEF r, Process
    <3> QED
      BY <3>1, <3>2, TerminalTyped DEF IInv, Types
  <2>2. HeldShape'
    BY <1>2 DEF DraftAtTerminal, OnlyTerm, planVars, IInv, HeldShape, Exists
  <2>3. /\ \A u \in Terminal : u # t => term'[u] = term[u]
        /\ term'[t].at = "sending" /\ term'[t].file = f /\ term'[t].text = s
        /\ term'[t].plan = held[f]
    BY <1>2 DEF DraftAtTerminal, AtPrompt, IInv, Types, CliTypes
  <2>4. held[f] # NoPlan => Exists(held[f])
    BY DEF IInv, HeldShape
  <2>5. TerminalShape'
    BY <1>2, <2>3, <2>4, OthersTerminals DEF DraftAtTerminal
  <2> QED
    BY <1>2, <2>1, <2>2, <2>5, TerminalOnly DEF DraftAtTerminal
<1>3. ASSUME NEW t \in Terminal, NEW f \in File, RunFile(t, f) PROVE IInv'
  <2> DEFINE r == [at |-> "ran", file |-> f, plan |-> NoPlan, basis |-> 0, text |-> file[f],
                     reporting |-> FALSE]
  <2>1. CliTypes' /\ file[f] \in Text
    <3>1. file[f] \in Text
      BY <1>3 DEF RunFile, IInv, Types, CliTypes
    <3>2. r \in Process
      BY <3>1
    <3>3. file' \in [File -> Text \cup {NoText}] /\ term' = [term EXCEPT ![t] = r] /\ UNCHANGED held
      BY <1>3 DEF RunFile, IInv, Types, CliTypes
    <3> HIDE DEF r, Process
    <3> QED
      BY <3>1, <3>2, <3>3, TerminalTyped DEF IInv, Types
  <2>2. HeldShape'
    BY <1>3 DEF RunFile, OnlyTerm, planVars, IInv, HeldShape, Exists
  <2>3. /\ \A u \in Terminal : u # t => term'[u] = term[u]
        /\ term'[t].at = "ran" /\ term'[t].file = f /\ term'[t].text = file[f]
        /\ term'[t].plan = NoPlan
    BY <1>3 DEF RunFile, AtPrompt, IInv, Types, CliTypes
  <2>4. TerminalShape'
    BY <1>3, <2>1, <2>3, OthersTerminals DEF RunFile
  <2> QED
    BY <1>3, <2>1, <2>2, <2>4, TerminalOnly DEF RunFile
<1>4. ASSUME NEW t \in Terminal, PushFirst(t) PROVE IInv'
  <2> DEFINE r == [term[t] EXCEPT !.at = "sending", !.plan = NoPlan, !.reporting = TRUE]
  <2>1. CliTypes'
    <3>1. r \in Process
      BY DEF IInv, Types, CliTypes
    <3>2. term' = [term EXCEPT ![t] = r] /\ UNCHANGED <<file, held>>
      BY <1>4 DEF PushFirst, IInv, Types, CliTypes
    <3> HIDE DEF r, Process
    <3> QED
      BY <3>1, <3>2, TerminalTyped DEF IInv, Types, CliTypes
  <2>2. HeldShape'
    BY <1>4 DEF PushFirst, OnlyTerm, planVars, IInv, HeldShape, Exists
  <2>3. /\ \A u \in Terminal : u # t => term'[u] = term[u]
        /\ term'[t].at = "sending" /\ term'[t].file = term[t].file
        /\ term'[t].text = term[t].text /\ term'[t].plan = NoPlan
    BY <1>4 DEF PushFirst, IInv, Types, CliTypes
  <2>4. term[t].file \in File /\ term[t].text \in Text
    BY <1>4 DEF PushFirst, IInv, TerminalShape, TerminalOK
  <2>5. TerminalShape'
    BY <1>4, <2>3, <2>4, OthersTerminals DEF PushFirst
  <2> QED
    BY <1>4, <2>1, <2>2, <2>5, TerminalOnly DEF PushFirst
<1>5. ASSUME NEW t \in Terminal, SaveRemotePlan(t) PROVE IInv'
  <2>1. /\ term[t].at = "filing" /\ term[t].file \in File /\ term[t].text \in Text
        /\ term[t].plan \in Plan /\ Exists(term[t].plan)
    BY <1>5 DEF SaveRemotePlan, IInv, TerminalShape, TerminalOK, Types, CliTypes
  <2>2. CliTypes'
    BY <1>5, <2>1 DEF SaveRemotePlan, AtPrompt, IInv, Types, CliTypes
  <2>3. HeldShape'
    BY <1>5, <2>1
       DEF SaveRemotePlan, OnlyTerm, planVars, IInv, Types, CliTypes, HeldShape, Exists
  <2>4. /\ \A u \in Terminal : u # t => term'[u] = term[u]
        /\ term'[t] = IF term[t].reporting THEN [term[t] EXCEPT !.at = "ran"] ELSE AtPrompt
    BY <1>5 DEF SaveRemotePlan, IInv, Types, CliTypes
  <2>5. TerminalShape'
    <3>1. CASE term[t].reporting
      <4>1. /\ term'[t].at = "ran" /\ term'[t].file = term[t].file
            /\ term'[t].text = term[t].text /\ term'[t].plan = term[t].plan
        BY <2>4, <3>1 DEF IInv, Types, CliTypes
      <4> QED
        BY <1>5, <2>1, <2>4, <4>1, OthersTerminals DEF SaveRemotePlan
    <3>2. CASE ~term[t].reporting
      <4>1. term'[t].at = "idle" /\ term'[t].plan = NoPlan
        BY <2>4, <3>2 DEF AtPrompt
      <4> QED
        BY <1>5, <2>4, <4>1, OthersTerminals DEF SaveRemotePlan
    <3> QED
      BY <3>1, <3>2
  <2> QED
    BY <1>5, <2>2, <2>3, <2>5, TerminalOnly DEF SaveRemotePlan
<1>6. ASSUME NEW t \in Terminal, TerminalGivesUp(t) PROVE IInv'
  <2>1. CliTypes'
    BY <1>6 DEF TerminalGivesUp, AtPrompt, IInv, Types, CliTypes
  <2>2. HeldShape'
    BY <1>6 DEF TerminalGivesUp, OnlyTerm, planVars, IInv, HeldShape, Exists
  <2>3. /\ \A u \in Terminal : u # t => term'[u] = term[u]
        /\ term'[t].at = "idle" /\ term'[t].plan = NoPlan
    BY <1>6 DEF TerminalGivesUp, AtPrompt, IInv, Types, CliTypes
  <2>4. TerminalShape'
    BY <1>6, <2>3, OthersTerminals DEF TerminalGivesUp
  <2> QED
    BY <1>6, <2>1, <2>2, <2>4, TerminalOnly DEF TerminalGivesUp
<1> QED
  BY <1>1, <1>2, <1>3, <1>4, <1>5, <1>6

LEMMA RecordStep ==
  ASSUME IInv, NEW t \in Terminal, RecordRun(t)
  PROVE  IInv'
<1> USE PlanBoundsAssumption
<1> DEFINE p == held[term[t].file]
<1>1. term[t].file \in File /\ term[t].text \in Text
  BY DEF RecordRun, IInv, TerminalShape, TerminalOK
<1>2. p \in Plan /\ Exists(p)
  BY <1>1 DEF RecordRun, IInv, HeldShape, Types, CliTypes
<1>3. version[p] \in 1..version[p]
  BY <1>2 DEF IInv, Types, RowTypes, History, PlanShape
<1>4. RowTypes' /\ History' /\ Grows
  BY StayKeepsHistory DEF RecordRun, IInv
<1>5. Record(p, version[p], term[t].text, "terminal")
  BY DEF RecordRun
<1> HIDE DEF p
<1>6. Runs' /\ runs' \subseteq [plan : Plan, version : Version, text : Text,
                                by : {"dashboard", "terminal"}]
  BY <1>1, <1>2, <1>3, <1>4, <1>5, RecordKeepsRuns
<1>7. LogTypes' /\ WebTypes'
  BY <1>6 DEF RecordRun, webVars, IInv, Types, LogTypes, WebTypes
<1>8. CliTypes' /\ TerminalShape'
  BY DEF RecordRun, AtPrompt, planVars, Stage, Process, Exists, IInv, Types, CliTypes, TerminalShape, TerminalOK
<1> QED
  BY <1>4, <1>6, <1>7, <1>8, Follow DEF RecordRun, webVars, IInv, Types

LEMMA SaveStep ==
  ASSUME IInv, NEW t \in Terminal
  PROVE  /\ \A p \in Plan : SaveNewPlan(t, p) => IInv'
         /\ SaveSelect(t) => IInv'
         /\ SaveUpdate(t) => IInv'
         /\ SaveLosesRace(t) => IInv'
<1> USE PlanBoundsAssumption DEF webVars
<1>1. ASSUME NEW p \in Plan, SaveNewPlan(t, p) PROVE IInv'
  <2>1. version[p] = 0 /\ version[p] < MaxVersion /\ ~Exists(p)
    BY <1>1 DEF SaveNewPlan, IsNext, IInv, Types, RowTypes, History, PlanShape
  <2>2. term[t].file \in File /\ term[t].text \in Text
    BY <1>1 DEF SaveNewPlan, IInv, TerminalShape, TerminalOK
  <2>3. Land(p, version[p] + 1, term[t].text, "terminal", version[p]) /\ UNCHANGED approvals
    BY <1>1, <2>1 DEF SaveNewPlan
  <2>4. RowTypes' /\ History' /\ Grows
    BY <2>1, <2>2, <2>3, LandKeepsHistory DEF IInv
  <2>5. LogTypes' /\ WebTypes' /\ CliTypes'
    BY <1>1 DEF SaveNewPlan, Stage, Process, IInv, Types, LogTypes, WebTypes, CliTypes
  <2>6. TerminalShape'
    <3>1. /\ \A u \in Terminal : u # t => term'[u] = term[u]
          /\ term'[t].at = "filing" /\ term'[t].plan = p
          /\ term'[t].file = term[t].file /\ term'[t].text = term[t].text
      BY <1>1 DEF SaveNewPlan, Process, IInv, Types, CliTypes
    <3>2. Exists(p)'
      BY <1>1 DEF SaveNewPlan, Land, Exists, IInv, Types, RowTypes
    <3>3. \A u \in Terminal : u # t => TerminalOK(u)'
      BY <2>4, <3>1, TerminalFollows DEF IInv, TerminalShape
    <3>4. TerminalOK(t)'
      BY <2>2, <3>1, <3>2 DEF TerminalOK
    <3> QED
      BY <3>3, <3>4 DEF TerminalShape
  <2> QED
    BY <1>1, <2>4, <2>5, <2>6, Follow DEF SaveNewPlan, IInv, Types
<1>2. ASSUME SaveSelect(t) PROVE IInv'
  <2> DEFINE p == term[t].plan
  <2>1. /\ p \in Plan /\ Exists(p)
        /\ term[t].file \in File /\ term[t].text \in Text
    BY <1>2 DEF SaveSelect, IInv, TerminalShape, TerminalOK, Process, Types, CliTypes
  <2>2. /\ version[p] \in 1..version[p] /\ version[p] \in 0..MaxVersion
        /\ revisions[p][version[p]].text = text[p]
    BY <2>1 DEF IInv, Types, RowTypes, History, PlanShape, ThreadIsTheHistory
  <2>3. CliTypes'
    <3>1. term[t] \in Process /\ UNCHANGED <<file, held>>
      BY <1>2 DEF SaveSelect, IInv, Types, CliTypes
    <3>2. PICK r \in Process : term' = [term EXCEPT ![t] = r]
      <4>1. CASE status[p] = "archived"
        <5>1. AtPrompt \in Process
          BY DEF AtPrompt, Stage, Process
        <5> QED
          BY <1>2, <4>1, <5>1 DEF SaveSelect
      <4>2. CASE status[p] # "archived" /\ Canonical(text[p], term[t].text)
        <5>1. [term[t] EXCEPT !.at = "filing"] \in Process
          BY <3>1 DEF Stage, Process
        <5> QED
          BY <1>2, <4>2, <5>1 DEF SaveSelect, IInv, Types, CliTypes
      <4>3. CASE status[p] # "archived" /\ ~Canonical(text[p], term[t].text)
        <5>1. [term[t] EXCEPT !.at = "saving", !.basis = version[p]] \in Process
          BY <2>2, <3>1 DEF Stage, Process
        <5> QED
          BY <1>2, <4>3, <5>1 DEF SaveSelect, IInv, Types, CliTypes
      <4> QED
        BY <4>1, <4>2, <4>3
    <3> QED
      BY <3>1, <3>2, TerminalTyped DEF IInv, Types, CliTypes
  <2>4. HeldShape'
    BY <1>2 DEF SaveSelect, OnlyTerm, planVars, IInv, HeldShape, Exists
  <2>5. TerminalShape'
    <3>1. \A u \in Terminal : u # t => term'[u] = term[u]
      BY <1>2 DEF SaveSelect, IInv, Types, CliTypes
    <3>2. CASE status[p] = "archived"
      <4>1. term'[t].at = "idle" /\ term'[t].plan = NoPlan
        BY <1>2, <3>2 DEF SaveSelect, AtPrompt, IInv, Types, CliTypes
      <4> QED
        BY <1>2, <3>1, <4>1, OthersTerminals DEF SaveSelect
    <3>3. CASE status[p] # "archived" /\ Canonical(text[p], term[t].text)
      <4>1. /\ term'[t].at = "filing" /\ term'[t].plan = p
            /\ term'[t].file = term[t].file /\ term'[t].text = term[t].text
        BY <1>2, <3>3 DEF SaveSelect, Process, IInv, Types, CliTypes
      <4> QED
        BY <1>2, <2>1, <3>1, <4>1, OthersTerminals DEF SaveSelect
    <3>4. CASE status[p] # "archived" /\ ~Canonical(text[p], term[t].text)
      <4>1. /\ term'[t].at = "saving" /\ term'[t].plan = p /\ term'[t].basis = version[p]
            /\ term'[t].file = term[t].file /\ term'[t].text = term[t].text
        BY <1>2, <3>4 DEF SaveSelect, Process, IInv, Types, CliTypes
      <4> QED
        BY <1>2, <2>1, <2>2, <3>1, <3>4, <4>1, OthersTerminals DEF SaveSelect, Canonical
    <3> QED
      BY <3>2, <3>3, <3>4
  <2> QED
    BY <1>2, <2>3, <2>4, <2>5, TerminalOnly DEF SaveSelect
<1>3. ASSUME SaveUpdate(t) PROVE IInv'
  <2> DEFINE p == term[t].plan
  <2>1. /\ p \in Plan /\ Exists(p)
        /\ term[t].file \in File /\ term[t].text \in Text
        /\ version[p] = term[t].basis /\ term[t].basis \in 1..version[p]
        /\ revisions[p][term[t].basis].text # term[t].text
    BY <1>3 DEF SaveUpdate, IInv, TerminalShape, TerminalOK, Process, Types, CliTypes
  <2>2. text[p] # term[t].text /\ version[p] < MaxVersion
    BY <1>3, <2>1 DEF SaveUpdate, IInv, Types, RowTypes, History, ThreadIsTheHistory
  <2>3. Land(p, version[p] + 1, term[t].text, "terminal", version[p]) /\ UNCHANGED approvals
    BY <1>3 DEF SaveUpdate
  <2>4. RowTypes' /\ History' /\ Grows
    BY <2>1, <2>2, <2>3, LandKeepsHistory DEF IInv
  <2>5. LogTypes' /\ WebTypes' /\ CliTypes'
    BY <1>3 DEF SaveUpdate, Stage, Process, IInv, Types, LogTypes, WebTypes, CliTypes
  <2>6. TerminalShape'
    <3>1. /\ \A u \in Terminal : u # t => term'[u] = term[u]
          /\ term'[t].at = "filing" /\ term'[t].plan = p
          /\ term'[t].file = term[t].file /\ term'[t].text = term[t].text
      BY <1>3 DEF SaveUpdate, Process, IInv, Types, CliTypes
    <3>2. status'[p] # "none"
      BY <2>1, <2>4 DEF Grows, Exists
    <3>3. \A u \in Terminal : u # t => TerminalOK(u)'
      BY <2>4, <3>1, TerminalFollows DEF IInv, TerminalShape
    <3>4. TerminalOK(t)'
      BY <2>1, <3>1, <3>2 DEF TerminalOK, Exists
    <3> QED
      BY <3>3, <3>4 DEF TerminalShape
  <2> QED
    BY <1>3, <2>4, <2>5, <2>6, Follow DEF SaveUpdate, IInv, Types
<1>4. ASSUME SaveLosesRace(t) PROVE IInv'
  <2>1. term[t].file \in File /\ term[t].text \in Text
    BY <1>4 DEF SaveLosesRace, IInv, TerminalShape, TerminalOK
  <2>2. CliTypes'
    <3>1. term[t] \in Process /\ UNCHANGED <<file, held>>
      BY <1>4 DEF SaveLosesRace, IInv, Types, CliTypes
    <3>2. [term[t] EXCEPT !.at = "sending", !.plan = NoPlan] \in Process
      BY <3>1 DEF Stage, Process
    <3>3. term' = [term EXCEPT ![t] = [term[t] EXCEPT !.at = "sending", !.plan = NoPlan]]
      BY <1>4 DEF SaveLosesRace, IInv, Types, CliTypes
    <3> QED
      BY <3>1, <3>2, <3>3, TerminalTyped DEF IInv, Types, CliTypes
  <2>3. HeldShape'
    BY <1>4 DEF SaveLosesRace, OnlyTerm, planVars, IInv, HeldShape, Exists
  <2>4. /\ \A u \in Terminal : u # t => term'[u] = term[u]
        /\ term'[t].at = "sending" /\ term'[t].plan = NoPlan
        /\ term'[t].file = term[t].file /\ term'[t].text = term[t].text
    BY <1>4 DEF SaveLosesRace, Process, IInv, Types, CliTypes
  <2>5. TerminalShape'
    BY <1>4, <2>1, <2>4, OthersTerminals DEF SaveLosesRace
  <2> QED
    BY <1>4, <2>2, <2>3, <2>5, TerminalOnly DEF SaveLosesRace
<1> QED
  BY <1>1, <1>2, <1>3, <1>4

LEMMA StutterStep ==
  ASSUME IInv, UNCHANGED vars
  PROVE  IInv'
<1>1. RowTypes' /\ History' /\ Grows
  BY StayKeepsHistory DEF vars, IInv
<1>2. LogTypes' /\ WebTypes' /\ CliTypes'
  BY DEF vars, webVars, cliVars, IInv, Types, LogTypes, WebTypes, CliTypes
<1> QED
  BY <1>1, <1>2, Follow DEF vars, webVars, cliVars, IInv, Types

-----------------------------------------------------------------------------
(* The theorems.                                                           *)

\* The inductive invariant holds of every state the plans, the dashboard and the
\* terminals can reach.
THEOREM PlansInvariance == Spec => []IInv
<1>1. Init => IInv
  BY InitInvariant
<1>2. IInv /\ [Next]_vars => IInv'
  <2> SUFFICES ASSUME IInv, [Next]_vars PROVE IInv'
    OBVIOUS
  <2>1. CASE \E p \in Plan, s \in Text : WriteNewPlan(p, s)
    BY <2>1, WebStep
  <2>2. CASE \E w \in Writer : Revising(w) \/ \E p \in Plan : ReadToRevise(w, p)
    BY <2>2, WebStep DEF Revising
  <2>3. CASE \E r \in Reader : ApprovePlan(r) \/ RetirePlan(r) \/ \E p \in Plan : OpenPage(r, p)
    BY <2>3, GateStep
  <2>4. CASE \E o \in Order : RunInsert(o) \/ \E p \in Plan : RunSelect(o, p)
    BY <2>4, OrderStep
  <2>5. CASE \E f \in File, s \in Text \cup {NoText} : ChangeFile(f, s)
    BY <2>5, FileStep
  <2>6. CASE \E t \in Terminal, f \in File : RunFile(t, f) \/ \E s \in Text : DraftAtTerminal(t, f, s)
    BY <2>6, FileStep
  <2>7. CASE \E t \in Terminal : PushFirst(t) \/ RecordRun(t) \/ Saving(t) \/ TerminalGivesUp(t)
    BY <2>7, FileStep, RecordStep, SaveStep DEF Saving
  <2>8. CASE UNCHANGED vars
    BY <2>8, StutterStep
  <2> QED
    BY <2>1, <2>2, <2>3, <2>4, <2>5, <2>6, <2>7, <2>8 DEF Next
<1> QED
  BY <1>1, <1>2, PTL DEF Spec

\* Every row and every request holds values of its type.
THEOREM PlansTyped == Spec => []PlansTypeOK
<1>1. IInv => PlansTypeOK
  BY TypeConsequence DEF IInv
<1> QED
  BY <1>1, PlansInvariance, PTL

\* The revision thread is a plan's whole history, whoever wrote its versions.
THEOREM HistoryIsWhole == Spec => []ThreadIsTheHistory
<1>1. IInv => ThreadIsTheHistory
  BY DEF IInv, History
<1> QED
  BY <1>1, PlansInvariance, PTL

\* writeRevision and savePlan apply no work on top of a version it never read.
THEOREM NoRevisionOverAnother == Spec => []RevisionAnswersWhatItRead
<1>1. IInv => RevisionAnswersWhatItRead
  BY DEF IInv, History
<1> QED
  BY <1>1, PlansInvariance, PTL

\* An approval never outlives the text it was given to.
THEOREM ApprovalIsOfAText == Spec => []ApprovedAtThisVersion
<1>1. IInv => ApprovedAtThisVersion
  BY DEF IInv, History
<1> QED
  BY <1>1, PlansInvariance, PTL

\* A run asked for on the dashboard executes the text of an approved version, although
\* the plan may have moved on between enqueueRun's SELECT and its INSERTs.
THEOREM OnlyApprovedTextRuns == Spec => []RunTextWasApproved
<1>1. IInv => RunTextWasApproved
  BY DEF IInv, Runs
<1> QED
  BY <1>1, PlansInvariance, PTL

\* Sending again a text that has not changed makes no version of it.
THEOREM PushIsIdempotent == Spec => []PushedVersionIsNews
<1>1. IInv => PushedVersionIsNews
  BY DEF IInv, History
<1> QED
  BY <1>1, PlansInvariance, PTL
=============================================================================
