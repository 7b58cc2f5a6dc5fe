------------------------------ MODULE WebProofs ------------------------------
(***************************************************************************)
(* Proofs about two parts of the web process.                            *)
(*                                                                       *)
(* Device: its type invariant, and that a token is exactly what somebody *)
(* approved.                                                             *)
(*                                                                       *)
(* AgentWork: its types, and, of a process that beats in time, one living*)
(* attempt per job, reading paid for once, transcripts in order, outcomes*)
(* that stand.                                                           *)
(***************************************************************************)
EXTENDS Device, AgentWork, FiniteSetTheorems, TLAPS

-----------------------------------------------------------------------------
(* Device: the strengthening.                                            *)

\* What a yes to c by u may link to: a project of u's that exists, the named directory's.
Linkable(c, u, p) ==
  /\ p # Nothing => p \in Owned(u)
  /\ row[c].named => p = [owner |-> u, dir |-> row[c].dir]

\* A submit about to add has resolved the project of its directory; one about to approve
\* has one that exists.
SubmitsResolved ==
  \A s \in Submit : LET d == submit[s] IN
    /\ d.at \in {"resolving", "adding"} => d.approve
    /\ d.at = "adding" => d.project = Here(s)
    /\ d.at = "deciding" /\ d.approve => Linkable(d.code, d.user, d.project)

\* An approved row carries a yes and what it links to.
ApprovalSaid(c) ==
  row[c].status \in {"approved", "claimed"} =>
    SaidYes(c, row[c].user) /\ Linkable(c, row[c].user, row[c].project)

ApprovalsSaid == \A c \in Code : ApprovalSaid(c)

\* A token repeats a claimed row, alone.
TokensRepeat ==
  \A t \in tokens :
    /\ row[t.code].status = "claimed"
    /\ t.user = row[t.code].user /\ t.project = row[t.code].project
    /\ \A o \in tokens : o.code = t.code => o = t

IInv == DeviceTypeOK /\ SubmitsResolved /\ ApprovalsSaid /\ TokensRepeat

-----------------------------------------------------------------------------
(* Device: types.                                                        *)

\* The project of a directory is a project.
LEMMA HereType ==
  ASSUME DeviceTypeOK, NEW s \in Submit
  PROVE  Here(s) \in Project
  BY DEF DeviceTypeOK, Here, Project, Deciding, Row

LEMMA InitTyped == Init => DeviceTypeOK
  BY DEF Init, DeviceTypeOK, Row, Deciding, Project

LEMMA TypeKept == ASSUME DeviceTypeOK, SubmitsResolved, [Next]_vars PROVE DeviceTypeOK'
<1> USE DEF DeviceTypeOK
<1>1. ASSUME NEW c \in Code, StartDevice(c) PROVE DeviceTypeOK'
  BY <1>1 DEF StartDevice, Row
<1>2. ASSUME NEW c \in Code, Expire(c) PROVE DeviceTypeOK'
  BY <1>2 DEF Expire
<1>3. ASSUME NEW s \in Submit, Find(s) PROVE DeviceTypeOK'
  BY <1>3 DEF Find, Move, Deciding
<1>4. ASSUME NEW s \in Submit, Resolve(s) PROVE DeviceTypeOK'
  <2>1. Targets(s) \subseteq Project \cup {Nothing}
    BY HereType DEF Targets, Owned
  <2> QED BY <1>4, <2>1 DEF Resolve, Deciding
<1>5. ASSUME NEW s \in Submit, AddProject(s) PROVE DeviceTypeOK'
  <2>1. submit[s].project \in Project
    BY <1>5, HereType DEF AddProject, SubmitsResolved
  <2> QED BY <1>5, <2>1 DEF AddProject, Move, Deciding
<1>6. ASSUME NEW s \in Submit, Decide(s) PROVE DeviceTypeOK'
  BY <1>6 DEF Decide, Move, Deciding, Row
<1>7. ASSUME NEW s \in Submit, Record(s) PROVE DeviceTypeOK'
  BY <1>7 DEF Record, Move, Deciding
<1>8. ASSUME NEW s \in Submit, Break(s) PROVE DeviceTypeOK'
  BY <1>8 DEF Break, Move, Deciding
<1>9. ASSUME NEW p \in Poll, NEW c \in Code, SeeApproved(p, c) PROVE DeviceTypeOK'
  BY <1>9 DEF SeeApproved
<1>10. ASSUME NEW p \in Poll, Collect(p) PROVE DeviceTypeOK'
  BY <1>10 DEF Collect, Row
<1>11. CASE UNCHANGED vars
  BY <1>11 DEF vars
<1> QED BY <1>1, <1>2, <1>3, <1>4, <1>5, <1>6, <1>7, <1>8, <1>9, <1>10, <1>11 DEF Next

-----------------------------------------------------------------------------
(* Device: what a submit, an approved row and a token are, is kept.      *)

\* A submit keeps its code, its user and its answer and is never idle again.
SubmitsStay ==
  \A s \in Submit : /\ submit'[s].code = submit[s].code
                    /\ submit'[s].user = submit[s].user
                    /\ submit'[s].approve = submit[s].approve
                    /\ submit[s].at # "idle" => submit'[s].at # "idle"

\* A row keeps its directory.
RowsStay == \A c \in Code : row'[c].dir = row[c].dir /\ row'[c].named = row[c].named

LEMMA WhatStays ==
  ASSUME DeviceTypeOK, [Next]_vars PROVE SubmitsStay /\ RowsStay /\ projects \subseteq projects'
<1> USE DEF DeviceTypeOK, SubmitsStay, RowsStay
<1>1. ASSUME NEW c \in Code, StartDevice(c) \/ Expire(c)
      PROVE  SubmitsStay /\ RowsStay /\ projects \subseteq projects'
  BY <1>1 DEF StartDevice, Expire, Row
<1>2. ASSUME NEW s \in Submit, Find(s)
      PROVE  SubmitsStay /\ RowsStay /\ projects \subseteq projects'
  BY <1>2 DEF Find, Move, Deciding
<1>7. ASSUME NEW s \in Submit, Resolve(s)
      PROVE  SubmitsStay /\ RowsStay /\ projects \subseteq projects'
  <2>1. PICK p \in Targets(s) :
          submit' = [submit EXCEPT ![s].project = p,
                       ![s].at = IF p \in projects \cup {Nothing} THEN "deciding" ELSE "adding"]
    BY <1>7 DEF Resolve
  <2>2. SubmitsStay
    BY <2>1 DEF Deciding
  <2> QED BY <1>7, <2>2 DEF Resolve
<1>3. ASSUME NEW s \in Submit, AddProject(s) \/ Record(s) \/ Break(s)
      PROVE  SubmitsStay /\ RowsStay /\ projects \subseteq projects'
  BY <1>3 DEF AddProject, Record, Break, Move, Deciding
<1>4. ASSUME NEW s \in Submit, Decide(s)
      PROVE  SubmitsStay /\ RowsStay /\ projects \subseteq projects'
  BY <1>4 DEF Decide, Move, Deciding, Row
<1>5. ASSUME NEW p \in Poll, Collect(p) \/ \E c \in Code : SeeApproved(p, c)
      PROVE  SubmitsStay /\ RowsStay /\ projects \subseteq projects'
  BY <1>5 DEF Collect, SeeApproved, Row
<1>6. CASE UNCHANGED vars
  BY <1>6 DEF vars
<1> QED BY <1>1, <1>2, <1>3, <1>4, <1>5, <1>6, <1>7 DEF Next

LEMMA LinkableStays ==
  ASSUME DeviceTypeOK, [Next]_vars, NEW c \in Code, NEW u, NEW p, Linkable(c, u, p)
  PROVE  Linkable(c, u, p)'
  BY WhatStays DEF Linkable, Owned, RowsStay

LEMMA SaidYesStays ==
  ASSUME DeviceTypeOK, [Next]_vars, NEW c \in Code, NEW u, SaidYes(c, u)
  PROVE  SaidYes(c, u)'
  BY WhatStays DEF SaidYes, SubmitsStay

-----------------------------------------------------------------------------
(* Device: each conjunct is kept.                                        *)

LEMMA SubmitsKept ==
  ASSUME DeviceTypeOK, SubmitsResolved, [Next]_vars PROVE SubmitsResolved'
<1> SUFFICES ASSUME NEW s \in Submit
             PROVE  /\ submit'[s].at \in {"resolving", "adding"} => submit'[s].approve
                    /\ submit'[s].at = "adding" => submit'[s].project = Here(s)'
                    /\ submit'[s].at = "deciding" /\ submit'[s].approve =>
                         Linkable(submit[s].code, submit[s].user, submit[s].project)'
  BY DEF SubmitsResolved
<1> DEFINE Same == submit'[s] = submit[s]
<1> USE DEF DeviceTypeOK
<1>1. Here(s)' = Here(s) /\ submit'[s].code = submit[s].code /\ submit'[s].user = submit[s].user
      /\ submit'[s].approve = submit[s].approve /\ submit[s].code \in Code
  BY WhatStays DEF SubmitsStay, RowsStay, Here, Deciding
<1>2. CASE Same
  <2>1. submit'[s].at = "deciding" /\ submit'[s].approve =>
          Linkable(submit[s].code, submit[s].user, submit[s].project)'
    BY <1>1, <1>2, LinkableStays DEF SubmitsResolved
  <2> QED BY <1>1, <1>2, <2>1 DEF SubmitsResolved
<1>3. CASE Find(s)
  BY <1>1, <1>3 DEF Find, Move, Deciding
<1>4. CASE Resolve(s)
  <2>1. PICK p \in Targets(s) :
          submit' = [submit EXCEPT ![s].project = p,
                       ![s].at = IF p \in projects \cup {Nothing} THEN "deciding" ELSE "adding"]
    BY <1>4 DEF Resolve
  <2>2. submit'[s].project = p
        /\ submit'[s].at = IF p \in projects \cup {Nothing} THEN "deciding" ELSE "adding"
    <3>1. submit[s] \in Deciding
      OBVIOUS
    <3> QED BY <2>1, <3>1 DEF Deciding
  <2>7. submit[s].approve
    BY <1>4 DEF Resolve, SubmitsResolved
  <2>3. p \in projects \cup {Nothing} => Linkable(submit[s].code, submit[s].user, p)
    BY DEF Targets, Linkable, Owned, Here, Project
  <2>4. p \notin projects \cup {Nothing} => p = Here(s)
    BY DEF Targets, Owned
  <2>5. CASE p \in projects \cup {Nothing}
    <3>1. Linkable(submit[s].code, submit[s].user, p)'
      BY <1>1, <2>3, <2>5, LinkableStays
    <3> QED BY <1>1, <2>2, <2>5, <2>7, <3>1 DEF Linkable
  <2>6. CASE p \notin projects \cup {Nothing}
    BY <1>1, <2>2, <2>4, <2>6, <2>7
  <2> QED BY <2>5, <2>6
<1>5. CASE AddProject(s)
  <2>1. submit[s].project = Here(s) /\ submit'[s].project = submit[s].project
        /\ submit'[s].at = "deciding" /\ projects' = projects \cup {Here(s)}
        /\ UNCHANGED row
    BY <1>5 DEF AddProject, Move, SubmitsResolved, Deciding
  <2>2. Linkable(submit[s].code, submit[s].user, Here(s))'
    BY <1>1, <2>1 DEF Linkable, Owned, Here
  <2> QED BY <1>1, <2>1, <2>2
<1>6. CASE Decide(s) \/ Record(s) \/ Break(s)
  BY <1>6 DEF Decide, Record, Break, Move, Deciding
<1>7. Same \/ Find(s) \/ Resolve(s) \/ AddProject(s) \/ Decide(s) \/ Record(s) \/ Break(s)
  <2>1. ASSUME NEW o \in Submit, o # s, Resolve(o) PROVE Same
    BY <2>1 DEF Resolve
  <2>2. ASSUME NEW o \in Submit, o # s,
               Find(o) \/ AddProject(o) \/ Decide(o) \/ Record(o) \/ Break(o)
        PROVE  Same
    BY <2>2 DEF Find, AddProject, Decide, Record, Break, Move
  <2>3. ASSUME NEW c \in Code, StartDevice(c) \/ Expire(c) PROVE Same
    BY <2>3 DEF StartDevice, Expire
  <2>4. ASSUME NEW p \in Poll, Collect(p) \/ \E c \in Code : SeeApproved(p, c) PROVE Same
    BY <2>4 DEF Collect, SeeApproved
  <2>5. CASE UNCHANGED vars
    BY <2>5 DEF vars
  <2> QED BY <2>1, <2>2, <2>3, <2>4, <2>5 DEF Next
<1> QED BY <1>2, <1>3, <1>4, <1>5, <1>6, <1>7

LEMMA ApprovalsKept ==
  ASSUME DeviceTypeOK, SubmitsResolved, ApprovalsSaid, [Next]_vars PROVE ApprovalsSaid'
<1> SUFFICES ASSUME NEW c \in Code PROVE ApprovalSaid(c)'
  BY DEF ApprovalsSaid
<1> USE DEF DeviceTypeOK
<1>1. CASE /\ row'[c].status \in {"approved", "claimed"} => row[c].status \in {"approved", "claimed"}
           /\ row'[c].user = row[c].user /\ row'[c].project = row[c].project
  <2>1. CASE row'[c].status \notin {"approved", "claimed"}
    BY <2>1 DEF ApprovalSaid
  <2>2. CASE row[c].status \in {"approved", "claimed"}
    <3> DEFINE u == row[c].user
               p == row[c].project
    <3>1. SaidYes(c, u) /\ Linkable(c, u, p)
      BY <2>2 DEF ApprovalsSaid, ApprovalSaid
    <3>2. SaidYes(c, row[c].user)'
      BY <1>1, <3>1, WhatStays DEF SaidYes, SubmitsStay
    <3>3. Linkable(c, row[c].user, row[c].project)'
      BY <1>1, <3>1, WhatStays DEF Linkable, Owned, RowsStay
    <3> QED BY <3>2, <3>3 DEF ApprovalSaid
  <2> QED BY <1>1, <2>1, <2>2
<1>2. ASSUME NEW s \in Submit, Decide(s), row'[c] # row[c] PROVE ApprovalSaid(c)'
  <2>1. CASE submit[s].approve
    <3>1. /\ submit[s].code = c /\ submit[s].at = "deciding" /\ projects' = projects
          /\ row'[c].user = submit[s].user /\ row'[c].project = submit[s].project
      BY <1>2, <2>1 DEF Decide, Row
    <3>2. SaidYes(c, submit[s].user) /\ Linkable(c, submit[s].user, submit[s].project)
      BY <2>1, <3>1 DEF SaidYes, SubmitsResolved
    <3>3. SaidYes(c, row[c].user)'
      BY <3>1, <3>2, WhatStays DEF SaidYes, SubmitsStay
    <3>4. Linkable(c, row[c].user, row[c].project)'
      BY <3>1, <3>2, WhatStays DEF Linkable, Owned, RowsStay
    <3> QED BY <3>3, <3>4 DEF ApprovalSaid
  <2>2. CASE ~ submit[s].approve
    <3>1. row'[c].status = "denied"
      BY <1>2, <2>2 DEF Decide, Row
    <3> QED BY <3>1 DEF ApprovalSaid
  <2> QED BY <2>1, <2>2
<1>3. \/ /\ row'[c].status \in {"approved", "claimed"} => row[c].status \in {"approved", "claimed"}
         /\ row'[c].user = row[c].user /\ row'[c].project = row[c].project
      \/ \E s \in Submit : Decide(s) /\ row'[c] # row[c]
  <2>1. ASSUME row'[c] = row[c]
        PROVE  /\ row'[c].status \in {"approved", "claimed"} => row[c].status \in {"approved", "claimed"}
               /\ row'[c].user = row[c].user /\ row'[c].project = row[c].project
    BY <2>1
  <2>2. ASSUME NEW d \in Code, StartDevice(d) \/ Expire(d)
        PROVE  /\ row'[c].status \in {"approved", "claimed"} => row[c].status \in {"approved", "claimed"}
               /\ row'[c].user = row[c].user /\ row'[c].project = row[c].project
    BY <2>2 DEF StartDevice, Expire, Row
  <2>3. ASSUME NEW s \in Submit,
               Find(s) \/ Resolve(s) \/ AddProject(s) \/ Record(s) \/ Break(s)
        PROVE  row'[c] = row[c]
    BY <2>3 DEF Find, Resolve, AddProject, Record, Break
  <2>4. ASSUME NEW p \in Poll, Collect(p), row'[c] # row[c]
        PROVE  /\ row'[c].status \in {"approved", "claimed"} => row[c].status \in {"approved", "claimed"}
               /\ row'[c].user = row[c].user /\ row'[c].project = row[c].project
    BY <2>4 DEF Collect, Claimable, Row
  <2>5. ASSUME NEW p \in Poll, NEW d \in Code, SeeApproved(p, d) PROVE row'[c] = row[c]
    BY <2>5 DEF SeeApproved
  <2>6. CASE UNCHANGED vars
    BY <2>1, <2>6 DEF vars
  <2> QED BY <2>1, <2>2, <2>3, <2>4, <2>5, <2>6 DEF Next
<1> QED BY <1>1, <1>2, <1>3

LEMMA TokensKept == ASSUME DeviceTypeOK, TokensRepeat, [Next]_vars PROVE TokensRepeat'
<1> USE DEF DeviceTypeOK
<1>1. ASSUME tokens' = tokens,
             \A c \in Code : row[c].status = "claimed" => row'[c] = row[c]
      PROVE  TokensRepeat'
  BY <1>1 DEF TokensRepeat
<1>2. ASSUME NEW p \in Poll, Collect(p), Claimable(polled[p]) PROVE TokensRepeat'
  <2> DEFINE c == polled[p]
             new == [poll |-> p, code |-> c, user |-> row[c].user, project |-> row[c].project]
  <2>1. c \in Code /\ row[c].status = "approved" /\ tokens' = tokens \cup {new}
        /\ row' = [row EXCEPT ![c].status = "claimed"]
    BY <1>2 DEF Collect, Claimable
  <2>2. \A t \in tokens : t.code \in Code /\ t.code # c
    BY <2>1 DEF TokensRepeat
  <2>3. row'[c].status = "claimed" /\ row'[c].user = row[c].user /\ row'[c].project = row[c].project
    BY <2>1 DEF Row
  <2>4. \A d \in Code : d # c => row'[d] = row[d]
    BY <2>1
  <2>5. new.code = c /\ new.user = row[c].user /\ new.project = row[c].project
    OBVIOUS
  <2> HIDE DEF new
  <2> QED BY <2>1, <2>2, <2>3, <2>4, <2>5 DEF TokensRepeat
<1>3. ASSUME NEW p \in Poll, Collect(p), ~ Claimable(polled[p]) PROVE TokensRepeat'
  BY <1>1, <1>3 DEF Collect
<1>4. ASSUME NEW c \in Code, StartDevice(c) \/ Expire(c) PROVE TokensRepeat'
  <2>1. \A d \in Code : row[d].status = "claimed" => row'[d] = row[d]
    BY <1>4 DEF StartDevice, Expire
  <2> QED BY <1>1, <1>4, <2>1 DEF StartDevice, Expire
<1>5. ASSUME NEW s \in Submit, Decide(s) PROVE TokensRepeat'
  <2>1. \A d \in Code : row[d].status = "claimed" => row'[d] = row[d]
    BY <1>5 DEF Decide, StillOpen
  <2> QED BY <1>1, <1>5, <2>1 DEF Decide
<1>6. ASSUME NEW s \in Submit, Find(s) \/ Resolve(s) \/ AddProject(s) \/ Record(s) \/ Break(s)
      PROVE  TokensRepeat'
  BY <1>1, <1>6 DEF Find, Resolve, AddProject, Record, Break
<1>7. ASSUME NEW p \in Poll, NEW c \in Code, SeeApproved(p, c) PROVE TokensRepeat'
  BY <1>1, <1>7 DEF SeeApproved
<1>8. CASE UNCHANGED vars
  BY <1>1, <1>8 DEF vars
<1> QED BY <1>2, <1>3, <1>4, <1>5, <1>6, <1>7, <1>8 DEF Next

-----------------------------------------------------------------------------
(* Device: the theorems.                                                 *)

LEMMA Inductive == Spec => []IInv
<1>1. Init => IInv
  BY InitTyped DEF Init, IInv, SubmitsResolved, ApprovalsSaid, ApprovalSaid, TokensRepeat
<1>2. IInv /\ [Next]_vars => IInv'
  BY TypeKept, SubmitsKept, ApprovalsKept, TokensKept DEF IInv
<1> QED BY <1>1, <1>2, PTL DEF Spec

\* Every variable of the linking keeps to its type.
THEOREM DeviceTyped == Spec => []DeviceTypeOK
<1>1. IInv => DeviceTypeOK
  BY DEF IInv
<1> QED BY <1>1, Inductive, PTL

\* However submits, polls and expiry interleave, a code gives one token at most, for a user
\* who said yes and for a project of that user's which exists: the named directory's.
THEOREM TokensAreApprovals == Spec => []TokenIsTheApproval
<1>1. IInv => TokenIsTheApproval
  <2> SUFFICES ASSUME IInv, NEW t \in tokens
               PROVE  /\ row[t.code].status = "claimed"
                      /\ \A o \in tokens : o.code = t.code => o = t
                      /\ SaidYes(t.code, t.user)
                      /\ t.project # Nothing => t.project \in Owned(t.user)
                      /\ row[t.code].named => t.project = [owner |-> t.user, dir |-> row[t.code].dir]
    BY DEF TokenIsTheApproval
  <2>1. t.code \in Code
    BY DEF IInv, DeviceTypeOK
  <2>2. /\ row[t.code].status = "claimed" /\ t.user = row[t.code].user
        /\ t.project = row[t.code].project /\ \A o \in tokens : o.code = t.code => o = t
    BY DEF IInv, TokensRepeat
  <2>3. SaidYes(t.code, t.user) /\ Linkable(t.code, t.user, t.project)
    BY <2>1, <2>2 DEF IInv, ApprovalsSaid, ApprovalSaid
  <2> QED BY <2>2, <2>3 DEF Linkable
<1> QED BY <1>1, Inductive, PTL

-----------------------------------------------------------------------------
(* AgentWork: the inductive invariants.                                  *)

At(w, stages) == work[w].at \in stages

\* Whoever is at work is at work on a job, in an attempt that was counted.
AttemptsCounted ==
  \A w \in Worker :
    /\ At(w, {"idle"}) <=> work[w].job = NoJob
    /\ ~At(w, {"idle"}) => /\ work[w].attempt \in 1..attempts[work[w].job]
                           /\ work[w].proc \in Process

\* Until it starts, an attempt has said nothing.
SaysNothingYet ==
  \A w \in Worker : At(w, {"idle", "counting", "recalling", "starting"}) => work[w].pending = {}

WorkTyped == AgentTypeOK /\ AttemptsCounted /\ SaysNothingYet

\* A job somebody is at has been taken.
JobsAreTaken == \A w \in Worker : ~At(w, {"idle"}) => status[work[w].job] \notin {"none", "pending"}

\* At work on a job of which no living attempt was presumed dead.
Heard(w) == ~At(w, {"idle"}) /\ work[w].job \notin presumed

\* Nobody works beside such an attempt.
HeardAlone == \A v, w \in Worker : v # w /\ Heard(w) => work[v].job # work[w].job

\* It is the last attempt of its job, and the job is its process's until it concluded.
TheLeaseIsKept ==
  \A w \in Worker : Heard(w) =>
    LET j == work[w].job
    IN  /\ work[w].attempt = attempts[j] /\ holder[j] = work[w].proc
        /\ ~At(w, {"barrier"}) => status[j] = "claimed"

Findings(notes) == \E n \in notes : n.kind = "findings"

\* Who reads has neither found nor noted any findings.
ReadsForTheFirstTime ==
  \A w \in Worker : Heard(w) =>
    LET said == landed[work[w].job]
    IN  /\ At(w, {"starting"}) => (work[w].resumed <=> Findings(said))
        /\ At(w, {"reading"}) /\ IsDraft(w) => ~Findings(said) /\ ~Findings(work[w].pending)

\* In production nobody who concluded has anything left to say.
ConcludedIsTold ==
  pool = "one" => \A w \in Worker :
    Heard(w) /\ At(w, {"barrier"}) /\ status[work[w].job] # "claimed" => work[w].pending = {}

\* In production, while no insert was lost, a transcript has no gaps, and what is still on
\* its way continues it.
InOrder(j) ==
  /\ \A m \in landed[j] : m.seq <= Cardinality(landed[j]) /\ m.attempt <= attempts[j]
  /\ \A m, n \in landed[j] : m.attempt < n.attempt => m.seq < n.seq

Continues(w) ==
  LET said == Cardinality(landed[work[w].job])
  IN  /\ \A n \in work[w].pending : n.seq > said /\ n.attempt = work[w].attempt
      /\ \A s \in (said + 1)..work[w].seq : \E n \in work[w].pending : n.seq = s
      /\ \A n \in work[w].pending : n.seq <= work[w].seq
      /\ \A m, n \in work[w].pending : m.seq = n.seq => m = n
      /\ said <= work[w].seq

TranscriptsGrow ==
  pool = "one" /\ lost = 0 =>
    /\ \A j \in Job \ presumed : InOrder(j)
    /\ \A w \in Worker : Heard(w) /\ ~At(w, {"counting"}) => Continues(w)

Orderly ==
  /\ JobsAreTaken /\ HeardAlone /\ TheLeaseIsKept
  /\ ReadsForTheFirstTime /\ ConcludedIsTold /\ TranscriptsGrow

WorkInv == WorkTyped /\ Orderly /\ OutcomeIsTheHolders

-----------------------------------------------------------------------------
(* AgentWork: what a step does to an attempt.                            *)

\* An attempt moves on.
MovesOn(w, to) ==
  /\ work' \in [Worker -> Doing]
  /\ work'[w].at = to /\ work'[w].job = work[w].job /\ work'[w].proc = work[w].proc
  /\ work'[w].attempt = work[w].attempt
  /\ \A v \in Worker : v # w => work'[v] = work[v]

\* It says something on its way, or nothing.
Says(w, type) ==
  /\ work'[w].seq = work[w].seq + 1
  /\ \E n \in Note : /\ n.seq = work[w].seq + 1 /\ n.attempt = work[w].attempt /\ n.kind = type
                     /\ work'[w].pending = work[w].pending \cup {n}

SaysNothing(w) == work'[w].seq = work[w].seq /\ work'[w].pending = work[w].pending

\* It is over.
Rests(w) ==
  /\ work' \in [Worker -> Doing] /\ work'[w] = Idle
  /\ \A v \in Worker : v # w => work'[v] = work[v]

LEMMA IdleIsDoing ==
  /\ Idle \in Doing /\ Idle.at = "idle" /\ Idle.job = NoJob /\ Idle.pending = {}
  /\ Idle.attempt = 0 /\ Idle.seq = 0
BY LimitsAssumption DEF Idle, Doing, Stage

LEMMA DoingFields ==
  ASSUME AgentTypeOK, NEW w \in Worker
  PROVE  /\ work[w] \in Doing /\ work[w].at \in Stage /\ work[w].job \in Job \cup {NoJob}
         /\ work[w].attempt \in 0..MaxAttempts /\ work[w].seq \in Nat
         /\ work[w].pending \in SUBSET Note /\ work[w].proc \in Process \cup {NoProcess}
BY DEF AgentTypeOK, Doing

LEMMA Going ==
  ASSUME AgentTypeOK, NEW w \in Worker, NEW to \in Stage, work' = [work EXCEPT ![w].at = to]
  PROVE  MovesOn(w, to) /\ SaysNothing(w) /\ work'[w].resumed = work[w].resumed
<1> DEFINE r == [work[w] EXCEPT !.at = to]
<1>1. work[w] \in Doing /\ work \in [Worker -> Doing]
  BY DEF AgentTypeOK
<1>2. /\ r \in Doing /\ r.at = to /\ r.job = work[w].job /\ r.proc = work[w].proc
      /\ r.attempt = work[w].attempt /\ r.seq = work[w].seq /\ r.pending = work[w].pending
      /\ r.resumed = work[w].resumed
  BY <1>1 DEF Doing
<1>3. work' = [work EXCEPT ![w] = r]
  OBVIOUS
<1> HIDE DEF r
<1> QED BY <1>1, <1>2, <1>3 DEF MovesOn, SaysNothing

LEMMA Noting ==
  ASSUME AgentTypeOK, AttemptsCounted, NEW w \in Worker, ~At(w, {"idle"}), NEW to \in Stage,
         NEW type \in {"note", "findings"}, NoteAndGoto(w, type, to)
  PROVE  MovesOn(w, to) /\ Says(w, type)
<1> DEFINE n == [seq |-> work[w].seq + 1, attempt |-> work[w].attempt, kind |-> type]
           r == [work[w] EXCEPT !.at = to, !.seq = work[w].seq + 1, !.pending = @ \cup {n}]
<1>1. work[w] \in Doing /\ work \in [Worker -> Doing]
  BY DEF AgentTypeOK
<1>2. n \in Note /\ n.seq = work[w].seq + 1 /\ n.attempt = work[w].attempt /\ n.kind = type
  <2>1. work[w].attempt \in 1..MaxAttempts
    <3>1. work[w].job \in Job /\ work[w].attempt \in 1..attempts[work[w].job]
      BY DoingFields DEF AttemptsCounted
    <3>2. attempts[work[w].job] \in 0..MaxAttempts
      BY <3>1 DEF AgentTypeOK
    <3> QED BY <3>1, <3>2, LimitsAssumption
  <2>2. work[w].seq + 1 \in Nat \ {0}
    BY DoingFields
  <2> QED BY <2>1, <2>2 DEF Note
<1>3. work' = [work EXCEPT ![w] = r]
  BY <1>1 DEF NoteAndGoto, Doing
<1> HIDE DEF n
<1>4. /\ r \in Doing /\ r.at = to /\ r.job = work[w].job /\ r.proc = work[w].proc
      /\ r.attempt = work[w].attempt /\ r.seq = work[w].seq + 1 /\ r.pending = work[w].pending \cup {n}
  <2>1. work[w].pending \cup {n} \in SUBSET Note /\ work[w].seq + 1 \in Nat
    BY <1>2, DoingFields
  <2>2. r = [[[work[w] EXCEPT !.at = to] EXCEPT !.seq = work[w].seq + 1]
                          EXCEPT !.pending = work[w].pending \cup {n}]
    BY <1>1 DEF Doing
  <2> QED BY <1>1, <2>1, <2>2 DEF Doing
<1> HIDE DEF r
<1> QED BY <1>1, <1>2, <1>3, <1>4 DEF MovesOn, Says

LEMMA Resting ==
  ASSUME AgentTypeOK, NEW w \in Worker, work' = [work EXCEPT ![w] = Idle]
  PROVE  Rests(w)
BY IdleIsDoing DEF AgentTypeOK, Rests

-----------------------------------------------------------------------------
(* AgentWork: types, whoever is silent.                                  *)

LEMMA WorkStarts == WorkInit => WorkInv
<1> SUFFICES ASSUME WorkInit PROVE WorkInv
  OBVIOUS
<1> USE DEF WorkInit
<1>1. \A w \in Worker : work[w] = Idle
  OBVIOUS
<1>2. \A w \in Worker : At(w, {"idle"}) /\ work[w].job = NoJob /\ work[w].pending = {}
  BY <1>1, IdleIsDoing DEF At
<1>3. AgentTypeOK
  BY IdleIsDoing, LimitsAssumption, FS_EmptySet DEF AgentTypeOK, Kind, Settled
<1>4. AttemptsCounted /\ SaysNothingYet /\ JobsAreTaken /\ HeardAlone /\ TheLeaseIsKept
      /\ ReadsForTheFirstTime /\ ConcludedIsTold /\ OutcomeIsTheHolders
  BY <1>2 DEF AttemptsCounted, SaysNothingYet, JobsAreTaken, HeardAlone, TheLeaseIsKept,
     ReadsForTheFirstTime, ConcludedIsTold, OutcomeIsTheHolders, Heard, At
<1>5. TranscriptsGrow
  <2>1. \A j \in Job : landed[j] = {}
    OBVIOUS
  <2> QED BY <1>2, <2>1 DEF TranscriptsGrow, InOrder, Heard, At
<1> QED BY <1>3, <1>4, <1>5 DEF WorkInv, Orderly, WorkTyped

\* What moving on and resting keep, as long as the counts stand.
LEMMA MovedKnown ==
  ASSUME WorkTyped, NEW w \in Worker, NEW to, ~At(w, {"idle"}), to # "idle", MovesOn(w, to),
         to \in {"counting", "recalling", "starting"} => work'[w].pending = {},
         attempts' = attempts
  PROVE  AttemptsCounted' /\ SaysNothingYet'
BY DEF WorkTyped, AttemptsCounted, SaysNothingYet, MovesOn, At

LEMMA RestedKnown ==
  ASSUME WorkTyped, NEW w \in Worker, Rests(w), attempts' = attempts
  PROVE  AttemptsCounted' /\ SaysNothingYet'
BY IdleIsDoing DEF WorkTyped, AttemptsCounted, SaysNothingYet, Rests, At

LEMMA AskTyped ==
  ASSUME WorkTyped, NEW j \in Job, NEW type \in Kind, Ask(j, type)
  PROVE  WorkTyped'
<1> USE DEF WorkTyped
<1>1. AgentTypeOK'
  BY DEF AgentTypeOK, Ask, history
<1> QED BY <1>1 DEF Ask, AttemptsCounted, SaysNothingYet, At

\* What holdWork's UPDATE does.
LEMMA Holding ==
  ASSUME WorkTyped, NEW w \in Worker, NEW p \in Process, NEW j \in Job, Hold(w, p, j)
  PROVE  /\ work' \in [Worker -> Doing] /\ \A v \in Worker : v # w => work'[v] = work[v]
         /\ work'[w].at = "counting" /\ work'[w].proc = p /\ work'[w].job = j
         /\ work'[w].attempt = attempts[j] + 1 /\ work'[w].pending = {}
         /\ attempts' \in [Job -> 0..MaxAttempts] /\ attempts'[j] = attempts[j] + 1
         /\ \A i \in Job : i # j => attempts'[i] = attempts[i]
<1> DEFINE r == [Idle EXCEPT !.at = "counting", !.proc = p, !.job = j, !.attempt = attempts[j] + 1]
<1>1. attempts[j] + 1 \in 0..MaxAttempts /\ attempts \in [Job -> 0..MaxAttempts]
  <2>1. attempts[j] \in 0..MaxAttempts /\ attempts[j] < MaxAttempts
    BY DEF WorkTyped, AgentTypeOK, Hold, Takeable
  <2> QED BY <2>1, LimitsAssumption DEF WorkTyped, AgentTypeOK
<1>2. /\ r \in Doing /\ r.at = "counting" /\ r.proc = p /\ r.job = j
      /\ r.attempt = attempts[j] + 1 /\ r.pending = {}
  BY <1>1, IdleIsDoing DEF Doing, Stage
<1>3. work' = [work EXCEPT ![w] = r] /\ work \in [Worker -> Doing]
      /\ attempts' = [attempts EXCEPT ![j] = attempts[j] + 1]
  BY DEF Hold, WorkTyped, AgentTypeOK
<1> HIDE DEF r
<1> QED BY <1>1, <1>2, <1>3

LEMMA HoldTyped ==
  ASSUME WorkTyped, NEW w \in Worker, NEW p \in Process, NEW j \in Job, Hold(w, p, j)
  PROVE  WorkTyped'
<1> USE DEF WorkTyped
<1>1. /\ attempts[j] \in Nat /\ status' = [status EXCEPT ![j] = "claimed"]
      /\ UNCHANGED <<kind, landed, written, gone, pool, lost, told>>
      /\ holder' = [holder EXCEPT ![j] = p] /\ silent' = silent \ {j}
  BY DEF Hold, AgentTypeOK
<1>2. AgentTypeOK'
  <2>1. ASSUME NEW i \in Job PROVE written'[i] \subseteq 1..attempts'[i]
    <3>1. written[i] \subseteq 1..attempts[i] /\ attempts[i] \in Nat
      BY DEF AgentTypeOK
    <3>2. attempts'[i] \in {attempts[i], attempts[i] + 1} /\ written' = written
      BY <1>1, Holding
    <3> QED BY <3>1, <3>2
  <2>2. silent' \subseteq {i \in Job : status'[i] = "claimed"}
    BY <1>1 DEF AgentTypeOK
  <2>3. status' \in [Job -> Settled \cup {"none", "pending", "claimed"}]
        /\ holder' \in [Job -> Process \cup {NoProcess}]
    BY <1>1 DEF AgentTypeOK
  <2>4. presumed' \subseteq Job
    BY DEF AgentTypeOK, Hold, Alive
  <2> QED BY <1>1, <2>1, <2>2, <2>3, <2>4, Holding DEF AgentTypeOK
<1>3. AttemptsCounted'
  <2>1. work'[w].attempt \in 1..attempts'[j] /\ j # NoJob
    BY <1>1, Holding, JobAssumption
  <2>2. ASSUME NEW v \in Worker, v # w, ~At(v, {"idle"})
        PROVE  work[v].attempt \in 1..attempts'[work[v].job]
    <3>1. work[v].job \in Job /\ work[v].attempt \in 1..attempts[work[v].job]
      BY <2>2, DoingFields DEF AttemptsCounted
    <3>2. attempts[work[v].job] \in Nat /\ attempts'[work[v].job] \in Nat
          /\ attempts[work[v].job] <= attempts'[work[v].job]
      BY <1>1, <3>1, Holding DEF AgentTypeOK
    <3> QED BY <3>1, <3>2
  <2> QED BY <2>1, <2>2, Holding DEF AttemptsCounted, At
<1>4. SaysNothingYet'
  BY Holding DEF SaysNothingYet, At
<1> QED BY <1>2, <1>3, <1>4

LEMMA ReapTyped ==
  ASSUME WorkTyped, ReapHopeless
  PROVE  WorkTyped'
<1> USE DEF WorkTyped
<1>1. AgentTypeOK'
  BY DEF AgentTypeOK, ReapHopeless, Settled, Alive, Hopeless
<1> QED BY <1>1 DEF ReapHopeless, AttemptsCounted, SaysNothingYet, At

LEMMA SilentTyped ==
  ASSUME WorkTyped, (\E j \in Job : GoSilent(j)) \/ (\E w \in Worker : BeatWork(w))
  PROVE  WorkTyped'
<1> USE DEF WorkTyped
<1>1. AgentTypeOK'
  BY DEF AgentTypeOK, GoSilent, BeatWork, history
<1> QED BY <1>1 DEF GoSilent, BeatWork, AttemptsCounted, SaysNothingYet, At

\* An attempt that does nothing to the tables.
LEMMA OnlyWorkTyped ==
  ASSUME WorkTyped, work' \in [Worker -> Doing], OnlyWork
  PROVE  AgentTypeOK' /\ attempts' = attempts
BY DEF WorkTyped, AgentTypeOK, OnlyWork, jobVars, history

\* How each step of an attempt that leaves the tables alone moves.
QuietMove(w, to) ==
  /\ MovesOn(w, to) /\ ~At(w, {"idle", "counting", "recalling", "barrier"})
  /\ to \in {"reading", "saving", "settling", "excusing", "failing", "barrier"}
  /\ SaysNothing(w) \/ \E type \in {"note", "findings"} : Says(w, type)

LEMMA StartMoves ==
  ASSUME WorkTyped, NEW w \in Worker, Start(w)
  PROVE  \E to \in {"reading", "saving"} : MovesOn(w, to) /\ Says(w, "note")
            /\ (to = "reading" /\ IsDraft(w) => ~work[w].resumed)
<1>1. ~At(w, {"idle"})
  BY DEF Start, At
<1> DEFINE to == IF work[w].resumed /\ IsDraft(w) THEN "saving" ELSE "reading"
<1>2. to \in Stage /\ to \in {"reading", "saving"} /\ (to = "reading" /\ IsDraft(w) => ~work[w].resumed)
      /\ NoteAndGoto(w, "note", to)
  BY DEF Start, Stage
<1> HIDE DEF to
<1> QED BY <1>1, <1>2, Noting DEF WorkTyped

LEMMA LaterMoves ==
  ASSUME WorkTyped, NEW w \in Worker,
         \/ Read(w) \/ Answer(w) \/ Save(w) \/ NeedsConfig(w) \/ Throw(w)
         \/ SettleWork(w) \/ FailWork(w) \/ ConcludingBreaks(w)
  PROVE  \E to \in Stage \ {"reading"} : QuietMove(w, to)
<1> USE DEF WorkTyped
<1>2. ASSUME NEW type \in {"note", "findings"},
             NEW to \in {"saving", "settling", "excusing", "failing"}, NoteAndGoto(w, type, to),
             ~At(w, {"idle", "counting", "recalling", "barrier"})
      PROVE  QuietMove(w, to) /\ to \in Stage \ {"reading"}
  BY <1>2, Noting DEF QuietMove, At, Stage
<1>3. CASE Read(w) \/ Save(w) \/ NeedsConfig(w) \/ Throw(w)
  BY <1>2, <1>3 DEF Read, Save, NeedsConfig, Throw, At
<1>4. ASSUME NEW to \in {"saving", "barrier"}, work' = [work EXCEPT ![w].at = to],
             ~At(w, {"idle", "counting", "recalling", "barrier"})
      PROVE  QuietMove(w, to) /\ to \in Stage \ {"reading"}
  BY <1>4, Going DEF QuietMove, Stage
<1>5. CASE Answer(w) \/ SettleWork(w) \/ FailWork(w) \/ ConcludingBreaks(w)
  BY <1>4, <1>5 DEF Answer, Goto, SettleWork, FailWork, ConcludingBreaks, At
<1> QED BY <1>3, <1>5

LEMMA QuietMoves ==
  ASSUME WorkTyped, NEW w \in Worker,
         \/ Start(w) \/ Read(w) \/ Answer(w) \/ Save(w) \/ NeedsConfig(w) \/ Throw(w)
         \/ SettleWork(w) \/ FailWork(w) \/ ConcludingBreaks(w)
  PROVE  \E to \in Stage : QuietMove(w, to)
<1>1. CASE Start(w)
  BY <1>1, StartMoves DEF QuietMove, Start, At, Stage
<1> QED BY <1>1, LaterMoves

LEMMA QuietMoveKnown ==
  ASSUME WorkTyped, NEW w \in Worker, NEW to, QuietMove(w, to), attempts' = attempts
  PROVE  AttemptsCounted' /\ SaysNothingYet'
BY MovedKnown DEF QuietMove, At

\* A conclusion settles the job of whoever holds it, and nothing else.
LEMMA Concluding ==
  ASSUME WorkTyped, NEW w \in Worker, NEW outcome \in Settled, Conclude(w, outcome), work[w].job \in Job,
         ~At(w, {"idle"})
  PROVE  /\ status' \in [Job -> Settled \cup {"none", "pending", "claimed"}]
         /\ told' \in [Job -> [proc: Process \cup {NoProcess}, attempt: 0..MaxAttempts]]
         /\ silent' \subseteq {j \in Job : status'[j] = "claimed"}
         /\ \A j \in Job : j # work[w].job => status'[j] = status[j] /\ told'[j] = told[j]
         /\ status'[work[w].job] \in {status[work[w].job], outcome}
         /\ holder[work[w].job] = work[w].proc =>
              /\ status'[work[w].job] = outcome
              /\ told'[work[w].job].proc = work[w].proc /\ told'[work[w].job].attempt = work[w].attempt
         /\ holder[work[w].job] # work[w].proc => status' = status /\ told' = told
<1> DEFINE j == work[w].job
           t == [proc |-> work[w].proc, attempt |-> work[w].attempt]
<1>0. /\ t \in [proc: Process \cup {NoProcess}, attempt: 0..MaxAttempts]
      /\ t.proc = work[w].proc /\ t.attempt = work[w].attempt
  BY DoingFields DEF WorkTyped
<1>1. CASE holder[j] = work[w].proc
  <2>1. status' = [status EXCEPT ![j] = outcome] /\ silent' = silent \ {j}
        /\ told' = [told EXCEPT ![j] = t]
    BY <1>1 DEF Conclude, Say
  <2> HIDE DEF t
  <2> QED BY <1>0, <1>1, <2>1 DEF WorkTyped, AgentTypeOK
<1>2. CASE holder[j] # work[w].proc
  <2>1. status' = status /\ silent' = silent /\ told' = told
    BY <1>2 DEF Conclude
  <2> QED BY <1>2, <2>1 DEF WorkTyped, AgentTypeOK
<1> QED BY <1>1, <1>2

\* The two reads at the start of an attempt.
LEMMA CountingEvents ==
  ASSUME WorkTyped, NEW w \in Worker, CountEvents(w)
  PROVE  /\ ~At(w, {"idle"}) /\ MovesOn(w, "recalling")
         /\ work'[w].seq = Cardinality(landed[work[w].job]) /\ work'[w].pending = work[w].pending
<1> USE DEF WorkTyped
<1> DEFINE c == Cardinality(landed[work[w].job])
           r == [work[w] EXCEPT !.at = "recalling", !.seq = c]
<1>0. ~At(w, {"idle"}) /\ work[w] \in Doing /\ work \in [Worker -> Doing]
  BY DEF CountEvents, At, AgentTypeOK
<1>1. c \in Nat
  BY <1>0, DoingFields, FS_CardinalityType DEF AttemptsCounted, AgentTypeOK
<1>2. work' = [work EXCEPT ![w] = r]
  BY <1>0 DEF CountEvents, Doing
<1> HIDE DEF c
<1>3. /\ r \in Doing /\ r.at = "recalling" /\ r.job = work[w].job /\ r.proc = work[w].proc
      /\ r.attempt = work[w].attempt /\ r.seq = c /\ r.pending = work[w].pending
  <2>1. r = [[work[w] EXCEPT !.at = "recalling"] EXCEPT !.seq = c]
    BY <1>0 DEF Doing
  <2> QED BY <1>0, <1>1, <2>1 DEF Doing, Stage
<1> HIDE DEF r
<1>4. MovesOn(w, "recalling") /\ work'[w].seq = c /\ work'[w].pending = work[w].pending
  BY <1>0, <1>2, <1>3 DEF MovesOn
<1> QED BY <1>0, <1>4 DEF c

LEMMA RecallingFindings ==
  ASSUME WorkTyped, NEW w \in Worker, RecallFindings(w)
  PROVE  /\ ~At(w, {"idle"}) /\ MovesOn(w, "starting") /\ SaysNothing(w)
         /\ work'[w].resumed <=> Findings(landed[work[w].job])
<1> USE DEF WorkTyped
<1> DEFINE f == \E n \in landed[work[w].job] : n.kind = "findings"
           r == [work[w] EXCEPT !.at = "starting", !.resumed = f]
<1>0. ~At(w, {"idle"}) /\ work[w] \in Doing /\ work \in [Worker -> Doing]
  BY DEF RecallFindings, At, AgentTypeOK
<1>1. f \in BOOLEAN /\ (f <=> Findings(landed[work[w].job]))
  BY DEF Findings
<1>2. work' = [work EXCEPT ![w] = r]
  BY <1>0 DEF RecallFindings, Doing
<1> HIDE DEF f
<1>3. /\ r \in Doing /\ r.at = "starting" /\ r.job = work[w].job /\ r.proc = work[w].proc
      /\ r.attempt = work[w].attempt /\ r.seq = work[w].seq /\ r.pending = work[w].pending
      /\ r.resumed = f
  <2>1. r = [[work[w] EXCEPT !.at = "starting"] EXCEPT !.resumed = f]
    BY <1>0 DEF Doing
  <2> QED BY <1>0, <1>1, <2>1 DEF Doing, Stage
<1> HIDE DEF r
<1>4. MovesOn(w, "starting") /\ SaysNothing(w) /\ work'[w].resumed = f
  BY <1>0, <1>2, <1>3 DEF MovesOn, SaysNothing
<1> QED BY <1>0, <1>1, <1>4

LEMMA AttemptTyped ==
  ASSUME WorkTyped, NEW w \in Worker, Attempt(w)
  PROVE  WorkTyped'
<1> USE DEF WorkTyped
<1>1. CASE CountEvents(w)
  <2>1. MovesOn(w, "recalling") /\ ~At(w, {"idle"}) /\ work'[w].pending = {}
    BY <1>1, CountingEvents DEF SaysNothingYet, CountEvents, At
  <2>2. AgentTypeOK' /\ attempts' = attempts
    BY <1>1, <2>1, OnlyWorkTyped DEF MovesOn, CountEvents
  <2> QED BY <2>1, <2>2, MovedKnown
<1>2. CASE RecallFindings(w)
  <2>1. MovesOn(w, "starting") /\ ~At(w, {"idle"}) /\ work'[w].pending = {}
    BY <1>2, RecallingFindings DEF SaysNothingYet, RecallFindings, At, SaysNothing
  <2>2. AgentTypeOK' /\ attempts' = attempts
    BY <1>2, <2>1, OnlyWorkTyped DEF MovesOn, RecallFindings
  <2> QED BY <2>1, <2>2, MovedKnown
<1>3. CASE HoldBreaks(w) \/ Finish(w)
  <2>1. Rests(w) /\ OnlyWork
    BY <1>3, Resting DEF HoldBreaks, Finish
  <2>2. AgentTypeOK' /\ attempts' = attempts
    BY <2>1, OnlyWorkTyped DEF Rests
  <2> QED BY <2>1, <2>2, RestedKnown
<1>4. CASE Start(w) \/ Read(w) \/ Answer(w) \/ NeedsConfig(w) \/ Throw(w) \/ ConcludingBreaks(w)
  <2>1. PICK to \in Stage : QuietMove(w, to)
    BY <1>4, QuietMoves
  <2>2. OnlyWork
    BY <1>4 DEF Start, Read, Answer, NeedsConfig, Throw, ConcludingBreaks
  <2>3. AgentTypeOK' /\ attempts' = attempts
    BY <2>1, <2>2, OnlyWorkTyped DEF QuietMove, MovesOn
  <2> QED BY <2>1, <2>3, QuietMoveKnown
<1>5. CASE Save(w)
  <2>1. PICK to \in Stage : QuietMove(w, to)
    BY <1>5, QuietMoves
  <2> DEFINE j == work[w].job
  <2>2. j \in Job /\ work[w].attempt \in 1..attempts[j] /\ attempts[j] \in 0..MaxAttempts
    BY <1>5, DoingFields DEF Save, AttemptsCounted, At, AgentTypeOK
  <2>3. written' = [written EXCEPT ![j] = @ \cup {work[w].attempt}]
        /\ UNCHANGED <<jobVars, landed, gone, pool, lost, history>>
    BY <1>5 DEF Save
  <2>4. written' \in [Job -> SUBSET (1..MaxAttempts)] /\ \A i \in Job : written'[i] \subseteq 1..attempts[i]
    <3>1. work[w].attempt \in 1..MaxAttempts
      BY <2>2, LimitsAssumption
    <3> QED BY <2>2, <2>3, <3>1 DEF AgentTypeOK
  <2>5. AgentTypeOK' /\ attempts' = attempts
    BY <2>1, <2>3, <2>4 DEF AgentTypeOK, QuietMove, MovesOn, jobVars, history
  <2> QED BY <2>1, <2>5, QuietMoveKnown
<1>6. CASE SettleWork(w) \/ FailWork(w)
  <2>1. PICK to \in Stage : QuietMove(w, to)
    BY <1>6, QuietMoves
  <2>2. work[w].job \in Job
    BY <1>6, DoingFields DEF SettleWork, FailWork, Goto, AttemptsCounted, At
  <2>3. PICK outcome \in Settled : Conclude(w, outcome)
    BY <1>6 DEF SettleWork, FailWork, Settled
  <2>4. UNCHANGED <<kind, holder, attempts, landed, written, gone, pool, lost, presumed>>
        /\ ~At(w, {"idle"})
    BY <1>6 DEF SettleWork, FailWork, Goto, At
  <2>5. AgentTypeOK'
    BY <2>1, <2>2, <2>3, <2>4, Concluding DEF AgentTypeOK, QuietMove, MovesOn
  <2> QED BY <2>1, <2>4, <2>5, QuietMoveKnown
<1> QED BY <1>1, <1>2, <1>3, <1>4, <1>5, <1>6 DEF Attempt

\* A note that has landed, or was lost, is said.
LEMMA Landing ==
  ASSUME WorkTyped, NEW w \in Worker, NEW n \in work[w].pending, LandNote(w, n) \/ LoseNote(w, n)
  PROVE  /\ MovesOn(w, work[w].at) /\ work'[w].seq = work[w].seq
         /\ work'[w].resumed = work[w].resumed
         /\ work'[w].pending = work[w].pending \ {n}
         /\ n \in Note /\ work[w].job \in Job
         /\ ~At(w, {"idle", "counting", "recalling", "starting"})
<1> USE DEF WorkTyped
<1> DEFINE r == [work[w] EXCEPT !.pending = @ \ {n}]
<1>1. work[w] \in Doing /\ work \in [Worker -> Doing]
  BY DEF AgentTypeOK
<1>2. /\ r \in Doing /\ r.at = work[w].at /\ r.job = work[w].job /\ r.proc = work[w].proc
      /\ r.attempt = work[w].attempt /\ r.seq = work[w].seq /\ r.resumed = work[w].resumed
      /\ r.pending = work[w].pending \ {n}
  BY <1>1 DEF Doing
<1>3. work' = [work EXCEPT ![w] = r]
  BY DEF LandNote, LoseNote
<1> HIDE DEF r
<1>4. MovesOn(w, work[w].at) /\ work'[w].seq = work[w].seq /\ work'[w].resumed = work[w].resumed
      /\ work'[w].pending = work[w].pending \ {n}
  BY <1>1, <1>2, <1>3 DEF MovesOn
<1>5. ~At(w, {"idle", "counting", "recalling", "starting"})
  BY DEF SaysNothingYet
<1>6. n \in Note /\ work[w].job \in Job
  BY <1>5, DoingFields DEF AttemptsCounted, At
<1> QED BY <1>4, <1>5, <1>6

LEMMA InsertsTyped ==
  ASSUME WorkTyped, NEW w \in Worker, Inserts(w)
  PROVE  WorkTyped'
<1> USE DEF WorkTyped
<1>1. PICK n \in work[w].pending : LandNote(w, n) \/ LoseNote(w, n)
  BY DEF Inserts
<1>2. /\ MovesOn(w, work[w].at) /\ n \in Note /\ work[w].job \in Job
      /\ ~At(w, {"idle", "counting", "recalling", "starting"})
  BY <1>1, Landing
<1>3. AgentTypeOK'
  <2>1. CASE LandNote(w, n)
    <3> DEFINE j == work[w].job
    <3>1. landed' \in [Job -> SUBSET Note]
          /\ \A i \in Job : IsFiniteSet(landed'[i]) /\ \A k, m \in landed'[i] : k.seq = m.seq => k = m
      <4>1. CASE \E m \in landed[j] : m.seq = n.seq
        BY <2>1, <4>1 DEF LandNote, AgentTypeOK
      <4>2. CASE ~ \E m \in landed[j] : m.seq = n.seq
        <5>1. landed' = [landed EXCEPT ![j] = landed[j] \cup {n}]
          BY <2>1, <4>2 DEF LandNote
        <5>2. IsFiniteSet(landed[j] \cup {n})
          BY <1>2, FS_AddElement DEF AgentTypeOK
        <5> QED BY <1>2, <4>2, <5>1, <5>2 DEF AgentTypeOK
      <4> QED BY <4>1, <4>2
    <3> QED BY <1>2, <2>1, <3>1 DEF LandNote, AgentTypeOK, MovesOn, jobVars, history
  <2>2. CASE LoseNote(w, n)
    <3>1. lost' \in 0..MaxLost
      BY <2>2, LimitsAssumption DEF LoseNote, AgentTypeOK
    <3> QED BY <1>2, <2>2, <3>1 DEF LoseNote, AgentTypeOK, MovesOn, jobVars, history
  <2> QED BY <1>1, <2>1, <2>2
<1>4. attempts' = attempts
  BY <1>1 DEF LandNote, LoseNote, jobVars
<1>5. work[w].at # "idle" /\ work[w].at \notin {"counting", "recalling", "starting"}
  BY <1>2 DEF At
<1> QED BY <1>2, <1>3, <1>4, <1>5, MovedKnown DEF At

\* A process that dies takes its attempts with it.
LEMMA Dying ==
  ASSUME WorkTyped, NEW p \in Process, ProcessDies(p)
  PROVE  /\ work' \in [Worker -> Doing]
         /\ \A w \in Worker : work'[w] = work[w] \/ work'[w] = Idle
BY IdleIsDoing DEF WorkTyped, AgentTypeOK, ProcessDies

LEMMA DiesTyped ==
  ASSUME WorkTyped, NEW p \in Process, ProcessDies(p)
  PROVE  WorkTyped'
<1> USE DEF WorkTyped
<1>1. AgentTypeOK' /\ attempts' = attempts
  BY Dying DEF AgentTypeOK, ProcessDies, jobVars, history
<1>2. AttemptsCounted' /\ SaysNothingYet'
  BY <1>1, Dying, IdleIsDoing DEF AttemptsCounted, SaysNothingYet, At
<1> QED BY <1>1, <1>2

LEMMA TypesKept ==
  ASSUME WorkTyped, [WorkNext]_workVars
  PROVE  WorkTyped'
<1>1. CASE WorkNext
  BY <1>1, AskTyped, HoldTyped, ReapTyped, SilentTyped, AttemptTyped, InsertsTyped, DiesTyped
     DEF WorkNext, Resume
<1>2. CASE UNCHANGED workVars
  BY <1>2 DEF workVars, jobVars, history, WorkTyped, AgentTypeOK, AttemptsCounted, SaysNothingYet, At
<1> QED BY <1>1, <1>2

-----------------------------------------------------------------------------
(* AgentWork: one attempt at a time, unless a living one was presumed dead. *)

\* A statement of one attempt says nothing of the jobs the others are heard at.
LEMMA HeardElsewhere ==
  ASSUME WorkInv, NEW w \in Worker, ~At(w, {"idle"}), NEW v \in Worker, v # w, Heard(v)
  PROVE  work[w].job \in Job /\ work[v].job \in Job /\ work[v].job # work[w].job
BY DoingFields DEF WorkInv, Orderly, WorkTyped, HeardAlone, AttemptsCounted, Heard, At

\* Attempts move on alone.
LEMMA MovedAlone ==
  ASSUME WorkInv, NEW w \in Worker, NEW to, to # "idle", ~At(w, {"idle"}), MovesOn(w, to),
         presumed' = presumed
  PROVE  /\ HeardAlone' /\ (Heard(w)' <=> Heard(w))
         /\ \A v \in Worker : v # w => (Heard(v)' <=> Heard(v))
<1>1. /\ work'[w].job = work[w].job /\ work'[w].at # "idle" /\ work[w].at # "idle"
      /\ \A v \in Worker : v # w => work'[v] = work[v]
  BY DEF MovesOn, At
<1>2. (Heard(w)' <=> Heard(w)) /\ \A v \in Worker : v # w => (Heard(v)' <=> Heard(v))
  BY <1>1 DEF Heard, At
<1>3. \A v \in Worker : (Heard(v)' <=> Heard(v)) /\ work'[v].job = work[v].job
  BY <1>1, <1>2
<1> QED BY <1>2, <1>3 DEF WorkInv, Orderly, HeardAlone

LEMMA ContinuesOn ==
  ASSUME WorkInv, NEW w \in Worker, NEW to, QuietMove(w, to), Continues(w), landed' = landed
  PROVE  Continues(w)'
<1> DEFINE said == Cardinality(landed[work[w].job])
<1>1. said \in Nat /\ work[w].seq \in Nat
  <2>1. work[w].job \in Job
    BY DoingFields DEF WorkInv, WorkTyped, QuietMove, AttemptsCounted, At
  <2> QED BY <2>1, DoingFields, FS_CardinalityType DEF WorkInv, WorkTyped, AgentTypeOK
<1>2. said = Cardinality(landed'[work'[w].job]) /\ work'[w].attempt = work[w].attempt
  BY DEF QuietMove, MovesOn
<1>3. \A n \in work[w].pending : n.seq \in Nat
  BY DoingFields DEF WorkInv, WorkTyped, Note
<1>4. /\ \A n \in work[w].pending : n.seq > said /\ n.attempt = work[w].attempt
      /\ \A s \in (said + 1)..work[w].seq : \E n \in work[w].pending : n.seq = s
      /\ \A n \in work[w].pending : n.seq <= work[w].seq
      /\ \A m, n \in work[w].pending : m.seq = n.seq => m = n
      /\ said <= work[w].seq
  BY DEF Continues
<1> HIDE DEF said
<1>5. CASE SaysNothing(w)
  BY <1>2, <1>4, <1>5 DEF Continues, SaysNothing
<1>6. ASSUME NEW type, Says(w, type) PROVE Continues(w)'
  <2>1. PICK n \in Note : /\ n.seq = work[w].seq + 1 /\ n.attempt = work[w].attempt
                          /\ work'[w].pending = work[w].pending \cup {n}
    BY <1>6 DEF Says
  <2>2. work'[w].seq = work[w].seq + 1
    BY <1>6 DEF Says
  <2>3. \A m \in work'[w].pending : m.seq > said /\ m.attempt = work[w].attempt /\ m.seq <= work'[w].seq
    BY <1>1, <1>3, <1>4, <2>1, <2>2
  <2>4. \A s \in (said + 1)..work'[w].seq : \E m \in work'[w].pending : m.seq = s
    <3> SUFFICES ASSUME NEW s \in (said + 1)..work'[w].seq PROVE \E m \in work'[w].pending : m.seq = s
      OBVIOUS
    <3>1. CASE s = work[w].seq + 1
      BY <2>1, <3>1
    <3>2. CASE s # work[w].seq + 1
      <4>1. s \in (said + 1)..work[w].seq
        BY <1>1, <2>2, <3>2
      <4> QED BY <1>4, <2>1, <4>1
    <3> QED BY <3>1, <3>2
  <2>5. \A k, m \in work'[w].pending : k.seq = m.seq => k = m
    BY <1>1, <1>3, <1>4, <2>1
  <2>6. said <= work'[w].seq
    BY <1>1, <1>4, <2>2
  <2> QED BY <1>2, <2>3, <2>4, <2>5, <2>6 DEF Continues
<1> QED BY <1>5, <1>6 DEF QuietMove

\* What the others are at does not change under a step that is not about their jobs.
LEMMA OthersContinue ==
  ASSUME NEW v \in Worker, work'[v] = work[v], Continues(v),
         landed'[work[v].job] = landed[work[v].job]
  PROVE  Continues(v)'
BY DEF Continues

LEMMA QuietOrderly ==
  ASSUME WorkInv, NEW w \in Worker, NEW to, QuietMove(w, to),
         UNCHANGED <<jobVars, landed, pool, lost, presumed>>,
         Heard(w) /\ to = "reading" /\ IsDraft(w) => /\ ~Findings(landed[work[w].job])
                                                     /\ ~Findings(work'[w].pending)
  PROVE  Orderly'
<1> USE DEF WorkInv, Orderly, QuietMove, jobVars
<1>0. to # "idle" /\ ~At(w, {"idle"})
  BY DEF At
<1>1. HeardAlone' /\ \A v \in Worker : (Heard(v)' <=> Heard(v))
  BY <1>0, MovedAlone
<1>2. Heard(w) => status[work[w].job] = "claimed"
  BY DEF TheLeaseIsKept, At
<1>3. JobsAreTaken' /\ TheLeaseIsKept' /\ ConcludedIsTold'
  BY <1>0, <1>1, <1>2 DEF JobsAreTaken, TheLeaseIsKept, ConcludedIsTold, MovesOn, At
<1>4. ReadsForTheFirstTime'
  BY <1>1 DEF ReadsForTheFirstTime, MovesOn, At, IsDraft
<1>5. TranscriptsGrow'
  <2> SUFFICES ASSUME pool = "one", lost = 0
               PROVE  /\ \A j \in Job \ presumed : InOrder(j)'
                      /\ \A v \in Worker : Heard(v) /\ ~At(v, {"counting"})' => Continues(v)'
    BY <1>1 DEF TranscriptsGrow
  <2>1. /\ \A j \in Job \ presumed : InOrder(j)
        /\ \A v \in Worker : Heard(v) /\ ~At(v, {"counting"}) => Continues(v)
    BY DEF TranscriptsGrow
  <2>2. Heard(w) => Continues(w)'
    BY <2>1, ContinuesOn DEF At
  <2>3. ASSUME NEW v \in Worker, v # w, Heard(v), ~At(v, {"counting"})' PROVE Continues(v)'
    BY <2>1, <2>3, OthersContinue DEF MovesOn, At
  <2> QED BY <2>1, <2>2, <2>3 DEF InOrder
<1> QED BY <1>1, <1>3, <1>4, <1>5

LEMMA ConcludedOrderly ==
  ASSUME WorkInv, NEW w \in Worker, NEW outcome \in Settled, MovesOn(w, "barrier"), SaysNothing(w),
         ~At(w, {"idle", "counting", "recalling", "barrier"}), Sent(w), Conclude(w, outcome),
         UNCHANGED <<kind, holder, attempts, landed, pool, lost, presumed>>
  PROVE  Orderly'
<1> USE DEF WorkInv, Orderly
<1>0. ~At(w, {"idle"}) /\ work[w].job \in Job
  BY DoingFields DEF At, WorkTyped, AttemptsCounted
<1>1. HeardAlone' /\ \A v \in Worker : (Heard(v)' <=> Heard(v))
  BY <1>0, MovedAlone
<1>2. \A v \in Worker : v # w /\ Heard(v) => work[v].job # work[w].job /\ work[v].job \in Job
  BY <1>0, HeardElsewhere
<1>3. /\ status'[work[w].job] \in {status[work[w].job], outcome}
      /\ \A j \in Job : j # work[w].job => status'[j] = status[j]
  BY <1>0, Concluding
<1>4. JobsAreTaken'
  <2>1. ASSUME NEW v \in Worker, ~At(v, {"idle"}) PROVE status'[work[v].job] \notin {"none", "pending"}
    <3>1. work[v].job \in Job /\ status[work[v].job] \notin {"none", "pending"}
      BY <2>1, DoingFields DEF JobsAreTaken, WorkTyped, AttemptsCounted
    <3> QED BY <1>3, <3>1 DEF Settled
  <2> QED BY <1>0, <2>1 DEF JobsAreTaken, MovesOn, At
<1>5. TheLeaseIsKept'
  <2>1. \A v \in Worker : v # w /\ Heard(v) => status'[work[v].job] = status[work[v].job]
    BY <1>2, <1>3
  <2> QED BY <1>1, <2>1 DEF TheLeaseIsKept, MovesOn, At
<1>6. ConcludedIsTold'
  <2>1. pool = "one" => work'[w].pending = {}
    BY DEF Sent, SaysNothing
  <2>2. \A v \in Worker : v # w /\ Heard(v) => status'[work[v].job] = status[work[v].job]
    BY <1>2, <1>3
  <2> QED BY <1>1, <2>1, <2>2 DEF ConcludedIsTold, MovesOn, At
<1>7. ReadsForTheFirstTime'
  BY <1>1 DEF ReadsForTheFirstTime, MovesOn, At, IsDraft
<1>8. TranscriptsGrow'
  <2>1. QuietMove(w, "barrier")
    BY DEF QuietMove
  <2> SUFFICES ASSUME pool = "one", lost = 0
               PROVE  /\ \A j \in Job \ presumed : InOrder(j)'
                      /\ \A v \in Worker : Heard(v) /\ ~At(v, {"counting"})' => Continues(v)'
    BY <1>1 DEF TranscriptsGrow
  <2>2. /\ \A j \in Job \ presumed : InOrder(j)
        /\ \A v \in Worker : Heard(v) /\ ~At(v, {"counting"}) => Continues(v)
    BY DEF TranscriptsGrow
  <2>3. Heard(w) => Continues(w)'
    BY <2>1, <2>2, ContinuesOn DEF At
  <2>4. ASSUME NEW v \in Worker, v # w, Heard(v), ~At(v, {"counting"})' PROVE Continues(v)'
    BY <2>2, <2>4, OthersContinue DEF MovesOn, At
  <2> QED BY <2>2, <2>3, <2>4 DEF InOrder
<1> QED BY <1>1, <1>4, <1>5, <1>6, <1>7, <1>8

\* Steps that leave every attempt as it is or at rest.
LEMMA RestedOrderly ==
  ASSUME WorkInv, work' \in [Worker -> Doing],
         \A v \in Worker : work'[v] = work[v] \/ work'[v] = Idle,
         UNCHANGED <<kind, holder, attempts, landed, pool, lost>>,
         presumed \subseteq presumed',
         \A v \in Worker : ~At(v, {"idle"}) => status'[work[v].job] \notin {"none", "pending"},
         \A v \in Worker : Heard(v)' => status'[work[v].job] = status[work[v].job]
  PROVE  Orderly'
<1> USE DEF WorkInv, Orderly
<1>1. \A v \in Worker : Heard(v)' => Heard(v) /\ work'[v] = work[v]
  BY IdleIsDoing DEF Heard, At
<1>2. \A v \in Worker : ~At(v, {"idle"})' => ~At(v, {"idle"}) /\ work'[v] = work[v]
  BY IdleIsDoing DEF At
<1>3. JobsAreTaken'
  BY <1>2 DEF JobsAreTaken, At
<1>4. HeardAlone'
  <2>1. ASSUME NEW v \in Worker, NEW w \in Worker, v # w, Heard(w)' PROVE work'[v].job # work'[w].job
    <3>1. Heard(w) /\ work'[w] = work[w] /\ work[w].job # NoJob
      BY <1>1, <2>1, JobAssumption DEF WorkTyped, AttemptsCounted, Heard, At
    <3>2. CASE work'[v] = Idle
      BY <3>1, <3>2, IdleIsDoing
    <3>3. CASE work'[v] = work[v]
      BY <2>1, <3>1, <3>3 DEF HeardAlone
    <3> QED BY <3>2, <3>3
  <2> QED BY <2>1 DEF HeardAlone
<1>5. TheLeaseIsKept' /\ ReadsForTheFirstTime' /\ ConcludedIsTold'
  BY <1>1 DEF TheLeaseIsKept, ReadsForTheFirstTime, ConcludedIsTold, At, IsDraft
<1>6. TranscriptsGrow'
  BY <1>1 DEF TranscriptsGrow, InOrder, Continues, At
<1> QED BY <1>3, <1>4, <1>5, <1>6

LEMMA CountOrderly ==
  ASSUME WorkInv, NEW w \in Worker, CountEvents(w)
  PROVE  Orderly'
<1> USE DEF WorkInv, Orderly, OnlyWork, jobVars, history
<1>0. UNCHANGED <<kind, status, holder, attempts, landed, pool, lost, presumed>>
  BY DEF CountEvents
<1>1. MovesOn(w, "recalling") /\ work'[w].seq = Cardinality(landed[work[w].job]) /\ work'[w].pending = {}
      /\ ~At(w, {"idle"}) /\ ~At(w, {"barrier"})
  BY CountingEvents DEF SaysNothingYet, CountEvents, At, WorkTyped
<1>2. HeardAlone' /\ \A v \in Worker : (Heard(v)' <=> Heard(v))
  BY <1>0, <1>1, MovedAlone
<1>3. JobsAreTaken' /\ TheLeaseIsKept' /\ ReadsForTheFirstTime' /\ ConcludedIsTold'
  BY <1>0, <1>1, <1>2 DEF JobsAreTaken, TheLeaseIsKept, ReadsForTheFirstTime, ConcludedIsTold, MovesOn, At,
     IsDraft
<1>4. TranscriptsGrow'
  <2> SUFFICES ASSUME pool = "one", lost = 0
               PROVE  /\ \A j \in Job \ presumed : InOrder(j)'
                      /\ \A v \in Worker : Heard(v) /\ ~At(v, {"counting"})' => Continues(v)'
    BY <1>0, <1>2 DEF TranscriptsGrow
  <2>1. /\ \A j \in Job \ presumed : InOrder(j)
        /\ \A v \in Worker : Heard(v) /\ ~At(v, {"counting"}) => Continues(v)
    BY DEF TranscriptsGrow
  <2>2. Continues(w)'
    <3>1. Cardinality(landed[work[w].job]) \in Nat
      BY CountingEvents, DoingFields, FS_CardinalityType DEF WorkTyped, AttemptsCounted, AgentTypeOK
    <3> QED BY <1>0, <1>1, <3>1 DEF Continues, MovesOn
  <2>3. ASSUME NEW v \in Worker, v # w, Heard(v), ~At(v, {"counting"})' PROVE Continues(v)'
    BY <1>0, <1>1, <2>1, <2>3, OthersContinue DEF MovesOn, At
  <2> QED BY <1>0, <2>1, <2>2, <2>3 DEF InOrder
<1> QED BY <1>2, <1>3, <1>4

LEMMA RecallOrderly ==
  ASSUME WorkInv, NEW w \in Worker, RecallFindings(w)
  PROVE  Orderly'
<1> USE DEF WorkInv, Orderly, OnlyWork, jobVars, history
<1>1. MovesOn(w, "starting") /\ SaysNothing(w) /\ ~At(w, {"idle"}) /\ ~At(w, {"counting"}) /\ ~At(w, {"barrier"})
      /\ (work'[w].resumed <=> Findings(landed[work[w].job]))
      /\ UNCHANGED <<kind, status, holder, attempts, landed, pool, lost, presumed>>
  BY RecallingFindings DEF RecallFindings, At, WorkTyped
<1>2. HeardAlone' /\ \A v \in Worker : (Heard(v)' <=> Heard(v))
  BY <1>1, MovedAlone
<1>3. JobsAreTaken' /\ TheLeaseIsKept' /\ ReadsForTheFirstTime' /\ ConcludedIsTold'
  BY <1>1, <1>2 DEF JobsAreTaken, TheLeaseIsKept, ReadsForTheFirstTime, ConcludedIsTold, MovesOn, At, IsDraft
<1>4. TranscriptsGrow'
  BY <1>1, <1>2 DEF TranscriptsGrow, InOrder, Continues, MovesOn, SaysNothing, At
<1> QED BY <1>2, <1>3, <1>4

LEMMA AttemptOrderly ==
  ASSUME WorkInv, NEW w \in Worker, Attempt(w)
  PROVE  Orderly'
<1>0. WorkTyped
  BY DEF WorkInv
<1>1. CASE HoldBreaks(w) \/ Finish(w)
  <2>1. Rests(w) /\ OnlyWork
    BY <1>0, <1>1, Resting DEF HoldBreaks, Finish, WorkTyped
  <2>2. /\ UNCHANGED <<kind, status, holder, attempts, landed, pool, lost, presumed>>
        /\ work' \in [Worker -> Doing] /\ \A v \in Worker : work'[v] = work[v] \/ work'[v] = Idle
    BY <2>1 DEF Rests, OnlyWork, jobVars, history
  <2>3. \A v \in Worker : ~At(v, {"idle"}) => status'[work[v].job] \notin {"none", "pending"}
    BY <2>2 DEF WorkInv, Orderly, JobsAreTaken
  <2> QED BY <2>2, <2>3, RestedOrderly
<1>2. CASE Start(w)
  <2>1. PICK to \in {"reading", "saving"} : /\ MovesOn(w, to) /\ Says(w, "note")
                                             /\ (to = "reading" /\ IsDraft(w) => ~work[w].resumed)
    BY <1>0, <1>2, StartMoves
  <2>2. At(w, {"starting"}) /\ OnlyWork
    BY <1>2 DEF Start, At
  <2>3. QuietMove(w, to)
    BY <2>1, <2>2 DEF QuietMove, At
  <2>4. Heard(w) /\ to = "reading" /\ IsDraft(w) =>
          ~Findings(landed[work[w].job]) /\ ~Findings(work'[w].pending)
    <3>1. work[w].pending = {}
      BY <1>0, <2>2 DEF WorkTyped, SaysNothingYet, At
    <3>2. ~Findings(work'[w].pending)
      BY <2>1, <3>1 DEF Says, Findings
    <3>3. Heard(w) /\ ~work[w].resumed => ~Findings(landed[work[w].job])
      BY <2>2 DEF WorkInv, Orderly, ReadsForTheFirstTime
    <3> QED BY <2>1, <3>2, <3>3
  <2> QED BY <2>2, <2>3, <2>4, QuietOrderly DEF OnlyWork, jobVars, history
<1>3. CASE Read(w) \/ Answer(w) \/ Save(w) \/ NeedsConfig(w) \/ Throw(w) \/ ConcludingBreaks(w)
  <2>2. PICK to \in Stage \ {"reading"} : QuietMove(w, to)
    BY <1>0, <1>3, LaterMoves
  <2>3. UNCHANGED <<jobVars, landed, pool, lost, presumed>>
    BY <1>3 DEF Read, Answer, Save, NeedsConfig, Throw, ConcludingBreaks, OnlyWork, jobVars, history
  <2> QED BY <2>2, <2>3, QuietOrderly
<1>4. CASE SettleWork(w) \/ FailWork(w)
  <2>1. PICK outcome \in Settled : Conclude(w, outcome)
    BY <1>4 DEF SettleWork, FailWork, Settled
  <2>2. /\ MovesOn(w, "barrier") /\ SaysNothing(w) /\ Sent(w)
        /\ ~At(w, {"idle", "counting", "recalling", "barrier"})
        /\ UNCHANGED <<kind, holder, attempts, landed, pool, lost, presumed>>
    <3>1. work' = [work EXCEPT ![w].at = "barrier"] /\ "barrier" \in Stage
      BY <1>4 DEF SettleWork, FailWork, Goto, Stage
    <3> QED BY <1>0, <1>4, <3>1, Going DEF SettleWork, FailWork, Goto, At, WorkTyped
  <2> QED BY <2>1, <2>2, ConcludedOrderly
<1> QED BY <1>1, <1>2, <1>3, <1>4, CountOrderly, RecallOrderly DEF Attempt

\* On one connection the next note to land is the next of the transcript.
LEMMA NextIsNext ==
  ASSUME WorkInv, NEW w \in Worker, NEW n \in work[w].pending, LandNote(w, n), pool = "one",
         Continues(w), InOrder(work[w].job)
  PROVE  LET j == work[w].job
         IN  /\ landed'[j] = landed[j] \cup {n} /\ \A i \in Job : i # j => landed'[i] = landed[i]
             /\ n.seq = Cardinality(landed[j]) + 1
             /\ Cardinality(landed'[j]) = Cardinality(landed[j]) + 1
             /\ Cardinality(landed[j]) \in Nat
<1> DEFINE j == work[w].job
           said == Cardinality(landed[j])
<1>1. j \in Job /\ n \in Note
  BY Landing DEF WorkInv
<1>2. IsFiniteSet(landed[j]) /\ said \in Nat /\ work[w].seq \in Nat /\ landed \in [Job -> SUBSET Note]
  BY <1>1, DoingFields, FS_CardinalityType DEF WorkInv, WorkTyped, AgentTypeOK
<1>3. n.seq \in Nat /\ n.seq > said /\ n.seq <= work[w].seq
  BY <1>1 DEF Continues, Note
<1> HIDE DEF said
<1>4. n.seq = said + 1
  <2>1. said + 1 \in (said + 1)..work[w].seq
    BY <1>2, <1>3
  <2>2. PICK m \in work[w].pending : m.seq = said + 1
    BY <2>1 DEF Continues, said
  <2>3. n.seq <= m.seq
    BY DEF LandNote, IsNext
  <2> QED BY <1>2, <1>3, <2>2, <2>3
<1>5. \A m \in landed[j] : m.seq # n.seq
  <2>1. \A m \in landed[j] : m.seq <= said /\ m.seq \in Nat
    BY <1>1, <1>2 DEF InOrder, said, Note
  <2> QED BY <1>2, <1>4, <2>1
<1>6. landed' = [landed EXCEPT ![j] = landed[j] \cup {n}]
  BY <1>5 DEF LandNote
<1>7. n \notin landed[j]
  BY <1>5
<1>8. Cardinality(landed[j] \cup {n}) = said + 1
  BY <1>2, <1>7, FS_AddElement DEF said
<1> QED BY <1>1, <1>2, <1>4, <1>6, <1>8 DEF said

LEMMA HeardInOrder ==
  ASSUME WorkInv, NEW w \in Worker, NEW n \in work[w].pending, LandNote(w, n), pool = "one", lost = 0,
         Heard(w)
  PROVE  (\A i \in Job : i = work[w].job => InOrder(i)') /\ Continues(w)'
<1> USE DEF WorkInv, Orderly
<1>1. PICK j \in Job : j = work[w].job
  BY Landing
<1> DEFINE said == Cardinality(landed[j])
<1>2. InOrder(j) /\ Continues(w) /\ attempts' = attempts
  BY <1>1, Landing DEF TranscriptsGrow, Heard, At, LandNote, jobVars
<1>3. /\ MovesOn(w, work[w].at) /\ work'[w].seq = work[w].seq /\ work'[w].pending = work[w].pending \ {n}
      /\ n \in Note /\ j \in Job
  BY <1>1, Landing
<1>4. /\ landed'[j] = landed[j] \cup {n} /\ \A i \in Job : i # j => landed'[i] = landed[i]
      /\ n.seq = said + 1 /\ Cardinality(landed'[j]) = said + 1 /\ said \in Nat
  BY <1>2, <1>3, <1>1, NextIsNext
<1>6. n.attempt = attempts[j] /\ attempts[j] \in Nat
  BY <1>2, <1>3, <1>1 DEF Continues, TheLeaseIsKept, Heard, At, WorkTyped, AgentTypeOK
<1> HIDE DEF said
<1>7. Cardinality(landed[j])' = said + 1
  BY <1>4
<1>8. InOrder(j)'
  <2>1. \A m \in landed[j] : m.seq <= said /\ m.attempt <= attempts[j] /\ m.seq \in Nat /\ m.attempt \in Nat
    <3>1. \A m \in landed[j] : m \in Note
      BY <1>3 DEF WorkTyped, AgentTypeOK
    <3> QED BY <1>2, <1>3, <3>1 DEF InOrder, said, Note
  <2>2. \A k, m \in landed[j] : k.attempt < m.attempt => k.seq < m.seq
    BY <1>2, <1>3 DEF InOrder
  <2>3. \A m \in landed'[j] : m.seq <= said + 1 /\ m.attempt <= attempts[j]
    BY <1>4, <1>6, <2>1
  <2>4. \A k, m \in landed'[j] : k.attempt < m.attempt => k.seq < m.seq
    BY <1>4, <1>6, <2>1, <2>2
  <2> QED BY <1>2, <1>4, <2>3, <2>4 DEF InOrder
<1>10. Continues(w)'
  <2>1. /\ \A m \in work[w].pending : m.seq > said /\ m.attempt = work[w].attempt
        /\ \A s \in (said + 1)..work[w].seq : \E m \in work[w].pending : m.seq = s
        /\ \A m \in work[w].pending : m.seq <= work[w].seq
        /\ \A k, m \in work[w].pending : k.seq = m.seq => k = m
    BY <1>2, <1>3, <1>1 DEF Continues, said
  <2>2. work[w].seq \in Nat /\ \A m \in work[w].pending : m.seq \in Nat
    BY DoingFields DEF WorkTyped, Note
  <2>3. \A m \in work'[w].pending : m.seq > said + 1
    BY <1>3, <1>4, <2>1, <2>2
  <2>4. \A s \in (said + 1 + 1)..work[w].seq : \E m \in work'[w].pending : m.seq = s
    <3> SUFFICES ASSUME NEW s \in (said + 1 + 1)..work[w].seq PROVE \E m \in work'[w].pending : m.seq = s
      OBVIOUS
    <3>1. s \in (said + 1)..work[w].seq /\ s # said + 1
      BY <1>4, <2>2
    <3>2. PICK m \in work[w].pending : m.seq = s
      BY <2>1, <3>1
    <3> QED BY <1>3, <1>4, <3>1, <3>2
  <2>5. said + 1 <= work[w].seq
    BY <1>4, <2>1
  <2>6. work'[w].job = j /\ work'[w].attempt = work[w].attempt
    BY <1>3, <1>1 DEF MovesOn
  <2>7. Cardinality(landed'[work'[w].job]) = said + 1
    BY <1>4, <2>6
  <2>8. /\ \A m \in work'[w].pending : m.attempt = work'[w].attempt /\ m.seq <= work'[w].seq
        /\ \A k, m \in work'[w].pending : k.seq = m.seq => k = m
    BY <1>3, <2>1, <2>6
  <2>9. work'[w].seq = work[w].seq
    BY <1>3
  <2> HIDE DEF WorkInv, Orderly
  <2> QED BY <2>3, <2>4, <2>5, <2>7, <2>8, <2>9 DEF Continues
<1> QED BY <1>1, <1>8, <1>10

LEMMA LandedInOrder ==
  ASSUME WorkInv, NEW w \in Worker, NEW n \in work[w].pending, LandNote(w, n), pool = "one", lost = 0
  PROVE  TranscriptsGrow'
<1> USE DEF WorkInv, Orderly
<1>1. /\ ~At(w, {"idle"}) /\ ~At(w, {"counting"}) /\ MovesOn(w, work[w].at) /\ work[w].at # "idle"
      /\ work[w].job \in Job /\ UNCHANGED <<attempts, pool, lost, presumed>>
  BY Landing DEF At, LandNote, jobVars, history
<1>2. \A v \in Worker : (Heard(v)' <=> Heard(v))
  BY <1>1, MovedAlone
<1>3. /\ \A i \in Job \ presumed : InOrder(i)
      /\ \A v \in Worker : Heard(v) /\ ~At(v, {"counting"}) => Continues(v)
  BY DEF TranscriptsGrow
<1>4. \A i \in Job : i # work[w].job => landed'[i] = landed[i]
  BY <1>1 DEF LandNote, WorkTyped, AgentTypeOK
<1>5. ASSUME NEW i \in Job \ presumed PROVE InOrder(i)'
  <2>1. CASE i = work[w].job
    BY <1>1, <1>5, <2>1, HeardInOrder DEF Heard
  <2>2. CASE i # work[w].job
    BY <1>1, <1>3, <1>4, <2>2 DEF InOrder
  <2> QED BY <2>1, <2>2
<1>6. ASSUME NEW v \in Worker, Heard(v), ~At(v, {"counting"})' PROVE Continues(v)'
  <2>1. CASE v = w
    BY <1>6, <2>1, HeardInOrder
  <2>2. CASE v # w
    <3>1. work'[v] = work[v] /\ ~At(v, {"counting"})
      BY <1>1, <1>6, <2>2 DEF MovesOn, At
    <3>2. work[v].job \in Job /\ work[v].job # work[w].job
      BY <1>1, <1>6, <2>2, HeardElsewhere
    <3> QED BY <1>3, <1>4, <1>6, <3>1, <3>2, OthersContinue
  <2> QED BY <2>1, <2>2
<1> QED BY <1>1, <1>2, <1>5, <1>6 DEF TranscriptsGrow

LEMMA InsertsOrderly ==
  ASSUME WorkInv, NEW w \in Worker, Inserts(w)
  PROVE  Orderly'
<1> USE DEF WorkInv, Orderly
<1>1. PICK n \in work[w].pending : LandNote(w, n) \/ LoseNote(w, n)
  BY DEF Inserts
<1>2. /\ MovesOn(w, work[w].at) /\ work'[w].pending = work[w].pending \ {n}
      /\ n \in Note /\ work[w].job \in Job /\ work[w].at # "idle"
      /\ ~At(w, {"idle"}) /\ ~At(w, {"starting"})
  BY <1>1, Landing DEF At
<1>3. UNCHANGED <<kind, status, holder, attempts, pool, presumed>>
  BY <1>1 DEF LandNote, LoseNote, jobVars, history
<1>4. HeardAlone' /\ \A v \in Worker : (Heard(v)' <=> Heard(v))
  BY <1>2, <1>3, MovedAlone
<1>5. JobsAreTaken' /\ TheLeaseIsKept' /\ ConcludedIsTold'
  BY <1>2, <1>3, <1>4 DEF JobsAreTaken, TheLeaseIsKept, ConcludedIsTold, MovesOn, At
<1>6. ReadsForTheFirstTime'
  <2>1. \A i \in Job : i # work[w].job => landed'[i] = landed[i]
    BY <1>1, <1>2 DEF LandNote, LoseNote, WorkTyped, AgentTypeOK
  <2>2. landed'[work[w].job] \subseteq landed[work[w].job] \cup {n}
    BY <1>1, <1>2 DEF LandNote, LoseNote, WorkTyped, AgentTypeOK
  <2>3. Heard(w) /\ At(w, {"reading"}) /\ IsDraft(w) =>
          ~Findings(landed'[work[w].job]) /\ ~Findings(work'[w].pending)
    BY <1>2, <2>2 DEF ReadsForTheFirstTime, Findings
  <2>4. \A v \in Worker : v # w /\ Heard(v) => landed'[work[v].job] = landed[work[v].job]
    BY <1>2, <2>1, HeardElsewhere
  <2>5. IsDraft(w)' = IsDraft(w) /\ work'[w].at = work[w].at /\ work'[w].job = work[w].job
    BY <1>2, <1>3 DEF MovesOn, IsDraft
  <2>6. \A v \in Worker : v # w => work'[v] = work[v] /\ IsDraft(v)' = IsDraft(v)
    BY <1>2, <1>3 DEF MovesOn, IsDraft
  <2>7. /\ ~At(w, {"starting"})'
        /\ Heard(w) /\ At(w, {"reading"})' /\ IsDraft(w)' => /\ ~Findings(landed'[work'[w].job])
                                                             /\ ~Findings(work'[w].pending)
    BY <1>2, <2>3, <2>5 DEF At
  <2>8. ASSUME NEW v \in Worker, v # w, Heard(v)
        PROVE  /\ At(v, {"starting"})' => (work'[v].resumed <=> Findings(landed'[work'[v].job]))
               /\ At(v, {"reading"})' /\ IsDraft(v)' => /\ ~Findings(landed'[work'[v].job])
                                                        /\ ~Findings(work'[v].pending)
    BY <2>4, <2>6, <2>8 DEF ReadsForTheFirstTime, At
  <2> QED BY <1>4, <2>7, <2>8 DEF ReadsForTheFirstTime, Findings
<1>7. TranscriptsGrow'
  <2>1. CASE LandNote(w, n) /\ pool = "one" /\ lost = 0
    BY <2>1, LandedInOrder
  <2>2. CASE LoseNote(w, n)
    <3>1. lost' # 0
      BY <2>2 DEF LoseNote, WorkTyped, AgentTypeOK
    <3> QED BY <3>1 DEF TranscriptsGrow
  <2>3. CASE LandNote(w, n) /\ ~(pool = "one" /\ lost = 0)
    BY <2>3 DEF TranscriptsGrow, LandNote
  <2> QED BY <1>1, <2>1, <2>2, <2>3
<1> QED BY <1>4, <1>5, <1>6, <1>7

LEMMA AskOrderly ==
  ASSUME WorkInv, NEW j \in Job, NEW type \in Kind, Ask(j, type)
  PROVE  Orderly'
<1> USE DEF WorkInv, Orderly
<1>1. \A v \in Worker : ~At(v, {"idle"}) => work[v].job # j
  BY DEF JobsAreTaken, Ask
<1>2. \A v \in Worker : ~At(v, {"idle"}) =>
        kind'[work[v].job] = kind[work[v].job] /\ status'[work[v].job] = status[work[v].job]
  BY <1>1, DoingFields DEF Ask, WorkTyped, AttemptsCounted, AgentTypeOK
<1>3. UNCHANGED <<holder, attempts, landed, work, pool, lost, presumed>>
  BY DEF Ask, history
<1>4. JobsAreTaken' /\ HeardAlone' /\ TheLeaseIsKept' /\ ConcludedIsTold'
  BY <1>2, <1>3 DEF JobsAreTaken, HeardAlone, TheLeaseIsKept, ConcludedIsTold, Heard, At
<1>5. ReadsForTheFirstTime' /\ TranscriptsGrow'
  BY <1>2, <1>3 DEF ReadsForTheFirstTime, TranscriptsGrow, InOrder, Continues, Heard, At, IsDraft
<1> QED BY <1>4, <1>5

\* A job that is taken is not attended, or is presumed dead from now on.
LEMMA TakenAlone ==
  ASSUME WorkInv, NEW w \in Worker, NEW p \in Process, NEW j \in Job, Hold(w, p, j)
  PROVE  /\ presumed \subseteq presumed' /\ \A i \in Job : i # j /\ i \notin presumed => i \notin presumed'
         /\ j \in presumed' \/ \A v \in Worker : work[v].job # j
<1>1. CASE j \in silent
  BY <1>1 DEF Hold, Alive, Attending
<1>2. CASE j \notin silent
  <2>1. status[j] = "pending" /\ presumed' = presumed
    BY <1>2 DEF Hold, Takeable, Alive
  <2>2. \A v \in Worker : work[v].job # j
    BY <2>1, JobAssumption DEF WorkInv, Orderly, JobsAreTaken, WorkTyped, AttemptsCounted, At
  <2> QED BY <2>1, <2>2
<1> QED BY <1>1, <1>2

LEMMA HoldOrderly ==
  ASSUME WorkInv, NEW w \in Worker, NEW p \in Process, NEW j \in Job, Hold(w, p, j)
  PROVE  Orderly'
<1> USE DEF WorkInv, Orderly
<1>1. /\ presumed \subseteq presumed' /\ \A i \in Job : i # j /\ i \notin presumed => i \notin presumed'
      /\ j \in presumed' \/ \A v \in Worker : work[v].job # j
  BY TakenAlone
<1>2. /\ \A v \in Worker : v # w => work'[v] = work[v]
      /\ work'[w].at = "counting" /\ work'[w].proc = p /\ work'[w].job = j
      /\ work'[w].attempt = attempts[j] + 1
      /\ attempts'[j] = attempts[j] + 1 /\ \A i \in Job : i # j => attempts'[i] = attempts[i]
  BY Holding
<1>3. /\ \A i \in Job : i # j => status'[i] = status[i] /\ holder'[i] = holder[i]
      /\ status'[j] = "claimed" /\ holder'[j] = p
      /\ UNCHANGED <<kind, landed, pool, lost>>
  BY DEF Hold, WorkTyped, AgentTypeOK
<1>4. \A v \in Worker : ~At(v, {"idle"}) => work[v].job \in Job
  BY DoingFields DEF WorkTyped, AttemptsCounted
<1>5. ASSUME NEW v \in Worker, v # w, Heard(v)'
      PROVE  Heard(v) /\ work'[v] = work[v] /\ work[v].job # j /\ work[v].job \in Job
  BY <1>1, <1>2, <1>4, <1>5 DEF Heard, At
<1>6. JobsAreTaken'
  <2>1. ASSUME NEW v \in Worker, v # w, ~At(v, {"idle"}) PROVE status'[work[v].job] \notin {"none", "pending"}
    BY <1>3, <1>4, <2>1 DEF JobsAreTaken
  <2> QED BY <1>2, <1>3, <2>1 DEF JobsAreTaken, At
<1>7. HeardAlone'
  <2>1. ASSUME NEW v \in Worker, NEW u \in Worker, v # u, Heard(u)' PROVE work'[v].job # work'[u].job
    <3>1. CASE u = w
      BY <1>1, <1>2, <2>1, <3>1 DEF Heard
    <3>2. CASE u # w /\ v = w
      BY <1>2, <1>5, <2>1, <3>2
    <3>3. CASE u # w /\ v # w
      BY <1>2, <1>5, <2>1, <3>3 DEF HeardAlone
    <3> QED BY <3>1, <3>2, <3>3
  <2> QED BY <2>1 DEF HeardAlone
<1>8. TheLeaseIsKept' /\ ConcludedIsTold'
  <2>1. ASSUME NEW v \in Worker, v # w, Heard(v)'
        PROVE  /\ work'[v] = work[v] /\ Heard(v) /\ status'[work[v].job] = status[work[v].job]
               /\ holder'[work[v].job] = holder[work[v].job] /\ attempts'[work[v].job] = attempts[work[v].job]
    BY <1>2, <1>3, <1>5, <2>1
  <2> QED BY <1>2, <1>3, <2>1 DEF TheLeaseIsKept, ConcludedIsTold, At
<1>9. ReadsForTheFirstTime'
  BY <1>2, <1>3, <1>5 DEF ReadsForTheFirstTime, At, IsDraft
<1>10. TranscriptsGrow'
  <2> SUFFICES ASSUME pool = "one", lost = 0
               PROVE  /\ \A i \in Job \ presumed' : InOrder(i)'
                      /\ \A v \in Worker : Heard(v)' /\ ~At(v, {"counting"})' => Continues(v)'
    BY <1>3 DEF TranscriptsGrow
  <2>1. /\ \A i \in Job \ presumed : InOrder(i)
        /\ \A v \in Worker : Heard(v) /\ ~At(v, {"counting"}) => Continues(v)
    BY DEF TranscriptsGrow
  <2>2. \A i \in Job \ presumed' : InOrder(i)'
    <3> SUFFICES ASSUME NEW i \in Job \ presumed' PROVE InOrder(i)'
      OBVIOUS
    <3>1. attempts[i] \in Nat /\ attempts'[i] \in Nat /\ attempts[i] <= attempts'[i]
      BY <1>2 DEF WorkTyped, AgentTypeOK
    <3>2. \A m \in landed[i] : m.attempt \in Nat
      BY DEF WorkTyped, AgentTypeOK, Note
    <3> QED BY <1>1, <1>3, <2>1, <3>1, <3>2 DEF InOrder
  <2>3. ASSUME NEW v \in Worker, Heard(v)', ~At(v, {"counting"})' PROVE Continues(v)'
    <3>1. v # w
      BY <1>2, <2>3 DEF At
    <3>2. Heard(v) /\ work'[v] = work[v]
      BY <1>5, <2>3, <3>1
    <3> QED BY <1>3, <2>1, <2>3, <3>2, OthersContinue DEF At
  <2> QED BY <2>2, <2>3
<1> QED BY <1>6, <1>7, <1>8, <1>9, <1>10

LEMMA ReapOrderly ==
  ASSUME WorkInv, ReapHopeless
  PROVE  Orderly'
<1>1. \A v \in Worker : ~At(v, {"idle"}) => work[v].job \in Job
  BY DoingFields DEF WorkInv, WorkTyped, AttemptsCounted
<1>2. /\ work' = work /\ work' \in [Worker -> Doing] /\ presumed \subseteq presumed'
      /\ UNCHANGED <<kind, holder, attempts, landed, pool, lost>>
  BY DEF ReapHopeless, WorkInv, WorkTyped, AgentTypeOK
<1>3. \A v \in Worker : Heard(v)' => work[v].job \notin Hopeless
  BY <1>2 DEF ReapHopeless, Alive, Attending, Heard
<1>4. \A v \in Worker : Heard(v)' => status'[work[v].job] = status[work[v].job]
  BY <1>1, <1>2, <1>3 DEF ReapHopeless, Heard, At
<1>5. \A v \in Worker : ~At(v, {"idle"}) => status'[work[v].job] \notin {"none", "pending"}
  BY <1>1 DEF ReapHopeless, WorkInv, Orderly, JobsAreTaken
<1> QED BY <1>2, <1>4, <1>5, RestedOrderly

LEMMA StillOrderly ==
  ASSUME WorkInv,
         \/ \E j \in Job : GoSilent(j)
         \/ \E w \in Worker : BeatWork(w)
         \/ \E p \in Process : ProcessDies(p)
         \/ UNCHANGED workVars
  PROVE  Orderly'
<1>1. /\ \A w \in Worker : work'[w] = work[w] \/ work'[w] = Idle
      /\ work' \in [Worker -> Doing]
  BY Dying DEF WorkInv, WorkTyped, AgentTypeOK, GoSilent, BeatWork, workVars
<1>2. UNCHANGED <<kind, status, holder, attempts, landed, pool, lost, presumed>>
  BY DEF GoSilent, BeatWork, ProcessDies, workVars, jobVars, history
<1>3. \A v \in Worker : ~At(v, {"idle"}) => status'[work[v].job] \notin {"none", "pending"}
  BY <1>2 DEF WorkInv, Orderly, JobsAreTaken
<1> QED BY <1>1, <1>2, <1>3, RestedOrderly

-----------------------------------------------------------------------------
(* AgentWork: how a job ends.                                            *)

\* Only a conclusion says how a job ended, and only of its own job.
Untold ==
  /\ UNCHANGED told /\ presumed \subseteq presumed'
  /\ \A j \in Job : \/ status'[j] = status[j] /\ holder'[j] = holder[j] /\ attempts'[j] = attempts[j]
                    \/ status[j] \notin Settled /\ status'[j] \notin {"completed", "failed"}

\* What a step does to a settled job.
Final(j) ==
  status[j] \in Settled =>
    /\ holder'[j] = holder[j] /\ attempts'[j] = attempts[j]
    /\ \/ status'[j] = status[j]
       \/ j \in presumed /\ status'[j] \in {"completed", "failed"} /\ told'[j].proc = holder[j]

LEMMA OthersAreUntold ==
  ASSUME WorkInv, WorkNext, \A w \in Worker : ~SettleWork(w) /\ ~FailWork(w)
  PROVE  Untold
<1> USE DEF WorkInv, WorkTyped, AgentTypeOK
<1>1. ASSUME NEW j \in Job, NEW type \in Kind, Ask(j, type) PROVE Untold
  BY <1>1 DEF Ask, Untold, Settled, history
<1>2. ASSUME NEW j \in Job, NEW w \in Worker, NEW p \in Process, Hold(w, p, j) PROVE Untold
  <2>1. \A i \in Job : i # j => status'[i] = status[i] /\ holder'[i] = holder[i] /\ attempts'[i] = attempts[i]
    BY <1>2 DEF Hold
  <2>2. status[j] \notin Settled /\ status'[j] \notin {"completed", "failed"}
    BY <1>2 DEF Hold, Takeable, Settled
  <2>3. UNCHANGED told /\ presumed \subseteq presumed'
    BY <1>2 DEF Hold
  <2> QED BY <2>1, <2>2, <2>3 DEF Untold
<1>3. CASE ReapHopeless
  BY <1>3 DEF ReapHopeless, Hopeless, Untold, Settled
<1>4. ASSUME NEW w \in Worker, Attempt(w) PROVE Untold
  BY <1>4 DEF Attempt, CountEvents, RecallFindings, HoldBreaks, Start, Read, Answer, Save,
     NeedsConfig, Throw, ConcludingBreaks, Finish, OnlyWork, jobVars, history, Untold
<1>5. CASE \/ \E j \in Job : GoSilent(j)
           \/ \E w \in Worker : Inserts(w) \/ BeatWork(w)
           \/ \E p \in Process : ProcessDies(p)
  BY <1>5 DEF GoSilent, Inserts, LandNote, LoseNote, BeatWork, ProcessDies, jobVars, history, Untold
<1> QED BY <1>1, <1>2, <1>3, <1>4, <1>5 DEF WorkNext, Resume

\* What a conclusion says comes from the holder, and from the last attempt of a job whose
\* attempts were never presumed dead alive.
LEMMA ConclusionIsTheHolders ==
  ASSUME WorkInv, NEW w \in Worker, SettleWork(w) \/ FailWork(w)
  PROVE  /\ OutcomeIsTheHolders'
         /\ \A j \in Job : Final(j)
<1>1. PICK outcome \in {"completed", "failed"} : outcome \in Settled /\ Conclude(w, outcome)
  BY DEF SettleWork, FailWork, Settled
<1>2. ~At(w, {"idle"}) /\ ~At(w, {"barrier"}) /\ UNCHANGED <<holder, attempts, presumed>>
  BY DEF SettleWork, FailWork, Goto, At
<1>3. WorkTyped /\ work[w].job \in Job
  BY <1>2, DoingFields DEF WorkInv, WorkTyped, AttemptsCounted
<1> DEFINE j == work[w].job
<1>4. /\ \A i \in Job : i # j => status'[i] = status[i] /\ told'[i] = told[i]
      /\ status'[j] \in {status[j], outcome}
      /\ holder[j] = work[w].proc => /\ status'[j] = outcome
                                     /\ told'[j].proc = work[w].proc /\ told'[j].attempt = work[w].attempt
      /\ holder[j] # work[w].proc => status' = status /\ told' = told
  BY <1>1, <1>2, <1>3, Concluding
<1>5. j \notin presumed => holder[j] = work[w].proc /\ work[w].attempt = attempts[j] /\ status[j] = "claimed"
  BY <1>2 DEF WorkInv, Orderly, TheLeaseIsKept, Heard
<1>6. OutcomeIsTheHolders
  BY DEF WorkInv
<1> HIDE DEF j
<1>7. ASSUME NEW i \in Job, status'[i] \in {"completed", "failed"}
      PROVE  told'[i].proc = holder'[i] /\ (told'[i].attempt = attempts'[i] \/ i \in presumed')
  <2>1. CASE i # j
    BY <1>2, <1>4, <1>6, <1>7, <2>1 DEF OutcomeIsTheHolders
  <2>2. CASE i = j /\ holder[j] # work[w].proc
    BY <1>2, <1>4, <1>6, <1>7, <2>2 DEF OutcomeIsTheHolders
  <2>3. CASE i = j /\ holder[j] = work[w].proc
    BY <1>2, <1>4, <1>5, <2>3
  <2> QED BY <2>1, <2>2, <2>3
<1>8. OutcomeIsTheHolders'
  BY <1>7 DEF OutcomeIsTheHolders
<1>9. ASSUME NEW i \in Job, status[i] \in Settled PROVE Final(i)
  <2>1. CASE i # j
    BY <1>2, <1>4, <2>1 DEF Final
  <2>2. CASE i = j /\ holder[j] # work[w].proc
    BY <1>2, <1>4, <2>2 DEF Final
  <2>3. CASE i = j /\ holder[j] = work[w].proc
    <3>1. j \in presumed
      BY <1>5, <1>9, <2>3 DEF Settled
    <3>2. outcome \in {"completed", "failed"}
      BY <1>1
    <3> QED BY <1>2, <1>4, <2>3, <3>1, <3>2 DEF Final
  <2> QED BY <2>1, <2>2, <2>3
<1> QED BY <1>8, <1>9 DEF Final

LEMMA HowItEnds ==
  ASSUME WorkInv, [WorkNext]_workVars
  PROVE  /\ OutcomeIsTheHolders'
         /\ \A j \in Job : Final(j)
<1>1. CASE Untold
  BY <1>1 DEF WorkInv, OutcomeIsTheHolders, Untold, Settled, Final
<1>2. CASE UNCHANGED workVars
  BY <1>2 DEF WorkInv, OutcomeIsTheHolders, workVars, jobVars, history, Final
<1>3. CASE \E w \in Worker : SettleWork(w) \/ FailWork(w)
  BY <1>3, ConclusionIsTheHolders
<1> QED BY <1>1, <1>2, <1>3, OthersAreUntold

-----------------------------------------------------------------------------
(* AgentWork: the theorems.                                              *)

\* Every column and every attempt keeps its type.
THEOREM WorkIsTyped == WorkSpec => []WorkTyped
<1>1. WorkInit => WorkTyped
  BY WorkStarts DEF WorkInv
<1> QED BY <1>1, TypesKept, PTL DEF WorkSpec

\* Every column holds a value of its type; attempts never passes max_attempts; a seq is
\* used once in a job's transcript.
THEOREM AgentTyped == WorkSpec => []AgentTypeOK
<1>1. WorkTyped => AgentTypeOK
  BY DEF WorkTyped
<1> QED BY <1>1, WorkIsTyped, PTL

LEMMA WorkKept ==
  ASSUME WorkInv, [WorkNext]_workVars
  PROVE  WorkInv'
<1>1. WorkTyped'
  BY TypesKept DEF WorkInv
<1>2. Orderly'
  BY AskOrderly, HoldOrderly, ReapOrderly, AttemptOrderly, InsertsOrderly, StillOrderly
     DEF WorkNext, Resume
<1>3. OutcomeIsTheHolders'
  BY HowItEnds
<1> QED BY <1>1, <1>2, <1>3 DEF WorkInv

\* The invariant, whoever is silent and whoever is presumed dead.
THEOREM WorkInvariant == WorkSpec => []WorkInv
BY WorkStarts, WorkKept, PTL DEF WorkSpec

\* A process that lost a job to another one never has the last word on it; an attempt that
\* was overtaken by one of its own process has it only if it was presumed dead alive.
THEOREM OutcomesAreTheHolders == WorkSpec => []OutcomeIsTheHolders
<1>1. WorkInv => OutcomeIsTheHolders
  BY DEF WorkInv
<1> QED BY <1>1, WorkInvariant, PTL

\* No attempt reads the code for a draft whose findings are already in the transcript,
\* unless it is the rival of a living one.
THEOREM ReadingIsPaidOnce == WorkSpec => []ReadOnce
<1>1. WorkInv => ReadOnce
  BY DEF WorkInv, Orderly, ReadsForTheFirstTime, ReadOnce, Findings, Heard, At
<1> QED BY <1>1, WorkInvariant, PTL

\* A settled job is never taken up again, and what it says changes only at the hand of the
\* process that holds it, after a living attempt was presumed dead.
THEOREM OutcomesAreFinal == WorkSpec => OutcomeIsFinal
<1>1. WorkInv /\ [WorkNext]_workVars => [\A j \in Job : Final(j)]_workVars
  BY HowItEnds
<1>2. [\A j \in Job : Final(j)]_workVars =>
        [\A j \in Job : status[j] \in Settled =>
           /\ holder'[j] = holder[j] /\ attempts'[j] = attempts[j]
           /\ \/ status'[j] = status[j]
              \/ /\ j \in presumed /\ status'[j] \in {"completed", "failed"}
                 /\ told'[j].proc = holder[j]]_workVars
  BY DEF Final
<1> QED BY <1>1, <1>2, WorkInvariant, PTL DEF WorkSpec, OutcomeIsFinal

\* In production a job whose attempts were never presumed dead alive is marked finished
\* after its transcript has landed, and a resume's notes follow those of the attempt it resumes.
THEOREM TranscriptsInOrder == WorkSpec => []ProductionTranscript
<1>1. WorkInv => ProductionTranscript
  BY DEF WorkInv, Orderly, ConcludedIsTold, TranscriptsGrow, InOrder, ProductionTranscript, Heard, At
<1> QED BY <1>1, WorkInvariant, PTL

==============================================================================
