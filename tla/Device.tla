------------------------------- MODULE Device -------------------------------
(***************************************************************************)
(* Linking a machine (web/src/lib/db/device.ts, lib/actions/device.ts, the *)
(* two routes of app/api/cli/device, cli/internal/app/link.go).            *)
(*                                                                         *)
(* A terminal asks for a code, a signed-in browser approves or denies it,  *)
(* and whoever holds the terminal's secret polls until the row has an      *)
(* answer.  A browser's submit is several statements, so submits by two    *)
(* users, or two clicks of one, interleave with each other, with the polls *)
(* and with the code running out.                                          *)
(*                                                                         *)
(* Operators whose names end in _ are mutants of the operator after them.  *)
(***************************************************************************)
EXTENDS Naturals

CONSTANTS
  Code,     \* codes a terminal asks for
  User,     \* signed-in users
  Dir,      \* directories terminals stand in
  Submit,   \* submits of the approval page
  Poll,     \* polls that end with more than "pending"; a leaked secret polls too
  Nothing   \* no user, no project, no row

\* A project is known by its owner and directory: a unique index holds on the pair.
Project == [owner: User, dir: Dir]

\* The columns of device_codes the flow reads.  An old CLI gives no project name.
Row == [status: {"unasked", "pending", "approved", "denied", "claimed"},
        dir: Dir, named: BOOLEAN, user: User \cup {Nothing},
        project: Project \cup {Nothing}]

\* A submit in progress: who decides what, at which statement, for which project.
Deciding == [at: {"idle", "resolving", "adding", "deciding", "recording", "done"},
             code: Code, user: User, approve: BOOLEAN,
             project: Project \cup {Nothing}]

VARIABLES
  row,       \* device_codes
  expired,   \* codes past expires_at; startDevice deletes their rows
  projects,  \* projects
  submit,    \* each submit
  polled,    \* each poll: "idle", the code it read as approved, "over"
  tokens,    \* credentials given out: [poll, code, user, project]
  audit      \* entries of the audit trail: [code, user, approve]

vars == <<row, expired, projects, submit, polled, tokens, audit>>

Init ==
  /\ row \in [Code -> {r \in Row : r.status = "unasked" /\ r.user = Nothing /\ r.project = Nothing}]
  /\ expired = {}
  /\ projects \in {{}} \cup {{p} : p \in Project}
  /\ submit \in [Submit -> {d \in Deciding : d.at = "idle" /\ d.project = Nothing}]
  /\ polled = [p \in Poll |-> Nothing]
  /\ tokens = {} /\ audit = {}

-----------------------------------------------------------------------------
(* The terminal asks, and time passes.                                     *)

StartDevice(c) ==
  /\ row[c].status = "unasked"
  /\ row' = [row EXCEPT ![c].status = "pending"]
  /\ UNCHANGED <<expired, projects, submit, polled, tokens, audit>>

Expire(c) ==
  /\ row[c].status # "unasked" /\ c \notin expired
  /\ expired' = expired \cup {c}
  /\ UNCHANGED <<row, projects, submit, polled, tokens, audit>>

-----------------------------------------------------------------------------
(* The browser decides.                                                    *)

Owned(u) == {p \in projects : p.owner = u}

Move(s, at) == submit' = [submit EXCEPT ![s].at = at]

\* findPendingByUserCode, and the check of what it read.
Find(s) ==
  LET c == submit[s].code IN
  /\ submit[s].at = "idle" /\ row[c].status # "unasked"
  /\ Move(s, IF row[c].status # "pending" \/ c \in expired THEN "done"
             ELSE IF submit[s].approve THEN "resolving" ELSE "deciding")
  /\ UNCHANGED <<row, expired, projects, polled, tokens, audit>>

\* The project the directory of the code is, or would be, for the user who decides.
Here(s) == [owner |-> submit[s].user, dir |-> row[submit[s].code].dir]

\* projectForDevice: the directory's project, known already or to be added; without a name,
\* any project of the user -- the session's or the first --, or none.
Targets(s) ==
  LET d == submit[s] IN
  IF Here(s) \in projects \/ row[d.code].named THEN {Here(s)}
  ELSE IF Owned(d.user) = {} THEN {Nothing} ELSE Owned(d.user)

Resolve(s) ==
  /\ submit[s].at = "resolving"
  /\ \E p \in Targets(s) :
       submit' = [submit EXCEPT ![s].project = p,
                    ![s].at = IF p \in projects \cup {Nothing} THEN "deciding" ELSE "adding"]
  /\ UNCHANGED <<row, expired, projects, polled, tokens, audit>>

\* addProjectForDevice: on conflict, the one that got there first.
AddProject(s) ==
  /\ submit[s].at = "adding"
  /\ projects' = projects \cup {submit[s].project}
  /\ Move(s, "deciding")
  /\ UNCHANGED <<row, expired, polled, tokens, audit>>

\* Mutant: the update asks only that nobody said no.
StillOpenIfNotDenied_(c) == row[c].status # "denied"

\* The predicate of both updates.
StillOpen(c) == row[c].status = "pending"

\* approveDevice, denyDevice: an update that may match nothing, which nobody looks at.
Decide(s) ==
  LET d == submit[s] IN
  /\ d.at = "deciding"
  /\ row' = IF ~ StillOpen(d.code) \/ (d.approve /\ d.code \in expired) THEN row
            ELSE IF d.approve
                 THEN [row EXCEPT ![d.code].status = "approved", ![d.code].user = d.user,
                                  ![d.code].project = d.project]
                 ELSE [row EXCEPT ![d.code].status = "denied"]
  /\ Move(s, "recording")
  /\ UNCHANGED <<expired, projects, polled, tokens, audit>>

\* record.
Record(s) ==
  LET d == submit[s] IN
  /\ d.at = "recording"
  /\ audit' = audit \cup {[code |-> d.code, user |-> d.user, approve |-> d.approve]}
  /\ Move(s, "done")
  /\ UNCHANGED <<row, expired, projects, polled, tokens>>

\* The request dies before the next statement.
Break(s) ==
  /\ submit[s].at \notin {"idle", "done"}
  /\ Move(s, "done")
  /\ UNCHANGED <<row, expired, projects, polled, tokens, audit>>

-----------------------------------------------------------------------------
(* The terminal polls.                                                     *)

\* claimDevice reads an approved row; any other answer changes nothing.
SeeApproved(p, c) ==
  /\ polled[p] = Nothing
  /\ row[c].status = "approved" /\ c \notin expired
  /\ polled' = [polled EXCEPT ![p] = c]
  /\ UNCHANGED <<row, expired, projects, submit, tokens, audit>>

\* The claim's own predicate.
Claimable(c) == row[c].status = "approved"

\* It claims it, and the token names the row's user and project.
Collect(p) ==
  LET c == polled[p] IN
  /\ c \in Code
  /\ polled' = [polled EXCEPT ![p] = "over"]
  /\ IF Claimable(c)
       THEN /\ row' = [row EXCEPT ![c].status = "claimed"]
            /\ tokens' = tokens \cup {[poll |-> p, code |-> c, user |-> row[c].user,
                                       project |-> row[c].project]}
       ELSE UNCHANGED <<row, tokens>>
  /\ UNCHANGED <<expired, projects, submit, audit>>

-----------------------------------------------------------------------------
Next ==
  \/ \E c \in Code : StartDevice(c) \/ Expire(c)
  \/ \E s \in Submit : Find(s) \/ Resolve(s) \/ AddProject(s) \/ Decide(s) \/ Record(s) \/ Break(s)
  \/ \E p \in Poll : Collect(p) \/ \E c \in Code : SeeApproved(p, c)

Spec == Init /\ [][Next]_vars

-----------------------------------------------------------------------------
(* Properties.                                                             *)

\* Every variable keeps to its type.
DeviceTypeOK ==
  /\ row \in [Code -> Row]
  /\ expired \subseteq Code
  /\ projects \subseteq Project
  /\ submit \in [Submit -> Deciding]
  /\ polled \in [Poll -> Code \cup {Nothing, "over"}]
  /\ tokens \subseteq [poll: Poll, code: Code, user: User \cup {Nothing},
                       project: Project \cup {Nothing}]
  /\ audit \subseteq [code: Code, user: User, approve: BOOLEAN]

\* Somebody submitted that user's yes to that code and got past the reading of it.
SaidYes(c, u) ==
  \E s \in Submit : submit[s].at # "idle" /\ submit[s].code = c /\ submit[s].user = u
                    /\ submit[s].approve

\* However submits and polls race, a code gives one token at most; the token is for a user
\* who said yes, for a project of that user's which exists already (lib/actions/device.ts:
\* "a CLI that collects its token has a project to be scoped to by the time it asks"), and,
\* when the terminal named its directory, for that directory's.
TokenIsTheApproval ==
  \A t \in tokens :
    /\ row[t.code].status = "claimed"
    /\ \A o \in tokens : o.code = t.code => o = t
    /\ SaidYes(t.code, t.user)
    /\ t.project # Nothing => t.project \in Owned(t.user)
    /\ row[t.code].named => t.project = [owner |-> t.user, dir |-> row[t.code].dir]

=============================================================================
