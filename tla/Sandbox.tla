------------------------------ MODULE Sandbox -------------------------------
(***************************************************************************)
(* The one sandbox of a resident gritqa process, and everybody who uses it *)
(* (cli/internal/app/session.go, serve.go, sandbox.go; mcp/tools.go;       *)
(* sandbox/stack.go).                                                      *)
(*                                                                         *)
(* The attach loop runs approved plans in it; calls on the MCP surface     *)
(* start it, run plans in it, probe it, restore it and take it down; a     *)
(* timer takes it down when research left it idle.  A mutex serialises     *)
(* bringing it up, resetting it and taking it down.  What is done IN it -- *)
(* a walk, a probe -- runs without the mutex, and so does restore.         *)
(*                                                                         *)
(* Every stack of a session has one compose project name, so whichever     *)
(* stack a call holds, there is one copy it acts on.                       *)
(*                                                                         *)
(* Operators whose names end in _ are mutants of the operator after them.  *)
(***************************************************************************)
EXTENDS Naturals, FiniteSets

CONSTANTS
  Loop,       \* the attach loop
  Client,     \* goroutines that serve calls of the MCP surface
  Free,       \* the mutex is free
  MaxCalls,   \* bound: calls of a session
  MaxFaults   \* bound: docker commands that fail

User == {Loop} \cup Client

ASSUME UserAssumption == Loop \notin Client /\ Free \notin User /\ IsFiniteSet(Client)
ASSUME SandboxBounds == MaxCalls \in Nat \ {0} /\ MaxFaults \in Nat

VARIABLES
  mu,        \* session.mu
  staged,    \* session.st is set
  mcpOwned,
  busy,
  idle,      \* the countdown: "none", "armed", or "spent": it fired and is still set
  fired,     \* goroutines of countdowns that fired, waiting for the mutex
  copy,      \* the docker project: "down", "empty" (no schema yet) or "ready"
  rows,      \* the calls whose writes are in the copy
  user,
  calls,     \* calls made so far
  ended,     \* calls whose walk has ended
  faults,
  leaky,     \* a compose down failed, or the copy went down under a restore
  closed     \* the session is over

docker  == <<copy, rows, faults, leaky>>
session == <<staged, mcpOwned, busy, idle, fired, closed>>
sandboxVars == <<mu, session, docker, user, calls, ended>>

Calls == {"run", "plan", "probe", "start", "teardown", "restore"}

\*  call    what was asked
\*  does    where it stands
\*  me      its number
\*  over    calls that had ended when its reset began
\*  reaped  the timer took the copy down under its walk
NoCall == [call |-> "none", does |-> "nothing", me |-> 0, over |-> {}, reaped |-> FALSE]

SandboxInit ==
  /\ mu = Free
  /\ staged = FALSE /\ mcpOwned = FALSE /\ busy = 0 /\ idle = "none" /\ fired = 0
  /\ copy = "down" /\ rows = {} /\ faults = 0 /\ leaky = FALSE
  /\ user = [u \in User |-> NoCall]
  /\ calls = 0 /\ ended = {} /\ closed = FALSE

Does(u, what) == user[u].does = what
Goes(u, what) == user' = [user EXCEPT ![u].does = what]
Ends(u)       == user' = [user EXCEPT ![u] = NoCall]
BeginsReset(u) == user' = [user EXCEPT ![u].does = "clearing", ![u].over = ended]

Walking(u)   == Does(u, "walking")
Resetting(u) == user[u].does \in {"clearing", "booting", "migrating"}
Restoring    == \E u \in User : user[u].call = "restore" /\ Resetting(u)
Locked(u)    == user[u].call # "restore"

\* A docker command fails.
Fault == faults < MaxFaults /\ faults' = faults + 1

\* A command finds that somebody else cleared the copy meanwhile.
FoundDown == copy = "down" /\ UNCHANGED faults

\* compose down -v worked.
Cleared == copy' = "down" /\ rows' = {}

\* Stack.Down: whatever becomes of the command, the session forgets the stack.
DockerDown ==
  \/ Cleared /\ UNCHANGED faults /\ leaky' = (leaky \/ Restoring)
  \/ Fault /\ leaky' = TRUE /\ UNCHANGED <<copy, rows>>

-----------------------------------------------------------------------------
(* A call comes in.                                                        *)

\* The tools that need a sandbox ask for it first: live() takes the mutex for a moment.
\* trial_call starts one when there is none, restore refuses.
Begin(u, c) ==
  /\ Does(u, "nothing") /\ ~closed /\ calls < MaxCalls
  /\ (u = Loop) <=> (c = "run")
  /\ c \in {"probe", "restore"} => mu = Free
  /\ c = "restore" => staged
  /\ calls' = calls + 1
  /\ user' = [user EXCEPT ![u] =
       [NoCall EXCEPT !.call = c, !.me = calls + 1,
                      !.does = CASE c = "restore" -> "clearing"
                                 [] c = "probe" /\ ~staged -> "starting"
                                 [] OTHER -> "entering"]]
  /\ UNCHANGED <<mu, session, docker, ended>>

\* session.staged under the mutex: the stack there is, or a new one.
Enter(u) ==
  /\ user[u].does \in {"starting", "entering"} /\ user[u].call # "teardown"
  /\ mu = Free /\ mu' = u
  /\ Goes(u, CASE Does(u, "starting") -> IF staged THEN "owning" ELSE "launching first"
               [] OTHER               -> IF staged THEN "staged" ELSE "launching")
  /\ UNCHANGED <<session, docker, calls, ended>>

Launching(u) == user[u].does \in {"launching", "launching first"}
Seeding(u)   == user[u].does \in {"seeding", "seeding first"}

\* Launch: what an earlier copy left is cleared, and the project comes up.
Launch(u) ==
  /\ Launching(u)
  /\ copy' = "empty" /\ rows' = {}
  /\ Goes(u, IF Does(u, "launching") THEN "seeding" ELSE "seeding first")
  /\ UNCHANGED <<mu, session, faults, leaky, calls, ended>>

\* The clearing fails: nothing was started.
LaunchRefused(u) ==
  /\ Launching(u) /\ copy # "down" /\ Fault
  /\ mu' = Free /\ Ends(u)
  /\ UNCHANGED <<session, copy, rows, leaky, calls, ended>>

\* Mutant: a copy that came up half is left there.
StageBreaksLeaving_(u) ==
  /\ \/ Launching(u) /\ Fault
     \/ Seeding(u) /\ (Fault \/ FoundDown)
  /\ copy' = "empty" /\ rows' = {} /\ UNCHANGED leaky
  /\ mu' = Free /\ Ends(u)
  /\ UNCHANGED <<session, calls, ended>>

\* stage looks away when its Down fails: what came up stays up.
LeftUp(u) ==
  /\ leaky' = TRUE
  /\ IF Launching(u) THEN copy' = "empty" /\ rows' = {} ELSE UNCHANGED <<copy, rows>>

\* up, Schema or Baseline fails, or somebody's restore cleared the copy meanwhile: what
\* was started is taken down, and the session has no stack.  A docker that is gone fails
\* the one command and the other.
StageBreaks(u) ==
  /\ \/ Launching(u) /\ Fault
     \/ Seeding(u) /\ (Fault \/ FoundDown)
  /\ \/ Cleared /\ leaky' = (leaky \/ Restoring)
     \/ faults' > faults /\ LeftUp(u)
  /\ mu' = Free /\ Ends(u)
  /\ UNCHANGED <<session, calls, ended>>

\* Schema and Baseline.
Seed(u) ==
  /\ Seeding(u) /\ copy # "down"
  /\ copy' = "ready" /\ staged' = TRUE
  /\ Goes(u, IF Does(u, "seeding") THEN "staged" ELSE "owning")
  /\ UNCHANGED <<mu, mcpOwned, busy, idle, fired, closed, rows, faults, leaky, calls, ended>>

-----------------------------------------------------------------------------
(* What each caller does with the stack.                                   *)

\* Mutant: a sandbox that was up already keeps its countdown.
OwnUnarmed_(u) ==
  /\ Does(u, "owning") \/ (Does(u, "staged") /\ user[u].call = "start")
  /\ mcpOwned' = TRUE /\ UNCHANGED idle
  /\ mu' = Free
  /\ IF Does(u, "owning") THEN Goes(u, "entering") ELSE Ends(u)
  /\ UNCHANGED <<staged, busy, fired, closed, docker, calls, ended>>

\* StartSandbox, called for itself or on behalf of trial_call: research owns the sandbox,
\* whoever brought it up.
Own(u) ==
  /\ Does(u, "owning") \/ (Does(u, "staged") /\ user[u].call = "start")
  /\ mcpOwned' = TRUE /\ idle' = "armed"
  /\ mu' = Free
  /\ IF Does(u, "owning") THEN Goes(u, "entering") ELSE Ends(u)
  /\ UNCHANGED <<staged, busy, fired, closed, docker, calls, ended>>

\* Mutant: a sandbox research owns is at its baseline anyway.
PrepareOwned_(u) ==
  /\ Does(u, "staged") /\ user[u].call = "run"
  /\ mcpOwned' = FALSE /\ idle' = "none"
  /\ IF mcpOwned THEN mu' = Free /\ user' = [user EXCEPT ![u].does = "walking", ![u].over = ended]
     ELSE UNCHANGED mu /\ user' = [user EXCEPT ![u].does = "clearing", ![u].over = ended]
  /\ UNCHANGED <<staged, busy, fired, closed, docker, calls, ended>>

\* prepare: the loop claims the sandbox back, and resets it.
Prepare(u) ==
  /\ Does(u, "staged") /\ user[u].call = "run"
  /\ mcpOwned' = FALSE /\ idle' = "none"
  /\ BeginsReset(u)
  /\ UNCHANGED <<mu, staged, busy, fired, closed, docker, calls, ended>>

\* RunPlan resets it.
PreparePlan(u) ==
  /\ Does(u, "staged") /\ user[u].call = "plan"
  /\ BeginsReset(u)
  /\ UNCHANGED <<mu, session, docker, calls, ended>>

\* TrialCall probes it as it stands.
Probe(u) ==
  /\ Does(u, "staged") /\ user[u].call = "probe"
  /\ busy' = busy + 1
  /\ mu' = Free /\ Goes(u, "walking")
  /\ UNCHANGED <<staged, mcpOwned, idle, fired, closed, docker, calls, ended>>

-----------------------------------------------------------------------------
(* Reset.  A locked one holds the mutex throughout; restore holds nothing. *)

LetGo(u) == mu' = IF Locked(u) THEN Free ELSE mu

Clear(u) ==
  /\ Does(u, "clearing")
  /\ Cleared
  /\ Goes(u, "booting")
  /\ UNCHANGED <<mu, session, faults, leaky, calls, ended>>

Boot(u) ==
  /\ Does(u, "booting")
  /\ copy' = IF copy = "down" THEN "empty" ELSE copy
  /\ Goes(u, "migrating")
  /\ UNCHANGED <<mu, session, rows, faults, leaky, calls, ended>>

\* Any of its commands fails, or finds the copy cleared by another: the caller gives up,
\* and the stack stays set as the reset left it.
ResetBreaks(u) ==
  /\ Resetting(u)
  /\ Fault \/ (Does(u, "migrating") /\ FoundDown)
  /\ LetGo(u) /\ Ends(u)
  /\ UNCHANGED <<session, copy, rows, leaky, calls, ended>>

\* Schema and Baseline are done.  RunPlan counts itself busy before it lets the mutex go.
Migrate(u) ==
  /\ Does(u, "migrating") /\ copy # "down"
  /\ copy' = "ready"
  /\ LetGo(u)
  /\ IF user[u].call = "restore" THEN Ends(u) ELSE Goes(u, "walking")
  /\ busy' = IF user[u].call = "plan" THEN busy + 1 ELSE busy
  /\ UNCHANGED <<staged, mcpOwned, idle, fired, closed, rows, faults, leaky, calls, ended>>

-----------------------------------------------------------------------------
(* The walk.                                                               *)

\* A step of a plan, or a probe, writes.
Write(u) ==
  /\ Walking(u) /\ copy = "ready"
  /\ rows' = rows \cup {user[u].me}
  /\ UNCHANGED <<mu, session, copy, faults, leaky, user, calls, ended>>

WalkEnds(u) ==
  /\ Walking(u)
  /\ ended' = ended \cup {user[u].me}
  /\ IF user[u].call = "run" THEN Ends(u) ELSE Goes(u, "finishing")
  /\ UNCHANGED <<mu, session, docker, calls>>

\* The end of RunPlan and TrialCall.
Finish(u) ==
  /\ Does(u, "finishing") /\ mu = Free
  /\ busy' = busy - 1
  /\ idle' = IF staged THEN "armed" ELSE idle
  /\ Ends(u)
  /\ UNCHANGED <<mu, staged, mcpOwned, fired, closed, docker, calls, ended>>

-----------------------------------------------------------------------------
(* Taking it down.                                                         *)

Forget == staged' = FALSE /\ mcpOwned' = FALSE /\ idle' = "none"

\* Teardown asks nobody whether the sandbox is in use.
Teardown(u) ==
  /\ Does(u, "entering") /\ user[u].call = "teardown" /\ mu = Free
  /\ IF staged THEN Forget /\ DockerDown ELSE UNCHANGED <<staged, mcpOwned, idle, docker>>
  /\ Ends(u)
  /\ UNCHANGED <<mu, busy, fired, closed, calls, ended>>

\* The countdown ends.
Fire ==
  /\ idle = "armed" /\ idle' = "spent"
  /\ fired' = fired + 1
  /\ UNCHANGED <<mu, staged, mcpOwned, busy, closed, docker, user, calls, ended>>

\* The timer took the copy down under these.
Reaped == user' = [u \in User |-> IF Walking(u) THEN [user[u] EXCEPT !.reaped = TRUE] ELSE user[u]]

\* Mutant: idle is what nobody asked for in ten minutes.
ReapAnyway_ ==
  /\ fired > 0 /\ mu = Free
  /\ fired' = fired - 1
  /\ IF ~staged \/ ~mcpOwned
       THEN idle' = "none" /\ UNCHANGED <<staged, mcpOwned, docker, user>>
       ELSE Forget /\ DockerDown /\ Reaped
  /\ UNCHANGED <<mu, busy, closed, calls, ended>>

\* reapIdle.
Reap ==
  /\ fired > 0 /\ mu = Free
  /\ fired' = fired - 1
  /\ IF ~staged \/ ~mcpOwned
       THEN idle' = "none" /\ UNCHANGED <<staged, mcpOwned, docker, user>>
     ELSE IF busy > 0
       THEN idle' = "armed" /\ UNCHANGED <<staged, mcpOwned, docker, user>>
     ELSE Forget /\ DockerDown /\ Reaped
  /\ UNCHANGED <<mu, busy, closed, calls, ended>>

\* session.close, at the end of the loop; the process ends with it.
Close ==
  /\ ~closed /\ Does(Loop, "nothing") /\ mu = Free
  /\ closed' = TRUE
  /\ IF staged THEN DockerDown ELSE UNCHANGED docker
  /\ Forget
  /\ busy' = 0 /\ fired' = 0
  /\ user' = [u \in User |-> NoCall]
  /\ UNCHANGED <<mu, calls, ended>>

-----------------------------------------------------------------------------
CallStep(u) ==
  \/ Enter(u) \/ Launch(u) \/ LaunchRefused(u) \/ StageBreaks(u) \/ Seed(u)
  \/ Own(u) \/ Prepare(u) \/ PreparePlan(u) \/ Probe(u)
  \/ Clear(u) \/ Boot(u) \/ ResetBreaks(u) \/ Migrate(u)
  \/ WalkEnds(u) \/ Finish(u) \/ Teardown(u)

SandboxNext ==
  \/ \E u \in User : \/ \E c \in Calls : Begin(u, c)
                     \/ CallStep(u) \/ Write(u)
  \/ Fire \/ Reap \/ Close

SandboxSpec == SandboxInit /\ [][SandboxNext]_sandboxVars

\* Docker commands and walks come to an end, a mutex is handed on, time passes.
FairSpec ==
  /\ SandboxSpec
  /\ \A u \in User : SF_sandboxVars(CallStep(u))
  /\ WF_sandboxVars(Fire) /\ SF_sandboxVars(Reap)

-----------------------------------------------------------------------------
(* Properties.                                                             *)

\* What is done holding the mutex, and the walks research waits for.
UnderMutex(u) ==
  user[u].does \notin {"nothing", "starting", "entering", "walking", "finishing"} /\ Locked(u)

Researching ==
  {u \in User : user[u].does \in {"walking", "finishing"} /\ user[u].call \in {"plan", "probe"}}

\* Every variable keeps to its type; whoever holds the mutex is at work under it; and busy
\* counts exactly the research walks that are in flight, or still to be counted off.
SandboxTypeOK ==
  /\ mu \in User \cup {Free}
  /\ staged \in BOOLEAN /\ mcpOwned \in BOOLEAN /\ closed \in BOOLEAN /\ leaky \in BOOLEAN
  /\ idle \in {"none", "armed", "spent"} /\ fired \in Nat
  /\ copy \in {"down", "empty", "ready"} /\ rows \subseteq 1..MaxCalls
  /\ faults \in 0..MaxFaults
  /\ \A u \in User : mu = u <=> UnderMutex(u)
  /\ busy = Cardinality(Researching)
  /\ mcpOwned => staged

\* The timer never takes the sandbox from under a plan or a probe of the MCP surface,
\* though both run without the mutex (serve.go: "the reaper must know not to read idleness
\* as abandonment while a plan is in flight").
ReaperSparesResearch ==
  \A u \in User : user[u].call \in {"plan", "probe"} => ~user[u].reaped

\* A plan never runs on rows left behind by a call that was over when it was asked to
\* start from the baseline, whatever failed in between (stack.go: "a plan that passes on a
\* row research left behind is worse than one that fails").
NothingLeftBehind ==
  \A u \in User : Walking(u) /\ user[u].call \in {"run", "plan"} => rows \cap user[u].over = {}

\* A session that has no stack leaves no copy running: whatever broke on the way up was
\* taken down again.  Two ways remain: a compose down that fails, and a restore, which
\* takes no mutex and can bring up what is being taken down.
NoForgottenCopy ==
  mu = Free /\ ~staged /\ ~leaky => copy = "down"

\* The backstop: a sandbox research started does not stay up for ever.
ResearchSandboxIsReaped == mcpOwned ~> ~mcpOwned

=============================================================================
