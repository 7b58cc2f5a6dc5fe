----------------------------- MODULE AgentWork ------------------------------
(***************************************************************************)
(* The web half of the jobs table: drafts, revisions and answers that the  *)
(* web process writes with a model (web/src/lib/db/work.ts and             *)
(* web/src/lib/work/run.ts).                                               *)
(*                                                                         *)
(* There is no worker.  Work starts in the request that asked for it, and  *)
(* whoever opens the work page starts again what looks unattended: never   *)
(* begun, or claimed by a process that has been silent for three minutes.  *)
(* An attempt is one call of runWork.  It reads the code, writes, saves    *)
(* what it made and settles the job, telling its story in job_events rows  *)
(* whose inserts nobody awaits.                                            *)
(*                                                                         *)
(* A statement is one step.  A lease belongs to a process, not to an       *)
(* attempt: every attempt of one process claims, beats and settles under   *)
(* the same holder id.  Nothing ties silence to death: a living attempt    *)
(* can be three minutes silent, and its job is taken or given up under it. *)
(*                                                                         *)
(* Operators whose names end in _ are mutants of the operator after them.  *)
(***************************************************************************)
EXTENDS Naturals, FiniteSets

CONSTANTS
  Job,          \* agent jobs
  NoJob,
  Process,      \* holder ids: one per life of a web process
  NoProcess,    \* claimed_by IS NULL
  Worker,       \* bound: runWork calls in flight at once
  MaxAttempts,  \* jobs.max_attempts
  MaxLost,      \* bound: inserts into job_events that fail
  Pools         \* connections of a web process: "one" in production, "many" elsewhere

ASSUME JobAssumption == NoJob \notin Job
ASSUME ProcessAssumption == NoProcess \notin Process
ASSUME LimitsAssumption == MaxAttempts \in Nat \ {0} /\ MaxLost \in Nat
ASSUME PoolsAssumption == Pools \subseteq {"one", "many"}

VARIABLES
  kind,      \* jobs.type: "draft" for draft_plan and refine_plan, "answer" for the others
  status,    \* jobs.status
  holder,    \* jobs.claimed_by
  attempts,  \* jobs.attempts
  silent,    \* claimed jobs whose claimed_at is older than ABANDON_AFTER
  landed,    \* the job_events rows of each job
  written,   \* the attempts that saved what a job was for
  work,      \* what each runWork call is doing
  gone,      \* processes that have died
  pool,      \* the connections of this one
  lost,      \* inserts that failed so far
  presumed,  \* history: silent jobs taken or given up while an attempt of theirs was alive
  told       \* history: whose attempt said last how a job ended

jobVars  == <<kind, status, holder, attempts, silent>>
history  == <<presumed, told>>
workVars == <<jobVars, landed, written, work, gone, pool, lost, history>>

Kind    == {"draft", "answer"}
Settled == {"completed", "failed", "dead"}

Idle == [at |-> "idle", proc |-> NoProcess, job |-> NoJob, attempt |-> 0, seq |-> 0,
         resumed |-> FALSE, pending |-> {}]

WorkInit ==
  /\ kind     = [j \in Job |-> "none"]
  /\ status   = [j \in Job |-> "none"]
  /\ holder   = [j \in Job |-> NoProcess]
  /\ attempts = [j \in Job |-> 0]
  /\ silent   = {}
  /\ landed   = [j \in Job |-> {}]
  /\ written  = [j \in Job |-> {}]
  /\ work     = [w \in Worker |-> Idle]
  /\ gone     = {}
  /\ pool     \in Pools
  /\ lost     = 0
  /\ presumed = {}
  /\ told     = [j \in Job |-> [proc |-> NoProcess, attempt |-> 0]]

-----------------------------------------------------------------------------
(* Asking and taking.                                                      *)

\* enqueueWork.
Ask(j, type) ==
  /\ status[j] = "none"
  /\ kind'   = [kind EXCEPT ![j] = type]
  /\ status' = [status EXCEPT ![j] = "pending"]
  /\ UNCHANGED <<holder, attempts, silent, landed, written, work, gone, pool, lost, history>>

Attending(j) == {w \in Worker : work[w].job = j}

Alive(jobs) == {j \in jobs : Attending(j) # {}}

Takeable(j) ==
  /\ attempts[j] < MaxAttempts
  /\ status[j] = "pending" \/ (status[j] = "claimed" /\ j \in silent)

\* The record the next call is kept in; which one it is does not matter.
NextFree == CHOOSE w \in Worker : work[w].at = "idle"

\* holdWork's UPDATE, from the request that asked or from a page that found the job
\* unattended.
Hold(w, p, j) ==
  /\ work[w].at = "idle" /\ w = NextFree
  /\ p \notin gone
  /\ Takeable(j)
  /\ status'   = [status EXCEPT ![j] = "claimed"]
  /\ holder'   = [holder EXCEPT ![j] = p]
  /\ attempts' = [attempts EXCEPT ![j] = @ + 1]
  /\ silent'   = silent \ {j}
  /\ work' = [work EXCEPT ![w] = [Idle EXCEPT !.at = "counting", !.proc = p, !.job = j,
                                              !.attempt = attempts[j] + 1]]
  /\ presumed' = presumed \cup Alive({j} \cap silent)
  /\ UNCHANGED <<kind, landed, written, gone, pool, lost, told>>

\* Mutant: only a job beyond its attempts is hopeless.
HopelessBeyond_ == {j \in silent : status[j] = "claimed" /\ attempts[j] > MaxAttempts}

\* reapHopeless: silent, and no attempts left.
Hopeless == {j \in silent : status[j] = "claimed" /\ attempts[j] >= MaxAttempts}

ReapHopeless ==
  /\ Hopeless # {}
  /\ status' = [j \in Job |-> IF j \in Hopeless THEN "dead" ELSE status[j]]
  /\ silent' = silent \ Hopeless
  /\ presumed' = presumed \cup Alive(Hopeless)
  /\ UNCHANGED <<kind, holder, attempts, landed, written, work, gone, pool, lost, told>>

-----------------------------------------------------------------------------
(* The attempt.                                                            *)

Goto(w, from, to) == work[w].at = from /\ work' = [work EXCEPT ![w].at = to]

\* The note's seq comes off the attempt's own counter, and its insert is not awaited.
NoteAndGoto(w, type, to) ==
  LET n == work[w].seq + 1
  IN  work' = [work EXCEPT
        ![w].at      = to,
        ![w].seq     = n,
        ![w].pending = @ \cup {[seq |-> n, attempt |-> work[w].attempt, kind |-> type]}]

OnlyWork == UNCHANGED <<jobVars, landed, written, gone, pool, lost, history>>

\* The rest of holdWork: how many events there are, then what was found last time.
CountEvents(w) ==
  /\ work[w].at = "counting"
  /\ work' = [work EXCEPT ![w].at = "recalling", ![w].seq = Cardinality(landed[work[w].job])]
  /\ OnlyWork

\* Mutant: the findings of an earlier attempt are not looked up.
RecallNothing_(w) == Goto(w, "recalling", "starting") /\ OnlyWork

RecallFindings(w) ==
  /\ work[w].at = "recalling"
  /\ work' = [work EXCEPT ![w].at = "starting",
                          ![w].resumed = \E n \in landed[work[w].job] : n.kind = "findings"]
  /\ OnlyWork

\* holdWork throws after its UPDATE: runWork logs it and returns, the job stays claimed.
HoldBreaks(w) ==
  /\ work[w].at \in {"counting", "recalling"}
  /\ work' = [work EXCEPT ![w] = Idle]
  /\ OnlyWork

IsDraft(w) == kind[work[w].job] = "draft"

\* Only drafts and revisions honour a resume.
Start(w) ==
  /\ work[w].at = "starting"
  /\ NoteAndGoto(w, "note",
       IF work[w].resumed /\ IsDraft(w) THEN "saving" ELSE "reading")
  /\ OnlyWork

\* The research round: its prose is the findings a resume starts from.
Read(w) ==
  /\ work[w].at = "reading" /\ IsDraft(w)
  /\ NoteAndGoto(w, "findings", "saving")
  /\ OnlyWork

\* askAgent and recheckStep read and answer in one call, and note no findings.
Answer(w) ==
  /\ Goto(w, "reading", "saving")
  /\ ~IsDraft(w)
  /\ OnlyWork

\* The plan is written in memory; then writeNewPlan, writeRevision or answeredIn commits,
\* and the closing note is sent.
Save(w) ==
  /\ work[w].at = "saving"
  /\ written' = [written EXCEPT ![work[w].job] = @ \cup {work[w].attempt}]
  /\ NoteAndGoto(w, "note", "settling")
  /\ UNCHANGED <<jobVars, landed, gone, pool, lost, history>>

\* NeedsConfigError: the project cannot boot; the job settles with that said.
NeedsConfig(w) ==
  /\ work[w].at = "starting"
  /\ NoteAndGoto(w, "note", "excusing")
  /\ OnlyWork

\* Anything else that throws on the way: no key, no machine, a plan that moved, a
\* statement of the save or of the settling that failed.
Throw(w) ==
  /\ work[w].at \in {"starting", "reading", "saving", "settling"}
  /\ NoteAndGoto(w, "note", "failing")
  /\ OnlyWork

\* Mutant: the settling does not wait for the notes, whatever the pool.
SentAnyway_(w) == TRUE

\* A statement sent on the only connection waits for what was sent before it.
Sent(w) == pool = "one" => work[w].pending = {}

\* The outcome is written, by whoever it is.
Say(w, outcome) ==
  LET j == work[w].job
  IN  /\ status' = [status EXCEPT ![j] = outcome]
      /\ silent' = silent \ {j}
      /\ told'   = [told EXCEPT ![j] = [proc |-> work[w].proc, attempt |-> work[w].attempt]]

\* Mutant: settling asks for the job by its id alone.
ConcludeAnyway_(w, outcome) == Say(w, outcome)

\* settleWork and failWork ask who holds the job, and not whether it is still claimed.
Conclude(w, outcome) ==
  IF holder[work[w].job] = work[w].proc THEN Say(w, outcome) ELSE UNCHANGED <<status, silent, told>>

SettleWork(w) ==
  /\ work[w].at \in {"settling", "excusing"} /\ Sent(w)
  /\ Conclude(w, "completed")
  /\ work' = [work EXCEPT ![w].at = "barrier"]
  /\ UNCHANGED <<kind, holder, attempts, landed, written, gone, pool, lost, presumed>>

FailWork(w) ==
  /\ Goto(w, "failing", "barrier") /\ Sent(w)
  /\ Conclude(w, "failed")
  /\ UNCHANGED <<kind, holder, attempts, landed, written, gone, pool, lost, presumed>>

\* The failure could not be recorded, or the excuse could not: the job stays claimed.
ConcludingBreaks(w) ==
  /\ work[w].at \in {"failing", "excusing"}
  /\ work' = [work EXCEPT ![w].at = "barrier"]
  /\ OnlyWork

\* finally await watch.settled().
Finish(w) ==
  /\ work[w].at = "barrier" /\ work[w].pending = {}
  /\ work' = [work EXCEPT ![w] = Idle]
  /\ OnlyWork

-----------------------------------------------------------------------------
(* What the attempt does not wait for.                                     *)

IsNext(w, n) == pool = "one" => \A m \in work[w].pending : n.seq <= m.seq

\* An insert lands; job_events_seq_idx refuses a seq that is taken.
LandNote(w, n) ==
  LET j == work[w].job
  IN  /\ n \in work[w].pending /\ IsNext(w, n)
      /\ landed' = IF \E m \in landed[j] : m.seq = n.seq THEN landed
                   ELSE [landed EXCEPT ![j] = @ \cup {n}]
      /\ work' = [work EXCEPT ![w].pending = @ \ {n}]
      /\ UNCHANGED <<jobVars, written, gone, pool, lost, history>>

\* An insert fails: logged and swallowed.
LoseNote(w, n) ==
  /\ n \in work[w].pending /\ IsNext(w, n)
  /\ lost < MaxLost
  /\ lost' = lost + 1
  /\ work' = [work EXCEPT ![w].pending = @ \ {n}]
  /\ UNCHANGED <<jobVars, landed, written, gone, pool, history>>

\* The beat a note sends along, at most one in twenty seconds; it can be late.
BeatWork(w) ==
  LET j == work[w].job
  IN  /\ work[w].seq > 0 /\ j \in silent
      /\ status[j] = "claimed" /\ holder[j] = work[w].proc
      /\ silent' = silent \ {j}
      /\ UNCHANGED <<kind, status, holder, attempts, landed, written, work, gone, pool, lost, history>>

\* Three minutes without a beat, whether the attempt is dead or in a long call.
GoSilent(j) ==
  /\ status[j] = "claimed" /\ j \notin silent
  /\ silent' = silent \cup {j}
  /\ UNCHANGED <<kind, status, holder, attempts, landed, written, work, gone, pool, lost, history>>

\* The process dies with everything it was doing; the last one is kept as a bound.
ProcessDies(p) ==
  /\ p \notin gone /\ gone \cup {p} # Process
  /\ gone' = gone \cup {p}
  /\ work' = [w \in Worker |-> IF work[w].proc = p THEN Idle ELSE work[w]]
  /\ UNCHANGED <<jobVars, landed, written, pool, lost, history>>

-----------------------------------------------------------------------------
Attempt(w) ==
  \/ CountEvents(w) \/ RecallFindings(w) \/ HoldBreaks(w)
  \/ Start(w) \/ Read(w) \/ Answer(w) \/ Save(w) \/ NeedsConfig(w) \/ Throw(w)
  \/ SettleWork(w) \/ FailWork(w) \/ ConcludingBreaks(w) \/ Finish(w)

Inserts(w) == \E n \in work[w].pending : LandNote(w, n) \/ LoseNote(w, n)

Resume(j) == \E w \in Worker, p \in Process : Hold(w, p, j)

WorkNext ==
  \/ \E j \in Job, type \in Kind : Ask(j, type)
  \/ \E j \in Job : Resume(j) \/ GoSilent(j)
  \/ ReapHopeless
  \/ \E w \in Worker : Attempt(w) \/ Inserts(w) \/ BeatWork(w)
  \/ \E p \in Process : ProcessDies(p)

WorkSpec == WorkInit /\ [][WorkNext]_workVars

\* A living process carries its attempts on, time passes, and somebody keeps opening
\* the work page.
FairSpec ==
  /\ WorkSpec
  /\ \A w \in Worker : WF_workVars(Attempt(w)) /\ WF_workVars(Inserts(w))
  /\ \A j \in Job : WF_workVars(GoSilent(j)) /\ WF_workVars(Resume(j))
  /\ WF_workVars(ReapHopeless)

-----------------------------------------------------------------------------
(* Properties.                                                             *)

Stage == {"idle", "counting", "recalling", "starting", "reading", "saving",
          "settling", "excusing", "failing", "barrier"}

Note == [seq: Nat \ {0}, attempt: 1..MaxAttempts, kind: {"note", "findings"}]

Doing == [at: Stage, proc: Process \cup {NoProcess}, job: Job \cup {NoJob}, attempt: 0..MaxAttempts,
          seq: Nat, resumed: BOOLEAN, pending: SUBSET Note]

\* Every column holds a value of its type; attempts never passes max_attempts; a seq
\* is used once in a job's transcript.
AgentTypeOK ==
  /\ kind \in [Job -> Kind \cup {"none"}]
  /\ status \in [Job -> Settled \cup {"none", "pending", "claimed"}]
  /\ holder \in [Job -> Process \cup {NoProcess}]
  /\ attempts \in [Job -> 0..MaxAttempts]
  /\ silent \subseteq {j \in Job : status[j] = "claimed"}
  /\ landed \in [Job -> SUBSET Note]
  /\ \A j \in Job : IsFiniteSet(landed[j]) /\ \A m, n \in landed[j] : m.seq = n.seq => m = n
  /\ written \in [Job -> SUBSET (1..MaxAttempts)] /\ \A j \in Job : written[j] \subseteq 1..attempts[j]
  /\ work \in [Worker -> Doing]
  /\ gone \subseteq Process /\ pool \in Pools /\ lost \in 0..MaxLost
  /\ presumed \subseteq Job
  /\ told \in [Job -> [proc: Process \cup {NoProcess}, attempt: 0..MaxAttempts]]

\* Whoever lost a job to another process never has the last word on it: what a finished
\* job says comes from the process that holds it, and, unless a living attempt was presumed
\* dead, from the last attempt that was started.
OutcomeIsTheHolders ==
  \A j \in Job : status[j] \in {"completed", "failed"} =>
    /\ told[j].proc = holder[j]
    /\ told[j].attempt = attempts[j] \/ j \in presumed

\* The reading is paid for once: no attempt reads the code for a draft whose findings
\* are already in the transcript, whoever put them there and however it died.  A rival
\* of a living attempt reads again.
ReadOnce ==
  \A w \in Worker :
    (work[w].at = "reading" /\ work[w].job \notin presumed /\ IsDraft(w)) =>
      ~ \E n \in landed[work[w].job] : n.kind = "findings"

\* A settled job is never taken up again, by no resume, crash or reap, and what it says
\* changes at one hand only: an attempt of the process that holds it, late, after a living
\* attempt was presumed dead.
OutcomeIsFinal ==
  [][\A j \in Job : status[j] \in Settled =>
       /\ holder'[j] = holder[j] /\ attempts'[j] = attempts[j]
       /\ \/ status'[j] = status[j]
          \/ /\ j \in presumed /\ status'[j] \in {"completed", "failed"}
             /\ told'[j].proc = holder[j]]_workVars

\* In production, where a process has one connection, a job whose attempts were never
\* presumed dead alive is marked finished after its transcript has landed, and a resume's
\* notes follow those of the attempt it resumes.
ProductionTranscript ==
  pool = "one" =>
    /\ \A w \in Worker :
         LET j == work[w].job
         IN  (work[w].at = "barrier" /\ j \notin presumed /\ status[j] # "claimed") =>
               work[w].pending = {}
    /\ lost = 0 => \A j \in Job \ presumed : \A m, n \in landed[j] :
         m.attempt < n.attempt => m.seq < n.seq

\* Whatever is asked for ends: done, failed with a reason, or given up.
EveryRequestEnds == \A j \in Job : status[j] = "pending" ~> status[j] \in Settled

-----------------------------------------------------------------------------
(* Claims of the code's comments that do not hold: added to a              *)
(* configuration, each gives the trace its finding tells.                  *)

\* A finished job stays finished: no attempt that lost its lease can come back and
\* overwrite "the attempt that actually finished it" (the comment on settleWork).
FinishedStaysFinished ==
  [][\A j \in Job : status[j] = "completed" => status'[j] = "completed"]_workVars

\* A job is not marked complete before its own transcript landed (the comments on
\* Recorder.settled and on runWork's barrier).
CompletedHasTranscript ==
  \A w \in Worker : (work[w].job # NoJob /\ status[work[w].job] = "completed") =>
    work[w].pending = {}

\* Only two writers on one job could use a seq twice (the comment on job_events_seq_idx):
\* a single writer's note never finds its place taken.
SeqIsFree ==
  \A w \in Worker : Cardinality(Attending(work[w].job)) = 1 =>
    \A n \in work[w].pending : \A m \in landed[work[w].job] : m.seq # n.seq
=============================================================================
