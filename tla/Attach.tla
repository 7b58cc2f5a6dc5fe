------------------------------- MODULE Attach -------------------------------
(***************************************************************************)
(* The loop of a machine that is attached to a project (cli/internal/app/  *)
(* attach.go, with the calls of cli/internal/cloud), composed with the     *)
(* queue it polls (MachineQueue) over a network that loses and delays      *)
(* calls.                                                                  *)
(*                                                                         *)
(* A machine does one errand at a time.  Beside the walk a goroutine beats *)
(* for the errand, and cancels the walk when the dashboard says the errand *)
(* is somebody else's; another sends the steps as they finish.  The loop   *)
(* itself polls, carries the errand out and says how it ended, once.       *)
(*                                                                         *)
(* A call is put on the network, lands whenever it lands or never, and the *)
(* machine hears the answer or stops waiting for it.  Ctrl-C ends the      *)
(* beat and the previews at once, while the walk winds down in its own     *)
(* time.                                                                   *)
(*                                                                         *)
(* Operators whose names end in _ are mutants of the operator after them.  *)
(***************************************************************************)
EXTENDS Naturals, FiniteSets

CONSTANTS
  Machine, NoMachine, Plan, NoPlan, Step, Request,
  MaxJobs, MaxAttempts, MaxClicks, MaxCrashes, Timely,
  NoRequest,    \* a machine that is not polling
  MaxEnds,      \* bound: processes that are interrupted or die
  MaxCalls,     \* bound: calls about errands on the network at once
  Outcome       \* the verdicts a walk comes to

ASSUME RequestAssumption == NoRequest \notin Request
ASSUME AttachBounds == MaxEnds \in Nat /\ MaxCalls \in Nat \ {0}
ASSUME OutcomeAssumption == Outcome \subseteq {"passed", "failed", "error"}

VARIABLES
  kind, status, claimedBy, attempts, verdict, quiet, cooling, runPlan, runStatus, rows,
  at, caller, owedPending, owedError, handing, clicks, crashes,
  proc,    \* the process of each machine
  net,     \* calls on the network
  weather, \* "good": beats get through and no call outlives its caller's patience, or its caller
  ends     \* processes that were interrupted or died so far

Queue == INSTANCE MachineQueue

JobId == Queue!JobId
NoJob == Queue!NoJob

queueVars == <<kind, status, claimedBy, attempts, verdict, quiet, cooling, runPlan, runStatus,
               rows, at, caller, owedPending, owedError, handing, clicks, crashes>>
vars == <<queueVars, proc, net, weather, ends>>

\* A process with nothing in hand.
\*   does      what the loop is doing
\*   poll      the claim request it waits for
\*   given     the errand in the answer to it
\*   job       the errand in hand
\*   beat      the goroutine that beats: off, on, or what it is about to do
\*   taken     the flag it shares with the loop
\*   cut       the walk's context is cancelled
\*   leaving   the session's context is cancelled
\*   says      how the errand is going to be settled
\*   whole     the walk came to its end by itself
Idle == [does |-> "waiting", poll |-> NoRequest, given |-> NoJob, job |-> NoJob,
         beat |-> "off", taken |-> FALSE, cut |-> FALSE, leaving |-> FALSE,
         says |-> "nothing", whole |-> FALSE]

Init ==
  /\ Queue!Init
  /\ proc = [m \in Machine |-> Idle]
  /\ net = {}
  /\ weather \in {"good", "bad"}
  /\ ends = 0

\* Back to the loop: whatever execute or reindex deferred stops the beat.
Done(m) == [Idle EXCEPT !.leaving = proc[m].leaving]

\* The network takes a call.
Send(c) == Cardinality(net) < MaxCalls /\ net' = net \cup {c}

Say(m, what) == [from |-> m, job |-> proc[m].job, what |-> what, whole |-> proc[m].whole]

-----------------------------------------------------------------------------
(* Polling.                                                                *)

NothingQueued == UNCHANGED <<queueVars, weather, ends>>

\* Claim: the poll reaches the dashboard.
Poll(m, q) ==
  /\ proc[m].does = "waiting" /\ ~proc[m].leaving
  /\ Queue!Poll(q, m)
  /\ proc' = [proc EXCEPT ![m].does = "asking", ![m].poll = q, ![m].given = NoJob]
  /\ UNCHANGED <<net, weather, ends>>

\* The claim route works, and remembers for the answer which errand it handed out.
Serve(q) ==
  /\ \/ /\ \/ Queue!ReapRevive(q)
           \/ Queue!ReapBury(q)
           \/ \E j \in JobId : Queue!SettleRevived(q, j)
           \/ \E j \in JobId : Queue!SettleDead(q, j)
           \/ Queue!ClaimNothing(q)
           \/ Queue!StartRun(q)
        /\ UNCHANGED proc
     \/ \E j \in JobId :
          /\ Queue!ClaimNextJob(q, j)
          /\ proc' = IF proc[caller[q]].poll = q
                     THEN [proc EXCEPT ![caller[q]].given = j] ELSE proc
  /\ UNCHANGED <<net, weather, ends>>

\* The claim route still works on the machine's poll.
Served(m) == LET q == proc[m].poll
             IN  caller[q] = m \/ (handing[q] # NoJob /\ handing[q] = proc[m].given)

\* The answer: nothing to do, or an errand.
HearAnswer(m) ==
  LET p == proc[m]
  IN  /\ p.does = "asking" /\ ~Served(m)
      /\ proc' = [proc EXCEPT ![m].poll = NoRequest, ![m].given = NoJob, ![m].job = p.given,
                              ![m].does = IF p.given = NoJob THEN "waiting" ELSE "handed"]
      /\ NothingQueued /\ UNCHANGED net

\* The answer never comes, or is an error: the loop slows down and asks again.
AnswerLost(m) ==
  /\ proc[m].does = "asking"
  /\ proc' = [proc EXCEPT ![m] = Done(m)]
  /\ NothingQueued /\ UNCHANGED net

\* The loop notices between two errands that the session is over.
Leave(m) ==
  /\ proc[m].does = "waiting" /\ proc[m].leaving
  /\ proc' = [proc EXCEPT ![m] = [Idle EXCEPT !.does = "gone"]]
  /\ NothingQueued /\ UNCHANGED net

-----------------------------------------------------------------------------
(* Carrying an errand out.                                                 *)

IsRun(m) == kind[proc[m].job] = "execute_tests"

\* Mutant: the heartbeat starts with the walk.
StartLateBeat_(m) ==
  /\ proc[m].does = "handed"
  /\ proc' = [proc EXCEPT ![m].does = IF IsRun(m) THEN "preparing" ELSE "reading",
                          ![m].cut = proc[m].leaving]
  /\ NothingQueued /\ UNCHANGED net

\* execute past its payload, and reindex: the heartbeat covers all that follows, for as
\* long as the session lasts.
Start(m) ==
  /\ proc[m].does = "handed"
  /\ proc' = [proc EXCEPT ![m].does = IF IsRun(m) THEN "preparing" ELSE "reading",
                          ![m].beat = IF proc[m].leaving THEN "off" ELSE "on",
                          ![m].cut = proc[m].leaving]
  /\ NothingQueued /\ UNCHANGED net

\* The loop has decided what to say, and says it.  A beat that is still on stays on until
\* the answer: its stop is deferred.
Settling(m, what) ==
  /\ proc' = [proc EXCEPT ![m].does = "reporting", ![m].says = what]
  /\ Send(Say(m, what))

SaysNothing(m) == proc' = [proc EXCEPT ![m] = Done(m)] /\ UNCHANGED net

\* A payload that is not one, or a plan that breaks its rules.
Unreadable(m) ==
  /\ proc[m].does = "handed" /\ IsRun(m)
  /\ Settling(m, "error")
  /\ NothingQueued

\* abandoned: the errand was taken back, the operator stopped, or it could not be done.
PrepareBreaks(m) ==
  /\ proc[m].does = "preparing"
  /\ \/ proc[m].taken /\ SaysNothing(m)
     \/ ~proc[m].taken /\ proc[m].leaving /\ Settling(m, "release")
     \/ ~proc[m].taken /\ ~proc[m].leaving /\ ~proc[m].cut /\ Settling(m, "error")
  /\ NothingQueued

Prepare(m) ==
  /\ proc[m].does = "preparing" /\ ~proc[m].cut
  /\ proc' = [proc EXCEPT ![m].does = "walking"]
  /\ NothingQueued /\ UNCHANGED net

\* Live.Send and pump: a finished step goes out ahead of the record, one at a time, until
\* the session is over.
Preview(m) ==
  /\ proc[m].does = "walking" /\ ~proc[m].leaving
  /\ \A c \in net : ~(c.from = m /\ c.what = "steps")
  /\ Send(Say(m, "steps"))
  /\ NothingQueued /\ UNCHANGED proc

\* Engine.Run returns; one whose context was cancelled stopped on the way, and what it
\* calls the rest of the plan is a verdict like any other.  stop() ends the beat.
WalkEnds(m, outcome) ==
  /\ proc[m].does = "walking"
  /\ proc' = [proc EXCEPT ![m].does = "closing", ![m].says = outcome,
                          ![m].whole = ~proc[m].cut,
                          ![m].beat = IF @ = "on" THEN "off" ELSE @]
  /\ NothingQueued /\ UNCHANGED net

\* Mutant: Close does not wait for what is queued.
PreviewsOverAnyway_(m) == TRUE

\* Live.Close: the preview on its way is answered, lost or out of time, or the session is
\* over and nobody waits for it.
PreviewsOver(m) ==
  weather = "bad" \/ proc[m].leaving \/ \A c \in net : ~(c.from = m /\ c.what = "steps")

\* execute's switch once the walk is over.
Close(m) ==
  /\ proc[m].does = "closing" /\ PreviewsOver(m)
  /\ \/ proc[m].taken /\ SaysNothing(m)
     \/ ~proc[m].taken /\ proc[m].leaving /\ Settling(m, "release")
     \/ ~proc[m].taken /\ ~proc[m].leaving /\ Settling(m, proc[m].says)
  /\ NothingQueued

\* reindex: the pass, and the push of what it found.  A pass that broke goes back unless
\* the errand was taken.  Nothing after the pass asks whether it was.
ReadBreaks(m) ==
  /\ proc[m].does = "reading"
  /\ \/ proc[m].taken /\ SaysNothing(m)
     \/ ~proc[m].taken /\ (proc[m].cut => proc[m].leaving) /\ Settling(m, "release")
  /\ NothingQueued

Read(m) ==
  /\ proc[m].does = "reading" /\ ~proc[m].cut
  /\ proc' = [proc EXCEPT ![m].does = "pushing", ![m].whole = TRUE]
  /\ NothingQueued /\ UNCHANGED net

PushIndex(m) ==
  /\ proc[m].does = "pushing"
  /\ \/ Settling(m, "release")
     \/ ~proc[m].leaving /\ Settling(m, "passed")
  /\ NothingQueued

Reporting(m) == Say(m, proc[m].says)

\* Mutant: the goroutine that beats outlives the errand.
AnsweredBeatingOn_(m) ==
  /\ proc[m].does = "reporting"
  /\ weather = "good" => Reporting(m) \notin net
  /\ proc' = [proc EXCEPT ![m] = [Done(m) EXCEPT !.job = proc[m].job, !.beat = "on"]]
  /\ NothingQueued /\ UNCHANGED net

\* settle and giveBack make one call and take whatever answer it gets, or none in thirty
\* seconds: the call may land after that.
Answered(m) ==
  /\ proc[m].does = "reporting"
  /\ weather = "good" => Reporting(m) \notin net
  /\ SaysNothing(m)
  /\ NothingQueued

-----------------------------------------------------------------------------
(* The goroutine that beats.                                               *)

Beating(m) == proc[m].beat = "on" /\ proc[m].job # NoJob

Beat(m) ==
  /\ Beating(m)
  /\ Queue!HeartbeatJob(m, proc[m].job)
  /\ UNCHANGED <<proc, net, weather, ends>>

\* 404: the errand is not this machine's any more.
BeatRefused(m) ==
  /\ Beating(m) /\ ~Queue!Holds(m, proc[m].job)
  /\ proc' = [proc EXCEPT ![m].beat = "lost"]
  /\ NothingQueued /\ UNCHANGED net

\* Mutant: the walk is cancelled before the loop is told why.
LostCancelsFirst_(m) ==
  /\ \/ /\ proc[m].beat = "lost"
        /\ proc' = [proc EXCEPT ![m].beat = "telling", ![m].cut = TRUE]
     \/ /\ proc[m].beat = "telling"
        /\ proc' = [proc EXCEPT ![m].beat = "off", ![m].taken = TRUE]
  /\ NothingQueued /\ UNCHANGED net

\* lost(): the flag, then the cancellation.
Lost(m) ==
  /\ \/ /\ proc[m].beat = "lost"
        /\ proc' = [proc EXCEPT ![m].beat = "telling", ![m].taken = TRUE]
     \/ /\ proc[m].beat = "telling"
        /\ proc' = [proc EXCEPT ![m].beat = "off", ![m].cut = TRUE]
  /\ NothingQueued /\ UNCHANGED net

-----------------------------------------------------------------------------
(* The network, the operator and the clock.                                *)

\* What a call does when it lands: nothing, if the caller does not hold the errand.
Effect(c) ==
  IF ~Queue!Holds(c.from, c.job) THEN UNCHANGED queueVars
  ELSE CASE c.what = "steps"   -> \E S \in SUBSET Step : Queue!RecordSteps(c.from, c.job, S)
         [] c.what = "release" -> Queue!ReleaseRequeued(c.from, c.job)
                                  \/ Queue!ReleaseDead(c.from, c.job)
         [] OTHER              -> \E S \in SUBSET Step :
                                    Queue!CompleteJob(c.from, c.job, c.what, S)

Land(c) == c \in net /\ net' = net \ {c} /\ Effect(c) /\ UNCHANGED <<proc, weather, ends>>

Drop(c) == c \in net /\ net' = net \ {c} /\ NothingQueued /\ UNCHANGED proc

\* Ctrl-C: the session's context is cancelled, and every context made from it: the beat
\* returns, unless it has just heard that the errand is lost, and the walk winds down.
Interrupt(m) ==
  /\ ends < MaxEnds /\ ~proc[m].leaving /\ proc[m].does # "gone"
  /\ ends' = ends + 1
  /\ proc' = [proc EXCEPT ![m].leaving = TRUE, ![m].cut = TRUE,
                          ![m].beat = IF @ = "on" THEN "off" ELSE @]
  /\ UNCHANGED <<queueVars, net, weather>>

\* The process dies.  What it had on the network may still land.
Die(m) ==
  /\ ends < MaxEnds /\ proc[m].does # "gone"
  /\ ends' = ends + 1
  /\ proc' = [proc EXCEPT ![m] = [Idle EXCEPT !.does = "gone"]]
  /\ UNCHANGED <<queueVars, net, weather>>

\* gritqa is started again on this machine, under the same instance id.
Restart(m) ==
  /\ proc[m].does = "gone"
  /\ weather = "good" => \A c \in net : c.from # m
  /\ proc' = [proc EXCEPT ![m] = Idle]
  /\ NothingQueued /\ UNCHANGED net

\* In good weather an errand that is beaten for, on its way to a machine that waits for it,
\* about to be settled, or spoken of on the network, is not silent for ninety seconds.  What
\* an interrupted machine has in hand can be: its teardown is not cancelled and not beaten
\* for, however long it takes.
InTouch(j) ==
  \E m \in Machine :
    /\ ~proc[m].leaving
    /\ \/ proc[m].job = j /\ proc[m].beat = "on"
       \/ proc[m].job = j /\ proc[m].does \in {"handed", "closing", "reporting"}
       \/ proc[m].given = j
       \/ \E c \in net : c.from = m /\ c.job = j

GoQuiet(j) ==
  /\ weather = "good" => ~InTouch(j)
  /\ Queue!GoQuiet(j)
  /\ UNCHANGED <<proc, net, weather, ends>>

Queueing ==
  /\ \/ \E j \in JobId, p \in Plan : Queue!EnqueueRun(j, p)
     \/ Queue!EnqueueIndexCheck
     \/ \E j \in JobId : Queue!EnqueueIndexInsert(j)
  /\ UNCHANGED <<proc, net, weather, ends>>

RetryDue(j) == Queue!RetryDue(j) /\ UNCHANGED <<proc, net, weather, ends>>

-----------------------------------------------------------------------------
LoopStep(m) ==
  \/ HearAnswer(m) \/ Leave(m)
  \/ Start(m) \/ Unreadable(m) \/ Prepare(m) \/ PrepareBreaks(m)
  \/ \E outcome \in Outcome : WalkEnds(m, outcome)
  \/ Close(m) \/ Read(m) \/ ReadBreaks(m) \/ PushIndex(m) \/ Answered(m)

Calls == [from: Machine, job: JobId, whole: BOOLEAN,
          what: {"steps", "release", "passed", "failed", "error"}]

Next ==
  \/ Queueing
  \/ \E q \in Request : Serve(q)
  \/ \E m \in Machine : \/ \E q \in Request : Poll(m, q)
                        \/ LoopStep(m) \/ AnswerLost(m) \/ Preview(m)
                        \/ Beat(m) \/ BeatRefused(m) \/ Lost(m)
                        \/ Interrupt(m) \/ Die(m) \/ Restart(m)
  \/ \E c \in net : Land(c) \/ Drop(c)
  \/ \E j \in JobId : GoQuiet(j) \/ RetryDue(j)

Spec == Init /\ [][Next]_vars

\* A request is served, a process goes on, a machine that is waiting polls, one that went
\* is started again, a call lands or is lost, and time passes.
FairSpec ==
  /\ Spec
  /\ \A q \in Request : WF_vars(Serve(q))
  /\ \A m \in Machine : /\ WF_vars(LoopStep(m))
                        /\ WF_vars(Lost(m))
                        /\ WF_vars(BeatRefused(m))
                        /\ WF_vars(Restart(m))
                        /\ WF_vars(\E q \in Request : Poll(m, q))
  /\ WF_vars(\E c \in net : Land(c) \/ Drop(c))
  /\ \A j \in JobId : SF_vars(GoQuiet(j)) /\ WF_vars(RetryDue(j))

-----------------------------------------------------------------------------
(* Properties.                                                             *)

Process == [does: {"waiting", "asking", "handed", "preparing", "walking", "closing", "reading",
                   "pushing", "reporting", "gone"},
            poll: Request \cup {NoRequest}, given: JobId \cup {NoJob}, job: JobId \cup {NoJob},
            beat: {"off", "on", "lost", "telling"}, taken: BOOLEAN, cut: BOOLEAN,
            leaving: BOOLEAN, says: {"nothing", "release", "passed", "failed", "error"},
            whole: BOOLEAN]

\* Every variable of the machines and the network keeps to its type, and a machine has an
\* errand in hand exactly while it does something for one: nothing beats for an errand the
\* loop is done with.
AttachTypeOK ==
  /\ proc \in [Machine -> Process]
  /\ \A m \in Machine :
       IF proc[m].does \in {"waiting", "asking", "gone"}
         THEN proc[m].job = NoJob /\ proc[m].beat = "off" /\ ~proc[m].taken
         ELSE proc[m].job # NoJob
  /\ net \subseteq Calls
  /\ ends \in 0..MaxEnds

\* A walk that was cut short is never reported as a verdict, though the engine hands back
\* one: whoever cuts it says so to the loop first (attach.go, execute's switch).
NoVerdictFromACutWalk ==
  \A c \in net : c.what \in {"passed", "failed"} => c.whole

AtWork(m, j) == proc[m].job = j /\ proc[m].does \in {"preparing", "walking", "reading", "pushing"}

\* In good weather two machines are never at one errand, however long a cold sandbox takes
\* to boot (attach.go: "The heartbeat covers staging as well as the walk"), unless one of
\* them was interrupted and is winding down.
OneMachineAtWork ==
  weather = "good" =>
    \A j \in JobId : \A m, n \in Machine :
      AtWork(m, j) /\ AtWork(n, j) /\ ~proc[m].leaving /\ ~proc[n].leaving => m = n

\* In good weather what a machine has on the network about its errands comes before the
\* record: no preview is left behind a completion, whenever the session is interrupted.
NoPreviewBehindTheRecord ==
  weather = "good" =>
    \A c, d \in net : ~(c.what = "steps" /\ d.what \notin {"steps", "release"} /\ c.from = d.from)

\* However calls are lost and processes die, an errand that is queued is settled in the
\* end: nobody goes on holding what nobody does.
EveryErrandIsSettled ==
  \A j \in JobId : status[j] = "pending" ~> status[j] \in {"completed", "dead"}

-----------------------------------------------------------------------------
(* A claim of the code's comments that does not hold: added to a           *)
(* configuration, it gives the trace its finding tells.                    *)

\* The heartbeat covers the staging (attach.go): in good weather nobody is handed an errand
\* that another machine is still at.
HeardToTheEnd ==
  weather = "good" =>
    \A j \in JobId : \A m, n \in Machine : AtWork(m, j) /\ AtWork(n, j) => m = n
=============================================================================
