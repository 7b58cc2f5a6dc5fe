---------------------------- MODULE AttachProofs ----------------------------
(***************************************************************************)
(* Proofs about Attach: that it uses the queue only as the queue allows,   *)
(* its type invariant, that no walk that was cut short is reported as a    *)
(* verdict, and, in good weather, that of the machines at one errand at    *)
(* most one is not winding down, and no preview is left behind a record.   *)
(***************************************************************************)
EXTENDS Attach, TLAPS

-----------------------------------------------------------------------------
(* The strengthening.                                                      *)

\* Only a machine that polls has a request and an answer; whoever cuts a walk says so to the
\* loop first; what is about to be reported came to its end, or is not going to be.
Sound(p) ==
  /\ p \in Process
  /\ IF p.does \in {"waiting", "asking", "gone"} THEN p.job = NoJob /\ p.beat = "off" /\ ~p.taken
     ELSE p.job # NoJob
  /\ p.does # "asking" => p.poll = NoRequest /\ p.given = NoJob
  /\ p.cut => p.taken \/ p.leaving
  /\ p.beat = "telling" => p.taken
  /\ p.does = "pushing" => p.whole
  /\ p.does = "closing" => p.says # "nothing" /\ (p.whole \/ p.taken \/ p.leaving)

AttachInv ==
  /\ AttachTypeOK
  /\ \A m \in Machine : Sound(proc[m])
  /\ NoVerdictFromACutWalk

\* The columns that say whose an errand is.
ClaimsTyped ==
  /\ status \in [JobId -> Queue!Status \cup {"none"}]
  /\ claimedBy \in [JobId -> Machine \cup {NoMachine}]
  /\ caller \in [Request -> Machine \cup {NoMachine}]
  /\ quiet \subseteq {j \in JobId : status[j] = "claimed"}

\* A machine whose session goes on is at an errand, or the answer on its way hands it one.
Has(p, j) ==
  /\ ~p.leaving
  /\ \/ p.given = j
     \/ p.job = j /\ p.does \in {"handed", "preparing", "walking", "closing", "reading", "pushing"}

\* An errand is the machine's, and nobody is about to take it.
Kept(m, j) == Queue!Holds(m, j) /\ j \notin quiet

Beaten(p) ==
  ~p.leaving /\ p.does \in {"preparing", "walking", "reading", "pushing"} => p.beat = "on"

InHand ==
  \A m \in Machine : Beaten(proc[m]) /\ \A j \in JobId : Has(proc[m], j) => Kept(m, j)

IsLast(c) == c.what # "steps"

\* What a machine has on the network: the last word it waits for, or previews of the walk it
\* is at, or those an interrupted walk left behind, and no record beside them.
Orderly(p, calls) ==
  /\ \A c \in calls : IsLast(c) =>
       \/ p.does = "gone"
       \/ p.does = "reporting" /\ c.what = p.says /\ c.job = p.job /\ c.whole = p.whole
  /\ \A c \in calls : ~IsLast(c) =>
       \/ p.does \in {"walking", "closing", "gone"}
       \/ p.leaving /\ p.does \in {"reporting", "waiting"}
  /\ \A c, d \in calls : ~IsLast(c) => d.what \in {"steps", "release"}

From(m) == {c \in net : c.from = m}

SpeaksInOrder == \A m \in Machine : Orderly(proc[m], From(m))

GoodInv == weather = "good" => InHand /\ SpeaksInOrder

IInv == AttachInv /\ ClaimsTyped /\ GoodInv

-----------------------------------------------------------------------------
(* What a step makes of a process.                                         *)

\* A process has nothing it did not have.
Follows(p, r) == Beaten(r) /\ \A j \in JobId : Has(r, j) => Has(p, j)

\* What the machine has on the network is as orderly of r as it was of p.
Heeds(m, r) == weather = "good" /\ Orderly(proc[m], From(m)) => Orderly(r, From(m))

\* A machine turns to r.
Turns(m, r) ==
  /\ Sound(r) /\ proc' = [proc EXCEPT ![m] = r]
  /\ weather = "good" /\ InHand => Follows(proc[m], r)

\* A machine goes on, to r, and says nothing more.
Becomes(m, r) == Turns(m, r) /\ Heeds(m, r)

LEMMA NoErrand == NoJob \notin JobId
BY DEF NoJob, JobId, Queue!NoJob, Queue!JobId

LEMMA Fields ==
  ASSUME AttachInv, NEW m \in Machine
  PROVE  proc \in [Machine -> Process] /\ proc[m] \in Process /\ Sound(proc[m])
BY DEF AttachInv, AttachTypeOK

\* A process with nothing in hand follows any.
LEMMA EmptyFollows ==
  ASSUME NEW p, NEW r \in Process, r.given = NoJob, r.does \in {"waiting", "asking", "reporting", "gone"}
  PROVE  Follows(p, r)
BY NoErrand DEF Follows, Has, Beaten

\* Who is neither walking nor reporting, and not on the way out, has nothing on the network.
LEMMA NothingSaid ==
  ASSUME NEW p, NEW calls, Orderly(p, calls),
         \/ p.does \in {"asking", "handed", "preparing", "reading", "pushing"}
         \/ p.does = "waiting" /\ ~p.leaving
  PROVE  calls = {}
BY DEF Orderly

LEMMA NothingIsOrderly == \A p : Orderly(p, {})
BY DEF Orderly

\* What was said stays in order while the machine does what it did, or is interrupted at it.
LEMMA StaysOrderly ==
  ASSUME NEW p, NEW r, NEW calls, Orderly(p, calls), r.does = p.does, r.says = p.says, r.job = p.job,
         r.whole = p.whole, p.leaving => r.leaving
  PROVE  Orderly(r, calls)
BY DEF Orderly

LEMMA FewerAreOrderly ==
  ASSUME NEW p, NEW calls, Orderly(p, calls), NEW fewer \in SUBSET calls
  PROVE  Orderly(p, fewer)
BY DEF Orderly

LEMMA SaysNothingTurns ==
  ASSUME AttachInv, NEW m \in Machine, SaysNothing(m)
  PROVE  /\ \E r : Turns(m, r) /\ r.does = "waiting" /\ r.leaving = proc[m].leaving
         /\ net' = net
<1> DEFINE r == Done(m)
<1>1. /\ r \in Process /\ Sound(r) /\ r.given = NoJob /\ r.does = "waiting"
      /\ r.leaving = proc[m].leaving
  BY Fields DEF Done, Idle, Process, Sound
<1>2. proc' = [proc EXCEPT ![m] = r] /\ net' = net
  BY DEF SaysNothing
<1> HIDE DEF r
<1> QED BY <1>1, <1>2, EmptyFollows DEF Turns

\* What a machine that settles its errand turns to, and that it still has what it says in order.
LEMMA SettlingTurns ==
  ASSUME AttachInv, NEW m \in Machine, proc[m].does \notin {"waiting", "asking", "gone", "reporting"},
         NEW what \in {"release", "passed", "failed", "error"}, Settling(m, what),
         what \in {"passed", "failed"} => proc[m].whole,
         proc[m].does \in {"walking", "closing"} => PreviewsOver(m) /\ (proc[m].leaving => what = "release")
  PROVE  /\ net' = net \cup {Say(m, what)} /\ Say(m, what) \in Calls
         /\ what \in {"passed", "failed"} => Say(m, what).whole
         /\ \E r : /\ Turns(m, r)
                   /\ weather = "good" /\ Orderly(proc[m], From(m)) =>
                        Orderly(r, From(m) \cup {Say(m, what)})
<1> DEFINE p == proc[m]
           r == [p EXCEPT !.does = "reporting", !.says = what]
<1>1. p \in Process /\ Sound(p) /\ proc \in [Machine -> Process]
  BY Fields
<1>2. /\ r \in Process /\ r.does = "reporting" /\ r.given = p.given /\ r.job = p.job /\ r.poll = p.poll
      /\ r.taken = p.taken /\ r.cut = p.cut /\ r.leaving = p.leaving /\ r.beat = p.beat
      /\ r.says = what /\ r.whole = p.whole
  BY <1>1 DEF Process
<1>3. p.given = NoJob /\ p.poll = NoRequest /\ p.job # NoJob /\ p.job \in JobId /\ p.whole \in BOOLEAN
  BY <1>1 DEF Sound, Process
<1>4. proc' = [proc EXCEPT ![m] = r] /\ net' = net \cup {Say(m, what)}
  BY DEF Settling, Send
<1>5. Say(m, what) \in Calls /\ (what \in {"passed", "failed"} => Say(m, what).whole)
  BY <1>3 DEF Say, Calls
<1>6. Sound(r)
  BY <1>1, <1>2, <1>3 DEF Sound
<1>7. Say(m, what).what = what /\ Say(m, what).job = p.job /\ Say(m, what).whole = p.whole
  BY DEF Say
<1>8. p = proc[m] /\ p.does \notin {"waiting", "asking", "gone", "reporting"}
  OBVIOUS
<1>9. p.does \in {"walking", "closing"} => PreviewsOver(m) /\ (p.leaving => what = "release")
  OBVIOUS
<1> HIDE DEF p, r
<1>10. Follows(p, r)
  BY <1>2, <1>3, EmptyFollows
<1>11. ASSUME weather = "good", Orderly(p, From(m)) PROVE Orderly(r, From(m) \cup {Say(m, what)})
  <2>1. \A c \in From(m) : ~IsLast(c)
    BY <1>8, <1>11 DEF Orderly
  <2>2. \A c \in From(m) : p.leaving /\ what = "release"
    <3> SUFFICES ASSUME NEW c \in From(m) PROVE p.leaving /\ what = "release"
      OBVIOUS
    <3>1. p.does \in {"walking", "closing"}
      BY <1>8, <1>11, <2>1 DEF Orderly
    <3>2. c.what = "steps" /\ c.from = m /\ c \in net
      BY <2>1 DEF IsLast, From
    <3>3. PreviewsOver(m)
      BY <1>9, <3>1
    <3>4. p.leaving
      BY <1>8, <1>11, <3>2, <3>3 DEF PreviewsOver
    <3> QED BY <1>9, <3>1, <3>4
  <2>3. r.does = "reporting" /\ r.says = what /\ r.job = p.job /\ r.whole = p.whole /\ r.leaving = p.leaving
    BY <1>2
  <2> QED BY <1>7, <2>1, <2>2, <2>3 DEF Orderly, IsLast
<1> QED BY <1>4, <1>5, <1>6, <1>8, <1>10, <1>11 DEF Turns

\* What a machine that goes on in silence becomes.
LEMMA SilentBecomes ==
  ASSUME AttachInv, NEW m \in Machine,
         \/ HearAnswer(m) \/ AnswerLost(m) \/ Leave(m) \/ Start(m) \/ Prepare(m) \/ Read(m) \/ Answered(m)
         \/ \E outcome \in Outcome : WalkEnds(m, outcome)
         \/ BeatRefused(m) \/ Lost(m) \/ Interrupt(m) \/ Die(m) \/ Restart(m)
  PROVE  (\E r : Becomes(m, r)) /\ UNCHANGED <<queueVars, net, weather>>
<1> DEFINE p == proc[m]
<1>0. p \in Process /\ Sound(p) /\ proc \in [Machine -> Process]
  BY Fields
<1>a. ASSUME NEW r, Turns(m, r), p.does \in {"asking", "handed", "preparing", "reading", "pushing"}
      PROVE  Becomes(m, r)
  BY <1>a, NothingSaid, NothingIsOrderly DEF Becomes, Heeds
<1>b. ASSUME NEW r, Turns(m, r), r.does = p.does, r.says = p.says, r.job = p.job, r.whole = p.whole,
             p.leaving => r.leaving
      PROVE  Becomes(m, r)
  <2>1. Orderly(p, From(m)) => Orderly(r, From(m))
    BY <1>b, StaysOrderly
  <2> QED BY <1>b, <2>1 DEF Becomes, Heeds
<1>1. CASE HearAnswer(m)
  <2> DEFINE r == [p EXCEPT !.poll = NoRequest, !.given = NoJob, !.job = p.given,
                            !.does = IF p.given = NoJob THEN "waiting" ELSE "handed"]
  <2>1. /\ r \in Process /\ r.does = (IF p.given = NoJob THEN "waiting" ELSE "handed") /\ r.given = NoJob
        /\ r.job = p.given /\ r.poll = NoRequest /\ r.taken = p.taken /\ r.cut = p.cut
        /\ r.leaving = p.leaving /\ r.beat = p.beat
    BY <1>0 DEF Process
  <2>2. proc' = [proc EXCEPT ![m] = r] /\ p.does = "asking" /\ r.leaving = p.leaving
    BY <1>0, <1>1 DEF HearAnswer, Process
  <2>a. p = proc[m]
    OBVIOUS
  <2> HIDE DEF p, r
  <2>3. Sound(r)
    BY <1>0, <2>1, <2>2 DEF Sound
  <2>4. Follows(p, r)
    BY <1>0, <2>1, <2>2, NoErrand DEF Follows, Has, Beaten
  <2>5. Becomes(m, r)
    BY <1>a, <2>2, <2>3, <2>4, <2>a DEF Turns
  <2> QED BY <1>1, <2>5 DEF HearAnswer, NothingQueued
<1>2. CASE AnswerLost(m) \/ Answered(m)
  <2>1. SaysNothing(m) /\ p.does \in {"asking", "reporting"}
    BY <1>2 DEF AnswerLost, Answered, SaysNothing
  <2>2. PICK r : Turns(m, r) /\ r.does = "waiting" /\ r.leaving = p.leaving
    BY <2>1, SaysNothingTurns
  <2>3. CASE p.does = "asking"
    BY <1>2, <1>a, <2>1, <2>2, <2>3 DEF AnswerLost, Answered, SaysNothing, NothingQueued
  <2>4. CASE p.does = "reporting"
    <3>1. weather = "good" => Reporting(m) \notin net
      BY <1>2, <2>4 DEF AnswerLost, Answered
    <3>2. ASSUME weather = "good", Orderly(p, From(m)) PROVE Orderly(r, From(m))
      <4>1. \A c \in From(m) : ~IsLast(c)
        <5> SUFFICES ASSUME NEW c \in From(m), IsLast(c) PROVE FALSE
          OBVIOUS
        <5>1. c.what = p.says /\ c.job = p.job /\ c.whole = p.whole /\ c.from = m /\ c \in Calls
          BY <2>4, <3>2 DEF Orderly, From, AttachInv, AttachTypeOK
        <5>2. c = Say(m, p.says)
          BY <5>1 DEF Calls, Say
        <5> QED BY <3>1, <3>2, <5>2 DEF Reporting, From
      <4>2. \A c \in From(m) : p.leaving
        BY <2>4, <3>2, <4>1 DEF Orderly
      <4> QED BY <2>2, <3>2, <4>1, <4>2 DEF Orderly
    <3> QED BY <1>2, <2>2, <3>2, <2>1 DEF Becomes, Heeds, AnswerLost, Answered, SaysNothing, NothingQueued
  <2> QED BY <2>1, <2>3, <2>4
<1>3. CASE Leave(m) \/ Die(m)
  <2> DEFINE r == [Idle EXCEPT !.does = "gone"]
  <2>1. r \in Process /\ Sound(r) /\ r.given = NoJob /\ r.does = "gone"
    BY DEF Idle, Process, Sound
  <2>2. proc' = [proc EXCEPT ![m] = r]
    BY <1>3 DEF Leave, Die
  <2> HIDE DEF r
  <2>3. Turns(m, r)
    BY <2>1, <2>2, EmptyFollows DEF Turns
  <2>4. Heeds(m, r)
    BY <2>1 DEF Heeds, Orderly
  <2> QED BY <1>3, <2>3, <2>4 DEF Becomes, Leave, Die, NothingQueued
<1>c. CASE Restart(m)
  <2>1. Idle \in Process /\ Sound(Idle) /\ Idle.given = NoJob /\ Idle.does = "waiting"
    BY DEF Idle, Process, Sound
  <2>2. proc' = [proc EXCEPT ![m] = Idle] /\ (weather = "good" => From(m) = {})
    BY <1>c DEF Restart, From
  <2>3. Turns(m, Idle)
    BY <2>1, <2>2, EmptyFollows DEF Turns
  <2>4. Heeds(m, Idle)
    BY <2>2, NothingIsOrderly DEF Heeds
  <2> QED BY <1>c, <2>3, <2>4 DEF Becomes, Restart, NothingQueued
<1>4. CASE Start(m)
  <2>1. PICK does \in {"preparing", "reading"}, beat \in {"off", "on"} :
          /\ proc' = [proc EXCEPT ![m] = [p EXCEPT !.does = does, !.beat = beat, !.cut = p.leaving]]
          /\ ~p.leaving => beat = "on"
    BY <1>0, <1>4 DEF Start
  <2> DEFINE r == [p EXCEPT !.does = does, !.beat = beat, !.cut = p.leaving]
  <2>2. /\ r \in Process /\ r.does = does /\ r.given = p.given /\ r.poll = p.poll /\ r.job = p.job
        /\ r.taken = p.taken /\ r.cut = p.leaving /\ r.leaving = p.leaving /\ r.beat = beat
    BY <1>0 DEF Process
  <2>3. p.does = "handed" /\ p = proc[m] /\ proc' = [proc EXCEPT ![m] = r]
    BY <1>4, <2>1 DEF Start
  <2> HIDE DEF p, r
  <2>4. Sound(r) /\ Follows(p, r)
    BY <1>0, <2>1, <2>2, <2>3 DEF Sound, Follows, Has, Beaten
  <2>5. Becomes(m, r)
    BY <1>a, <2>3, <2>4 DEF Turns
  <2> QED BY <1>4, <2>5 DEF Start, NothingQueued
<1>5. CASE Prepare(m)
  <2> DEFINE r == [p EXCEPT !.does = "walking"]
  <2>1. /\ r \in Process /\ r.does = "walking" /\ r.given = p.given /\ r.poll = p.poll /\ r.job = p.job
        /\ r.taken = p.taken /\ r.cut = p.cut /\ r.leaving = p.leaving /\ r.beat = p.beat
    BY <1>0 DEF Process
  <2>2. p.does = "preparing" /\ proc' = [proc EXCEPT ![m] = r] /\ p = proc[m]
    BY <1>5 DEF Prepare
  <2>3. InHand => Beaten(p)
    BY DEF InHand
  <2> HIDE DEF p, r
  <2>4. Sound(r) /\ (InHand => Follows(p, r))
    BY <1>0, <2>1, <2>2, <2>3 DEF Sound, Follows, Has, Beaten
  <2>5. Becomes(m, r)
    BY <1>a, <2>2, <2>4 DEF Turns
  <2> QED BY <1>5, <2>5 DEF Prepare, NothingQueued
<1>6. CASE Read(m)
  <2> DEFINE r == [p EXCEPT !.does = "pushing", !.whole = TRUE]
  <2>1. /\ r \in Process /\ r.does = "pushing" /\ r.given = p.given /\ r.poll = p.poll /\ r.job = p.job
        /\ r.taken = p.taken /\ r.cut = p.cut /\ r.leaving = p.leaving /\ r.beat = p.beat /\ r.whole = TRUE
    BY <1>0 DEF Process
  <2>2. p.does = "reading" /\ proc' = [proc EXCEPT ![m] = r] /\ p = proc[m]
    BY <1>6 DEF Read
  <2>3. InHand => Beaten(p)
    BY DEF InHand
  <2> HIDE DEF p, r
  <2>4. Sound(r) /\ (InHand => Follows(p, r))
    BY <1>0, <2>1, <2>2, <2>3 DEF Sound, Follows, Has, Beaten
  <2>5. Becomes(m, r)
    BY <1>a, <2>2, <2>4 DEF Turns
  <2> QED BY <1>6, <2>5 DEF Read, NothingQueued
<1>7. ASSUME NEW outcome \in Outcome, WalkEnds(m, outcome)
      PROVE  (\E r : Becomes(m, r)) /\ UNCHANGED <<queueVars, net, weather>>
  <2> DEFINE r == [p EXCEPT !.does = "closing", !.says = outcome, !.whole = ~p.cut,
                            !.beat = IF p.beat = "on" THEN "off" ELSE p.beat]
  <2>0. /\ outcome \in {"passed", "failed", "error"} /\ (~p.cut) \in BOOLEAN
        /\ p \in Process /\ p.beat \in {"off", "on", "lost", "telling"}
    BY <1>0, OutcomeAssumption DEF Process
  <2>a. /\ r.does = "closing" /\ r.given = p.given /\ r.poll = p.poll /\ r.job = p.job
        /\ r.taken = p.taken /\ r.cut = p.cut /\ r.leaving = p.leaving
        /\ r.beat \in {"off", p.beat} /\ r.whole = ~p.cut /\ r.says = outcome
    BY <2>0 DEF Process
  <2>b. r \in Process
    <3>1. PICK b \in {"off", "on", "lost", "telling"} : b = IF p.beat = "on" THEN "off" ELSE p.beat
      BY <2>0
    <3>2. PICK w \in BOOLEAN : w = ~p.cut
      BY <2>0
    <3>3. r = [p EXCEPT !.does = "closing", !.says = outcome, !.whole = w, !.beat = b]
      BY <3>1, <3>2
    <3> HIDE DEF p, r
    <3> QED BY <2>0, <3>3 DEF Process
  <2>1. /\ r \in Process /\ r.does = "closing" /\ r.given = p.given /\ r.poll = p.poll /\ r.job = p.job
        /\ r.taken = p.taken /\ r.cut = p.cut /\ r.leaving = p.leaving /\ r.beat \in {"off", p.beat}
        /\ (r.whole <=> ~p.cut) /\ r.says # "nothing"
    BY <2>0, <2>a, <2>b
  <2>2. p.does = "walking" /\ proc' = [proc EXCEPT ![m] = r] /\ p = proc[m]
    BY <1>7 DEF WalkEnds
  <2> HIDE DEF p, r
  <2>4. Sound(r) /\ Follows(p, r)
    BY <1>0, <2>1, <2>2 DEF Sound, Follows, Has, Beaten
  <2>5. Heeds(m, r)
    BY <2>1, <2>2 DEF Heeds, Orderly
  <2> QED BY <1>7, <2>2, <2>4, <2>5 DEF Becomes, Turns, WalkEnds, NothingQueued
<1>8. CASE BeatRefused(m)
  <2> DEFINE r == [p EXCEPT !.beat = "lost"]
  <2>1. /\ r \in Process /\ r.does = p.does /\ r.given = p.given /\ r.poll = p.poll /\ r.job = p.job
        /\ r.taken = p.taken /\ r.cut = p.cut /\ r.leaving = p.leaving /\ r.beat = "lost"
        /\ r.whole = p.whole /\ r.says = p.says
    BY <1>0 DEF Process
  <2>2. p.job \in JobId /\ p.beat = "on" /\ ~Queue!Holds(m, p.job) /\ proc' = [proc EXCEPT ![m] = r]
    BY <1>0, <1>8 DEF BeatRefused, Beating, Process
  <2>3. (InHand => ~Has(p, p.job)) /\ p = proc[m]
    BY <2>2 DEF InHand, Kept
  <2> HIDE DEF p, r
  <2>4. Sound(r)
    BY <1>0, <2>1, <2>2 DEF Sound
  <2>5. InHand => Follows(p, r)
    BY <2>1, <2>3 DEF Follows, Has, Beaten
  <2>6. Becomes(m, r)
    BY <1>b, <2>1, <2>2, <2>3, <2>4, <2>5 DEF Turns
  <2> QED BY <1>8, <2>6 DEF BeatRefused, NothingQueued
<1>9. CASE Lost(m)
  <2> DEFINE told == [p EXCEPT !.beat = "telling", !.taken = TRUE]
             over == [p EXCEPT !.beat = "off", !.cut = TRUE]
  <2>0. \/ p.beat = "lost" /\ proc' = [proc EXCEPT ![m] = told]
        \/ p.beat = "telling" /\ proc' = [proc EXCEPT ![m] = over]
    BY <1>9 DEF Lost
  <2>1. PICK r : /\ proc' = [proc EXCEPT ![m] = r]
                 /\ \/ r = told /\ p.beat = "lost"
                    \/ r = over /\ p.beat = "telling"
    BY <2>0
  <2>2. /\ r \in Process /\ r.does = p.does /\ r.given = p.given /\ r.poll = p.poll /\ r.job = p.job
        /\ r.leaving = p.leaving /\ r.whole = p.whole /\ r.says = p.says /\ r.beat # "on"
        /\ p.beat # "on" /\ p.beat # "off"
        /\ \/ r.beat = "telling" /\ r.taken
           \/ r.beat = "off" /\ r.taken = p.taken /\ p.beat = "telling"
    BY <1>0, <2>1 DEF Process
  <2>3. (InHand => Beaten(p)) /\ p = proc[m]
    BY DEF InHand
  <2> HIDE DEF p
  <2>4. Sound(r)
    BY <1>0, <2>2 DEF Sound
  <2>5. InHand => Follows(p, r)
    BY <2>2, <2>3 DEF Follows, Has, Beaten
  <2>6. Becomes(m, r)
    BY <1>b, <2>1, <2>2, <2>3, <2>4, <2>5 DEF Turns
  <2> QED BY <1>9, <2>6 DEF Lost, NothingQueued
<1>10. CASE Interrupt(m)
  <2>1. PICK beat \in {"off", "lost", "telling"} :
          /\ proc' = [proc EXCEPT ![m] = [p EXCEPT !.leaving = TRUE, !.cut = TRUE, !.beat = beat]]
          /\ beat \in {"off", p.beat}
    <3>1. p.beat \in {"off", "on", "lost", "telling"}
      BY <1>0 DEF Process
    <3> QED BY <1>0, <1>10, <3>1 DEF Interrupt
  <2> DEFINE r == [p EXCEPT !.leaving = TRUE, !.cut = TRUE, !.beat = beat]
  <2>2. /\ r \in Process /\ r.does = p.does /\ r.given = p.given /\ r.poll = p.poll /\ r.job = p.job
        /\ r.taken = p.taken /\ r.leaving = TRUE /\ r.beat = beat /\ r.whole = p.whole /\ r.says = p.says
    BY <1>0 DEF Process
  <2>3. proc' = [proc EXCEPT ![m] = r] /\ p = proc[m]
    BY <2>1
  <2> HIDE DEF p, r
  <2>4. Sound(r) /\ Follows(p, r)
    BY <1>0, <2>1, <2>2 DEF Sound, Follows, Has, Beaten
  <2>5. Becomes(m, r)
    BY <1>b, <2>2, <2>3, <2>4 DEF Turns
  <2> QED BY <1>10, <2>5 DEF Interrupt
<1> QED BY <1>1, <1>2, <1>3, <1>c, <1>4, <1>5, <1>6, <1>7, <1>8, <1>9, <1>10

\* What a machine that settles its errand, or gives it up, becomes.
Concludes(m) ==
  \/ Unreadable(m) \/ PrepareBreaks(m) \/ Close(m) \/ ReadBreaks(m) \/ PushIndex(m)

LEMMA ConcludingBecomes ==
  ASSUME AttachInv, NEW m \in Machine, Concludes(m)
  PROVE  /\ UNCHANGED <<queueVars, weather, ends>>
         /\ \/ (\E r : Becomes(m, r)) /\ net' = net
            \/ \E what \in {"release", "passed", "failed", "error"} :
                 /\ net' = net \cup {Say(m, what)} /\ Say(m, what) \in Calls
                 /\ what \in {"passed", "failed"} => Say(m, what).whole
                 /\ \E r : /\ Turns(m, r)
                           /\ weather = "good" /\ Orderly(proc[m], From(m)) =>
                                Orderly(r, From(m) \cup {Say(m, what)})
<1>0. Sound(proc[m]) /\ proc[m] \in Process
  BY Fields
<1>1. UNCHANGED <<queueVars, weather, ends>>
  BY DEF Concludes, Unreadable, PrepareBreaks, Close, ReadBreaks, PushIndex, NothingQueued
<1>2. /\ proc[m].does \in {"handed", "preparing", "closing", "reading", "pushing"}
      /\ proc[m].does = "closing" => PreviewsOver(m)
  BY DEF Concludes, Unreadable, PrepareBreaks, Close, ReadBreaks, PushIndex
<1>3. \/ SaysNothing(m)
      \/ \E what \in {"release", "passed", "failed", "error"} :
           /\ Settling(m, what) /\ (what \in {"passed", "failed"} => proc[m].whole)
           /\ proc[m].does = "closing" /\ proc[m].leaving => what = "release"
  <2>1. CASE Unreadable(m)
    BY <2>1 DEF Unreadable
  <2>2. CASE PrepareBreaks(m)
    BY <2>2 DEF PrepareBreaks
  <2>3. CASE Close(m)
    <3>1. proc[m].says \in {"release", "passed", "failed", "error"}
      BY <1>0, <2>3 DEF Close, Sound, Process
    <3>2. ~proc[m].taken /\ ~proc[m].leaving => proc[m].whole
      BY <1>0, <2>3 DEF Close, Sound
    <3> QED BY <2>3, <3>1, <3>2 DEF Close
  <2>4. CASE ReadBreaks(m)
    BY <2>4 DEF ReadBreaks
  <2>5. CASE PushIndex(m)
    BY <1>0, <2>5 DEF PushIndex, Sound
  <2> QED BY <2>1, <2>2, <2>3, <2>4, <2>5 DEF Concludes
<1>4. CASE SaysNothing(m)
  <2>1. PICK r : Turns(m, r) /\ r.does = "waiting" /\ r.leaving = proc[m].leaving
    BY <1>4, SaysNothingTurns
  <2>2. ASSUME weather = "good", Orderly(proc[m], From(m)) PROVE Orderly(r, From(m))
    <3>1. \A c \in From(m) : ~IsLast(c) /\ proc[m].does = "closing"
      BY <1>2, <2>2 DEF Orderly
    <3>2. \A c \in From(m) : proc[m].leaving
      BY <1>2, <2>2, <3>1 DEF PreviewsOver, From, IsLast
    <3> QED BY <2>1, <2>2, <3>1, <3>2 DEF Orderly
  <2> QED BY <1>1, <1>4, <2>1, <2>2, SaysNothingTurns DEF Becomes, Heeds
<1>5. ASSUME NEW what \in {"release", "passed", "failed", "error"}, Settling(m, what),
             what \in {"passed", "failed"} => proc[m].whole,
             proc[m].does = "closing" /\ proc[m].leaving => what = "release"
      PROVE  /\ net' = net \cup {Say(m, what)} /\ Say(m, what) \in Calls
             /\ what \in {"passed", "failed"} => Say(m, what).whole
             /\ \E r : /\ Turns(m, r)
                       /\ weather = "good" /\ Orderly(proc[m], From(m)) =>
                            Orderly(r, From(m) \cup {Say(m, what)})
  BY <1>2, <1>5, SettlingTurns
<1> QED BY <1>1, <1>3, <1>4, <1>5

-----------------------------------------------------------------------------
(* What a step makes of the queue.                                         *)

\* Nobody loses an errand.
KeptOn == \A m \in Machine, j \in JobId : Kept(m, j) => Kept(m, j)'

\* Nobody loses an errand but j.
OthersKeptOn(j) == \A m \in Machine, i \in JobId : i # j /\ Kept(m, i) => Kept(m, i)'

LEMMA QueueStill == ASSUME UNCHANGED queueVars PROVE KeptOn /\ (ClaimsTyped => ClaimsTyped')
BY DEF queueVars, KeptOn, Kept, Queue!Holds, ClaimsTyped

LEMMA QueueingKeeps ==
  ASSUME ClaimsTyped, Queueing \/ \E j \in JobId : RetryDue(j)
  PROVE  ClaimsTyped' /\ KeptOn
<1> USE DEF ClaimsTyped, KeptOn, Kept, Queue!Holds, Queue!Status, JobId
<1>1. ASSUME NEW j \in JobId, NEW p \in Plan, Queue!EnqueueRun(j, p) PROVE ClaimsTyped' /\ KeptOn
  BY <1>1 DEF Queue!EnqueueRun, Queue!Insert, Queue!IsNext, Queue!reqVars
<1>2. CASE Queue!EnqueueIndexCheck
  BY <1>2 DEF Queue!EnqueueIndexCheck, Queue!jobVars, Queue!reqVars
<1>3. ASSUME NEW j \in JobId, Queue!EnqueueIndexInsert(j) PROVE ClaimsTyped' /\ KeptOn
  BY <1>3 DEF Queue!EnqueueIndexInsert, Queue!Insert, Queue!IsNext, Queue!reqVars
<1>4. ASSUME NEW j \in JobId, Queue!RetryDue(j) PROVE ClaimsTyped' /\ KeptOn
  BY <1>4 DEF Queue!RetryDue, Queue!reqVars
<1> QED BY <1>1, <1>2, <1>3, <1>4 DEF Queueing, RetryDue

LEMMA PollKeeps ==
  ASSUME ClaimsTyped, NEW m \in Machine, NEW q \in Request, Queue!Poll(q, m)
  PROVE  ClaimsTyped' /\ KeptOn
<1>1. UNCHANGED <<status, claimedBy, quiet>> /\ caller' = [caller EXCEPT ![q] = m]
  BY DEF Queue!Poll, Queue!jobVars
<1>2. KeptOn
  BY <1>1 DEF KeptOn, Kept, Queue!Holds
<1>3. ClaimsTyped'
  BY <1>1 DEF ClaimsTyped
<1> QED BY <1>2, <1>3

\* All the claim route does but handing an errand out.
Reaps(q) ==
  \/ Queue!ReapRevive(q) \/ Queue!ReapBury(q) \/ Queue!ClaimNothing(q) \/ Queue!StartRun(q)
  \/ \E j \in JobId : Queue!SettleRevived(q, j) \/ Queue!SettleDead(q, j)

LEMMA ReapKeeps ==
  ASSUME ClaimsTyped, NEW q \in Request, Reaps(q)
  PROVE  ClaimsTyped' /\ KeptOn
<1> USE DEF ClaimsTyped, KeptOn, Kept, Queue!Holds, Queue!Status, JobId
<1>1. CASE Queue!ReapRevive(q)
  BY <1>1 DEF Queue!ReapRevive, Queue!Revivable, Queue!Stale
<1>2. CASE Queue!ReapBury(q)
  BY <1>2 DEF Queue!ReapBury, Queue!Spent, Queue!Stale
<1>3. CASE Queue!ClaimNothing(q)
  BY <1>3 DEF Queue!ClaimNothing, Queue!jobVars
<1>4. CASE Queue!StartRun(q)
  BY <1>4 DEF Queue!StartRun, Queue!jobVars
<1>5. ASSUME NEW j \in JobId, Queue!SettleRevived(q, j) \/ Queue!SettleDead(q, j)
      PROVE  ClaimsTyped' /\ KeptOn
  BY <1>5 DEF Queue!SettleRevived, Queue!SettleDead, Queue!jobVars
<1> QED BY <1>1, <1>2, <1>3, <1>4, <1>5 DEF Reaps

LEMMA ClaimKeeps ==
  ASSUME ClaimsTyped, NEW q \in Request, NEW j \in JobId, Queue!ClaimNextJob(q, j)
  PROVE  /\ ClaimsTyped' /\ KeptOn
         /\ \A m \in Machine : ~Kept(m, j)
         /\ \A m \in Machine : m = caller[q] => Kept(m, j)'
<1>1. /\ status[j] = "pending" /\ status' = [status EXCEPT ![j] = "claimed"]
      /\ claimedBy' = [claimedBy EXCEPT ![j] = caller[q]]
      /\ caller' = [caller EXCEPT ![q] = NoMachine] /\ quiet' = quiet
  BY DEF Queue!ClaimNextJob, Queue!Claimable
<1>2. ClaimsTyped'
  BY <1>1 DEF ClaimsTyped, Queue!Status
<1>3. KeptOn /\ \A m \in Machine : ~Kept(m, j)
  BY <1>1 DEF ClaimsTyped, KeptOn, Kept, Queue!Holds
<1>4. \A m \in Machine : m = caller[q] => Kept(m, j)'
  <2>1. j \notin quiet'
    BY <1>1 DEF ClaimsTyped
  <2>2. status'[j] = "claimed" /\ claimedBy'[j] = caller[q]
    BY <1>1 DEF ClaimsTyped
  <2> SUFFICES ASSUME NEW m \in Machine, m = caller[q] PROVE Kept(m, j)'
    OBVIOUS
  <2> QED BY <2>1, <2>2 DEF Kept, Queue!Holds
<1> QED BY <1>2, <1>3, <1>4

\* Words that renew a claim.
LEMMA RenewalKeeps ==
  ASSUME ClaimsTyped, NEW m, NEW j \in JobId,
         Queue!HeartbeatJob(m, j) \/ \E S \in SUBSET Step : Queue!RecordSteps(m, j, S)
  PROVE  ClaimsTyped' /\ KeptOn
BY DEF ClaimsTyped, KeptOn, Kept, Queue!Holds, Queue!HeartbeatJob, Queue!RecordSteps, Queue!reqVars

\* Words that end one.
LEMMA EndingKeeps ==
  ASSUME ClaimsTyped, NEW m, NEW j \in JobId,
         \/ \E outcome, S : Queue!CompleteJob(m, j, outcome, S)
         \/ Queue!ReleaseRequeued(m, j) \/ Queue!ReleaseDead(m, j)
  PROVE  ClaimsTyped' /\ OthersKeptOn(j)
<1> USE DEF ClaimsTyped, OthersKeptOn, Kept, Queue!Holds, Queue!Status, JobId, Queue!reqVars
<1>1. ASSUME NEW outcome, NEW S, Queue!CompleteJob(m, j, outcome, S) PROVE ClaimsTyped' /\ OthersKeptOn(j)
  BY <1>1 DEF Queue!CompleteJob
<1>2. CASE Queue!ReleaseRequeued(m, j)
  BY <1>2 DEF Queue!ReleaseRequeued
<1>3. CASE Queue!ReleaseDead(m, j)
  BY <1>3 DEF Queue!ReleaseDead
<1> QED BY <1>1, <1>2, <1>3

LEMMA SilenceKeeps ==
  ASSUME ClaimsTyped, NEW j \in JobId, Queue!GoQuiet(j)
  PROVE  ClaimsTyped' /\ OthersKeptOn(j)
BY DEF ClaimsTyped, OthersKeptOn, Kept, Queue!Holds, Queue!GoQuiet, Queue!reqVars

-----------------------------------------------------------------------------
(* The processes and the network, in any weather.                          *)

LEMMA BecomingKept ==
  ASSUME AttachInv, NEW m \in Machine, NEW r, Turns(m, r)
  PROVE  proc' \in [Machine -> Process] /\ \A n \in Machine : Sound(proc'[n])
BY Fields DEF Turns, Sound, AttachInv

LEMMA SoundTyped ==
  ASSUME proc' \in [Machine -> Process], \A m \in Machine : Sound(proc'[m]), net' \subseteq Calls,
         ends' \in 0..MaxEnds, NoVerdictFromACutWalk'
  PROVE  AttachInv'
BY DEF AttachInv, AttachTypeOK, Sound

\* Polling.
LEMMA PollBecomes ==
  ASSUME AttachInv, NEW m \in Machine, NEW q \in Request, Poll(m, q)
  PROVE  \E r : Becomes(m, r)
<1> DEFINE p == proc[m]
           r == [p EXCEPT !.does = "asking", !.poll = q, !.given = NoJob]
<1>0. p \in Process /\ Sound(p) /\ proc \in [Machine -> Process]
  BY Fields
<1>1. /\ r \in Process /\ r.does = "asking" /\ r.given = NoJob /\ r.job = p.job /\ r.beat = p.beat
      /\ r.taken = p.taken /\ r.cut = p.cut /\ r.leaving = p.leaving
  BY <1>0 DEF Process
<1>2. proc' = [proc EXCEPT ![m] = r] /\ p.does = "waiting" /\ ~p.leaving /\ p = proc[m]
  BY DEF Poll
<1> HIDE DEF p, r
<1>3. Sound(r)
  BY <1>0, <1>1, <1>2 DEF Sound
<1>4. Follows(p, r)
  BY <1>1, EmptyFollows
<1>5. Heeds(m, r)
  BY <1>2, NothingSaid, NothingIsOrderly DEF Heeds
<1> QED BY <1>2, <1>3, <1>4, <1>5 DEF Becomes, Turns

\* The errand in the answer.
Given(m, j) == [proc[m] EXCEPT !.given = j]

LEMMA GivenSound ==
  ASSUME AttachInv, NEW m \in Machine, NEW j \in JobId, proc[m].does = "asking"
  PROVE  /\ Sound(Given(m, j)) /\ Given(m, j).does = "asking"
         /\ \A i \in JobId : Has(Given(m, j), i) => i = j
<1>1. proc[m] \in Process /\ Sound(proc[m])
  BY Fields
<1> DEFINE p == proc[m]
           r == Given(m, j)
<1>2. /\ r \in Process /\ r.does = "asking" /\ r.given = j /\ r.job = p.job /\ r.beat = p.beat
      /\ r.taken = p.taken /\ r.cut = p.cut /\ r.leaving = p.leaving
  BY <1>1 DEF Process, Given
<1> HIDE DEF p, r
<1>3. Sound(r)
  BY <1>1, <1>2 DEF Sound, p
<1>4. \A i \in JobId : Has(r, i) => i = j
  BY <1>2 DEF Has
<1> QED BY <1>2, <1>3, <1>4 DEF r

\* The claim route hands an errand to whoever still waits for it, or to nobody.
LEMMA ServeBecomes ==
  ASSUME AttachInv, NEW q \in Request, Serve(q)
  PROVE  /\ UNCHANGED <<net, weather, ends>>
         /\ \/ Reaps(q) /\ proc' = proc
            \/ \E j \in JobId :
                 /\ Queue!ClaimNextJob(q, j)
                 /\ \/ proc' = proc
                    \/ /\ caller[q] \in Machine /\ proc[caller[q]].does = "asking"
                       /\ proc' = [proc EXCEPT ![caller[q]] = Given(caller[q], j)]
<1>1. UNCHANGED <<net, weather, ends>>
  BY DEF Serve
<1>2. CASE Reaps(q) /\ proc' = proc
  BY <1>1, <1>2
<1>3. ASSUME NEW j \in JobId, Queue!ClaimNextJob(q, j), proc' # proc,
             proc' = IF proc[caller[q]].poll = q
                     THEN [proc EXCEPT ![caller[q]].given = j] ELSE proc
      PROVE  /\ caller[q] \in Machine /\ proc[caller[q]].does = "asking"
             /\ proc' = [proc EXCEPT ![caller[q]] = Given(caller[q], j)]
  <2>1. proc \in [Machine -> Process]
    BY DEF AttachInv, AttachTypeOK
  <2>2. caller[q] \in Machine
    BY <1>3, <2>1
  <2>3. proc[caller[q]].does = "asking"
    BY <1>3, <2>2, Fields, RequestAssumption DEF Sound
  <2> QED BY <1>3, <2>2, <2>3 DEF Given
<1> QED BY <1>1, <1>2, <1>3 DEF Serve, Reaps

LEMMA AttachKept ==
  ASSUME AttachInv, [Next]_vars
  PROVE  AttachInv'
<1>0. /\ net \subseteq Calls /\ ends \in 0..MaxEnds /\ NoVerdictFromACutWalk
      /\ proc \in [Machine -> Process] /\ \A m \in Machine : Sound(proc[m])
  BY DEF AttachInv, AttachTypeOK
<1>1. ASSUME NEW m \in Machine, NEW r, Becomes(m, r), net' \subseteq net, ends' \in 0..MaxEnds
      PROVE  AttachInv'
  BY <1>0, <1>1, BecomingKept, SoundTyped DEF NoVerdictFromACutWalk, Becomes
<1>2. ASSUME proc' = proc, net' \subseteq net, ends' = ends PROVE AttachInv'
  BY <1>0, <1>2, SoundTyped DEF NoVerdictFromACutWalk
<1>3. ASSUME NEW m \in Machine, NEW q \in Request, Poll(m, q) PROVE AttachInv'
  BY <1>0, <1>1, <1>3, PollBecomes DEF Poll
<1>4. ASSUME NEW q \in Request, Serve(q) PROVE AttachInv'
  <2>1. CASE proc' = proc
    BY <1>2, <1>4, <2>1, ServeBecomes
  <2>2. ASSUME NEW j \in JobId, NEW m \in Machine, proc[m].does = "asking",
               proc' = [proc EXCEPT ![m] = Given(m, j)]
        PROVE  AttachInv'
    <3>1. Sound(Given(m, j))
      BY <2>2, GivenSound
    <3> HIDE DEF Given
    <3>2. proc' \in [Machine -> Process] /\ \A n \in Machine : Sound(proc'[n])
      BY <1>0, <2>2, <3>1 DEF Sound
    <3> QED BY <1>0, <1>4, <3>2, SoundTyped, ServeBecomes DEF NoVerdictFromACutWalk
  <2> QED BY <1>4, <2>1, <2>2, ServeBecomes
<1>5. ASSUME NEW m \in Machine,
             \/ HearAnswer(m) \/ AnswerLost(m) \/ Leave(m) \/ Start(m) \/ Prepare(m) \/ Read(m) \/ Answered(m)
             \/ \E outcome \in Outcome : WalkEnds(m, outcome)
             \/ BeatRefused(m) \/ Lost(m) \/ Interrupt(m) \/ Die(m) \/ Restart(m)
      PROVE  AttachInv'
  <2>1. ends' = ends \/ (ends < MaxEnds /\ ends' = ends + 1)
    BY <1>5
       DEF HearAnswer, AnswerLost, Leave, Start, Prepare, Read, Answered, WalkEnds, BeatRefused, Lost,
           Interrupt, Die, Restart, NothingQueued
  <2>2. ends' \in 0..MaxEnds
    BY <1>0, <2>1, AttachBounds
  <2> QED BY <1>1, <1>5, <2>2, SilentBecomes
<1>6. ASSUME NEW m \in Machine, Concludes(m) PROVE AttachInv'
  <2>1. CASE (\E r : Becomes(m, r)) /\ net' = net
    BY <1>0, <1>1, <1>6, <2>1, ConcludingBecomes
  <2>2. CASE \E what \in {"release", "passed", "failed", "error"} :
               /\ net' = net \cup {Say(m, what)} /\ Say(m, what) \in Calls
               /\ what \in {"passed", "failed"} => Say(m, what).whole
               /\ \E r : Turns(m, r)
    <3>1. PICK what \in {"release", "passed", "failed", "error"} :
            /\ net' = net \cup {Say(m, what)} /\ Say(m, what) \in Calls
            /\ what \in {"passed", "failed"} => Say(m, what).whole
            /\ \E r : Turns(m, r)
      BY <2>2
    <3>2. Say(m, what).what = what
      BY DEF Say
    <3>3. net' \subseteq Calls /\ NoVerdictFromACutWalk'
      BY <1>0, <3>1, <3>2 DEF NoVerdictFromACutWalk
    <3>4. ends' = ends
      BY <1>6, ConcludingBecomes
    <3> QED BY <1>0, <3>1, <3>3, <3>4, BecomingKept, SoundTyped
  <2> QED BY <1>6, <2>1, <2>2, ConcludingBecomes
<1>7. ASSUME NEW m \in Machine, Preview(m) PROVE AttachInv'
  <2>1. Say(m, "steps") \in Calls
    <3>1. proc[m].job \in JobId /\ proc[m].whole \in BOOLEAN
      BY <1>0, <1>7 DEF Preview, Sound, Process
    <3> QED BY <3>1 DEF Say, Calls
  <2>2. net' = net \cup {Say(m, "steps")} /\ proc' = proc /\ ends' = ends
    BY <1>7 DEF Preview, Send, NothingQueued
  <2>3. Say(m, "steps").what = "steps"
    BY DEF Say
  <2>4. net' \subseteq Calls /\ NoVerdictFromACutWalk'
    BY <1>0, <2>1, <2>2, <2>3 DEF NoVerdictFromACutWalk
  <2> QED BY <1>0, <2>2, <2>4, SoundTyped
<1>8. CASE \/ \E m \in Machine : Beat(m)
           \/ \E c \in net : Land(c) \/ Drop(c)
           \/ \E j \in JobId : GoQuiet(j) \/ RetryDue(j)
           \/ Queueing \/ UNCHANGED vars
  BY <1>2, <1>8 DEF Beat, Land, Drop, GoQuiet, RetryDue, Queueing, vars, NothingQueued
<1> QED BY <1>3, <1>4, <1>5, <1>6, <1>7, <1>8 DEF Next, LoopStep, Concludes

-----------------------------------------------------------------------------
(* In good weather.                                                        *)

LEMMA OneHolder ==
  ASSUME NEW m, NEW n, NEW j, Queue!Holds(m, j), Kept(n, j) PROVE m = n
BY DEF Kept, Queue!Holds

LEMMA GoodHas ==
  ASSUME IInv, weather = "good"
  PROVE  /\ InHand /\ SpeaksInOrder /\ ClaimsTyped /\ AttachInv
         /\ proc \in [Machine -> Process]
         /\ \A c \in net : c.from \in Machine /\ c.job \in JobId
         /\ \A m \in Machine, j \in JobId : Has(proc[m], j) => Kept(m, j)
         /\ \A m \in Machine : Orderly(proc[m], From(m)) /\ Beaten(proc[m])
BY DEF IInv, GoodInv, AttachInv, AttachTypeOK, Calls, InHand, SpeaksInOrder

\* What is left on the network is as orderly as it was.
LEMMA StillInOrder ==
  ASSUME IInv, weather = "good", NEW m \in Machine, net' \subseteq net,
         \/ proc'[m] = proc[m]
         \/ Orderly(proc'[m], From(m))
  PROVE  Orderly(proc'[m], From(m)')
<1>1. Orderly(proc'[m], From(m))
  BY GoodHas
<1>2. From(m)' \in SUBSET From(m)
  BY DEF From
<1> QED BY <1>1, <1>2, FewerAreOrderly

\* Machines go on, and nothing new is said.
LEMMA FollowingIsGood ==
  ASSUME IInv, weather' = "good" => weather = "good", net' \subseteq net, KeptOn,
         \/ proc' = proc
         \/ \E m \in Machine : \E r : Becomes(m, r)
  PROVE  GoodInv'
<1> SUFFICES ASSUME weather = "good" PROVE InHand' /\ SpeaksInOrder'
  BY DEF GoodInv
<1>0. \A m \in Machine : /\ Follows(proc[m], proc'[m])
                         /\ proc'[m] = proc[m] \/ Orderly(proc'[m], From(m))
  <2>1. CASE proc' = proc
    BY <2>1, GoodHas DEF Follows
  <2>2. ASSUME NEW m \in Machine, NEW r, Becomes(m, r)
        PROVE  \A n \in Machine : /\ Follows(proc[n], proc'[n])
                                  /\ proc'[n] = proc[n] \/ Orderly(proc'[n], From(n))
    <3>1. Follows(proc[m], r) /\ proc' = [proc EXCEPT ![m] = r] /\ Orderly(r, From(m))
      BY <2>2, GoodHas DEF Becomes, Turns, Heeds
    <3>2. proc'[m] = r /\ \A n \in Machine : n # m => proc'[n] = proc[n]
      BY <3>1, GoodHas
    <3>3. \A n \in Machine : Follows(proc[n], proc[n])
      BY GoodHas DEF Follows
    <3> HIDE DEF Orderly
    <3> QED BY <3>1, <3>2, <3>3
  <2> QED BY <2>1, <2>2
<1>1. InHand'
  BY <1>0, GoodHas DEF InHand, Follows, KeptOn
<1>2. SpeaksInOrder'
  BY <1>0, StillInOrder DEF SpeaksInOrder
<1> QED BY <1>1, <1>2

\* A machine says its last word on the errand it has.
LEMMA ConcludingIsGood ==
  ASSUME IInv, NEW m \in Machine, NEW what, UNCHANGED <<queueVars, weather>>,
         net' = net \cup {Say(m, what)}, NEW r, Turns(m, r),
         weather = "good" /\ Orderly(proc[m], From(m)) => Orderly(r, From(m) \cup {Say(m, what)})
  PROVE  GoodInv'
<1> SUFFICES ASSUME weather = "good" PROVE InHand' /\ SpeaksInOrder'
  BY DEF GoodInv
<1>1. KeptOn
  BY QueueStill
<1>2. Follows(proc[m], r) /\ proc'[m] = r /\ \A n \in Machine : n # m => proc'[n] = proc[n]
  BY GoodHas DEF Turns
<1>3. InHand'
  BY <1>1, <1>2, GoodHas DEF InHand, Follows, KeptOn
<1>4. SpeaksInOrder'
  <2> SUFFICES ASSUME NEW n \in Machine PROVE Orderly(proc'[n], From(n)')
    BY DEF SpeaksInOrder
  <2>1. Say(m, what).from = m
    BY DEF Say
  <2>2. CASE n = m
    <3>1. From(m)' = From(m) \cup {Say(m, what)}
      BY <2>1 DEF From
    <3> QED BY <1>2, <2>2, <3>1, GoodHas
  <2>3. CASE n # m
    <3>1. From(n)' = From(n)
      BY <2>1, <2>3 DEF From
    <3> QED BY <1>2, <2>3, <3>1, GoodHas
  <2> QED BY <2>2, <2>3
<1> QED BY <1>3, <1>4

LEMMA PreviewIsGood ==
  ASSUME IInv, NEW m \in Machine, Preview(m)
  PROVE  GoodInv'
<1> SUFFICES ASSUME weather = "good" PROVE InHand' /\ SpeaksInOrder'
  BY DEF GoodInv, Preview, NothingQueued
<1> DEFINE say == Say(m, "steps")
<1>1. /\ say.from = m /\ ~IsLast(say) /\ say.what = "steps" /\ net' = net \cup {say} /\ proc' = proc
      /\ proc[m].does = "walking"
  BY DEF Say, IsLast, Preview, Send
<1>2. KeptOn
  BY QueueStill DEF Preview, NothingQueued
<1> HIDE DEF say
<1>3. InHand'
  BY <1>1, <1>2, GoodHas DEF InHand, KeptOn
<1>4. SpeaksInOrder'
  <2> SUFFICES ASSUME NEW n \in Machine PROVE Orderly(proc'[n], From(n)')
    BY DEF SpeaksInOrder
  <2>1. CASE n = m
    <3>1. From(m)' = From(m) \cup {say}
      BY <1>1 DEF From
    <3>2. \A c \in From(m) : ~IsLast(c)
      BY <1>1, GoodHas DEF Orderly
    <3>3. Orderly(proc[m], From(m) \cup {say})
      BY <1>1, <3>2 DEF Orderly, IsLast
    <3> QED BY <1>1, <2>1, <3>1, <3>3
  <2>2. CASE n # m
    <3>1. From(n)' = From(n)
      BY <1>1, <2>2 DEF From
    <3> QED BY <1>1, <3>1, GoodHas
  <2> QED BY <2>1, <2>2
<1> QED BY <1>3, <1>4

\* Who is done with an errand has it no more.
LEMMA DoneWithIt ==
  ASSUME NEW p, Sound(p), p.does \in {"reporting", "gone"}
  PROVE  \A j \in JobId : ~Has(p, j)
BY NoErrand DEF Sound, Has

\* A last word lands, and the errand is nobody's.
LEMMA LastLandsGood ==
  ASSUME IInv, NEW c \in net, IsLast(c), Queue!Holds(c.from, c.job), OthersKeptOn(c.job),
         net' = net \ {c}, UNCHANGED <<proc, weather>>
  PROVE  GoodInv'
<1> SUFFICES ASSUME weather = "good" PROVE InHand' /\ SpeaksInOrder'
  BY DEF GoodInv
<1>1. c.from \in Machine /\ c.job \in JobId /\ c \in From(c.from)
  BY GoodHas DEF From
<1>2. \A n \in Machine : ~Has(proc[n], c.job)
  <2> SUFFICES ASSUME NEW n \in Machine, Has(proc[n], c.job) PROVE FALSE
    OBVIOUS
  <2>1. n = c.from
    BY <1>1, GoodHas, OneHolder
  <2>2. proc[n].does \in {"reporting", "gone"}
    BY <1>1, <2>1, GoodHas DEF Orderly
  <2> QED BY <1>1, <2>2, GoodHas, Fields, DoneWithIt
<1>3. InHand'
  BY <1>2, GoodHas DEF InHand, OthersKeptOn
<1>4. SpeaksInOrder'
  BY StillInOrder DEF SpeaksInOrder
<1> QED BY <1>3, <1>4

\* The claim route hands out an errand nobody kept.
LEMMA HandingIsGood ==
  ASSUME IInv, NEW q \in Request, NEW j \in JobId, Queue!ClaimNextJob(q, j), UNCHANGED <<net, weather>>,
         NEW m \in Machine, m = caller[q], proc[m].does = "asking", proc' = [proc EXCEPT ![m] = Given(m, j)]
  PROVE  GoodInv'
<1> SUFFICES ASSUME weather = "good" PROVE InHand' /\ SpeaksInOrder'
  BY DEF GoodInv
<1>1. KeptOn /\ (\A n \in Machine : ~Kept(n, j)) /\ Kept(m, j)'
  BY GoodHas, ClaimKeeps
<1>2. proc'[m].does = "asking" /\ \A i \in JobId : Has(proc'[m], i) => i = j
  BY GoodHas, GivenSound
<1>3. \A n \in Machine : n # m => proc'[n] = proc[n]
  OBVIOUS
<1>4. InHand'
  BY <1>1, <1>2, <1>3, GoodHas DEF InHand, KeptOn, Beaten
<1>5. SpeaksInOrder'
  <2>1. Orderly(proc'[m], From(m))
    BY GoodHas, NothingSaid, NothingIsOrderly
  <2>2. \A n \in Machine : proc'[n] = proc[n] \/ Orderly(proc'[n], From(n))
    BY <1>3, <2>1
  <2> QED BY <2>2, StillInOrder DEF SpeaksInOrder
<1> QED BY <1>4, <1>5

\* Silence falls only on what nobody is in touch about.
LEMMA SilenceIsGood ==
  ASSUME IInv, NEW j \in JobId, GoQuiet(j)
  PROVE  GoodInv'
<1> SUFFICES ASSUME weather = "good" PROVE InHand' /\ SpeaksInOrder'
  BY DEF GoodInv, GoQuiet
<1>1. OthersKeptOn(j) /\ UNCHANGED <<proc, net>> /\ ~InTouch(j)
  BY GoodHas, SilenceKeeps DEF GoQuiet
<1>2. \A m \in Machine : ~Has(proc[m], j)
  BY <1>1, GoodHas DEF InTouch, Has, Beaten
<1>3. InHand'
  BY <1>1, <1>2, GoodHas DEF InHand, OthersKeptOn
<1>4. SpeaksInOrder'
  BY <1>1, StillInOrder DEF SpeaksInOrder
<1> QED BY <1>3, <1>4

-----------------------------------------------------------------------------
(* The invariant is kept.                                                  *)

LEMMA LandKept ==
  ASSUME IInv, NEW c \in net, Land(c)
  PROVE  ClaimsTyped' /\ GoodInv'
<1>0. ClaimsTyped /\ c.from \in Machine /\ c.job \in JobId /\ net' = net \ {c} /\ UNCHANGED <<proc, weather>>
  BY DEF IInv, AttachInv, AttachTypeOK, Calls, Land
<1>1. CASE UNCHANGED queueVars
  BY <1>0, <1>1, QueueStill, FollowingIsGood
<1>2. ASSUME NEW S \in SUBSET Step, Queue!RecordSteps(c.from, c.job, S) PROVE ClaimsTyped' /\ GoodInv'
  BY <1>0, <1>2, RenewalKeeps, FollowingIsGood
<1>3. CASE IsLast(c) /\ Queue!Holds(c.from, c.job)
           /\ \/ \E outcome, S : Queue!CompleteJob(c.from, c.job, outcome, S)
              \/ Queue!ReleaseRequeued(c.from, c.job) \/ Queue!ReleaseDead(c.from, c.job)
  BY <1>0, <1>3, EndingKeeps, LastLandsGood
<1> QED BY <1>1, <1>2, <1>3 DEF Land, Effect, IsLast

LEMMA ServeKept ==
  ASSUME IInv, NEW q \in Request, Serve(q)
  PROVE  ClaimsTyped' /\ GoodInv'
<1>0. ClaimsTyped /\ AttachInv /\ UNCHANGED <<net, weather>>
  BY ServeBecomes DEF IInv
<1>1. CASE Reaps(q) /\ proc' = proc
  BY <1>0, <1>1, ReapKeeps, FollowingIsGood
<1>2. ASSUME NEW j \in JobId, Queue!ClaimNextJob(q, j), proc' = proc PROVE ClaimsTyped' /\ GoodInv'
  BY <1>0, <1>2, ClaimKeeps, FollowingIsGood
<1>3. ASSUME NEW j \in JobId, Queue!ClaimNextJob(q, j), NEW m \in Machine, m = caller[q],
             proc[m].does = "asking", proc' = [proc EXCEPT ![m] = Given(m, j)]
      PROVE  ClaimsTyped' /\ GoodInv'
  BY <1>0, <1>3, ClaimKeeps, HandingIsGood
<1> QED BY <1>0, <1>1, <1>2, <1>3, ServeBecomes

LEMMA QueueAndWeatherKept ==
  ASSUME IInv, [Next]_vars
  PROVE  ClaimsTyped' /\ GoodInv'
<1>0. ClaimsTyped /\ AttachInv
  BY DEF IInv
<1>1. ASSUME NEW m \in Machine, NEW q \in Request, Poll(m, q) PROVE ClaimsTyped' /\ GoodInv'
  BY <1>0, <1>1, PollKeeps, PollBecomes, FollowingIsGood DEF Poll
<1>2. ASSUME NEW m \in Machine,
             \/ HearAnswer(m) \/ AnswerLost(m) \/ Leave(m) \/ Start(m) \/ Prepare(m) \/ Read(m) \/ Answered(m)
             \/ \E outcome \in Outcome : WalkEnds(m, outcome)
             \/ BeatRefused(m) \/ Lost(m) \/ Interrupt(m) \/ Die(m) \/ Restart(m)
      PROVE  ClaimsTyped' /\ GoodInv'
  BY <1>0, <1>2, SilentBecomes, QueueStill, FollowingIsGood
<1>3. ASSUME NEW m \in Machine, Concludes(m) PROVE ClaimsTyped' /\ GoodInv'
  <2>1. UNCHANGED queueVars /\ weather' = weather /\ KeptOn /\ ClaimsTyped'
    BY <1>0, <1>3, ConcludingBecomes, QueueStill
  <2>2. CASE (\E r : Becomes(m, r)) /\ net' = net
    BY <2>1, <2>2, FollowingIsGood
  <2>3. CASE \E what \in {"release", "passed", "failed", "error"} :
               /\ net' = net \cup {Say(m, what)}
               /\ \E r : /\ Turns(m, r)
                         /\ weather = "good" /\ Orderly(proc[m], From(m)) =>
                              Orderly(r, From(m) \cup {Say(m, what)})
    BY <2>1, <2>3, ConcludingIsGood
  <2> QED BY <1>0, <1>3, <2>1, <2>2, <2>3, ConcludingBecomes
<1>4. ASSUME NEW m \in Machine, Preview(m) PROVE ClaimsTyped' /\ GoodInv'
  BY <1>0, <1>4, QueueStill, PreviewIsGood DEF Preview, NothingQueued
<1>5. ASSUME NEW m \in Machine, Beat(m) PROVE ClaimsTyped' /\ GoodInv'
  <2>1. proc[m].job \in JobId /\ Queue!HeartbeatJob(m, proc[m].job) /\ UNCHANGED <<proc, net, weather>>
    BY <1>0, <1>5, Fields DEF Beat, Beating, Process
  <2> QED BY <1>0, <2>1, RenewalKeeps, FollowingIsGood
<1>6. ASSUME NEW c \in net, Drop(c) PROVE ClaimsTyped' /\ GoodInv'
  BY <1>0, <1>6, QueueStill, FollowingIsGood DEF Drop, NothingQueued
<1>7. ASSUME NEW j \in JobId, GoQuiet(j) PROVE ClaimsTyped' /\ GoodInv'
  BY <1>0, <1>7, SilenceKeeps, SilenceIsGood DEF GoQuiet
<1>8. CASE Queueing \/ \E j \in JobId : RetryDue(j)
  BY <1>0, <1>8, QueueingKeeps, FollowingIsGood DEF Queueing, RetryDue
<1>9. CASE UNCHANGED vars
  BY <1>0, <1>9, QueueStill, FollowingIsGood DEF vars
<1> QED BY <1>1, <1>2, <1>3, <1>4, <1>5, <1>6, <1>7, <1>8, <1>9, LandKept, ServeKept
        DEF Next, LoopStep, Concludes

LEMMA Starts == Init => IInv
<1> SUFFICES ASSUME Init PROVE IInv
  OBVIOUS
<1>1. ClaimsTyped
  BY DEF Init, Queue!Init, ClaimsTyped, JobId, Queue!Status
<1>2. Sound(Idle) /\ Idle \in Process /\ \A j \in JobId : ~Has(Idle, j)
  BY NoErrand DEF Idle, Process, Sound, Has
<1>3. AttachInv
  <2>1. proc \in [Machine -> Process] /\ \A m \in Machine : Sound(proc[m])
    BY <1>2 DEF Init
  <2>2. net = {} /\ ends \in 0..MaxEnds
    BY AttachBounds DEF Init
  <2> QED BY <2>1, <2>2 DEF AttachInv, AttachTypeOK, NoVerdictFromACutWalk, Sound
<1>4. GoodInv
  BY <1>2 DEF Init, GoodInv, InHand, SpeaksInOrder, Orderly, From, Beaten, Idle
<1> QED BY <1>1, <1>3, <1>4 DEF IInv

LEMMA Inductive == Spec => []IInv
<1>1. IInv /\ [Next]_vars => IInv'
  BY AttachKept, QueueAndWeatherKept DEF IInv
<1> QED BY <1>1, Starts, PTL DEF Spec

-----------------------------------------------------------------------------
(* The theorems.                                                           *)

\* Every variable of the machines and the network keeps its type, and nothing beats for an
\* errand the loop is done with.
THEOREM AttachTyped == Spec => []AttachTypeOK
<1>1. IInv => AttachTypeOK
  BY DEF IInv, AttachInv
<1> QED BY <1>1, Inductive, PTL

\* However calls are lost and processes die, a walk that was cut short is never reported as a
\* verdict.
THEOREM CutWalksStayUnjudged == Spec => []NoVerdictFromACutWalk
<1>1. IInv => NoVerdictFromACutWalk
  BY DEF IInv, AttachInv
<1> QED BY <1>1, Inductive, PTL

\* In good weather two machines are never at one errand, unless one of them was interrupted
\* and is winding down.
THEOREM MachinesWorkApart == Spec => []OneMachineAtWork
<1>1. IInv => OneMachineAtWork
  <2> SUFFICES ASSUME IInv, weather = "good", NEW j \in JobId, NEW m \in Machine, NEW n \in Machine,
                      AtWork(m, j), AtWork(n, j), ~proc[m].leaving, ~proc[n].leaving
               PROVE  m = n
    BY DEF OneMachineAtWork
  <2>1. Has(proc[m], j) /\ Has(proc[n], j)
    BY DEF AtWork, Has
  <2> QED BY <2>1, GoodHas, OneHolder DEF Kept
<1> QED BY <1>1, Inductive, PTL

\* In good weather no preview is left behind a completion of its machine, whenever the
\* session is interrupted.
THEOREM PreviewsComeFirst == Spec => []NoPreviewBehindTheRecord
<1>1. IInv => NoPreviewBehindTheRecord
  <2> SUFFICES ASSUME IInv, weather = "good", NEW c \in net, NEW d \in net,
                      c.what = "steps", d.what \notin {"steps", "release"}, c.from = d.from
               PROVE  FALSE
    BY DEF NoPreviewBehindTheRecord
  <2>1. c \in From(c.from) /\ d \in From(c.from) /\ c.from \in Machine
    BY GoodHas DEF From
  <2> QED BY <2>1, GoodHas DEF Orderly, IsLast
<1> QED BY <1>1, Inductive, PTL

LEMMA StepsOfTheQueue == IInv /\ [Next]_vars => [Queue!Next]_Queue!vars
<1> SUFFICES ASSUME IInv, [Next]_vars PROVE [Queue!Next]_Queue!vars
  OBVIOUS
<1>0. AttachInv
  BY DEF IInv
<1>1. CASE UNCHANGED queueVars
  BY <1>1 DEF queueVars, Queue!vars, Queue!jobVars, Queue!boardVars, Queue!reqVars
<1>2. ASSUME NEW m \in Machine, NEW q \in Request, Poll(m, q) PROVE Queue!Next
  BY <1>2 DEF Poll, Queue!Next
<1>3. ASSUME NEW q \in Request, Serve(q) PROVE Queue!Next
  BY <1>3 DEF Serve, Queue!Next, Queue!RequestStep, JobId
<1>4. ASSUME NEW c \in net, Land(c), Queue!Holds(c.from, c.job) PROVE Queue!Next
  <2>1. c.from \in Machine /\ c.job \in JobId /\ c.what \in {"steps", "release", "passed", "failed", "error"}
    BY <1>0 DEF AttachInv, AttachTypeOK, Calls
  <2>2. Queue!MachineCall(c.from, c.job)
    BY <1>4, <2>1 DEF Land, Effect, Queue!MachineCall, Queue!Board!Verdict
  <2> QED BY <2>1, <2>2 DEF Queue!Next, JobId
<1>5. ASSUME NEW m \in Machine, Beat(m) PROVE Queue!Next
  <2>1. proc[m].job \in JobId
    BY <1>0, <1>5, Fields DEF Beat, Beating, Process
  <2> QED BY <1>5, <2>1 DEF Beat, Queue!Next, Queue!MachineCall, JobId
<1>6. CASE Queueing \/ \E j \in JobId : GoQuiet(j) \/ RetryDue(j)
  BY <1>6 DEF Queueing, GoQuiet, RetryDue, Queue!Next, JobId
<1>7. ASSUME NEW m \in Machine,
             \/ LoopStep(m) \/ AnswerLost(m) \/ Preview(m) \/ BeatRefused(m) \/ Lost(m)
             \/ Interrupt(m) \/ Die(m) \/ Restart(m)
      PROVE  UNCHANGED queueVars
  BY <1>7 DEF LoopStep, AnswerLost, Preview, BeatRefused, Lost, Interrupt, Die, Restart, HearAnswer, Leave,
              Start, Unreadable, Prepare, PrepareBreaks, WalkEnds, Close, Read, ReadBreaks, PushIndex,
              Answered, NothingQueued
<1>8. CASE \E c \in net : Drop(c) \/ (Land(c) /\ ~Queue!Holds(c.from, c.job))
  BY <1>1, <1>8 DEF Drop, Land, Effect, NothingQueued
<1>9. CASE UNCHANGED vars
  BY <1>1, <1>9 DEF vars
<1> QED BY <1>1, <1>2, <1>3, <1>4, <1>5, <1>6, <1>7, <1>8, <1>9 DEF Next

\* Whatever the network loses or delays and whichever processes die, the loop uses the queue
\* only as the queue allows: what is proved of MachineQueue is true under Attach.
THEOREM AttachUsesTheQueue == Spec => Queue!Spec
<1>1. Init => Queue!Init
  BY DEF Init
<1> QED BY <1>1, StepsOfTheQueue, Inductive, PTL DEF Spec, Queue!Spec
=============================================================================
