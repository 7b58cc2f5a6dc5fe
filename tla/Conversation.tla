---------------------------- MODULE Conversation ----------------------------
(***************************************************************************)
(* One thread of questions and answers (web/src/lib/db/conversations.ts,   *)
(* lib/actions/ask.ts, answerJob of lib/work/run.ts).                      *)
(*                                                                         *)
(* A question is a row the moment it is asked, and takes the next place in *)
(* the thread.  The place travels in the payload of a work row, and the    *)
(* answer is written later, by whoever carries the work out, in the place  *)
(* after it.  Work whose process went silent is carried out again, perhaps *)
(* while the first attempt still goes on.                                  *)
(*                                                                         *)
(* Operators whose names end in _ are mutants of the operator after them.  *)
(***************************************************************************)
EXTENDS Naturals

CONSTANTS
  Question,     \* questions asked in the thread
  Nothing,      \* a place nobody took
  MaxAttempts,  \* MAX_ATTEMPTS of work
  MaxPlaces     \* bound: places of the thread

Turn == [author: {"human", "agent"}, of: Question]

ASSUME ConversationBounds == MaxAttempts \in Nat \ {0} /\ MaxPlaces \in Nat \ {0}
ASSUME NothingAssumption == Nothing \notin Turn

Attempt == 1..MaxAttempts
Place   == 1..MaxPlaces

VARIABLES
  thread,    \* conversation_messages: what is in each place
  asking,    \* each askAction: "unasked", "placing", "asked", "refused", or "cut" short
  seq,       \* the place askedIn chose
  job,       \* the work row
  attempts,  \* attempts it has had
  doing,     \* each attempt
  read       \* the history each attempt was given

threadVars == <<thread, asking, seq, job, attempts, doing, read>>

Taken == {p \in Place : thread[p] # Nothing}
Top   == IF Taken = {} THEN 0 ELSE CHOOSE p \in Taken : \A o \in Taken : o <= p

ThreadInit ==
  /\ thread = [p \in Place |-> Nothing]
  /\ asking = [q \in Question |-> "unasked"] /\ seq = [q \in Question |-> 0]
  /\ job = [q \in Question |-> "none"] /\ attempts = [q \in Question |-> 0]
  /\ doing = [q \in Question |-> [a \in Attempt |-> "nothing"]]
  /\ read = [q \in Question |-> [a \in Attempt |-> {}]]

-----------------------------------------------------------------------------
(* Asking.                                                                 *)

NextPlace == Top + 1

\* askedIn reads the maximum.
ChoosePlace(q) ==
  /\ asking[q] = "unasked" /\ NextPlace < MaxPlaces
  /\ asking' = [asking EXCEPT ![q] = "placing"]
  /\ seq' = [seq EXCEPT ![q] = NextPlace]
  /\ UNCHANGED <<thread, job, attempts, doing, read>>

\* It inserts: the unique index refuses a place somebody took meanwhile, and with it the
\* transaction and the action.
PlaceQuestion(q) ==
  /\ asking[q] = "placing"
  /\ IF thread[seq[q]] = Nothing
       THEN /\ thread' = [thread EXCEPT ![seq[q]] = [author |-> "human", of |-> q]]
            /\ asking' = [asking EXCEPT ![q] = "asked"]
       ELSE asking' = [asking EXCEPT ![q] = "refused"] /\ UNCHANGED thread
  /\ UNCHANGED <<seq, job, attempts, doing, read>>

\* enqueueWork is a statement of its own; the process may not live to make it.
Enqueue(q) ==
  /\ asking[q] = "asked" /\ job[q] = "none"
  /\ \/ job' = [job EXCEPT ![q] = "queued"] /\ UNCHANGED asking
     \/ asking' = [asking EXCEPT ![q] = "cut"] /\ UNCHANGED job
  /\ UNCHANGED <<thread, seq, attempts, doing, read>>

-----------------------------------------------------------------------------
(* Answering.                                                              *)

\* holdWork: queued work, or work whose holder has been silent -- dead or only slow.
Hold(q) ==
  /\ job[q] \in {"queued", "claimed"} /\ attempts[q] < MaxAttempts
  /\ job' = [job EXCEPT ![q] = "claimed"]
  /\ attempts' = [attempts EXCEPT ![q] = @ + 1]
  /\ doing' = [doing EXCEPT ![q][attempts[q] + 1] = "reading"]
  /\ UNCHANGED <<thread, asking, seq, read>>

\* historyBefore: strictly before the question.
HistoryBefore(q) == {thread[p] : p \in {o \in Taken : o < seq[q]}}

Read(q, a) ==
  /\ doing[q][a] = "reading"
  /\ read' = [read EXCEPT ![q][a] = HistoryBefore(q)]
  /\ doing' = [doing EXCEPT ![q][a] = "answering"]
  /\ UNCHANGED <<thread, asking, seq, job, attempts>>

\* Mutant: the answer is what is said last.
AnswerPlaceLast_(q) == Top + 1

\* The slot after the question it answers.
AnswerPlace(q) == seq[q] + 1

\* answeredIn: on conflict do nothing.
Answer(q, a) ==
  /\ doing[q][a] = "answering"
  /\ thread' = IF thread[AnswerPlace(q)] = Nothing
               THEN [thread EXCEPT ![AnswerPlace(q)] = [author |-> "agent", of |-> q]]
               ELSE thread
  /\ doing' = [doing EXCEPT ![q][a] = "settling"]
  /\ UNCHANGED <<asking, seq, job, attempts, read>>

\* settleWork, or failWork when the model gave no answer.
Settle(q, a) ==
  /\ \/ doing[q][a] = "settling"  /\ job' = [job EXCEPT ![q] = "completed"]
     \/ doing[q][a] = "answering" /\ job' = [job EXCEPT ![q] = "failed"]
  /\ doing' = [doing EXCEPT ![q][a] = "nothing"]
  /\ UNCHANGED <<thread, asking, seq, attempts, read>>

\* The process dies.
Die(q, a) ==
  /\ doing[q][a] # "nothing"
  /\ doing' = [doing EXCEPT ![q][a] = "nothing"]
  /\ UNCHANGED <<thread, asking, seq, job, attempts, read>>

\* reapHopeless.
Reap(q) ==
  /\ job[q] = "claimed" /\ attempts[q] = MaxAttempts
  /\ job' = [job EXCEPT ![q] = "dead"]
  /\ UNCHANGED <<thread, asking, seq, attempts, doing, read>>

-----------------------------------------------------------------------------
ThreadNext ==
  \E q \in Question :
    \/ ChoosePlace(q) \/ PlaceQuestion(q) \/ Enqueue(q) \/ Hold(q) \/ Reap(q)
    \/ \E a \in Attempt : Read(q, a) \/ Answer(q, a) \/ Settle(q, a) \/ Die(q, a)

ThreadSpec == ThreadInit /\ [][ThreadNext]_threadVars

-----------------------------------------------------------------------------
(* Properties.                                                             *)

\* Every variable keeps to its type.
ConversationTypeOK ==
  /\ thread \in [Place -> Turn \cup {Nothing}]
  /\ asking \in [Question -> {"unasked", "placing", "asked", "refused", "cut"}]
  /\ seq \in [Question -> 0..MaxPlaces]
  /\ job \in [Question -> {"none", "queued", "claimed", "completed", "failed", "dead"}]
  /\ attempts \in [Question -> 0..MaxAttempts]
  /\ doing \in [Question -> [Attempt -> {"nothing", "reading", "answering", "settling"}]]
  /\ read \in [Question -> [Attempt -> SUBSET Turn]]

\* However attempts overlap and die, an answer that is in the thread follows its question
\* directly and is there once (conversations.ts: "has to land in the slot immediately after
\* this one").
AnswersFollowTheirQuestions ==
  \A p \in Taken : thread[p].author = "agent" =>
    p > 1 /\ thread[p - 1] = [author |-> "human", of |-> thread[p].of]

\* Whoever asks in the meantime, every attempt at an answer is given the same history, and
\* the question itself is not in it (historyBefore: "the boundary is the question's own
\* seq and not the last row").
AttemptsReadTheSame ==
  \A q \in Question : \A a \in Attempt :
    doing[q][a] \in {"answering", "settling"} => read[q][a] = HistoryBefore(q)
                                               /\ \A t \in read[q][a] : t.of # q

\* A claim that does not hold, stated to be added to a configuration: a question whose work
\* is completed -- "Answered." (run.ts, answerJob) -- has its answer in the thread.
AnsweredHasItsAnswer ==
  \A q \in Question :
    job[q] = "completed" => \E p \in Taken : thread[p] = [author |-> "agent", of |-> q]

=============================================================================
