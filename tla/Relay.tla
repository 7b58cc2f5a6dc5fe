------------------------------- MODULE Relay --------------------------------
(***************************************************************************)
(* The relay: the dashboard speaks MCP down a connection the machine       *)
(* opened (web/src/lib/agent/relay.ts, dial-transport.ts, research.ts,     *)
(* api/cli/mcp; cli/internal/cloud/dial.go, app/dial.go).                  *)
(*                                                                         *)
(* A machine dials and the dashboard holds the newest dial of each.  A     *)
(* research turn takes the newest dial of the project, listens on it and   *)
(* sends requests down it, numbered from the start for every turn.  The    *)
(* machine answers with a call of its own, which names the machine and not *)
(* the dial, and the relay hands the answer to whoever listens now.        *)
(*                                                                         *)
(* Operators whose names end in _ are mutants of the operator after them.  *)
(***************************************************************************)
EXTENDS Naturals, Sequences

CONSTANTS
  Machine,    \* machines of the project
  Turn,       \* research turns
  Nobody,     \* no turn
  MaxDials,   \* bound: dials
  MaxAsks     \* bound: requests of a turn

ASSUME NobodyAssumption == Nobody \notin Turn
ASSUME RelayBounds == MaxDials \in Nat /\ MaxAsks \in Nat

Dial   == 1..MaxDials
NoDial == 0

VARIABLES
  dials,    \* the dials so far, in the order of Held.since
  held,     \* relay.ts's map
  up,       \* the dial each machine believes it has
  turn,     \* the research turns
  asked,    \* requests that reached a machine and are not answered yet
  replies,  \* answers on their way to the dashboard
  crossed   \* a turn began to listen on a machine another was not done with

vars == <<dials, held, up, turn, asked, replies, crossed>>

\*  stream    the response is open
\*  listener  onFrame
\*  waiting   frames that came before anybody listened
NewDial(m) == [machine |-> m, stream |-> TRUE, listener |-> Nobody, waiting |-> <<>>]

\* does: "away", "open" or "over".  awaits: the number of the request it waits for, 0 none.
\* mixed: it was given another's answer.
Away == [does |-> "away", dial |-> NoDial, asks |-> 0, awaits |-> 0, mixed |-> FALSE]

Init ==
  /\ dials = <<>> /\ held = [m \in Machine |-> NoDial] /\ up = [m \in Machine |-> NoDial]
  /\ turn = [t \in Turn |-> Away]
  /\ asked = {} /\ replies = {} /\ crossed = FALSE

Dials == 1..Len(dials)

-----------------------------------------------------------------------------
(* Dials.                                                                  *)

\* The function hold returns: only the dial that is held is let go.
Release(h, m, d) == IF h[m] = d THEN [h EXCEPT ![m] = NoDial] ELSE h

\* dialOut and GET dial: the dial a machine had is closed and replaced.
Connect(m) ==
  /\ up[m] = NoDial /\ Len(dials) < MaxDials
  /\ LET old == held[m]
         closed == IF old = NoDial THEN dials ELSE [dials EXCEPT ![old].stream = FALSE]
         new == Len(dials) + 1
     IN  /\ dials' = Append(closed, NewDial(m))
         /\ held' = [(IF old = NoDial THEN held ELSE Release(held, m, old)) EXCEPT ![m] = new]
         /\ up' = [up EXCEPT ![m] = new]
  /\ UNCHANGED <<turn, asked, replies, crossed>>

\* The machine's end is gone: the network broke, the process ended, or it read the end of
\* a stream the dashboard closed.
HangUp(m) ==
  /\ up[m] # NoDial
  /\ up' = [up EXCEPT ![m] = NoDial]
  /\ UNCHANGED <<dials, held, turn, asked, replies, crossed>>

\* The dashboard finds a stream cancelled, or a keepalive does not go out: before the
\* machine notices anything, or long after it hung up.
Notice(d) ==
  /\ d \in Dials /\ dials[d].stream
  /\ dials' = [dials EXCEPT ![d].stream = FALSE]
  /\ held' = Release(held, dials[d].machine, d)
  /\ UNCHANGED <<up, turn, asked, replies, crossed>>

\* A stream the dashboard closed in favour of a newer one is cancelled late.
LateCancel(d) ==
  /\ d \in Dials /\ ~dials[d].stream
  /\ held' = Release(held, dials[d].machine, d)
  /\ UNCHANGED <<dials, up, turn, asked, replies, crossed>>

-----------------------------------------------------------------------------
(* Turns.                                                                  *)

\* What a turn does with a frame: the answer it waits for by number, or nothing.
Takes(t, f) ==
  IF turn[t].does = "open" /\ turn[t].awaits = f.number
    THEN [turn EXCEPT ![t].awaits = 0, ![t].mixed = @ \/ f.turn # t]
    ELSE turn

\* The machine owes another turn an answer, or will.
Owed(m, t) ==
  \/ \E f \in asked \cup replies : f.machine = m /\ f.turn # t
  \/ \E u \in Turn \ {t} : turn[u].does = "open" /\ dials[turn[u].dial].machine = m

\* newestDial.
Newest == {d \in Dials : /\ held[dials[d].machine] = d
                         /\ \A e \in Dials : held[dials[e].machine] = e => e <= d}

\* openResearch over a dial: listen takes the place of whoever listened, and is given what
\* waited, none of which it asked for.
Open(t) ==
  /\ turn[t].does = "away"
  /\ \E d \in Newest :
       /\ turn' = [turn EXCEPT ![t].does = "open", ![t].dial = d]
       /\ dials' = [dials EXCEPT ![d] = [@ EXCEPT !.listener = t, !.waiting = <<>>]]
       /\ crossed' = (crossed \/ Owed(dials[d].machine, t))
  /\ UNCHANGED <<held, up, asked, replies>>

\* send: a frame goes out on the stream, and reaches the machine if it is still there.
Ask(t) ==
  LET d == turn[t].dial
      m == dials[d].machine
  IN  /\ turn[t].does = "open" /\ turn[t].awaits = 0 /\ turn[t].asks < MaxAsks
      /\ IF dials[d].stream
           THEN /\ turn' = [turn EXCEPT ![t].asks = @ + 1, ![t].awaits = turn[t].asks + 1]
                /\ asked' = IF up[m] = d
                            THEN asked \cup {[machine |-> m, turn |-> t, number |-> turn[t].asks + 1]}
                            ELSE asked
           ELSE turn' = [turn EXCEPT ![t].does = "over"] /\ UNCHANGED asked
      /\ UNCHANGED <<dials, held, up, replies, crossed>>

\* The turn is over, by itself or because time ran out; the dial and its listener stay.
Leave(t) ==
  /\ turn[t].does = "open"
  /\ turn' = [turn EXCEPT ![t].does = "over", ![t].awaits = 0]
  /\ UNCHANGED <<dials, held, up, asked, replies, crossed>>

-----------------------------------------------------------------------------
(* Answers.                                                                *)

\* The machine's tool is done, whatever has become of the dial; or it never is.
Answer(f) ==
  /\ f \in asked /\ asked' = asked \ {f}
  /\ replies' = replies \cup {f} \/ replies' = replies
  /\ UNCHANGED <<dials, held, up, turn, crossed>>

\* Mutant: the newest dial is the one that is meant.
DialedNewest_(m) == IF Newest = {} THEN NoDial ELSE CHOOSE d \in Newest : TRUE

\* dialed: the dial this machine has now.
Dialed(m) == held[m]

\* POST reply, and receive: 409 when the machine is not dialled in.
Deliver(f) ==
  LET d == Dialed(f.machine)
  IN  /\ f \in replies /\ replies' = replies \ {f}
      /\ IF d = NoDial THEN UNCHANGED <<dials, turn>>
         ELSE IF dials[d].listener = Nobody
           THEN dials' = [dials EXCEPT ![d].waiting = Append(@, f)] /\ UNCHANGED turn
         ELSE turn' = Takes(dials[d].listener, f) /\ UNCHANGED dials
      /\ UNCHANGED <<held, up, asked, crossed>>

-----------------------------------------------------------------------------
Next ==
  \/ \E m \in Machine : Connect(m) \/ HangUp(m)
  \/ \E d \in Dial : Notice(d) \/ LateCancel(d)
  \/ \E t \in Turn : Open(t) \/ Ask(t) \/ Leave(t)
  \/ \E f \in asked : Answer(f)
  \/ \E f \in replies : Deliver(f)

Spec == Init /\ [][Next]_vars

-----------------------------------------------------------------------------
(* Properties.                                                             *)

Frame == [machine: Machine, turn: Turn, number: 1..MaxAsks]
HeldDial == [machine: Machine, stream: BOOLEAN, listener: Turn \cup {Nobody}, waiting: Seq(Frame)]

\* Every variable keeps to its type.
RelayTypeOK ==
  /\ dials \in Seq(HeldDial)
  /\ Len(dials) <= MaxDials
  /\ held \in [Machine -> Dials \cup {NoDial}] /\ up \in [Machine -> Dials \cup {NoDial}]
  /\ turn \in [Turn -> [does: {"away", "open", "over"}, dial: Dials \cup {NoDial},
                        asks: 0..MaxAsks, awaits: 0..MaxAsks, mixed: BOOLEAN]]
  /\ asked \subseteq Frame /\ replies \subseteq Frame /\ crossed \in BOOLEAN

\* However late the dashboard finds out that a dial ended, the end of an older one never
\* takes its successor away, and nothing is routed into a stream that is closed: a machine
\* is held by a dial exactly while that dial's stream is open (relay.ts: "leaving it in the
\* map would route frames into it").
OpenDialsAreHeld ==
  /\ \A d \in Dials : dials[d].stream => held[dials[d].machine] = d
  /\ \A m \in Machine :
       held[m] # NoDial => dials[held[m]].machine = m /\ dials[held[m]].stream

\* A turn is never given another turn's answer, as long as none begins to listen on a
\* machine that another still asks, or that still owes another an answer.
AnswersGoToWhoAsked ==
  ~crossed => \A t \in Turn : ~turn[t].mixed

=============================================================================
