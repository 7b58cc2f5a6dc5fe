---------------------------- MODULE SurfaceProofs ---------------------------
(***************************************************************************)
(* Proofs about the two halves of the way from a research turn to the copy *)
(* it acts on.                                                             *)
(*                                                                         *)
(* Relay: its type invariant, that a machine is held by its open dial and  *)
(* by no other, and that answers go to the turn that asked as long as      *)
(* turns on a machine do not overlap.                                      *)
(*                                                                         *)
(* Sandbox: its type invariant, that the timer spares research, that no    *)
(* plan meets rows of a call that was over, and that a session without a   *)
(* stack leaves no copy up.                                                *)
(*                                                                         *)
(* Copy: that whatever app it is made of, a copy shares nothing with the   *)
(* app that it could write to, and boots as the app does.                  *)
(***************************************************************************)
EXTENDS Relay, MCSandbox, FiniteSetTheorems, TLAPS

-----------------------------------------------------------------------------
(* Relay: dials as a sequence.                                             *)

\* A field of one dial changes: the others are as they were.
LEMMA ExceptDial ==
  ASSUME NEW S, NEW s \in Seq(S), NEW d \in 1..Len(s), NEW r \in S
  PROVE  /\ [s EXCEPT ![d] = r] \in Seq(S)
         /\ Len([s EXCEPT ![d] = r]) = Len(s)
         /\ [s EXCEPT ![d] = r][d] = r
         /\ \A e \in 1..Len(s) : e # d => [s EXCEPT ![d] = r][e] = s[e]
  OBVIOUS

\* A dial is appended.
LEMMA AppendDial ==
  ASSUME NEW S, NEW s \in Seq(S), NEW r \in S
  PROVE  /\ Append(s, r) \in Seq(S) /\ Len(Append(s, r)) = Len(s) + 1
         /\ Append(s, r)[Len(s) + 1] = r
         /\ \A e \in 1..Len(s) : Append(s, r)[e] = s[e]
  OBVIOUS

LEMMA DialTypes ==
  ASSUME RelayTypeOK, NEW d \in Dials
  PROVE  /\ dials[d] \in HeldDial /\ d # NoDial /\ d \in Nat
         /\ [dials[d] EXCEPT !.stream = FALSE] \in HeldDial
         /\ \A t \in Turn : [dials[d] EXCEPT !.listener = t, !.waiting = <<>>] \in HeldDial
         /\ \A f \in Frame : [dials[d] EXCEPT !.waiting = Append(@, f)] \in HeldDial
<1>1. dials[d] \in HeldDial /\ d # NoDial /\ d \in Nat
  BY DEF RelayTypeOK, Dials, NoDial
<1>2. [dials[d] EXCEPT !.stream = FALSE] \in HeldDial
  BY <1>1 DEF HeldDial
<1>3. ASSUME NEW t \in Turn PROVE [dials[d] EXCEPT !.listener = t, !.waiting = <<>>] \in HeldDial
  <2>1. <<>> \in Seq(Frame)
    OBVIOUS
  <2> QED BY <1>1, <2>1 DEF HeldDial
<1>4. ASSUME NEW f \in Frame PROVE [dials[d] EXCEPT !.waiting = Append(@, f)] \in HeldDial
  <2>1. Append(dials[d].waiting, f) \in Seq(Frame)
    BY <1>1, <1>4 DEF HeldDial
  <2> QED BY <1>1, <2>1 DEF HeldDial
<1> QED BY <1>1, <1>2, <1>3, <1>4

-----------------------------------------------------------------------------
(* What a step does to the dials.                                          *)

\* A dial keeps who listens.
ListenersStay == \A d \in Dials : dials'[d].listener = dials[d].listener

\* A dial keeps its machine, and only a new one is open that was not.
DialsStay ==
  /\ dials' \in Seq(HeldDial) /\ Len(dials') <= MaxDials /\ Len(dials) <= Len(dials')
  /\ \A d \in Dials : /\ dials'[d].machine = dials[d].machine
                      /\ dials'[d].stream => dials[d].stream

LEMMA OneDial ==
  ASSUME RelayTypeOK, NEW d \in Dials, NEW r \in HeldDial,
         dials' = [dials EXCEPT ![d] = r],
         r.machine = dials[d].machine, r.stream => dials[d].stream
  PROVE  DialsStay /\ Len(dials') = Len(dials) /\ dials'[d] = r
         /\ \A e \in Dials : e # d => dials'[e] = dials[e]
<1>1. /\ dials' \in Seq(HeldDial) /\ Len(dials') = Len(dials) /\ dials'[d] = r
      /\ \A e \in 1..Len(dials) : e # d => dials'[e] = dials[e]
  BY ExceptDial DEF RelayTypeOK, Dials
<1>2. Len(dials) \in Nat
  BY DEF RelayTypeOK
<1> QED BY <1>1, <1>2 DEF RelayTypeOK, DialsStay, Dials

LEMMA ConnectDials ==
  ASSUME RelayTypeOK, NEW m \in Machine, Connect(m)
  PROVE  /\ DialsStay /\ ListenersStay /\ Len(dials') = Len(dials) + 1
         /\ dials'[Len(dials) + 1] = NewDial(m)
         /\ \A e \in Dials : e # held[m] => dials'[e] = dials[e]
         /\ held[m] # NoDial => ~ dials'[held[m]].stream
<1>1. NewDial(m) \in HeldDial
  BY DEF NewDial, HeldDial, Frame
<1>2. Len(dials) \in Nat /\ Len(dials) < MaxDials /\ MaxDials \in Nat
  BY RelayBounds DEF RelayTypeOK, Connect
<1>3. CASE held[m] = NoDial
  <2>1. dials' = Append(dials, NewDial(m))
    BY <1>3 DEF Connect
  <2> QED BY <1>1, <1>2, <1>3, <2>1, AppendDial DEF RelayTypeOK, DialsStay, ListenersStay, Dials
<1>4. CASE held[m] # NoDial
  <2> DEFINE old == held[m]
             shut == [dials[old] EXCEPT !.stream = FALSE]
             hungUp == [dials EXCEPT ![old] = shut]
  <2>1. old \in 1..Len(dials) /\ old \in Dials /\ dials \in Seq(HeldDial)
    BY <1>4 DEF RelayTypeOK, Dials
  <2>2. shut \in HeldDial /\ dials[old] \in HeldDial
    BY <2>1, DialTypes
  <2>3. shut.machine = dials[old].machine /\ ~ shut.stream /\ shut.listener = dials[old].listener
    BY <2>2 DEF HeldDial
  <2>4. dials' = Append(hungUp, NewDial(m))
    BY <1>4 DEF Connect
  <2> HIDE DEF shut
  <2>5. /\ hungUp \in Seq(HeldDial) /\ Len(hungUp) = Len(dials) /\ hungUp[old] = shut
        /\ \A e \in 1..Len(dials) : e # old => hungUp[e] = dials[e]
    BY <2>1, <2>2, ExceptDial
  <2> HIDE DEF hungUp
  <2>6. /\ dials' \in Seq(HeldDial) /\ Len(dials') = Len(dials) + 1
        /\ dials'[Len(dials) + 1] = NewDial(m)
        /\ \A e \in 1..Len(dials) : dials'[e] = hungUp[e]
    BY <1>1, <2>4, <2>5, AppendDial
  <2>7. \A e \in 1..Len(dials) : /\ dials'[e].machine = dials[e].machine
                                 /\ dials'[e].stream => dials[e].stream
                                 /\ dials'[e].listener = dials[e].listener
                                 /\ e # old => dials'[e] = dials[e]
    BY <2>3, <2>5, <2>6
  <2>8. ~ dials'[old].stream
    BY <2>1, <2>3, <2>5, <2>6
  <2> QED BY <1>2, <2>6, <2>7, <2>8 DEF DialsStay, ListenersStay, Dials
<1> QED BY <1>3, <1>4

LEMMA NoticeDials ==
  ASSUME RelayTypeOK, NEW d \in Dial, Notice(d)
  PROVE  /\ DialsStay /\ ListenersStay /\ Len(dials') = Len(dials) /\ ~ dials'[d].stream
         /\ \A e \in Dials : e # d => dials'[e] = dials[e]
<1> DEFINE r == [dials[d] EXCEPT !.stream = FALSE]
<1>1. d \in Dials /\ dials' = [dials EXCEPT ![d] = r]
  BY DEF Notice
<1>2. r \in HeldDial /\ dials[d] \in HeldDial
  BY <1>1, DialTypes
<1>3. r.machine = dials[d].machine /\ r.listener = dials[d].listener /\ ~ r.stream
  BY <1>2 DEF HeldDial
<1> HIDE DEF r
<1>4. /\ DialsStay /\ Len(dials') = Len(dials) /\ dials'[d] = r
      /\ \A e \in Dials : e # d => dials'[e] = dials[e]
  BY <1>1, <1>2, <1>3, OneDial
<1>5. ListenersStay
  BY <1>3, <1>4 DEF ListenersStay
<1> QED BY <1>3, <1>4, <1>5

LEMMA OpenDials ==
  ASSUME RelayTypeOK, NEW t \in Turn, NEW d \in Dials,
         dials' = [dials EXCEPT ![d] = [@ EXCEPT !.listener = t, !.waiting = <<>>]]
  PROVE  /\ DialsStay /\ Len(dials') = Len(dials) /\ dials'[d].listener = t
         /\ dials'[d].stream = dials[d].stream
         /\ \A e \in Dials : e # d => dials'[e] = dials[e]
<1> DEFINE r == [dials[d] EXCEPT !.listener = t, !.waiting = <<>>]
<1>1. dials[d] \in HeldDial /\ r \in HeldDial /\ dials \in Seq(HeldDial) /\ d \in 1..Len(dials)
  BY DialTypes DEF RelayTypeOK, Dials
<1>2. dials' = [dials EXCEPT ![d] = r]
  BY <1>1 DEF HeldDial
<1>3. r.machine = dials[d].machine /\ r.listener = t /\ r.stream = dials[d].stream
      /\ (r.stream => dials[d].stream)
  BY <1>1 DEF HeldDial
<1> HIDE DEF r
<1> QED BY <1>1, <1>2, <1>3, OneDial

LEMMA DeliverDials ==
  ASSUME RelayTypeOK, NEW f \in replies, Deliver(f)
  PROVE  /\ DialsStay /\ ListenersStay /\ Len(dials') = Len(dials)
         /\ \A e \in Dials : dials'[e].stream = dials[e].stream
<1> PICK d : d = Dialed(f.machine)
  OBVIOUS
<1>1. f \in Frame /\ d \in Dials \cup {NoDial} /\ dials \in Seq(HeldDial) /\ Len(dials) <= MaxDials
  BY DEF RelayTypeOK, Dialed, Frame
<1>2. CASE dials' = dials
  BY <1>1, <1>2 DEF DialsStay, ListenersStay, Dials
<1>3. CASE d # NoDial /\ dials' = [dials EXCEPT ![d].waiting = Append(@, f)]
  <2> DEFINE r == [dials[d] EXCEPT !.waiting = Append(@, f)]
  <2>1. d \in Dials
    BY <1>1, <1>3
  <2>2. dials[d] \in HeldDial /\ r \in HeldDial
    BY <1>1, <2>1, DialTypes
  <2>3. dials' = [dials EXCEPT ![d] = r]
    BY <1>3
  <2>4. r.machine = dials[d].machine /\ r.listener = dials[d].listener /\ r.stream = dials[d].stream
        /\ (r.stream => dials[d].stream)
    BY <2>2 DEF HeldDial
  <2> HIDE DEF r
  <2>5. /\ DialsStay /\ Len(dials') = Len(dials) /\ dials'[d] = r
        /\ \A e \in Dials : e # d => dials'[e] = dials[e]
    BY <2>1, <2>2, <2>3, <2>4, OneDial
  <2> QED BY <2>1, <2>4, <2>5 DEF ListenersStay
<1> QED BY <1>2, <1>3 DEF Deliver

-----------------------------------------------------------------------------
(* Types.                                                                  *)

\* The dials do not change.
LEMMA SameDials ==
  ASSUME RelayTypeOK, dials' = dials
  PROVE  DialsStay /\ ListenersStay /\ Len(dials') = Len(dials)
  BY DEF RelayTypeOK, DialsStay, ListenersStay

\* A turn that opened has a dial.
OpenHasDial == \A t \in Turn : turn[t].does # "away" => turn[t].dial \in Dials

TurnRec == [does: {"away", "open", "over"}, dial: Dials \cup {NoDial},
            asks: 0..MaxAsks, awaits: 0..MaxAsks, mixed: BOOLEAN]

\* With the dials accounted for, it remains that the other variables keep to their types.
LEMMA TypeFromDials ==
  ASSUME RelayTypeOK, DialsStay,
         held' \in [Machine -> Dials' \cup {NoDial}], up' \in [Machine -> Dials' \cup {NoDial}],
         turn' \in [Turn -> TurnRec], asked' \subseteq Frame, replies' \subseteq Frame,
         crossed' \in BOOLEAN
  PROVE  RelayTypeOK'
<1>1. Dials \subseteq Dials'
  BY DEF RelayTypeOK, DialsStay, Dials
<1>2. TurnRec \subseteq TurnRec'
  BY <1>1 DEF TurnRec
<1> QED BY <1>2 DEF RelayTypeOK, DialsStay, TurnRec, Frame, HeldDial, NoDial

LEMMA TypeKept == ASSUME RelayTypeOK, OpenHasDial, [Next]_vars PROVE RelayTypeOK'
<1>1. Dials \subseteq Dials' \/ ~ DialsStay
  BY DEF RelayTypeOK, DialsStay, Dials
<1>2. /\ held \in [Machine -> Dials \cup {NoDial}] /\ up \in [Machine -> Dials \cup {NoDial}]
      /\ turn \in [Turn -> TurnRec] /\ asked \subseteq Frame /\ replies \subseteq Frame
      /\ crossed \in BOOLEAN
  BY DEF RelayTypeOK, TurnRec
<1>3. ASSUME NEW m \in Machine, Connect(m) PROVE RelayTypeOK'
  <2>1. DialsStay /\ Len(dials') = Len(dials) + 1 /\ Len(dials) \in Nat
    BY <1>3, ConnectDials DEF RelayTypeOK
  <2>2. Len(dials) + 1 \in Dials'
    BY <2>1 DEF Dials
  <2>3. up' \in [Machine -> Dials' \cup {NoDial}]
    BY <1>1, <1>2, <1>3, <2>1, <2>2 DEF Connect
  <2>4. held' \in [Machine -> Dials' \cup {NoDial}]
    BY <1>1, <1>2, <1>3, <2>1, <2>2 DEF Connect, Release
  <2> QED BY <1>2, <1>3, <2>1, <2>3, <2>4, TypeFromDials DEF Connect
<1>4. ASSUME NEW m \in Machine, HangUp(m) PROVE RelayTypeOK'
  <2>1. DialsStay /\ Dials' = Dials
    BY <1>4, SameDials DEF HangUp, Dials
  <2> QED BY <1>2, <1>4, <2>1, TypeFromDials DEF HangUp
<1>5. ASSUME NEW d \in Dial, Notice(d) PROVE RelayTypeOK'
  <2>1. DialsStay /\ Dials' = Dials
    BY <1>5, NoticeDials DEF Dials
  <2> QED BY <1>2, <1>5, <2>1, TypeFromDials DEF Notice, Release
<1>6. ASSUME NEW d \in Dial, LateCancel(d) PROVE RelayTypeOK'
  <2>1. DialsStay /\ Dials' = Dials
    BY <1>6, SameDials DEF LateCancel, Dials
  <2> QED BY <1>2, <1>6, <2>1, TypeFromDials DEF LateCancel, Release
<1>7. ASSUME NEW t \in Turn, Open(t) PROVE RelayTypeOK'
  <2>1. PICK d \in Newest :
          /\ turn' = [turn EXCEPT ![t].does = "open", ![t].dial = d]
          /\ dials' = [dials EXCEPT ![d] = [@ EXCEPT !.listener = t, !.waiting = <<>>]]
          /\ crossed' = (crossed \/ Owed(dials[d].machine, t))
    BY <1>7 DEF Open
  <2>2. d \in Dials /\ turn[t] \in TurnRec
    BY <1>2 DEF Newest
  <2>3. DialsStay /\ Dials' = Dials
    BY <2>1, <2>2, OpenDials DEF Dials
  <2>4. turn' \in [Turn -> TurnRec]
    BY <1>2, <2>1, <2>2 DEF TurnRec
  <2>5. crossed' \in BOOLEAN
    BY <2>1
  <2> QED BY <1>2, <1>7, <2>3, <2>4, <2>5, TypeFromDials DEF Open
<1>8. ASSUME NEW t \in Turn, Ask(t) PROVE RelayTypeOK'
  <2>1. DialsStay /\ Dials' = Dials
    BY <1>8, SameDials DEF Ask, Dials
  <2>2. turn[t] \in TurnRec /\ turn[t].asks \in 0..MaxAsks /\ MaxAsks \in Nat
    BY <1>2, RelayBounds DEF TurnRec
  <2>3. turn' \in [Turn -> TurnRec]
    BY <1>2, <1>8, <2>2 DEF Ask, TurnRec
  <2>4. turn[t].does = "open" /\ turn[t].asks + 1 \in 1..MaxAsks
    BY <1>8, <2>2 DEF Ask
  <2>5. asked' \subseteq Frame
    <3>1. CASE asked' = asked
      BY <1>2, <3>1
    <3>2. CASE /\ up[dials[turn[t].dial].machine] = turn[t].dial /\ dials[turn[t].dial].stream
               /\ asked' = asked \cup {[machine |-> dials[turn[t].dial].machine, turn |-> t,
                                        number |-> turn[t].asks + 1]}
      <4>1. turn[t].dial \in Dials
        BY <2>4 DEF OpenHasDial
      <4>2. dials[turn[t].dial].machine \in Machine
        BY <4>1, DialTypes DEF HeldDial
      <4>3. [machine |-> dials[turn[t].dial].machine, turn |-> t, number |-> turn[t].asks + 1]
              \in Frame
        BY <2>4, <4>2 DEF Frame
      <4> QED BY <1>2, <3>2, <4>3
    <3>3. CASE dials[turn[t].dial].stream
      BY <1>8, <3>1, <3>2, <3>3 DEF Ask
    <3>4. CASE ~ dials[turn[t].dial].stream
      BY <1>8, <3>1, <3>4 DEF Ask
    <3> QED BY <3>3, <3>4
  <2> QED BY <1>2, <1>8, <2>1, <2>3, <2>5, TypeFromDials DEF Ask
<1>9. ASSUME NEW t \in Turn, Leave(t) PROVE RelayTypeOK'
  <2>1. DialsStay /\ Dials' = Dials
    BY <1>9, SameDials DEF Leave, Dials
  <2>2. turn' \in [Turn -> TurnRec]
    <3>1. turn[t] \in TurnRec /\ 0 \in 0..MaxAsks
      BY <1>2, RelayBounds
    <3> QED BY <1>2, <1>9, <3>1 DEF Leave, TurnRec
  <2> QED BY <1>2, <1>9, <2>1, <2>2, TypeFromDials DEF Leave
<1>10. ASSUME NEW f \in asked, Answer(f) PROVE RelayTypeOK'
  <2>1. DialsStay /\ Dials' = Dials
    BY <1>10, SameDials DEF Answer, Dials
  <2> QED BY <1>2, <1>10, <2>1, TypeFromDials DEF Answer
<1>11. ASSUME NEW f \in replies, Deliver(f) PROVE RelayTypeOK'
  <2>1. DialsStay /\ Dials' = Dials
    BY <1>11, DeliverDials DEF Dials
  <2>2. turn' \in [Turn -> TurnRec]
    <3>1. CASE turn' = turn
      BY <1>2, <3>1
    <3>2. ASSUME NEW L \in Turn, NEW b \in BOOLEAN,
                 turn' = [turn EXCEPT ![L].awaits = 0, ![L].mixed = b]
          PROVE  turn' \in [Turn -> TurnRec]
      <4>1. turn[L] \in TurnRec /\ 0 \in 0..MaxAsks
        BY <1>2, RelayBounds
      <4> QED BY <1>2, <3>2, <4>1 DEF TurnRec
    <3>3. ASSUME turn' # turn PROVE dials[held[f.machine]].listener \in Turn
      <4>1. held[f.machine] # NoDial /\ dials[held[f.machine]].listener # Nobody
        BY <1>11, <3>3 DEF Deliver, Dialed
      <4>2. f.machine \in Machine
        BY <1>2 DEF Frame
      <4>3. held[f.machine] \in Dials
        BY <1>2, <4>1, <4>2
      <4> QED BY <4>1, <4>3, DialTypes DEF HeldDial
    <3>4. CASE turn' # turn
      <4>1. PICK L \in Turn : turn' = Takes(L, f)
        BY <1>11, <3>3, <3>4 DEF Deliver, Dialed
      <4>2. turn' = [turn EXCEPT ![L].awaits = 0, ![L].mixed = (turn[L].mixed \/ f.turn # L)]
        BY <3>4, <4>1 DEF Takes
      <4>3. (turn[L].mixed \/ f.turn # L) \in BOOLEAN
        OBVIOUS
      <4> QED BY <3>2, <4>2, <4>3
    <3> QED BY <3>1, <3>4
  <2> QED BY <1>2, <1>11, <2>1, <2>2, TypeFromDials DEF Deliver
<1>12. CASE UNCHANGED vars
  BY <1>12 DEF vars, RelayTypeOK, Dials, Frame, HeldDial
<1> QED BY <1>3, <1>4, <1>5, <1>6, <1>7, <1>8, <1>9, <1>10, <1>11, <1>12 DEF Next

-----------------------------------------------------------------------------
(* A machine is held by its open dial.                                     *)

LEMMA HeldKept ==
  ASSUME RelayTypeOK, OpenDialsAreHeld, [Next]_vars PROVE OpenDialsAreHeld'
<1>1. /\ held \in [Machine -> Dials \cup {NoDial}] /\ Len(dials) \in Nat
      /\ \A d \in Dials : dials[d].machine \in Machine
  <2>1. \A d \in Dials : dials[d].machine \in Machine
    BY DialTypes DEF HeldDial
  <2> QED BY <2>1 DEF RelayTypeOK
<1>2. ASSUME Len(dials') = Len(dials), held' = held,
             \A d \in Dials : /\ dials'[d].machine = dials[d].machine
                              /\ dials'[d].stream = dials[d].stream
      PROVE  OpenDialsAreHeld'
  <2>1. Dials' = Dials
    BY <1>2 DEF Dials
  <2>2. \A d \in Dials : dials'[d].stream => held'[dials'[d].machine] = d
    BY <1>2 DEF OpenDialsAreHeld
  <2>3. ASSUME NEW m \in Machine, held'[m] # NoDial
        PROVE  dials'[held'[m]].machine = m /\ dials'[held'[m]].stream
    BY <1>1, <1>2, <2>3 DEF OpenDialsAreHeld
  <2> QED BY <2>1, <2>2, <2>3 DEF OpenDialsAreHeld
<1>3. ASSUME NEW m \in Machine, Connect(m) PROVE OpenDialsAreHeld'
  <2> DEFINE new == Len(dials) + 1
  <2>1. /\ \A d \in Dials : /\ dials'[d].machine = dials[d].machine
                            /\ dials'[d].stream => dials[d].stream
                            /\ d # held[m] => dials'[d] = dials[d]
        /\ Len(dials') = new /\ dials'[new] = NewDial(m)
        /\ held[m] # NoDial => ~ dials'[held[m]].stream
    BY <1>3, ConnectDials DEF DialsStay
  <2>2. held'[m] = new /\ \A o \in Machine : o # m => held'[o] = held[o]
    BY <1>1, <1>3 DEF Connect, Release
  <2>3. Dials' = Dials \cup {new} /\ new \notin Dials
    BY <1>1, <2>1 DEF Dials
  <2>4. dials'[new].machine = m /\ dials'[new].stream
    BY <2>1 DEF NewDial
  <2>5. ASSUME NEW d \in Dials, dials'[d].stream PROVE held'[dials'[d].machine] = d
    <3>1. dials[d].stream /\ held[dials[d].machine] = d /\ dials[d].machine \in Machine
      BY <1>1, <2>1, <2>5 DEF OpenDialsAreHeld
    <3>2. dials[d].machine # m
      <4>1. d # NoDial
        BY DEF Dials, NoDial
      <4> QED BY <2>1, <2>5, <3>1, <4>1
    <3> QED BY <2>1, <2>2, <3>1, <3>2
  <2>6. ASSUME NEW o \in Machine, held'[o] # NoDial
        PROVE  dials'[held'[o]].machine = o /\ dials'[held'[o]].stream
    <3>1. CASE o = m
      BY <2>2, <2>4, <3>1
    <3>2. CASE o # m
      <4>1. held'[o] = held[o] /\ held[o] \in Dials
        BY <1>1, <2>2, <2>6, <3>2
      <4>2. dials[held[o]].machine = o /\ dials[held[o]].stream
        BY <2>6, <4>1 DEF OpenDialsAreHeld
      <4>3. held[o] # held[m]
        BY <2>6, <3>2, <4>1, <4>2 DEF OpenDialsAreHeld
      <4> QED BY <2>1, <4>1, <4>2, <4>3
    <3> QED BY <3>1, <3>2
  <2> HIDE DEF new
  <2>7. \A d \in Dials' : dials'[d].stream => held'[dials'[d].machine] = d
    BY <2>2, <2>3, <2>4, <2>5
  <2> QED BY <2>6, <2>7 DEF OpenDialsAreHeld
<1>4. ASSUME NEW d \in Dial, Notice(d) PROVE OpenDialsAreHeld'
  <2>1. /\ \A e \in Dials : dials'[e].machine = dials[e].machine
        /\ \A e \in Dials : e # d => dials'[e] = dials[e]
        /\ ~ dials'[d].stream /\ Dials' = Dials
    BY <1>4, NoticeDials DEF DialsStay, Dials
  <2>2. d \in Dials /\ dials[d].stream /\ held[dials[d].machine] = d
    BY <1>4 DEF Notice, OpenDialsAreHeld
  <2>3. held' = [held EXCEPT ![dials[d].machine] = NoDial]
    BY <1>4, <2>2 DEF Notice, Release
  <2>4. ASSUME NEW e \in Dials, dials'[e].stream PROVE held'[dials'[e].machine] = e
    <3>1. e # d /\ dials[e].stream /\ held[dials[e].machine] = e
      BY <2>1, <2>4 DEF OpenDialsAreHeld
    <3>2. dials[e].machine # dials[d].machine
      BY <2>2, <3>1
    <3> QED BY <1>1, <2>1, <2>3, <3>1, <3>2
  <2>5. ASSUME NEW m \in Machine, held'[m] # NoDial
        PROVE  dials'[held'[m]].machine = m /\ dials'[held'[m]].stream
    <3>1. m # dials[d].machine /\ held'[m] = held[m] /\ held[m] \in Dials
      BY <1>1, <2>3, <2>5
    <3>2. dials[held[m]].machine = m /\ dials[held[m]].stream
      BY <2>5, <3>1 DEF OpenDialsAreHeld
    <3> QED BY <2>1, <3>1, <3>2
  <2> QED BY <2>1, <2>4, <2>5 DEF OpenDialsAreHeld
<1>5. ASSUME NEW d \in Dial, LateCancel(d) PROVE OpenDialsAreHeld'
  <2>1. d \in Dials /\ ~ dials[d].stream /\ dials' = dials /\ d # NoDial
    BY <1>5 DEF LateCancel, Dials, NoDial
  <2>2. held[dials[d].machine] # d
    BY <1>1, <2>1 DEF OpenDialsAreHeld
  <2>3. held' = held
    BY <1>5, <2>2 DEF LateCancel, Release
  <2> QED BY <1>2, <2>1, <2>3
<1>6. ASSUME NEW t \in Turn, Open(t) PROVE OpenDialsAreHeld'
  <2>1. PICK d \in Dials :
          /\ dials' = [dials EXCEPT ![d] = [@ EXCEPT !.listener = t, !.waiting = <<>>]]
          /\ held' = held
    BY <1>6 DEF Open, Newest
  <2>2. /\ Len(dials') = Len(dials) /\ \A e \in Dials : dials'[e].machine = dials[e].machine
        /\ dials'[d].stream = dials[d].stream /\ \A e \in Dials : e # d => dials'[e] = dials[e]
    BY <2>1, OpenDials DEF DialsStay
  <2> QED BY <1>2, <2>1, <2>2
<1>7. ASSUME NEW f \in replies, Deliver(f) PROVE OpenDialsAreHeld'
  <2>1. held' = held
    BY <1>7 DEF Deliver
  <2> QED BY <1>2, <1>7, <2>1, DeliverDials DEF DialsStay
<1>8. ASSUME dials' = dials, held' = held PROVE OpenDialsAreHeld'
  BY <1>2, <1>8
<1>9. ASSUME NEW m \in Machine, HangUp(m) PROVE OpenDialsAreHeld'
  BY <1>8, <1>9 DEF HangUp
<1>10. ASSUME NEW t \in Turn, Ask(t) \/ Leave(t) PROVE OpenDialsAreHeld'
  BY <1>8, <1>10 DEF Ask, Leave
<1>11. ASSUME NEW f \in asked, Answer(f) PROVE OpenDialsAreHeld'
  BY <1>8, <1>11 DEF Answer
<1>12. CASE UNCHANGED vars
  BY <1>8, <1>12 DEF vars
<1> QED BY <1>3, <1>4, <1>5, <1>6, <1>7, <1>9, <1>10, <1>11, <1>12 DEF Next

-----------------------------------------------------------------------------
(* Answers go to the turn that asked.                                      *)

\* A dial's listener opened on that dial.
ListenersOpened ==
  \A d \in Dials : \A t \in Turn :
    dials[d].listener = t => turn[t].does # "away" /\ turn[t].dial = d

\* While no two turns overlapped on a machine, an open turn is the only one there, and
\* every answer its machine owes is its own.
Apart ==
  ~ crossed => \A t \in Turn : turn[t].does = "open" =>
    /\ \A f \in asked \cup replies : f.machine = dials[turn[t].dial].machine => f.turn = t
    /\ \A u \in Turn : turn[u].does = "open" /\ u # t =>
         dials[turn[u].dial].machine # dials[turn[t].dial].machine

AInv == OpenHasDial /\ ListenersOpened /\ Apart /\ AnswersGoToWhoAsked

\* The turns and what is owed shrink or stay, and no dial changes hands.
LEMMA QuietStep ==
  ASSUME RelayTypeOK, AInv, DialsStay, ListenersStay, Len(dials') = Len(dials),
         asked' \cup replies' \subseteq asked \cup replies, crossed' = crossed,
         \A t \in Turn : /\ turn'[t].dial = turn[t].dial
                         /\ turn'[t].does = "open" => turn[t].does = "open"
                         /\ turn'[t].does = "away" <=> turn[t].does = "away"
                         /\ ~ crossed /\ turn'[t].mixed => turn[t].mixed
  PROVE  AInv'
<1>1. Dials' = Dials
  BY DEF Dials
<1>2. OpenHasDial'
  BY <1>1 DEF AInv, OpenHasDial
<1>3. ListenersOpened'
  BY <1>1 DEF AInv, ListenersOpened, ListenersStay
<1>4. \A t \in Turn : turn[t].does = "open" =>
        dials'[turn[t].dial].machine = dials[turn[t].dial].machine
  BY DEF AInv, OpenHasDial, DialsStay
<1>5. Apart'
  BY <1>4 DEF AInv, Apart
<1>6. AnswersGoToWhoAsked'
  BY DEF AInv, AnswersGoToWhoAsked
<1> QED BY <1>2, <1>3, <1>5, <1>6 DEF AInv

LEMMA AKept ==
  ASSUME RelayTypeOK, OpenDialsAreHeld, AInv, [Next]_vars PROVE AInv'
<1>1. turn \in [Turn -> TurnRec] /\ held \in [Machine -> Dials \cup {NoDial}]
      /\ Len(dials) \in Nat /\ \A f \in asked \cup replies : f.machine \in Machine
        /\ f.turn \in Turn
  BY DEF RelayTypeOK, TurnRec, Frame
<1>2. ASSUME NEW m \in Machine, Connect(m) PROVE AInv'
  <2>1. /\ DialsStay /\ ListenersStay /\ Len(dials') = Len(dials) + 1
        /\ dials'[Len(dials) + 1] = NewDial(m)
    BY <1>2, ConnectDials
  <2>2. UNCHANGED <<turn, asked, replies, crossed>>
    BY <1>2 DEF Connect
  <2>3. Dials' = Dials \cup {Len(dials) + 1}
    BY <1>1, <2>1 DEF Dials
  <2>4. dials'[Len(dials) + 1].listener \notin Turn
    BY <2>1, NobodyAssumption DEF NewDial
  <2>5. OpenHasDial'
    BY <2>2, <2>3 DEF AInv, OpenHasDial
  <2>6. ListenersOpened'
    BY <2>1, <2>2, <2>3, <2>4 DEF AInv, ListenersOpened, ListenersStay
  <2>7. \A t \in Turn : turn[t].does = "open" =>
          dials'[turn[t].dial].machine = dials[turn[t].dial].machine
    BY <2>1 DEF AInv, OpenHasDial, DialsStay
  <2>8. Apart' /\ AnswersGoToWhoAsked'
    BY <2>2, <2>7 DEF AInv, Apart, AnswersGoToWhoAsked
  <2> QED BY <2>5, <2>6, <2>8 DEF AInv
<1>3. ASSUME NEW m \in Machine, HangUp(m) PROVE AInv'
  BY <1>3, QuietStep, SameDials DEF HangUp
<1>4. ASSUME NEW d \in Dial, Notice(d) PROVE AInv'
  BY <1>4, QuietStep, NoticeDials DEF Notice
<1>5. ASSUME NEW d \in Dial, LateCancel(d) PROVE AInv'
  BY <1>5, QuietStep, SameDials DEF LateCancel
<1>6. ASSUME NEW t \in Turn, Leave(t) PROVE AInv'
  <2>1. \A u \in Turn : /\ turn'[u].dial = turn[u].dial
                        /\ turn'[u].does = "open" => turn[u].does = "open"
                        /\ turn'[u].does = "away" <=> turn[u].does = "away"
                        /\ turn'[u].mixed = turn[u].mixed
    BY <1>1, <1>6 DEF Leave, TurnRec
  <2> QED BY <1>6, <2>1, QuietStep, SameDials DEF Leave
<1>7. ASSUME NEW f \in asked, Answer(f) PROVE AInv'
  BY <1>7, QuietStep, SameDials DEF Answer
<1>8. CASE UNCHANGED vars
  BY <1>8, QuietStep, SameDials DEF vars
<1>9. ASSUME NEW t \in Turn, Ask(t) PROVE AInv'
  <2> DEFINE m == dials[turn[t].dial].machine
  <2>1. DialsStay /\ ListenersStay /\ dials' = dials /\ crossed' = crossed /\ replies' = replies
        /\ Dials' = Dials
    BY <1>9, SameDials DEF Ask, Dials
  <2>2. turn[t].does = "open" /\ turn[t].dial \in Dials
    BY <1>9 DEF Ask, AInv, OpenHasDial
  <2>3. \A u \in Turn : /\ turn'[u].dial = turn[u].dial
                        /\ turn'[u].does = "open" => turn[u].does = "open"
                        /\ turn'[u].does = "away" <=> turn[u].does = "away"
                        /\ turn'[u].mixed = turn[u].mixed
    <3>1. turn[t] \in TurnRec
      BY <1>1
    <3>2. CASE turn' = [turn EXCEPT ![t].asks = @ + 1, ![t].awaits = turn[t].asks + 1]
      BY <1>1, <3>1, <3>2 DEF TurnRec
    <3>3. CASE turn' = [turn EXCEPT ![t].does = "over"]
      BY <1>1, <2>2, <3>1, <3>3 DEF TurnRec
    <3> QED BY <1>9, <3>2, <3>3 DEF Ask
  <2>4. \A f \in asked' : f \in asked \/ (f.machine = m /\ f.turn = t)
    BY <1>9 DEF Ask
  <2>5. OpenHasDial' /\ ListenersOpened' /\ AnswersGoToWhoAsked'
    BY <2>1, <2>3 DEF AInv, OpenHasDial, ListenersOpened, AnswersGoToWhoAsked
  <2>6. Apart'
    BY <2>1, <2>2, <2>3, <2>4 DEF AInv, Apart
  <2> QED BY <2>5, <2>6 DEF AInv
<1>10. ASSUME NEW t \in Turn, Open(t) PROVE AInv'
  <2>1. PICK d \in Newest :
          /\ turn' = [turn EXCEPT ![t].does = "open", ![t].dial = d]
          /\ dials' = [dials EXCEPT ![d] = [@ EXCEPT !.listener = t, !.waiting = <<>>]]
          /\ crossed' = (crossed \/ Owed(dials[d].machine, t))
          /\ asked' = asked /\ replies' = replies
    BY <1>10 DEF Open
  <2>2. d \in Dials /\ turn[t].does = "away" /\ turn[t] \in TurnRec
    BY <1>1, <1>10 DEF Open, Newest
  <2>3. /\ DialsStay /\ Dials' = Dials /\ dials'[d].listener = t
        /\ \A e \in Dials : e # d => dials'[e] = dials[e]
    BY <2>1, <2>2, OpenDials DEF Dials
  <2>4. /\ turn'[t].does = "open" /\ turn'[t].dial = d /\ turn'[t].mixed = turn[t].mixed
        /\ \A u \in Turn : u # t => turn'[u] = turn[u]
    BY <1>1, <2>1, <2>2 DEF TurnRec
  <2>5. OpenHasDial'
    BY <2>2, <2>3, <2>4 DEF AInv, OpenHasDial
  <2>6. ListenersOpened'
    BY <2>2, <2>3, <2>4 DEF AInv, ListenersOpened
  <2>7. AnswersGoToWhoAsked'
    BY <2>1, <2>4 DEF AInv, AnswersGoToWhoAsked
  <2>8. \A e \in Dials : dials'[e].machine = dials[e].machine
    BY <2>3 DEF DialsStay
  <2>9. ASSUME ~ crossed' PROVE ~ crossed /\ ~ Owed(dials[d].machine, t)
    BY <2>1, <2>9
  <2>10. \A u \in Turn : turn[u].does = "open" => turn[u].dial \in Dials
    BY DEF AInv, OpenHasDial
  <2>11. Apart'
    <3> SUFFICES ASSUME ~ crossed', NEW u \in Turn, turn'[u].does = "open"
                 PROVE  /\ \A f \in asked \cup replies :
                              f.machine = dials'[turn'[u].dial].machine => f.turn = u
                        /\ \A w \in Turn : turn'[w].does = "open" /\ w # u =>
                             dials'[turn'[w].dial].machine # dials'[turn'[u].dial].machine
      BY <2>1 DEF Apart
    <3>1. /\ \A f \in asked \cup replies : f.machine = dials[d].machine => f.turn = t
          /\ \A w \in Turn : turn[w].does = "open" /\ w # t =>
               dials[turn[w].dial].machine # dials[d].machine
      BY <2>9 DEF Owed
    <3>2. \A w \in Turn : turn'[w].does = "open" /\ w # t =>
            turn[w].does = "open" /\ dials'[turn'[w].dial].machine = dials[turn[w].dial].machine
      BY <2>4, <2>8, <2>10
    <3>3. dials'[turn'[t].dial].machine = dials[d].machine
      BY <2>2, <2>4, <2>8
    <3>4. CASE u = t
      BY <3>1, <3>2, <3>3, <3>4
    <3>5. CASE u # t
      <4>1. /\ \A f \in asked \cup replies : f.machine = dials[turn[u].dial].machine => f.turn = u
            /\ \A w \in Turn : turn[w].does = "open" /\ w # u =>
                 dials[turn[w].dial].machine # dials[turn[u].dial].machine
        BY <2>9, <3>2, <3>5 DEF AInv, Apart
      <4> QED BY <3>1, <3>2, <3>3, <3>5, <4>1
    <3> QED BY <3>4, <3>5
  <2> QED BY <2>5, <2>6, <2>7, <2>11 DEF AInv
<1>11. ASSUME NEW f \in replies, Deliver(f) PROVE AInv'
  <2>1. DialsStay /\ ListenersStay /\ Len(dials') = Len(dials)
    BY <1>11, DeliverDials
  <2>2. UNCHANGED <<asked, crossed>> /\ replies' = replies \ {f}
    BY <1>11 DEF Deliver
  <2>3. CASE turn' = turn
    BY <2>1, <2>2, <2>3, QuietStep
  <2>4. CASE turn' # turn
    <3>1. PICK L : /\ L = dials[held[f.machine]].listener /\ turn' = Takes(L, f) /\ L # Nobody
                   /\ held[f.machine] # NoDial
      BY <1>11, <2>4 DEF Deliver, Dialed
    <3>2. held[f.machine] \in Dials /\ dials[held[f.machine]].machine = f.machine
      BY <1>1, <3>1 DEF OpenDialsAreHeld
    <3>3. L \in Turn
      BY <3>1, <3>2, DialTypes DEF HeldDial
    <3>4. /\ turn[L].does = "open" /\ turn[L].dial = held[f.machine]
          /\ turn' = [turn EXCEPT ![L].awaits = 0, ![L].mixed = (turn[L].mixed \/ f.turn # L)]
      BY <2>4, <3>1, <3>2, <3>3 DEF Takes, AInv, ListenersOpened
    <3>5. ~ crossed => f.turn = L
      BY <3>2, <3>3, <3>4 DEF AInv, Apart
    <3>6. \A u \in Turn : /\ turn'[u].dial = turn[u].dial
                          /\ turn'[u].does = turn[u].does
                          /\ u # L => turn'[u].mixed = turn[u].mixed
      BY <1>1, <3>3, <3>4 DEF TurnRec
    <3>7. turn'[L].mixed = (turn[L].mixed \/ f.turn # L)
      BY <1>1, <3>3, <3>4 DEF TurnRec
    <3>8. \A u \in Turn : ~ crossed /\ turn'[u].mixed => turn[u].mixed
      BY <3>5, <3>6, <3>7
    <3> QED BY <2>1, <2>2, <3>6, <3>8, QuietStep
  <2> QED BY <2>3, <2>4
<1> QED BY <1>2, <1>3, <1>4, <1>5, <1>6, <1>7, <1>8, <1>9, <1>10, <1>11 DEF Next

-----------------------------------------------------------------------------
(* The theorems.                                                           *)

LEMMA RelayStarts == Init => RelayTypeOK /\ OpenDialsAreHeld /\ AInv
<1> SUFFICES ASSUME Init PROVE RelayTypeOK /\ OpenDialsAreHeld /\ AInv
  OBVIOUS
<1>1. dials = <<>> /\ Len(dials) = 0 /\ Dials = {}
  BY DEF Init, Dials
<1>2. RelayTypeOK
  <2>1. dials \in Seq(HeldDial) /\ Len(dials) <= MaxDials
    BY <1>1, RelayBounds
  <2>2. turn \in [Turn -> TurnRec]
    BY RelayBounds DEF Init, Away, TurnRec
  <2> QED BY <2>1, <2>2 DEF Init, RelayTypeOK, TurnRec
<1>3. OpenDialsAreHeld
  BY <1>1 DEF Init, OpenDialsAreHeld
<1>4. AInv
  BY <1>1 DEF Init, AInv, OpenHasDial, ListenersOpened, Apart, AnswersGoToWhoAsked, Away
<1> QED BY <1>2, <1>3, <1>4

LEMMA Inductive == Spec => [](RelayTypeOK /\ OpenDialsAreHeld /\ AInv)
<1> DEFINE I == RelayTypeOK /\ OpenDialsAreHeld /\ AInv
<1>1. I /\ [Next]_vars => I'
  <2>1. AInv => OpenHasDial
    BY DEF AInv
  <2> QED BY <2>1, TypeKept, HeldKept, AKept
<1> QED BY <1>1, RelayStarts, PTL DEF Spec

\* Every variable of the relay keeps to its type.
THEOREM RelayTyped == Spec => []RelayTypeOK
  BY Inductive, PTL

\* However late the dashboard learns that a dial ended, its end takes no successor away:
\* a machine is held by a dial exactly while that dial's stream is open (relay.ts, hold).
THEOREM OpenDialsHeld == Spec => []OpenDialsAreHeld
  BY Inductive, PTL

\* As long as turns on one machine do not overlap, in what they ask or what they are owed,
\* no turn is given another's answer (relay.ts, receive).
THEOREM AnswersReachTheAsker == Spec => []AnswersGoToWhoAsked
<1>1. AInv => AnswersGoToWhoAsked
  BY DEF AInv
<1> QED BY <1>1, Inductive, PTL

-----------------------------------------------------------------------------
(* Sandbox: the inductive invariant.                                       *)

Stages ==
  {"nothing", "starting", "entering", "launching", "launching first", "seeding", "seeding first",
   "owning", "staged", "clearing", "booting", "migrating", "walking", "finishing"}

HeldCall == [call: Calls \cup {"none"}, does: Stages, me: 0..MaxCalls,
             over: SUBSET (1..MaxCalls), reaped: BOOLEAN]

\* How far each kind of call can be.
CallAt(call, does) ==
  \/ call = "none" /\ does = "nothing"
  \/ call \in {"run", "plan", "probe", "start"} /\ does \in {"entering", "launching", "seeding",
    "staged"}
  \/ call \in {"run", "plan", "restore"} /\ does \in {"clearing", "booting", "migrating"}
  \/ call \in {"run", "plan", "probe"} /\ does = "walking"
  \/ call \in {"plan", "probe"} /\ does = "finishing"
  \/ call = "probe" /\ does \in {"starting", "launching first", "seeding first", "owning"}
  \/ call = "teardown" /\ does = "entering"

Active(u) == user[u].does # "nothing"

\* Every call has a number of its own, and is not over before its walk is.
CallsAreKnown ==
  /\ user \in [User -> HeldCall] /\ calls \in 0..MaxCalls /\ ended \subseteq 1..calls
  /\ \A u \in User :
       /\ CallAt(user[u].call, user[u].does)
       /\ user[u].call = "run" <=> u = Loop /\ Active(u)
       /\ user[u].over \subseteq ended
       /\ Active(u) => user[u].me \in 1..calls
       /\ Active(u) /\ ~Does(u, "finishing") => user[u].me \notin ended
       /\ \A v \in User : u # v /\ Active(u) /\ Active(v) => user[u].me # user[v].me

\* Who holds the mutex knows whether there is a stack.
HolderKnows ==
  \A u \in User : UnderMutex(u) =>
    (staged <=> user[u].does \in {"owning", "staged", "clearing", "booting", "migrating"})

\* What a reset leaves behind, until the walk is over.
CleanStart ==
  \A u \in User : user[u].call \in {"run", "plan"} /\ user[u].does \in {"booting", "migrating",
    "walking"}
                    => rows \cap user[u].over = {}

\* The session's memory of the copy: a stack that is not set has nothing up, unless somebody
\* is bringing it up.
NothingForgotten ==
  ~staged /\ ~leaky =>
    /\ ~Restoring
    /\ (\A u \in User : ~Seeding(u)) => copy = "down"

SandboxInv ==
  /\ SandboxTypeOK /\ CallsAreKnown /\ HolderKnows
  /\ ReaperSparesResearch /\ CleanStart /\ NothingForgotten

-----------------------------------------------------------------------------
(* Sandbox: what a step does to the calls.                                 *)

\* One call goes on, and comes to stand elsewhere.
GoesOn(u, what, over) ==
  /\ user' \in [User -> HeldCall]
  /\ user'[u].call = user[u].call /\ user'[u].me = user[u].me /\ user'[u].reaped = user[u].reaped
  /\ user'[u].does = what /\ user'[u].over = over
  /\ \A v \in User : v # u => user'[v] = user[v]

\* One call is over.
IsOver(u) ==
  /\ user' \in [User -> HeldCall]
  /\ user'[u].call = "none" /\ user'[u].does = "nothing" /\ ~user'[u].reaped /\ user'[u].over = {}
  /\ \A v \in User : v # u => user'[v] = user[v]

LEMMA NoCallHeld == NoCall \in HeldCall
BY SandboxBounds DEF NoCall, HeldCall, Stages, Calls

LEMMA GoingOn ==
  ASSUME CallsAreKnown, NEW u \in User, NEW what \in Stages, Goes(u, what)
  PROVE  GoesOn(u, what, user[u].over)
<1>1. user[u] \in HeldCall
  BY DEF CallsAreKnown
<1> DEFINE r == [user[u] EXCEPT !.does = what]
<1>2. /\ r \in HeldCall /\ r.does = what /\ r.call = user[u].call /\ r.me = user[u].me
      /\ r.over = user[u].over /\ r.reaped = user[u].reaped
  BY <1>1 DEF HeldCall
<1>3. user' = [user EXCEPT ![u] = r]
  BY DEF Goes
<1> HIDE DEF r
<1> QED BY <1>2, <1>3 DEF GoesOn, CallsAreKnown

LEMMA GoingToClear ==
  ASSUME CallsAreKnown, NEW u \in User, BeginsReset(u)
  PROVE  GoesOn(u, "clearing", ended)
<1>1. user[u] \in HeldCall /\ ended \in SUBSET (1..MaxCalls)
  BY SandboxBounds DEF CallsAreKnown
<1> DEFINE r == [user[u] EXCEPT !.does = "clearing", !.over = ended]
<1>2. /\ r \in HeldCall /\ r.does = "clearing" /\ r.call = user[u].call /\ r.me = user[u].me
      /\ r.over = ended /\ r.reaped = user[u].reaped
  BY <1>1 DEF HeldCall, Stages
<1>3. user' = [user EXCEPT ![u] = r]
  BY <1>1 DEF HeldCall, BeginsReset
<1> HIDE DEF r
<1> QED BY <1>2, <1>3 DEF GoesOn, CallsAreKnown

LEMMA BeingOver ==
  ASSUME CallsAreKnown, NEW u \in User, Ends(u)
  PROVE  IsOver(u)
<1>1. NoCall.call = "none" /\ NoCall.does = "nothing" /\ ~NoCall.reaped /\ NoCall.over = {}
  BY DEF NoCall
<1> QED BY <1>1, NoCallHeld DEF Ends, IsOver, CallsAreKnown

\* What does not depend on anything but the calls.
LEMMA GoingOnKeeps ==
  ASSUME CallsAreKnown, ReaperSparesResearch, NEW u \in User, NEW what, NEW over,
         GoesOn(u, what, over), Active(u), what # "nothing", CallAt(user[u].call, what),
         over \subseteq ended, Does(u, "finishing") => what = "finishing", calls' = calls,
         ended' = ended \/ (ended' = ended \cup {user[u].me} /\ what = "finishing")
  PROVE  CallsAreKnown' /\ ReaperSparesResearch'
<1> USE DEF CallsAreKnown, GoesOn
<1>1. ReaperSparesResearch'
  BY DEF ReaperSparesResearch
<1>2. \A w \in User :
        /\ CallAt(user'[w].call, user'[w].does)
        /\ user'[w].call = "run" <=> w = Loop /\ Active(w)'
        /\ user'[w].over \subseteq ended'
        /\ Active(w)' => user'[w].me \in 1..calls
        /\ Active(w)' /\ ~Does(w, "finishing")' => user'[w].me \notin ended'
  BY DEF Active, Does
<1>3. \A w, v \in User : w # v /\ Active(w)' /\ Active(v)' => user'[w].me # user'[v].me
  BY DEF Active
<1>4. ended' \subseteq 1..calls
  BY DEF Active
<1> QED BY <1>1, <1>2, <1>3, <1>4

LEMMA BeingOverKeeps ==
  ASSUME CallsAreKnown, ReaperSparesResearch, NEW u \in User, IsOver(u), calls' = calls,
         ended' = ended \/ (ended' = ended \cup {user[u].me} /\ Active(u))
  PROVE  CallsAreKnown' /\ ReaperSparesResearch'
<1> USE DEF CallsAreKnown, IsOver
<1>1. ReaperSparesResearch'
  BY DEF ReaperSparesResearch
<1>2. \A w \in User :
        /\ CallAt(user'[w].call, user'[w].does)
        /\ user'[w].call = "run" <=> w = Loop /\ Active(w)'
        /\ user'[w].over \subseteq ended'
        /\ Active(w)' => user'[w].me \in 1..calls
        /\ Active(w)' /\ ~Does(w, "finishing")' => user'[w].me \notin ended'
  <2>1. CallAt("none", "nothing")
    BY DEF CallAt
  <2>2. \A w \in User : w # u /\ Active(w) => user[w].me \notin ended' \ ended
    OBVIOUS
  <2>3. ~Active(u)' /\ user'[u].call # "run" /\ user'[u].over = {} /\ CallAt(user'[u].call,
      user'[u].does)
    BY <2>1 DEF Active
  <2>4. ASSUME NEW w \in User, w # u
        PROVE  /\ CallAt(user'[w].call, user'[w].does)
               /\ user'[w].call = "run" <=> w = Loop /\ Active(w)'
               /\ user'[w].over \subseteq ended'
               /\ Active(w)' => user'[w].me \in 1..calls
               /\ Active(w)' /\ ~Does(w, "finishing")' => user'[w].me \notin ended'
    BY <2>2, <2>4 DEF Active, Does
  <2> QED BY <2>3, <2>4
<1>3. \A w, v \in User : w # v /\ Active(w)' /\ Active(v)' => user'[w].me # user'[v].me
  BY DEF Active
<1>4. ended' \subseteq 1..calls
  BY DEF Active
<1> QED BY <1>1, <1>2, <1>3, <1>4

\* The count of research follows the one call that moved.
LEMMA UserIsFinite == IsFiniteSet(User)
BY UserAssumption, FS_AddElement DEF User

LEMMA ResearchCounted ==
  ASSUME NEW u \in User, \A v \in User : v # u => user'[v] = user[v]
  PROVE  /\ (u \in Researching <=> u \in Researching') => Researching' = Researching
         /\ u \notin Researching /\ u \in Researching'
              => Cardinality(Researching') = Cardinality(Researching) + 1
         /\ u \in Researching /\ u \notin Researching'
              => Cardinality(Researching') = Cardinality(Researching) - 1
         /\ Cardinality(Researching) \in Nat
<1>1. IsFiniteSet(Researching) /\ Cardinality(Researching) \in Nat
  <2>1. Researching \in SUBSET User
    BY DEF Researching
  <2> QED BY <2>1, UserIsFinite, FS_Subset, FS_CardinalityType
<1>2. \A v \in User : v # u => (v \in Researching <=> v \in Researching')
  BY DEF Researching
<1>3. Researching \subseteq User /\ Researching' \subseteq User
  BY DEF Researching
<1>4. (u \in Researching <=> u \in Researching') => Researching' = Researching
  BY <1>2, <1>3
<1>5. u \notin Researching /\ u \in Researching' => Researching' = Researching \cup {u}
  BY <1>2, <1>3
<1>6. u \in Researching /\ u \notin Researching' => Researching' = Researching \ {u}
  BY <1>2, <1>3
<1> QED BY <1>1, <1>4, <1>5, <1>6, FS_AddElement, FS_RemoveElement

-----------------------------------------------------------------------------
(* Sandbox: every step keeps the invariant.                                *)

LEMMA SandboxStarts == SandboxInit => SandboxInv
<1> SUFFICES ASSUME SandboxInit PROVE SandboxInv
  OBVIOUS
<1> USE DEF SandboxInit
<1>1. \A u \in User : user[u] = NoCall
  OBVIOUS
<1>2. \A u \in User : user[u].call = "none" /\ user[u].does = "nothing"
  BY <1>1 DEF NoCall
<1>3. SandboxTypeOK
  <2>1. Researching = {}
    BY <1>2 DEF Researching
  <2>2. Cardinality(Researching) = 0
    BY <2>1, FS_EmptySet
  <2>3. \A u \in User : mu # u /\ ~UnderMutex(u)
    BY <1>2, UserAssumption DEF UnderMutex
  <2>4. rows \subseteq 1..MaxCalls /\ faults \in 0..MaxFaults
    BY SandboxBounds
  <2> QED BY <2>2, <2>3, <2>4 DEF SandboxTypeOK
<1>4. CallsAreKnown
  <2>1. user \in [User -> HeldCall] /\ calls \in 0..MaxCalls /\ ended \subseteq 1..calls
    BY NoCallHeld, SandboxBounds
  <2>2. \A u \in User : user[u].over = {} /\ ~Active(u)
    BY <1>1, <1>2 DEF NoCall, Active
  <2> QED BY <1>2, <2>1, <2>2 DEF CallsAreKnown, CallAt
<1>5. HolderKnows /\ ReaperSparesResearch /\ CleanStart /\ NothingForgotten
  BY <1>1 DEF HolderKnows, UnderMutex, ReaperSparesResearch, CleanStart, NothingForgotten,
              Restoring, Resetting, Seeding, NoCall
<1> QED BY <1>3, <1>4, <1>5 DEF SandboxInv

\* Restore is at nothing but its reset.
LEMMA OnlyResetsRestore ==
  ASSUME CallsAreKnown, NEW u \in User, user[u].does \notin {"clearing", "booting", "migrating"}
  PROVE  user[u].call # "restore"
BY DEF CallsAreKnown, CallAt

LEMMA FaultsCounted ==
  ASSUME faults \in 0..MaxFaults, Fault \/ FoundDown \/ faults' = faults
  PROVE  faults' \in 0..MaxFaults
BY SandboxBounds DEF Fault, FoundDown

\* Begin.
LEMMA BeginKeeps ==
  ASSUME SandboxInv, NEW u \in User, NEW c \in Calls, Begin(u, c)
  PROVE  SandboxInv'
<1> DEFINE where == CASE c = "restore" -> "clearing"
                      [] c = "probe" /\ ~staged -> "starting"
                      [] OTHER -> "entering"
           r == [NoCall EXCEPT !.call = c, !.me = calls + 1, !.does = where]
<1>1. /\ Does(u, "nothing") /\ calls < MaxCalls /\ calls' = calls + 1
      /\ ((u = Loop) <=> (c = "run"))
      /\ c = "restore" => staged
      /\ user' = [user EXCEPT ![u] = r]
      /\ UNCHANGED <<mu, session, docker, ended>>
  BY DEF Begin
<1>2. /\ c = "restore" => where = "clearing"
      /\ c # "restore" => where \in {"starting", "entering"}
      /\ where = "starting" => c = "probe"
  OBVIOUS
<1> HIDE DEF where
<1>3. r \in HeldCall /\ r.call = c /\ r.me = calls + 1 /\ r.does = where /\ r.over = {} /\ ~r.reaped
  <2>1. where \in Stages
    BY <1>2 DEF Stages
  <2>0. calls + 1 \in 0..MaxCalls
    <3>1. calls \in 0..MaxCalls /\ calls < MaxCalls
      BY <1>1 DEF SandboxInv, CallsAreKnown
    <3> QED BY <3>1, SandboxBounds
  <2>2. NoCall.over = {} /\ ~NoCall.reaped
    BY DEF NoCall
  <2> QED BY <2>0, <2>1, <2>2, NoCallHeld DEF HeldCall
<1> HIDE DEF r
<1>4. /\ user' \in [User -> HeldCall]
      /\ user'[u].call = c /\ user'[u].me = calls + 1 /\ user'[u].does = where /\ user'[u].over = {}
      /\ ~user'[u].reaped
      /\ \A v \in User : v # u => user'[v] = user[v]
  BY <1>1, <1>3 DEF SandboxInv, CallsAreKnown
<1>5. CallsAreKnown'
  <2>1. calls' \in 0..MaxCalls /\ ended' \subseteq 1..calls' /\ calls + 1 \notin ended
    BY <1>1, SandboxBounds DEF SandboxInv, CallsAreKnown
  <2>2. CallAt(c, where)
    BY <1>2 DEF CallAt, Calls
  <2>3. \A w \in User :
          /\ CallAt(user'[w].call, user'[w].does)
          /\ user'[w].call = "run" <=> w = Loop /\ Active(w)'
          /\ user'[w].over \subseteq ended
          /\ Active(w)' => user'[w].me \in 1..(calls + 1)
          /\ Active(w)' /\ ~Does(w, "finishing")' => user'[w].me \notin ended
    BY <1>1, <1>2, <1>4, <2>1, <2>2 DEF SandboxInv, CallsAreKnown, Active, Does
  <2>4. \A w, v \in User : w # v /\ Active(w)' /\ Active(v)' => user'[w].me # user'[v].me
    BY <1>4, <2>1 DEF SandboxInv, CallsAreKnown, Active
  <2> QED BY <1>1, <1>4, <2>1, <2>3, <2>4 DEF CallsAreKnown
<1>6. u \notin Researching /\ u \notin Researching' /\ Researching' = Researching
  BY <1>1, <1>2, <1>4, ResearchCounted DEF Researching, Does
<1>7. SandboxTypeOK'
  BY <1>1, <1>2, <1>4, <1>6 DEF SandboxInv, SandboxTypeOK, UnderMutex, Locked, session, docker, Does
<1>8. HolderKnows' /\ ReaperSparesResearch' /\ CleanStart'
  BY <1>1, <1>2, <1>4 DEF SandboxInv, HolderKnows, ReaperSparesResearch, CleanStart, UnderMutex,
     Locked, session, docker, Does
<1>9. NothingForgotten'
  BY <1>1, <1>2, <1>4 DEF SandboxInv, NothingForgotten, Restoring, Resetting, Seeding, Does,
     session, docker
<1> QED BY <1>5, <1>7, <1>8, <1>9 DEF SandboxInv

\* Entering finds the stack there is, or begins to bring one up.
LEMMA EnterKeeps ==
  ASSUME SandboxInv, NEW u \in User, Enter(u)
  PROVE  SandboxInv'
<1> USE DEF SandboxInv
<1> DEFINE where == CASE Does(u, "starting") -> IF staged THEN "owning" ELSE "launching first"
                      [] OTHER -> IF staged THEN "staged" ELSE "launching"
<1>0. /\ where \in (IF staged THEN {"owning", "staged"} ELSE {"launching", "launching first"})
      /\ where \in {"owning", "launching first"} <=> Does(u, "starting")
      /\ where \in Stages
      /\ Enter(u) => Goes(u, where)
  BY DEF Stages, Enter, Goes
<1> HIDE DEF where
<1>1. GoesOn(u, where, user[u].over)
  BY <1>0, GoingOn DEF Enter, Stages
<1>2. CallsAreKnown' /\ ReaperSparesResearch'
  <2>1. CallAt(user[u].call, where) /\ Active(u) /\ ~Does(u, "finishing")
        /\ user[u].over \subseteq ended
    BY <1>0 DEF Enter, CallsAreKnown, CallAt, Active, Does
  <2> QED BY <1>1, <2>1, <1>0, GoingOnKeeps DEF Enter
<1>3. Researching' = Researching
  BY <1>0, <1>1, ResearchCounted DEF Researching, GoesOn, Enter, Does
<1>4. SandboxTypeOK'
  <2>1. mu' \in User \cup {Free} /\ \A v \in User : mu' = v <=> UnderMutex(v)'
    BY <1>0, <1>1, OnlyResetsRestore, UserAssumption DEF SandboxTypeOK, GoesOn, Enter, UnderMutex,
      Locked, Does
  <2>2. faults' \in 0..MaxFaults
    BY FaultsCounted DEF Enter, SandboxTypeOK, docker
  <2>3. busy' = Cardinality(Researching')
    BY <1>3 DEF Enter, SandboxTypeOK, session
  <2> QED BY <2>1, <2>2, <2>3 DEF SandboxTypeOK, Enter, session, docker, Cleared
<1>5. HolderKnows'
  <2>1. \A v \in User : UnderMutex(v)' => mu' = v
    BY <1>4 DEF SandboxTypeOK
  <2>2. \A v \in User : UnderMutex(v) <=> mu = v
    BY DEF SandboxTypeOK
  <2> QED BY <1>0, <1>1, <2>1, <2>2, OnlyResetsRestore, UserAssumption DEF HolderKnows, GoesOn,
      Enter, UnderMutex, Locked, Does, session
<1>6. CleanStart'
  BY <1>0, <1>1 DEF CleanStart, GoesOn, Enter, Does, docker, Cleared
<1>7. NothingForgotten'
  BY <1>0, <1>1
  DEF NothingForgotten, HolderKnows, SandboxTypeOK, Restoring, Resetting, Seeding, GoesOn, Enter,
    UnderMutex, Locked, Does, session, docker, Cleared
<1> QED BY <1>2, <1>4, <1>5, <1>6, <1>7

\* The project comes up: whoever brings it up is seeding it.
LEMMA LaunchKeeps ==
  ASSUME SandboxInv, NEW u \in User, Launch(u)
  PROVE  SandboxInv'
<1> USE DEF SandboxInv
<1> DEFINE where == IF Does(u, "launching") THEN "seeding" ELSE "seeding first"
<1>0. where \in {"seeding", "seeding first"} /\ (where = "seeding" <=> Does(u, "launching"))
      /\ Goes(u, where)
  BY DEF Launch
<1> HIDE DEF where
<1>1. GoesOn(u, where, user[u].over)
  BY <1>0, GoingOn DEF Launch, Stages
<1>2. CallsAreKnown' /\ ReaperSparesResearch'
  <2>1. CallAt(user[u].call, where) /\ Active(u) /\ ~Does(u, "finishing")
        /\ user[u].over \subseteq ended
    BY <1>0 DEF Launch, CallsAreKnown, CallAt, Active, Does, Launching
  <2> QED BY <1>1, <2>1, <1>0, GoingOnKeeps DEF Launch
<1>3. Researching' = Researching
  BY <1>0, <1>1, ResearchCounted DEF Researching, GoesOn, Launch, Does, Launching
<1>4. SandboxTypeOK'
  <2>1. mu' \in User \cup {Free} /\ \A v \in User : mu' = v <=> UnderMutex(v)'
    BY <1>0, <1>1, OnlyResetsRestore, UserAssumption DEF SandboxTypeOK, GoesOn, Launch, UnderMutex,
      Locked, Does, Launching
  <2>2. faults' \in 0..MaxFaults
    BY FaultsCounted DEF Launch, SandboxTypeOK, docker, Launching
  <2>3. busy' = Cardinality(Researching')
    BY <1>3 DEF Launch, SandboxTypeOK, session, Launching
  <2> QED BY <2>1, <2>2, <2>3 DEF SandboxTypeOK, Launch, session, docker, Cleared, Launching
<1>5. HolderKnows'
  <2>1. \A v \in User : UnderMutex(v)' => mu' = v
    BY <1>4 DEF SandboxTypeOK
  <2>2. \A v \in User : UnderMutex(v) <=> mu = v
    BY DEF SandboxTypeOK
  <2> QED BY <1>0, <1>1, <2>1, <2>2, OnlyResetsRestore, UserAssumption DEF HolderKnows, GoesOn,
      Launch, UnderMutex, Locked, Does, session, Launching
<1>6. CleanStart'
  BY <1>0, <1>1 DEF CleanStart, GoesOn, Launch, Does, docker, Cleared, Launching
<1>7. NothingForgotten'
  BY <1>0, <1>1
  DEF NothingForgotten, HolderKnows, SandboxTypeOK, Restoring, Resetting, Seeding, GoesOn, Launch,
    UnderMutex, Locked, Does, session, docker, Cleared, Launching
<1> QED BY <1>2, <1>4, <1>5, <1>6, <1>7

\* A clearing is needed only where something leaked.
LEMMA LaunchRefusedKeeps ==
  ASSUME SandboxInv, NEW u \in User, LaunchRefused(u)
  PROVE  SandboxInv'
<1> USE DEF SandboxInv
<1>1. IsOver(u)
  BY BeingOver DEF LaunchRefused
<1>2. CallsAreKnown' /\ ReaperSparesResearch'
  BY <1>1, BeingOverKeeps DEF LaunchRefused
<1>3. Researching' = Researching
  BY <1>1, ResearchCounted DEF Researching, IsOver, LaunchRefused, Does, Launching
<1>4. SandboxTypeOK'
  <2>1. mu' \in User \cup {Free} /\ \A v \in User : mu' = v <=> UnderMutex(v)'
    BY <1>1, OnlyResetsRestore, UserAssumption DEF SandboxTypeOK, IsOver, LaunchRefused,
      UnderMutex, Locked, Does, Launching
  <2>2. faults' \in 0..MaxFaults
    BY FaultsCounted DEF LaunchRefused, SandboxTypeOK, docker, Launching
  <2>3. busy' = Cardinality(Researching')
    BY <1>3 DEF LaunchRefused, SandboxTypeOK, session, Launching
  <2> QED BY <2>1, <2>2, <2>3 DEF SandboxTypeOK, LaunchRefused, session, docker, Cleared, Launching
<1>5. HolderKnows'
  <2>1. \A v \in User : UnderMutex(v)' => mu' = v
    BY <1>4 DEF SandboxTypeOK
  <2>2. \A v \in User : UnderMutex(v) <=> mu = v
    BY DEF SandboxTypeOK
  <2> QED BY <1>1, <2>1, <2>2, OnlyResetsRestore, UserAssumption DEF HolderKnows, IsOver,
      LaunchRefused, UnderMutex, Locked, Does, session, Launching
<1>6. CleanStart'
  BY <1>1 DEF CleanStart, IsOver, LaunchRefused, Does, docker, Cleared, Launching
<1>7. NothingForgotten'
  BY <1>1
  DEF NothingForgotten, HolderKnows, SandboxTypeOK, Restoring, Resetting, Seeding, IsOver,
    LaunchRefused, UnderMutex, Locked, Does, session, docker, Cleared, Launching
<1> QED BY <1>2, <1>4, <1>5, <1>6, <1>7

\* What broke on the way up is taken down.
LEMMA StageBreaksKeeps ==
  ASSUME SandboxInv, NEW u \in User, StageBreaks(u)
  PROVE  SandboxInv'
<1> USE DEF SandboxInv
<1>1. IsOver(u)
  BY BeingOver DEF StageBreaks
<1>2. CallsAreKnown' /\ ReaperSparesResearch'
  BY <1>1, BeingOverKeeps DEF StageBreaks
<1>3. Researching' = Researching
  BY <1>1, ResearchCounted DEF Researching, IsOver, StageBreaks, Does, Launching, Seeding
<1>4. SandboxTypeOK'
  <2>1. mu' \in User \cup {Free} /\ \A v \in User : mu' = v <=> UnderMutex(v)'
    BY <1>1, OnlyResetsRestore, UserAssumption DEF SandboxTypeOK, IsOver, StageBreaks, UnderMutex,
      Locked, Does, Launching, Seeding
  <2>2. faults' \in 0..MaxFaults
    BY FaultsCounted DEF StageBreaks, SandboxTypeOK, docker, Launching, Seeding
  <2>3. busy' = Cardinality(Researching')
    BY <1>3 DEF StageBreaks, SandboxTypeOK, session, Launching, Seeding
  <2> QED BY <2>1, <2>2, <2>3 DEF SandboxTypeOK, StageBreaks, LeftUp, session, docker, Cleared, Launching,
      Seeding
<1>5. HolderKnows'
  <2>1. \A v \in User : UnderMutex(v)' => mu' = v
    BY <1>4 DEF SandboxTypeOK
  <2>2. \A v \in User : UnderMutex(v) <=> mu = v
    BY DEF SandboxTypeOK
  <2> QED BY <1>1, <2>1, <2>2, OnlyResetsRestore, UserAssumption DEF HolderKnows, IsOver,
      StageBreaks, UnderMutex, Locked, Does, session, Launching, Seeding
<1>6. CleanStart'
  BY <1>1 DEF CleanStart, IsOver, StageBreaks, LeftUp, Does, docker, Cleared, Launching, Seeding
<1>7. NothingForgotten'
  BY <1>1
  DEF NothingForgotten, HolderKnows, SandboxTypeOK, Restoring, Resetting, Seeding, IsOver,
    StageBreaks, LeftUp, UnderMutex, Locked, Does, session, docker, Cleared, Launching
<1> QED BY <1>2, <1>4, <1>5, <1>6, <1>7

\* A copy that is ready is the session's.
LEMMA SeedKeeps ==
  ASSUME SandboxInv, NEW u \in User, Seed(u)
  PROVE  SandboxInv'
<1> USE DEF SandboxInv
<1> DEFINE where == IF Does(u, "seeding") THEN "staged" ELSE "owning"
<1>0. where \in {"staged", "owning"} /\ (where = "staged" <=> Does(u, "seeding"))
      /\ Goes(u, where)
  BY DEF Seed
<1> HIDE DEF where
<1>1. GoesOn(u, where, user[u].over)
  BY <1>0, GoingOn DEF Seed, Stages
<1>2. CallsAreKnown' /\ ReaperSparesResearch'
  <2>1. CallAt(user[u].call, where) /\ Active(u) /\ ~Does(u, "finishing")
        /\ user[u].over \subseteq ended
    BY <1>0 DEF Seed, CallsAreKnown, CallAt, Active, Does, Seeding
  <2> QED BY <1>1, <2>1, <1>0, GoingOnKeeps DEF Seed
<1>3. Researching' = Researching
  BY <1>0, <1>1, ResearchCounted DEF Researching, GoesOn, Seed, Does, Seeding
<1>4. SandboxTypeOK'
  <2>1. mu' \in User \cup {Free} /\ \A v \in User : mu' = v <=> UnderMutex(v)'
    BY <1>0, <1>1, OnlyResetsRestore, UserAssumption DEF SandboxTypeOK, GoesOn, Seed, UnderMutex,
      Locked, Does, Seeding
  <2>2. faults' \in 0..MaxFaults
    BY FaultsCounted DEF Seed, SandboxTypeOK, docker, Seeding
  <2>3. busy' = Cardinality(Researching')
    BY <1>3 DEF Seed, SandboxTypeOK, session, Seeding
  <2> QED BY <2>1, <2>2, <2>3 DEF SandboxTypeOK, Seed, session, docker, Cleared, Seeding
<1>5. HolderKnows'
  <2>1. \A v \in User : UnderMutex(v)' => mu' = v
    BY <1>4 DEF SandboxTypeOK
  <2>2. \A v \in User : UnderMutex(v) <=> mu = v
    BY DEF SandboxTypeOK
  <2> QED BY <1>0, <1>1, <2>1, <2>2, OnlyResetsRestore, UserAssumption DEF HolderKnows, GoesOn,
      Seed, UnderMutex, Locked, Does, session, Seeding
<1>6. CleanStart'
  BY <1>0, <1>1 DEF CleanStart, GoesOn, Seed, Does, docker, Cleared, Seeding
<1>7. NothingForgotten'
  BY <1>0, <1>1
  DEF NothingForgotten, HolderKnows, SandboxTypeOK, Restoring, Resetting, Seeding, GoesOn, Seed,
    UnderMutex, Locked, Does, session, docker, Cleared
<1> QED BY <1>2, <1>4, <1>5, <1>6, <1>7

\* The loop claims the sandbox, and notes who was over.
LEMMA PrepareKeeps ==
  ASSUME SandboxInv, NEW u \in User, Prepare(u)
  PROVE  SandboxInv'
<1> USE DEF SandboxInv
<1>1. GoesOn(u, "clearing", ended)
  BY GoingToClear DEF Prepare, Stages
<1>2. CallsAreKnown' /\ ReaperSparesResearch'
  <2>1. CallAt(user[u].call, "clearing") /\ Active(u) /\ ~Does(u, "finishing")
      /\ ended \subseteq ended
    BY DEF Prepare, CallsAreKnown, CallAt, Active, Does
  <2> QED BY <1>1, <2>1, GoingOnKeeps DEF Prepare
<1>3. Researching' = Researching
  BY <1>1, ResearchCounted DEF Researching, GoesOn, Prepare, Does
<1>4. SandboxTypeOK'
  <2>1. mu' \in User \cup {Free} /\ \A v \in User : mu' = v <=> UnderMutex(v)'
    BY <1>1, OnlyResetsRestore, UserAssumption DEF SandboxTypeOK, GoesOn, Prepare, UnderMutex,
      Locked, Does
  <2>2. faults' \in 0..MaxFaults
    BY FaultsCounted DEF Prepare, SandboxTypeOK, docker
  <2>3. busy' = Cardinality(Researching')
    BY <1>3 DEF Prepare, SandboxTypeOK, session
  <2> QED BY <2>1, <2>2, <2>3 DEF SandboxTypeOK, Prepare, session, docker, Cleared
<1>5. HolderKnows'
  <2>1. \A v \in User : UnderMutex(v)' => mu' = v
    BY <1>4 DEF SandboxTypeOK
  <2>2. \A v \in User : UnderMutex(v) <=> mu = v
    BY DEF SandboxTypeOK
  <2> QED BY <1>1, <2>1, <2>2, OnlyResetsRestore, UserAssumption DEF HolderKnows, GoesOn, Prepare,
      UnderMutex, Locked, Does, session
<1>6. CleanStart'
  BY <1>1 DEF CleanStart, GoesOn, Prepare, Does, docker, Cleared
<1>7. NothingForgotten'
  BY <1>1
  DEF NothingForgotten, HolderKnows, SandboxTypeOK, Restoring, Resetting, Seeding, GoesOn, Prepare,
    UnderMutex, Locked, Does, session, docker, Cleared
<1> QED BY <1>2, <1>4, <1>5, <1>6, <1>7

\* RunPlan notes who was over.
LEMMA PreparePlanKeeps ==
  ASSUME SandboxInv, NEW u \in User, PreparePlan(u)
  PROVE  SandboxInv'
<1> USE DEF SandboxInv
<1>1. GoesOn(u, "clearing", ended)
  BY GoingToClear DEF PreparePlan, Stages
<1>2. CallsAreKnown' /\ ReaperSparesResearch'
  <2>1. CallAt(user[u].call, "clearing") /\ Active(u) /\ ~Does(u, "finishing")
      /\ ended \subseteq ended
    BY DEF PreparePlan, CallsAreKnown, CallAt, Active, Does
  <2> QED BY <1>1, <2>1, GoingOnKeeps DEF PreparePlan
<1>3. Researching' = Researching
  BY <1>1, ResearchCounted DEF Researching, GoesOn, PreparePlan, Does
<1>4. SandboxTypeOK'
  <2>1. mu' \in User \cup {Free} /\ \A v \in User : mu' = v <=> UnderMutex(v)'
    BY <1>1, OnlyResetsRestore, UserAssumption DEF SandboxTypeOK, GoesOn, PreparePlan, UnderMutex,
      Locked, Does
  <2>2. faults' \in 0..MaxFaults
    BY FaultsCounted DEF PreparePlan, SandboxTypeOK, docker
  <2>3. busy' = Cardinality(Researching')
    BY <1>3 DEF PreparePlan, SandboxTypeOK, session
  <2> QED BY <2>1, <2>2, <2>3 DEF SandboxTypeOK, PreparePlan, session, docker, Cleared
<1>5. HolderKnows'
  <2>1. \A v \in User : UnderMutex(v)' => mu' = v
    BY <1>4 DEF SandboxTypeOK
  <2>2. \A v \in User : UnderMutex(v) <=> mu = v
    BY DEF SandboxTypeOK
  <2> QED BY <1>1, <2>1, <2>2, OnlyResetsRestore, UserAssumption DEF HolderKnows, GoesOn,
      PreparePlan, UnderMutex, Locked, Does, session
<1>6. CleanStart'
  BY <1>1 DEF CleanStart, GoesOn, PreparePlan, Does, docker, Cleared
<1>7. NothingForgotten'
  BY <1>1
  DEF NothingForgotten, HolderKnows, SandboxTypeOK, Restoring, Resetting, Seeding, GoesOn,
    PreparePlan, UnderMutex, Locked, Does, session, docker, Cleared
<1> QED BY <1>2, <1>4, <1>5, <1>6, <1>7

\* A clearing leaves no row.
LEMMA ClearKeeps ==
  ASSUME SandboxInv, NEW u \in User, Clear(u)
  PROVE  SandboxInv'
<1> USE DEF SandboxInv
<1>1. GoesOn(u, "booting", user[u].over)
  BY GoingOn DEF Clear, Stages
<1>2. CallsAreKnown' /\ ReaperSparesResearch'
  <2>1. CallAt(user[u].call, "booting") /\ Active(u) /\ ~Does(u, "finishing")
        /\ user[u].over \subseteq ended
    BY DEF Clear, CallsAreKnown, CallAt, Active, Does
  <2> QED BY <1>1, <2>1, GoingOnKeeps DEF Clear
<1>3. Researching' = Researching
  BY <1>1, ResearchCounted DEF Researching, GoesOn, Clear, Does
<1>4. SandboxTypeOK'
  <2>1. mu' \in User \cup {Free} /\ \A v \in User : mu' = v <=> UnderMutex(v)'
    BY <1>1, OnlyResetsRestore, UserAssumption DEF SandboxTypeOK, GoesOn, Clear, UnderMutex,
      Locked, Does
  <2>2. faults' \in 0..MaxFaults
    BY FaultsCounted DEF Clear, SandboxTypeOK, docker
  <2>3. busy' = Cardinality(Researching')
    BY <1>3 DEF Clear, SandboxTypeOK, session
  <2> QED BY <2>1, <2>2, <2>3 DEF SandboxTypeOK, Clear, session, docker, Cleared
<1>5. HolderKnows'
  <2>1. \A v \in User : UnderMutex(v)' => mu' = v
    BY <1>4 DEF SandboxTypeOK
  <2>2. \A v \in User : UnderMutex(v) <=> mu = v
    BY DEF SandboxTypeOK
  <2> QED BY <1>1, <2>1, <2>2, OnlyResetsRestore, UserAssumption DEF HolderKnows, GoesOn, Clear,
      UnderMutex, Locked, Does, session
<1>6. CleanStart'
  BY <1>1 DEF CleanStart, GoesOn, Clear, Does, docker, Cleared
<1>7. NothingForgotten'
  BY <1>1
  DEF NothingForgotten, HolderKnows, SandboxTypeOK, Restoring, Resetting, Seeding, GoesOn, Clear,
    UnderMutex, Locked, Does, session, docker, Cleared
<1> QED BY <1>2, <1>4, <1>5, <1>6, <1>7

\* Booting leaves the rows alone.
LEMMA BootKeeps ==
  ASSUME SandboxInv, NEW u \in User, Boot(u)
  PROVE  SandboxInv'
<1> USE DEF SandboxInv
<1>1. GoesOn(u, "migrating", user[u].over)
  BY GoingOn DEF Boot, Stages
<1>2. CallsAreKnown' /\ ReaperSparesResearch'
  <2>1. CallAt(user[u].call, "migrating") /\ Active(u) /\ ~Does(u, "finishing")
        /\ user[u].over \subseteq ended
    BY DEF Boot, CallsAreKnown, CallAt, Active, Does
  <2> QED BY <1>1, <2>1, GoingOnKeeps DEF Boot
<1>3. Researching' = Researching
  BY <1>1, ResearchCounted DEF Researching, GoesOn, Boot, Does
<1>4. SandboxTypeOK'
  <2>1. mu' \in User \cup {Free} /\ \A v \in User : mu' = v <=> UnderMutex(v)'
    BY <1>1, OnlyResetsRestore, UserAssumption DEF SandboxTypeOK, GoesOn, Boot, UnderMutex, Locked,
      Does
  <2>2. faults' \in 0..MaxFaults
    BY FaultsCounted DEF Boot, SandboxTypeOK, docker
  <2>3. busy' = Cardinality(Researching')
    BY <1>3 DEF Boot, SandboxTypeOK, session
  <2> QED BY <2>1, <2>2, <2>3 DEF SandboxTypeOK, Boot, session, docker, Cleared
<1>5. HolderKnows'
  <2>1. \A v \in User : UnderMutex(v)' => mu' = v
    BY <1>4 DEF SandboxTypeOK
  <2>2. \A v \in User : UnderMutex(v) <=> mu = v
    BY DEF SandboxTypeOK
  <2> QED BY <1>1, <2>1, <2>2, OnlyResetsRestore, UserAssumption DEF HolderKnows, GoesOn, Boot,
      UnderMutex, Locked, Does, session
<1>6. CleanStart'
  BY <1>1 DEF CleanStart, GoesOn, Boot, Does, docker, Cleared
<1>7. NothingForgotten'
  BY <1>1
  DEF NothingForgotten, HolderKnows, SandboxTypeOK, Restoring, Resetting, Seeding, GoesOn, Boot,
    UnderMutex, Locked, Does, session, docker, Cleared
<1> QED BY <1>2, <1>4, <1>5, <1>6, <1>7

\* A reset that breaks leaves the stack set.
LEMMA ResetBreaksKeeps ==
  ASSUME SandboxInv, NEW u \in User, ResetBreaks(u)
  PROVE  SandboxInv'
<1> USE DEF SandboxInv
<1>1. IsOver(u)
  BY BeingOver DEF ResetBreaks
<1>2. CallsAreKnown' /\ ReaperSparesResearch'
  BY <1>1, BeingOverKeeps DEF ResetBreaks
<1>3. Researching' = Researching
  BY <1>1, ResearchCounted DEF Researching, IsOver, ResetBreaks, Does, LetGo, Resetting
<1>4. SandboxTypeOK'
  <2>1. mu' \in User \cup {Free} /\ \A v \in User : mu' = v <=> UnderMutex(v)'
    BY <1>1, OnlyResetsRestore, UserAssumption DEF SandboxTypeOK, IsOver, ResetBreaks, UnderMutex,
      Locked, Does, LetGo, Resetting
  <2>2. faults' \in 0..MaxFaults
    BY FaultsCounted DEF ResetBreaks, SandboxTypeOK, docker, LetGo, Resetting
  <2>3. busy' = Cardinality(Researching')
    BY <1>3 DEF ResetBreaks, SandboxTypeOK, session, LetGo, Resetting
  <2> QED BY <2>1, <2>2, <2>3 DEF SandboxTypeOK, ResetBreaks, session, docker, Cleared, LetGo,
      Resetting
<1>5. HolderKnows'
  <2>1. \A v \in User : UnderMutex(v)' => mu' = v
    BY <1>4 DEF SandboxTypeOK
  <2>2. \A v \in User : UnderMutex(v) <=> mu = v
    BY DEF SandboxTypeOK
  <2> QED BY <1>1, <2>1, <2>2, OnlyResetsRestore, UserAssumption DEF HolderKnows, IsOver,
      ResetBreaks, UnderMutex, Locked, Does, session, LetGo, Resetting
<1>6. CleanStart'
  BY <1>1 DEF CleanStart, IsOver, ResetBreaks, Does, docker, Cleared, LetGo, Resetting
<1>7. NothingForgotten'
  BY <1>1
  DEF NothingForgotten, HolderKnows, SandboxTypeOK, Restoring, Resetting, Seeding, IsOver,
    ResetBreaks, UnderMutex, Locked, Does, session, docker, Cleared, LetGo
<1> QED BY <1>2, <1>4, <1>5, <1>6, <1>7


\* Research owns the sandbox; a call of its own then goes on to its probe.
LEMMA OwnKeeps ==
  ASSUME SandboxInv, NEW u \in User, Own(u)
  PROVE  SandboxInv'
<1> USE DEF SandboxInv
<1>1. \/ Does(u, "owning") /\ GoesOn(u, "entering", user[u].over)
      \/ Does(u, "staged") /\ user[u].call = "start" /\ IsOver(u)
  BY GoingOn, BeingOver DEF Own, Stages, Does
<1>2. CallsAreKnown' /\ ReaperSparesResearch'
  <2>1. Does(u, "owning") => CallAt(user[u].call, "entering") /\ Active(u)
      /\ user[u].over \subseteq ended
                             /\ ~Does(u, "finishing")
    BY DEF CallsAreKnown, CallAt, Active, Does
  <2> QED BY <1>1, <2>1, GoingOnKeeps, BeingOverKeeps DEF Own
<1>3. Researching' = Researching
  BY <1>1, ResearchCounted DEF Researching, GoesOn, IsOver, Does
<1>4. \A v \in User : mu' # v /\ ~UnderMutex(v)'
  BY <1>1, OnlyResetsRestore, UserAssumption DEF SandboxTypeOK, Own, GoesOn, IsOver, UnderMutex,
    Locked, Does
<1>5. staged /\ staged'
  BY <1>1, OnlyResetsRestore DEF HolderKnows, Own, UnderMutex, Locked, Does
<1>6. SandboxTypeOK'
  BY <1>3, <1>4, <1>5 DEF SandboxTypeOK, Own, docker
<1>7. HolderKnows' /\ NothingForgotten'
  BY <1>4, <1>5 DEF HolderKnows, NothingForgotten
<1>8. CleanStart'
  BY <1>1 DEF CleanStart, GoesOn, IsOver, Own, Does, docker
<1> QED BY <1>2, <1>6, <1>7, <1>8

\* A probe is counted before it lets the mutex go.
LEMMA ProbeKeeps ==
  ASSUME SandboxInv, NEW u \in User, Probe(u)
  PROVE  SandboxInv'
<1> USE DEF SandboxInv
<1>1. GoesOn(u, "walking", user[u].over)
  BY GoingOn DEF Probe, Stages
<1>2. CallsAreKnown' /\ ReaperSparesResearch'
  <2>1. CallAt(user[u].call, "walking") /\ Active(u) /\ ~Does(u, "finishing")
        /\ user[u].over \subseteq ended
    BY DEF Probe, CallsAreKnown, CallAt, Active, Does
  <2> QED BY <1>1, <2>1, GoingOnKeeps DEF Probe
<1>3. busy' = Cardinality(Researching') /\ busy' \in Nat
  <2>1. u \notin Researching /\ u \in Researching'
    BY <1>1 DEF Researching, GoesOn, Probe, Does
  <2> QED BY <1>1, <2>1, ResearchCounted DEF GoesOn, Probe, SandboxTypeOK
<1>4. \A v \in User : mu' # v /\ ~UnderMutex(v)'
  BY <1>1, UserAssumption DEF SandboxTypeOK, Probe, GoesOn, UnderMutex, Locked, Does
<1>5. staged /\ staged'
  BY <1>1 DEF HolderKnows, Probe, UnderMutex, Locked, Does
<1>6. SandboxTypeOK'
  BY <1>3, <1>4, <1>5 DEF SandboxTypeOK, Probe, docker
<1>7. HolderKnows' /\ NothingForgotten'
  BY <1>4, <1>5 DEF HolderKnows, NothingForgotten
<1>8. CleanStart'
  BY <1>1 DEF CleanStart, GoesOn, Probe, Does, docker
<1> QED BY <1>2, <1>6, <1>7, <1>8

\* A reset that is through: a plan is counted before the mutex is let go.
LEMMA MigrateKeeps ==
  ASSUME SandboxInv, NEW u \in User, Migrate(u)
  PROVE  SandboxInv'
<1> USE DEF SandboxInv
<1>0. Does(u, "migrating") /\ user[u].call \in {"run", "plan", "restore"}
  BY DEF Migrate, CallsAreKnown, CallAt, Does
<1>1. IF user[u].call = "restore" THEN IsOver(u) ELSE GoesOn(u, "walking", user[u].over)
  BY GoingOn, BeingOver DEF Migrate, Stages
<1>2. CallsAreKnown' /\ ReaperSparesResearch'
  <2>1. user[u].call # "restore" => CallAt(user[u].call, "walking")
    BY <1>0 DEF CallAt
  <2>2. Active(u) /\ ~Does(u, "finishing") /\ user[u].over \subseteq ended
    BY <1>0 DEF CallsAreKnown, Active, Does
  <2> QED BY <1>1, <2>1, <2>2, GoingOnKeeps, BeingOverKeeps DEF Migrate
<1>3. busy' = Cardinality(Researching') /\ busy' \in Nat
  <2>1. u \notin Researching
    BY <1>0 DEF Researching, Does
  <2>2. u \in Researching' <=> user[u].call = "plan"
    BY <1>0, <1>1 DEF Researching, GoesOn, IsOver
  <2> QED BY <1>1, <2>1, <2>2, ResearchCounted DEF GoesOn, IsOver, Migrate, SandboxTypeOK
<1>4. mu' \in User \cup {Free} /\ \A v \in User : mu' = v <=> UnderMutex(v)'
  BY <1>0, <1>1, UserAssumption DEF SandboxTypeOK, Migrate, LetGo, GoesOn, IsOver, UnderMutex,
    Locked, Does
<1>5. SandboxTypeOK'
  BY <1>3, <1>4 DEF SandboxTypeOK, Migrate
<1>6. HolderKnows'
  BY <1>0, <1>1, UserAssumption DEF HolderKnows, Migrate, GoesOn, IsOver, UnderMutex, Locked, Does
<1>7. CleanStart'
  BY <1>0, <1>1 DEF CleanStart, GoesOn, IsOver, Migrate, Does
<1>8. NothingForgotten'
  <2>1. staged \/ leaky
    <3>1. CASE user[u].call = "restore"
      BY <3>1, <1>0 DEF NothingForgotten, Restoring, Resetting, Does
    <3>2. CASE user[u].call # "restore"
      BY <3>2, <1>0 DEF HolderKnows, UnderMutex, Locked, Does
    <3> QED BY <3>1, <3>2
  <2> QED BY <2>1 DEF NothingForgotten, Migrate
<1> QED BY <1>2, <1>5, <1>6, <1>7, <1>8

\* A walk that ended has a number nobody writes under any more.
LEMMA WalkEndsKeeps ==
  ASSUME SandboxInv, NEW u \in User, WalkEnds(u)
  PROVE  SandboxInv'
<1> USE DEF SandboxInv
<1>0. Does(u, "walking") /\ user[u].call \in {"run", "plan", "probe"}
  BY DEF WalkEnds, Walking, CallsAreKnown, CallAt, Does
<1>1. IF user[u].call = "run" THEN IsOver(u) ELSE GoesOn(u, "finishing", user[u].over)
  BY GoingOn, BeingOver DEF WalkEnds, Stages
<1>2. CallsAreKnown' /\ ReaperSparesResearch'
  <2>1. user[u].call # "run" => CallAt(user[u].call, "finishing")
    BY <1>0 DEF CallAt
  <2>2. Active(u) /\ ~Does(u, "finishing") /\ user[u].over \subseteq ended
    BY <1>0 DEF CallsAreKnown, Active, Does
  <2> QED BY <1>1, <2>1, <2>2, GoingOnKeeps, BeingOverKeeps DEF WalkEnds
<1>3. Researching' = Researching
  BY <1>0, <1>1, ResearchCounted DEF Researching, GoesOn, IsOver, Does
<1>4. mu' \in User \cup {Free} /\ \A v \in User : mu' = v <=> UnderMutex(v)'
  BY <1>0, <1>1 DEF SandboxTypeOK, WalkEnds, GoesOn, IsOver, UnderMutex, Locked, Does
<1>5. SandboxTypeOK'
  BY <1>3, <1>4 DEF SandboxTypeOK, WalkEnds, session, docker
<1>6. HolderKnows'
  BY <1>0, <1>1 DEF HolderKnows, WalkEnds, GoesOn, IsOver, UnderMutex, Locked, Does, session
<1>7. CleanStart'
  BY <1>0, <1>1 DEF CleanStart, GoesOn, IsOver, WalkEnds, Does, docker
<1>8. NothingForgotten'
  BY <1>0, <1>1 DEF NothingForgotten, WalkEnds, GoesOn, IsOver, Restoring, Resetting, Seeding,
    Does, session, docker
<1> QED BY <1>2, <1>5, <1>6, <1>7, <1>8

\* The end of research is counted off.
LEMMA FinishKeeps ==
  ASSUME SandboxInv, NEW u \in User, Finish(u)
  PROVE  SandboxInv'
<1> USE DEF SandboxInv
<1>0. Does(u, "finishing") /\ user[u].call \in {"plan", "probe"}
  BY DEF Finish, CallsAreKnown, CallAt, Does
<1>1. IsOver(u)
  BY BeingOver DEF Finish
<1>2. CallsAreKnown' /\ ReaperSparesResearch'
  BY <1>1, BeingOverKeeps DEF Finish
<1>3. busy' = Cardinality(Researching')
  BY <1>0, <1>1, ResearchCounted DEF Researching, IsOver, Finish, Does, SandboxTypeOK
<1>4. \A v \in User : mu' # v /\ ~UnderMutex(v)'
  BY <1>0, <1>1, UserAssumption DEF SandboxTypeOK, Finish, IsOver, UnderMutex, Locked, Does
<1>5. SandboxTypeOK'
  BY <1>3, <1>4 DEF SandboxTypeOK, Finish, docker
<1>6. HolderKnows'
  BY <1>4 DEF HolderKnows
<1>7. CleanStart'
  BY <1>0, <1>1 DEF CleanStart, IsOver, Finish, Does, docker
<1>8. NothingForgotten'
  BY <1>0, <1>1 DEF NothingForgotten, Finish, IsOver, Restoring, Resetting, Seeding, Does, docker
<1> QED BY <1>2, <1>5, <1>6, <1>7, <1>8

\* A write goes under the number of a walk that is not over.
LEMMA WriteKeeps ==
  ASSUME SandboxInv, NEW u \in User, Write(u)
  PROVE  SandboxInv'
<1> USE DEF SandboxInv
<1>1. user[u].me \in 1..calls /\ user[u].me \notin ended
  BY DEF Write, Walking, Does, CallsAreKnown, Active
<1>2. Researching' = Researching
  BY DEF Write, Researching
<1>3. SandboxTypeOK'
  <2>1. rows' \subseteq 1..MaxCalls
    <3>1. calls \in 0..MaxCalls /\ rows \subseteq 1..MaxCalls /\ rows' = rows \cup {user[u].me}
      BY DEF Write, SandboxTypeOK, CallsAreKnown
    <3>2. user[u].me \in 1..MaxCalls
      BY <1>1, <3>1, SandboxBounds
    <3> QED BY <3>1, <3>2
  <2> QED BY <1>2, <2>1 DEF SandboxTypeOK, Write, session, UnderMutex, Locked
<1>4. CallsAreKnown' /\ HolderKnows' /\ ReaperSparesResearch'
  BY DEF Write, CallsAreKnown, HolderKnows, ReaperSparesResearch, session, Active, Does,
    UnderMutex, Locked
<1>5. CleanStart'
  BY <1>1 DEF CleanStart, CallsAreKnown, Write
<1>6. NothingForgotten'
  BY DEF NothingForgotten, Write, session, Restoring, Resetting, Seeding, Does
<1> QED BY <1>3, <1>4, <1>5, <1>6

\* What taking the copy down does to it: a copy that is still up leaked.
LEMMA DockerIsDown ==
  ASSUME SandboxInv, DockerDown
  PROVE  /\ faults' \in 0..MaxFaults /\ leaky' \in BOOLEAN /\ copy' \in {copy, "down"}
         /\ rows' \in {rows, {}}
         /\ ~leaky' => copy' = "down" /\ ~Restoring
BY FaultsCounted DEF SandboxInv, SandboxTypeOK, DockerDown, Fault, Cleared

LEMMA TeardownKeeps ==
  ASSUME SandboxInv, NEW u \in User, Teardown(u)
  PROVE  SandboxInv'
<1> USE DEF SandboxInv
<1>0. Does(u, "entering") /\ user[u].call = "teardown" /\ mu = Free /\ mu' = Free
  BY DEF Teardown
<1>1. IsOver(u)
  BY BeingOver DEF Teardown
<1>2. CallsAreKnown' /\ ReaperSparesResearch'
  BY <1>1, BeingOverKeeps DEF Teardown
<1>3. Researching' = Researching
  BY <1>0, <1>1, ResearchCounted DEF Researching, IsOver, Does
<1>4. \A v \in User : mu' # v /\ ~UnderMutex(v)'
  BY <1>0, <1>1, UserAssumption DEF SandboxTypeOK, IsOver, UnderMutex, Locked, Does
<1>5. \/ UNCHANGED <<staged, mcpOwned, idle, docker>>
      \/ Forget /\ DockerDown
  BY DEF Teardown
<1>6. SandboxTypeOK'
  <2>1. /\ faults' \in 0..MaxFaults /\ leaky' \in BOOLEAN /\ copy' \in {"down", "empty", "ready"}
        /\ rows' \subseteq 1..MaxCalls
    BY <1>5, DockerIsDown DEF SandboxTypeOK, docker
  <2>2. /\ staged' \in BOOLEAN /\ mcpOwned' \in BOOLEAN /\ idle' \in {"none", "armed", "spent"}
        /\ mcpOwned' => staged'
    <3>1. CASE UNCHANGED <<staged, mcpOwned, idle, docker>>
      BY <3>1 DEF SandboxTypeOK
    <3>2. CASE Forget
      BY <3>2 DEF Forget
    <3> QED BY <1>5, <3>1, <3>2
  <2>3. busy' = Cardinality(Researching') /\ fired' \in Nat /\ closed' \in BOOLEAN
    BY <1>3 DEF SandboxTypeOK, Teardown
  <2> QED BY <1>0, <1>4, <2>1, <2>2, <2>3 DEF SandboxTypeOK
<1>7. HolderKnows'
  BY <1>4 DEF HolderKnows
<1>8. CleanStart'
  BY <1>0, <1>1, <1>5, DockerIsDown DEF CleanStart, IsOver, Does, docker
<1>9. NothingForgotten'
  <2>1. Restoring' => Restoring
    BY <1>0, <1>1 DEF IsOver, Restoring, Resetting
  <2>2. \A v \in User : ~Seeding(v)
    BY <1>0, UserAssumption, OnlyResetsRestore DEF SandboxTypeOK, UnderMutex, Locked, Seeding
  <2> QED BY <1>5, <2>1, <2>2, DockerIsDown DEF NothingForgotten, docker
<1> QED BY <1>2, <1>6, <1>7, <1>8, <1>9

LEMMA FireKeeps ==
  ASSUME SandboxInv, Fire
  PROVE  SandboxInv'
<1> USE DEF SandboxInv, Fire, docker
<1>1. Researching' = Researching
  BY DEF Researching
<1>2. SandboxTypeOK'
  BY <1>1 DEF SandboxTypeOK, UnderMutex, Locked
<1>3. CallsAreKnown' /\ HolderKnows' /\ ReaperSparesResearch'
  BY DEF CallsAreKnown, HolderKnows, ReaperSparesResearch, Active, Does, UnderMutex, Locked
<1>4. CleanStart' /\ NothingForgotten'
  BY DEF CleanStart, NothingForgotten, Restoring, Resetting, Seeding, Does
<1> QED BY <1>2, <1>3, <1>4

\* The timer marks the walks it takes the copy from, and nothing else of a call.
LEMMA ReapedWalks ==
  ASSUME CallsAreKnown, Reaped
  PROVE  /\ user' \in [User -> HeldCall]
         /\ \A u \in User : /\ user'[u].call = user[u].call /\ user'[u].does = user[u].does
                            /\ user'[u].me = user[u].me /\ user'[u].over = user[u].over
                            /\ ~Walking(u) => user'[u].reaped = user[u].reaped
<1> DEFINE r(u) == IF Walking(u) THEN [user[u] EXCEPT !.reaped = TRUE] ELSE user[u]
<1>1. \A u \in User : user[u] \in HeldCall
  BY DEF CallsAreKnown
<1>2. \A u \in User : /\ r(u) \in HeldCall /\ r(u).call = user[u].call /\ r(u).does = user[u].does
                      /\ r(u).me = user[u].me /\ r(u).over = user[u].over
                      /\ ~Walking(u) => r(u).reaped = user[u].reaped
  BY <1>1 DEF HeldCall
<1>3. user' = [u \in User |-> r(u)]
  BY DEF Reaped
<1> HIDE DEF r
<1> QED BY <1>2, <1>3

\* No plan and no probe is walking when the timer takes the copy down.
LEMMA ReapKeeps ==
  ASSUME SandboxInv, Reap
  PROVE  SandboxInv'
<1> USE DEF SandboxInv
<1>0. mu = Free /\ mu' = Free /\ \A v \in User : ~UnderMutex(v)
  BY UserAssumption DEF Reap, SandboxTypeOK
<1>1. CASE UNCHANGED <<staged, mcpOwned, docker, user>>
  <2>1. Researching' = Researching
    BY <1>1 DEF Researching
  <2>2. SandboxTypeOK'
    BY <1>0, <1>1, <2>1 DEF SandboxTypeOK, UnderMutex, Locked, Reap, Forget, docker
  <2>3. CallsAreKnown' /\ HolderKnows' /\ ReaperSparesResearch'
    BY <1>1 DEF Reap, CallsAreKnown, HolderKnows, ReaperSparesResearch, Active, Does, UnderMutex,
      Locked
  <2>4. CleanStart' /\ NothingForgotten'
    BY <1>1 DEF CleanStart, NothingForgotten, Restoring, Resetting, Seeding, Does, docker
  <2> QED BY <2>2, <2>3, <2>4
<1>2. CASE ~(busy > 0) /\ Forget /\ DockerDown /\ Reaped
  <2>1. /\ user' \in [User -> HeldCall]
        /\ \A u \in User : /\ user'[u].call = user[u].call /\ user'[u].does = user[u].does
                           /\ user'[u].me = user[u].me /\ user'[u].over = user[u].over
                           /\ ~Walking(u) => user'[u].reaped = user[u].reaped
    BY <1>2, ReapedWalks
  <2>2. Researching = {}
    <3>1. IsFiniteSet(Researching)
      <4>1. Researching \in SUBSET User
        BY DEF Researching
      <4> QED BY <4>1, UserIsFinite, FS_Subset
    <3>2. Cardinality(Researching) = 0
      BY <1>2, <3>1, FS_CardinalityType DEF SandboxTypeOK
    <3> QED BY <3>1, <3>2, FS_EmptySet
  <2>3. Researching' = Researching
    BY <2>1 DEF Researching
  <2>4. \A u \in User : user[u].call \in {"plan", "probe"} => ~Walking(u)
    BY <2>2 DEF Researching, Walking, Does
  <2>5. ReaperSparesResearch'
    BY <2>1, <2>4 DEF ReaperSparesResearch
  <2>6. CallsAreKnown'
    BY <2>1 DEF Reap, CallsAreKnown, Active, Does
  <2>7. \A v \in User : ~UnderMutex(v)'
    BY <1>0, <2>1 DEF UnderMutex, Locked
  <2>8. SandboxTypeOK'
    <3>1. /\ faults' \in 0..MaxFaults /\ leaky' \in BOOLEAN /\ copy' \in {"down", "empty", "ready"}
          /\ rows' \subseteq 1..MaxCalls
      BY <1>2, DockerIsDown DEF SandboxTypeOK
    <3>2. staged' = FALSE /\ mcpOwned' = FALSE /\ idle' = "none"
      BY <1>2 DEF Forget
    <3>3. busy' = Cardinality(Researching') /\ fired' \in Nat /\ closed' \in BOOLEAN
      BY <2>3 DEF SandboxTypeOK, Reap
    <3>4. \A v \in User : mu' # v
      BY <1>0, UserAssumption
    <3> QED BY <1>0, <2>7, <3>1, <3>2, <3>3, <3>4 DEF SandboxTypeOK
  <2>9. HolderKnows' /\ CleanStart'
    BY <1>2, <2>1, <2>7, DockerIsDown DEF HolderKnows, CleanStart
  <2>10. NothingForgotten'
    <3>1. Restoring' => Restoring
      BY <2>1 DEF Restoring, Resetting
    <3> QED BY <1>2, <3>1, DockerIsDown DEF NothingForgotten
  <2> QED BY <2>5, <2>6, <2>8, <2>9, <2>10
<1> QED BY <1>1, <1>2 DEF Reap

\* The end of the session.
LEMMA CloseKeeps ==
  ASSUME SandboxInv, Close
  PROVE  SandboxInv'
<1> USE DEF SandboxInv
<1>0. mu = Free /\ mu' = Free /\ \A v \in User : ~UnderMutex(v)
  BY UserAssumption DEF Close, SandboxTypeOK
<1>1. user' \in [User -> HeldCall] /\ \A u \in User : user'[u] = NoCall
  BY NoCallHeld DEF Close
<1>2. \A u \in User : user'[u].call = "none" /\ user'[u].does = "nothing" /\ ~user'[u].reaped
    /\ user'[u].over = {}
  BY <1>1 DEF NoCall
<1>3. Researching' = {} /\ busy' = Cardinality(Researching')
  <2>1. Researching' = {}
    BY <1>2 DEF Researching
  <2> QED BY <2>1, FS_EmptySet DEF Close
<1>4. \/ UNCHANGED docker /\ ~staged
      \/ DockerDown
  BY DEF Close
<1>5. SandboxTypeOK'
  <2>1. \A v \in User : ~UnderMutex(v)'
    BY <1>2 DEF UnderMutex
  <2> QED BY <1>0, <1>3, <1>4, <2>1, UserAssumption, DockerIsDown DEF SandboxTypeOK, Close, Forget,
      docker
<1>6. CallsAreKnown'
  <2>1. \A u \in User : ~Active(u)'
    BY <1>2 DEF Active
  <2>2. \A u \in User : CallAt(user'[u].call, user'[u].does) /\ user'[u].call # "run"
    BY <1>2 DEF CallAt
  <2> QED BY <1>1, <1>2, <2>1, <2>2 DEF CallsAreKnown, Close
<1>7. HolderKnows' /\ ReaperSparesResearch' /\ CleanStart'
  BY <1>2 DEF HolderKnows, UnderMutex, ReaperSparesResearch, CleanStart
<1>8. NothingForgotten'
  <2>1. ~Restoring'
    BY <1>2 DEF Restoring, Resetting
  <2>2. \A v \in User : ~Seeding(v)
    BY <1>0, OnlyResetsRestore DEF UnderMutex, Locked, Seeding
  <2> QED BY <1>4, <2>1, <2>2, DockerIsDown DEF NothingForgotten, docker
<1> QED BY <1>5, <1>6, <1>7, <1>8

\* The invariant holds of every behaviour.
THEOREM SandboxInvariant == SandboxSpec => []SandboxInv
<1>1. ASSUME SandboxInv, SandboxNext PROVE SandboxInv'
  <2>1. ASSUME NEW u \in User, NEW c \in Calls, Begin(u, c) PROVE SandboxInv'
    BY <1>1, <2>1, BeginKeeps
  <2>2. ASSUME NEW u \in User, CallStep(u) PROVE SandboxInv'
    BY <1>1, <2>2, EnterKeeps, LaunchKeeps, LaunchRefusedKeeps, StageBreaksKeeps, SeedKeeps,
       OwnKeeps, PrepareKeeps, PreparePlanKeeps, ProbeKeeps, ClearKeeps, BootKeeps,
       ResetBreaksKeeps, MigrateKeeps, WalkEndsKeeps, FinishKeeps, TeardownKeeps DEF CallStep
  <2>3. ASSUME NEW u \in User, Write(u) PROVE SandboxInv'
    BY <1>1, <2>3, WriteKeeps
  <2> QED BY <1>1, <2>1, <2>2, <2>3, FireKeeps, ReapKeeps, CloseKeeps DEF SandboxNext
<1>2. ASSUME SandboxInv, UNCHANGED sandboxVars PROVE SandboxInv'
  BY <1>2 DEF sandboxVars, session, docker, SandboxInv, SandboxTypeOK, CallsAreKnown, HolderKnows,
     ReaperSparesResearch, CleanStart, NothingForgotten, UnderMutex, Locked, Researching, Active,
     Does, Restoring, Resetting, Seeding
<1> QED BY <1>1, <1>2, SandboxStarts, PTL DEF SandboxSpec

\* Every variable keeps to its type, the mutex is held by whoever works under it, and busy
\* counts the research that is in flight.
THEOREM SandboxTyped == SandboxSpec => []SandboxTypeOK
<1>1. SandboxInv => SandboxTypeOK
  BY DEF SandboxInv
<1> QED BY <1>1, SandboxInvariant, PTL

\* The timer never takes the sandbox from under a plan or a probe of the MCP surface.
THEOREM ReaperIsSparing == SandboxSpec => []ReaperSparesResearch
<1>1. SandboxInv => ReaperSparesResearch
  BY DEF SandboxInv
<1> QED BY <1>1, SandboxInvariant, PTL

\* A plan never runs on rows left behind by a call that was over when its reset began.
THEOREM PlansStartClean == SandboxSpec => []NothingLeftBehind
<1>1. SandboxInv => NothingLeftBehind
  BY DEF SandboxInv, CleanStart, NothingLeftBehind, Walking, Does
<1> QED BY <1>1, SandboxInvariant, PTL

\* A session that has no stack leaves no copy running, but for a compose down that fails
\* and a restore.
THEOREM NoCopyIsForgotten == SandboxSpec => []NoForgottenCopy
<1>1. SandboxInv => NoForgottenCopy
  <2> SUFFICES ASSUME SandboxInv, mu = Free, ~staged, ~leaky PROVE copy = "down"
    BY DEF NoForgottenCopy
  <2>1. \A v \in User : ~Seeding(v)
    BY UserAssumption, OnlyResetsRestore DEF SandboxInv, SandboxTypeOK, UnderMutex, Locked, Seeding
  <2> QED BY <2>1 DEF SandboxInv, NothingForgotten
<1> QED BY <1>1, SandboxInvariant, PTL


-----------------------------------------------------------------------------
(* What a copy is made of, for every file and every environment.           *)

\* One service is tested, and the check has it among those that are kept.
LEMMA AppIsKept ==
  ASSUME NEW c, NEW e, CheckServices(c, e)
  PROVE  /\ App(e) \in Names(c) /\ e.role[App(e)] = "tested"
         /\ DOMAIN e.role = Names(c)
<1>1. Playing(e, "tested") # {}
  BY FS_EmptySet DEF CheckServices
<1>2. App(e) \in Playing(e, "tested")
  BY <1>1 DEF App
<1> QED BY <1>2 DEF Playing, CheckServices

\* The services of the copy are the developer's without those that are left out.
LEMMA CopyNames ==
  ASSUME NEW c, NEW e, NEW db
  PROVE  /\ Names(Overlay(c, e, db)) = Names(c) \ Ignored(e)
         /\ \A s \in Names(c) \ Ignored(e) :
              Overlay(c, e, db).services[s] = Copied(s, c.services[s], e, db)
  BY DEF Overlay, Names

\* What a service of the copy keeps, sheds and gains, one field of it at a time.
LEMMA CopiedJoins ==
  ASSUME NEW c, Resolved(c), NEW e, NEW db, NEW s \in Names(c)
  PROVE  Copied(s, c.services[s], e, db).joins = c.services[s].joins
<1>1. DOMAIN c.services[s] = ServiceKeys
  BY DEF Resolved
<1> QED BY <1>1 DEF Copied, ServiceKeys

LEMMA CopiedNeeds ==
  ASSUME NEW c, Resolved(c), NEW e, NEW db, NEW s \in Names(c)
  PROVE  Copied(s, c.services[s], e, db).needs = Detach(c.services[s].needs, e)
<1>1. DOMAIN c.services[s] = ServiceKeys
  BY DEF Resolved
<1> QED BY <1>1 DEF Copied, ServiceKeys

LEMMA CopiedProfiles ==
  ASSUME NEW c, Resolved(c), NEW e, NEW db, NEW s \in Names(c)
  PROVE  Copied(s, c.services[s], e, db).profiles =
           IF s \in Held(e) THEN {HoldProfile} ELSE c.services[s].profiles
<1>1. DOMAIN c.services[s] = ServiceKeys
  BY DEF Resolved
<1> QED BY <1>1 DEF Copied, ServiceKeys

LEMMA CopiedGivesUp ==
  ASSUME NEW c, Resolved(c), NEW e, NEW db, NEW s \in Names(c)
  PROVE  /\ Copied(s, c.services[s], e, db).name = Unset
         /\ \A p : p \notin Copied(s, c.services[s], e, db).ports
<1>1. DOMAIN c.services[s] = ServiceKeys
  BY DEF Resolved
<1> QED BY <1>1 DEF Copied, ServiceKeys

\* A bind of the copy is read only, and no two of its mounts meet.
LEMMA SealedMounts ==
  ASSUME NEW mounts, \A m \in mounts : DOMAIN m = MountKeys,
         \A m, n \in mounts : m.target = n.target => m = n
  PROVE  /\ \A m \in Sealed(mounts) : m.kind = "bind" => m.ro = TRUE
         /\ \A m \in Sealed(mounts) : \E n \in mounts : m.kind = n.kind /\ m.source = n.source /\ m.target = n.target
         /\ \A m, n \in Sealed(mounts) : m.target = n.target => m = n
<1> DEFINE Seals(m) == IF m.kind = "bind" THEN [m EXCEPT !.ro = TRUE] ELSE m
<1>1. ASSUME NEW m \in mounts
      PROVE  /\ Seals(m).kind = m.kind /\ Seals(m).source = m.source /\ Seals(m).target = m.target
             /\ m.kind = "bind" => Seals(m).ro = TRUE
  BY DEF MountKeys
<1>2. Sealed(mounts) = {Seals(m) : m \in mounts}
  BY DEF Sealed
<1> HIDE DEF Seals
<1>3. ASSUME NEW m \in Sealed(mounts) PROVE m.kind = "bind" => m.ro = TRUE
  <2>1. PICK x \in mounts : m = Seals(x)
    BY <1>2
  <2> QED BY <1>1, <2>1
<1>4. ASSUME NEW m \in Sealed(mounts)
      PROVE  \E n \in mounts : m.kind = n.kind /\ m.source = n.source /\ m.target = n.target
  BY <1>1, <1>2
<1>5. ASSUME NEW m \in Sealed(mounts), NEW n \in Sealed(mounts), m.target = n.target PROVE m = n
  <2>1. PICK x \in mounts : m = Seals(x)
    BY <1>2
  <2>2. PICK y \in mounts : n = Seals(y)
    BY <1>2
  <2>3. x.target = y.target
    BY <1>1, <1>5, <2>1, <2>2
  <2> QED BY <2>1, <2>2, <2>3
<1> QED BY <1>3, <1>4, <1>5

\* A volume over each path the app writes to, and nothing else there.
LEMMA WritableMounts ==
  ASSUME NEW mounts, NEW paths,
         \A m, n \in mounts : m.target = n.target => m = n
  PROVE  /\ \A m \in Writable(mounts, paths) :
              \/ m \in mounts /\ m.target \notin paths
              \/ /\ m.target \in paths /\ m.source = SharedVolume(m.target)
                 /\ m.kind = "volume" /\ m.ro = FALSE
         /\ \A m, n \in Writable(mounts, paths) : m.target = n.target => m = n
<1> DEFINE Over(p) == [kind |-> "volume", source |-> SharedVolume(p), target |-> p, ro |-> FALSE]
<1>1. \A p \in paths : /\ Over(p).kind = "volume" /\ Over(p).source = SharedVolume(p)
                       /\ Over(p).target = p /\ Over(p).ro = FALSE
  OBVIOUS
<1>2. Writable(mounts, paths) = {m \in mounts : m.target \notin paths} \cup {Over(p) : p \in paths}
  BY DEF Writable
<1> HIDE DEF Over
<1>3. \A m \in Writable(mounts, paths) :
        \/ m \in mounts /\ m.target \notin paths
        \/ m.target \in paths /\ m = Over(m.target)
  BY <1>1, <1>2
<1>4. ASSUME NEW m \in Writable(mounts, paths), NEW n \in Writable(mounts, paths), m.target = n.target
      PROVE  m = n
  BY <1>3, <1>4
<1> QED BY <1>1, <1>3, <1>4

\* What a service of the copy has mounted.
LEMMA CopiedMounts ==
  ASSUME NEW c, Resolved(c), NEW e, NEW db, NEW s \in Names(c)
  PROVE  LET mine == Copied(s, c.services[s], e, db).mounts
         IN  /\ \A m \in mine : m.kind = "bind" => m.ro = TRUE
             /\ \A m \in mine : m.kind = "volume" =>
                  m.source \in DOMAIN c.volumes \cup {SharedVolume(p) : p \in e.writable}
             /\ \A m, n \in mine : m.target = n.target => m = n
             /\ s \in Sharing(e) => \A m \in mine : m.target \in e.writable => m.kind = "volume" /\ m.ro = FALSE
<1> DEFINE theirs == c.services[s].mounts
           mine   == Copied(s, c.services[s], e, db).mounts
<1>1. /\ \A m \in theirs : DOMAIN m = MountKeys
      /\ \A m \in theirs : m.kind = "volume" => m.source \in DOMAIN c.volumes
      /\ \A m, n \in theirs : m.target = n.target => m = n
  BY DEF Resolved
<1>2. mine = IF s \in Sharing(e) THEN Writable(Sealed(theirs), e.writable) ELSE Sealed(theirs)
  <2>1. DOMAIN c.services[s] = ServiceKeys
    BY DEF Resolved
  <2> QED BY <2>1 DEF Copied, ServiceKeys
<1> HIDE DEF mine, theirs
<1>3. /\ \A m \in Sealed(theirs) : m.kind = "bind" => m.ro = TRUE
      /\ \A m \in Sealed(theirs) : m.kind = "volume" => m.source \in DOMAIN c.volumes
      /\ \A m, n \in Sealed(theirs) : m.target = n.target => m = n
  <2>1. /\ \A m \in Sealed(theirs) : m.kind = "bind" => m.ro = TRUE
        /\ \A m \in Sealed(theirs) : \E n \in theirs : m.kind = n.kind /\ m.source = n.source /\ m.target = n.target
        /\ \A m, n \in Sealed(theirs) : m.target = n.target => m = n
    BY <1>1, SealedMounts, Zenon
  <2> QED BY <1>1, <2>1
<1>4. /\ \A m \in Writable(Sealed(theirs), e.writable) :
           \/ m \in Sealed(theirs) /\ m.target \notin e.writable
           \/ /\ m.target \in e.writable /\ m.source = SharedVolume(m.target)
              /\ m.kind = "volume" /\ m.ro = FALSE
      /\ \A m, n \in Writable(Sealed(theirs), e.writable) : m.target = n.target => m = n
  BY <1>3, WritableMounts
<1>5. /\ \A m \in mine : m.kind = "bind" => m.ro = TRUE
      /\ \A m \in mine : m.kind = "volume" =>
           m.source \in DOMAIN c.volumes \cup {SharedVolume(p) : p \in e.writable}
      /\ \A m, n \in mine : m.target = n.target => m = n
      /\ s \in Sharing(e) => \A m \in mine : m.target \in e.writable => m.kind = "volume" /\ m.ro = FALSE
  BY <1>2, <1>3, <1>4
<1> QED BY <1>5 DEF mine

\* No network and no volume of the copy keeps a name, and a copy that is cut off has no
\* network that lets anything out.
LEMMA CopyNetworks ==
  ASSUME NEW c, Resolved(c), NEW e
  PROVE  /\ \A n \in DOMAIN Networks(c, e) : Networks(c, e)[n].name = Unset
         /\ DOMAIN c.networks \subseteq DOMAIN Networks(c, e)
         /\ Denied(e) => /\ Default \in DOMAIN Networks(c, e)
                         /\ \A n \in DOMAIN Networks(c, e) :
                              ~(Networks(c, e)[n].bridge /\ Networks(c, e)[n].open)
<1> DEFINE net(n)  == IF n \in DOMAIN c.networks THEN c.networks[n] ELSE Bare
           mine(n) == Scope(IF Denied(e) THEN Seal(net(n)) ELSE net(n))
           mines   == IF Denied(e) THEN DOMAIN c.networks \cup {Default} ELSE DOMAIN c.networks
<1>1. Networks(c, e) = [n \in mines |-> mine(n)]
  BY DEF Networks
<1>2. ASSUME NEW n PROVE DOMAIN net(n) = NetworkKeys /\ net(n).bridge \in BOOLEAN /\ net(n).open \in BOOLEAN
  <2>1. DOMAIN Bare = NetworkKeys /\ Bare.bridge \in BOOLEAN /\ Bare.open \in BOOLEAN
    BY DEF Bare, NetworkKeys
  <2>2. \A k \in DOMAIN c.networks : /\ DOMAIN c.networks[k] = NetworkKeys
                                     /\ c.networks[k].bridge \in BOOLEAN /\ c.networks[k].open \in BOOLEAN
    BY DEF Resolved
  <2> QED BY <2>1, <2>2
<1>3. ASSUME NEW d, DOMAIN d = NetworkKeys, d.bridge \in BOOLEAN, d.open \in BOOLEAN
      PROVE  /\ DOMAIN Seal(d) = NetworkKeys /\ Seal(d).bridge \in BOOLEAN /\ Seal(d).open \in BOOLEAN
             /\ ~(Seal(d).bridge /\ Seal(d).open)
             /\ Scope(d).name = Unset /\ Scope(d).bridge = d.bridge /\ Scope(d).open = d.open
  BY <1>3 DEF NetworkKeys, Seal, Scope
<1> HIDE DEF net
<1>4. ASSUME NEW n PROVE mine(n).name = Unset /\ (Denied(e) => ~(mine(n).bridge /\ mine(n).open))
  BY <1>2, <1>3
<1> HIDE DEF mine
<1>5. DOMAIN c.networks \subseteq mines /\ (Denied(e) => Default \in mines)
  OBVIOUS
<1> HIDE DEF mines
<1> QED BY <1>1, <1>4, <1>5

\* Every volume of the copy is declared without a name, so that it takes that of the copy.
LEMMA CopyVolumes ==
  ASSUME NEW c, Resolved(c), NEW e, NEW db
  PROVE  LET doc == Overlay(c, e, db)
         IN  /\ DOMAIN doc.volumes = DOMAIN c.volumes \cup {SharedVolume(p) : p \in e.writable}
             /\ \A v \in DOMAIN doc.volumes : doc.volumes[v].name = Unset
<1> DEFINE ours    == {SharedVolume(p) : p \in e.writable}
           mine(v) == IF v \in DOMAIN c.volumes THEN Scope(c.volumes[v]) ELSE [external |-> FALSE, name |-> Unset]
<1>1. Overlay(c, e, db).volumes = [v \in DOMAIN c.volumes \cup ours |-> mine(v)]
  BY DEF Overlay
<1>2. \A v \in DOMAIN c.volumes : Scope(c.volumes[v]).name = Unset
  BY DEF Resolved, Scope
<1>3. \A v : mine(v).name = Unset
  BY <1>2
<1> HIDE DEF mine
<1> QED BY <1>1, <1>3


\* A copy holds nothing of the machine that is not its project's.
LEMMA CopyHolds ==
  ASSUME NEW c, Resolved(c), NEW e, NEW db,
         NEW h \in Holds(Overlay(c, e, db))
  PROVE  h[1] \in {"container", "volume", "network"} /\ h[2][1] = Project
<1> DEFINE doc == Overlay(c, e, db)
<1>1. /\ doc.project = Project /\ doc.networks = Networks(c, e)
      /\ Names(doc) = Names(c) \ Ignored(e)
      /\ \A s \in Names(doc) : doc.services[s] = Copied(s, c.services[s], e, db)
  BY CopyNames DEF Overlay
<1>2. ASSUME NEW s \in Names(doc) PROVE doc.services[s].name = Unset /\ \A p : p \notin doc.services[s].ports
  <2>1. s \in Names(c)
    BY <1>1
  <2>2. Copied(s, c.services[s], e, db).name = Unset /\ \A p : p \notin Copied(s, c.services[s], e, db).ports
    BY <2>1, CopiedGivesUp
  <2> QED BY <1>1, <2>2
<1>3. ASSUME NEW s \in Names(doc), NEW m \in doc.services[s].mounts
      PROVE  /\ m.kind = "bind" => m.ro = TRUE
             /\ m.kind = "volume" => m.source \in DOMAIN c.volumes \cup {SharedVolume(p) : p \in e.writable}
  <2>1. s \in Names(c) /\ m \in Copied(s, c.services[s], e, db).mounts
    BY <1>1
  <2> QED BY <2>1, CopiedMounts
<1>4. /\ DOMAIN doc.volumes = DOMAIN c.volumes \cup {SharedVolume(p) : p \in e.writable}
      /\ \A v \in DOMAIN doc.volumes : doc.volumes[v].name = Unset
  BY CopyVolumes
<1>5. \A n \in DOMAIN doc.networks : doc.networks[n].name = Unset
  BY <1>1, CopyNetworks
<1> HIDE DEF doc
<1>6. \A m \in Mounts(doc) : \E s \in Names(doc) : m \in doc.services[s].mounts
  BY DEF Mounts
<1>7. \A entry, key : entry.name = Unset => Called(doc, entry, key)[1] = Project
  BY <1>1 DEF Called
<1>8. CASE \E p \in (UNION {doc.services[s].ports : s \in Names(doc)}) : h = <<"port", p>>
  BY <1>2, <1>8
<1>9. CASE \E s \in Names(doc) : h = <<"container", Called(doc, doc.services[s], s)>>
  BY <1>2, <1>7, <1>9
<1>10. CASE \E m \in {n \in Mounts(doc) : n.kind = "volume"} : h = <<"volume", Called(doc, doc.volumes[m.source], m.source)>>
  <2>1. PICK m \in Mounts(doc) : m.kind = "volume" /\ h = <<"volume", Called(doc, doc.volumes[m.source], m.source)>>
    BY <1>10
  <2>2. PICK s \in Names(doc) : m \in doc.services[s].mounts
    BY <1>6
  <2>3. m.source \in DOMAIN doc.volumes
    BY <1>3, <1>4, <2>1, <2>2
  <2> QED BY <1>4, <1>7, <2>1, <2>3
<1>11. CASE \E n \in Joins(doc) \cap DOMAIN doc.networks : h = <<"network", Called(doc, doc.networks[n], n)>>
  BY <1>5, <1>7, <1>11
<1>12. CASE \E m \in {n \in Mounts(doc) : n.kind = "bind" /\ ~n.ro} : h = <<"tree", m.source>>
  BY <1>3, <1>6, <1>12
<1>13. h \in Holds(doc)
  BY DEF doc
<1> QED BY <1>8, <1>9, <1>10, <1>11, <1>12, <1>13 DEF Holds

\* A copy is apart from the stack of the file it was made of, whatever the two say.
LEMMA ApartFromTheirs ==
  ASSUME NEW c, Resolved(c), Theirs(c), NEW e, Environment(c, e)
  PROVE  IsApart(c, e)
<1> SUFFICES ASSUME NEW db \in Databases(e)
             PROVE  LET doc == Overlay(c, e, db)
                    IN  /\ Holds(doc) \cap Holds(c) = {}
                        /\ \A h \in Holds(doc) : h[1] \in {"container", "volume", "network"} /\ h[2][1] = Project
                        /\ \A s \in Names(doc) : \A m, n \in doc.services[s].mounts : m.target = n.target => m = n
                        /\ \A s \in Sharing(e) : \A m \in doc.services[s].mounts :
                             m.target \in e.writable => m.kind = "volume" /\ ~m.ro
                        /\ Denied(e) => \A s \in Names(doc) : \A n \in WaysOut(doc, s) :
                             n \in DOMAIN doc.networks /\ ~doc.networks[n].bridge
  BY DEF IsApart
<1> DEFINE doc == Overlay(c, e, db)
<1>1. /\ doc.networks = Networks(c, e) /\ Names(doc) = Names(c) \ Ignored(e)
      /\ \A s \in Names(doc) : doc.services[s] = Copied(s, c.services[s], e, db)
  BY CopyNames DEF Overlay
<1>2. \A h \in Holds(doc) : h[1] \in {"container", "volume", "network"} /\ h[2][1] = Project
  BY CopyHolds
<1>3. \A h \in Holds(c) : h[1] \in {"container", "volume", "network"} => h[2][1] # Project
  <2>1. \A entry, key : Called(c, entry, key)[1] # Project
    BY ProjectAssumption DEF Called, Theirs
  <2> QED BY <2>1 DEF Holds
<1>4. ASSUME NEW s \in Names(doc), NEW m \in doc.services[s].mounts, NEW n \in doc.services[s].mounts,
             m.target = n.target
      PROVE  m = n
  <2>1. /\ s \in Names(c) /\ m \in Copied(s, c.services[s], e, db).mounts
        /\ n \in Copied(s, c.services[s], e, db).mounts
    BY <1>1
  <2> QED BY <1>4, <2>1, CopiedMounts
<1>5. ASSUME NEW s \in Sharing(e), NEW m \in doc.services[s].mounts, m.target \in e.writable
      PROVE  m.kind = "volume" /\ m.ro = FALSE
  <2>1. s \in Names(c) /\ s \notin Ignored(e)
    BY AppIsKept DEF Environment, Check, Sharing, Schema, Ignored, Playing
  <2>2. m \in Copied(s, c.services[s], e, db).mounts
    BY <1>1, <2>1
  <2> QED BY <1>5, <2>1, <2>2, CopiedMounts
<1>6. ASSUME Denied(e), NEW s \in Names(doc), NEW n \in WaysOut(doc, s)
      PROVE  n \in DOMAIN doc.networks /\ ~doc.networks[n].bridge
  <2>1. doc.services[s].joins \subseteq DOMAIN c.networks
    <3>1. s \in Names(c) /\ doc.services[s] = Copied(s, c.services[s], e, db)
      BY <1>1
    <3>2. Copied(s, c.services[s], e, db).joins = c.services[s].joins
      BY <3>1, CopiedJoins
    <3> QED BY <3>1, <3>2 DEF Resolved
  <2>2. /\ DOMAIN c.networks \subseteq DOMAIN doc.networks /\ Default \in DOMAIN doc.networks
        /\ \A k \in DOMAIN doc.networks : ~(doc.networks[k].bridge /\ doc.networks[k].open)
    BY <1>1, <1>6, CopyNetworks
  <2> HIDE DEF doc
  <2> QED BY <1>6, <2>1, <2>2 DEF WaysOut, On
<1>7. Holds(doc) \cap Holds(c) = {}
  BY <1>2, <1>3
<1> QED BY <1>2, <1>4, <1>5, <1>6, <1>7

\* What is held back is not among what boots: nothing that boots asks for HoldProfile.
LEMMA CopyIsUp ==
  ASSUME NEW c, Resolved(c), Theirs(c), NEW e, NEW db
  PROVE  LET doc == Overlay(c, e, db)
             profiles == BootProfiles(c, e, db)
         IN  Up(doc, profiles) = Up(c, profiles) \ Absent(e)
<1> DEFINE doc == Overlay(c, e, db)
           profiles == BootProfiles(c, e, db)
<1>1. /\ Names(doc) = Names(c) \ Ignored(e)
      /\ \A s \in Names(doc) : doc.services[s] = Copied(s, c.services[s], e, db)
  BY CopyNames
<1>2. HoldProfile \notin profiles
  BY DEF BootProfiles, Theirs
<1>3. ASSUME NEW s \in Names(doc)
      PROVE  doc.services[s].profiles = IF s \in Held(e) THEN {HoldProfile} ELSE c.services[s].profiles
  <2>1. s \in Names(c)
    BY <1>1
  <2>2. Copied(s, c.services[s], e, db).profiles = IF s \in Held(e) THEN {HoldProfile} ELSE c.services[s].profiles
    BY <2>1, CopiedProfiles
  <2> QED BY <1>1, <2>2
<1> HIDE DEF doc, profiles
<1>4. Up(doc, profiles) = Up(c, profiles) \ Absent(e)
  BY <1>1, <1>2, <1>3 DEF Up, Absent
<1> QED BY <1>4 DEF doc, profiles

\* A service of the copy waits for what it waits for in their file, and is not left out.
LEMMA CopyRequires ==
  ASSUME NEW c, Resolved(c), NEW e, NEW db, NEW s \in Names(c) \ Ignored(e)
  PROVE  /\ Required(Overlay(c, e, db), s) = Required(c, s) \ Absent(e)
         /\ DOMAIN Overlay(c, e, db).services[s].needs \subseteq Names(c) \ Absent(e)
<1>1. Overlay(c, e, db).services[s].needs = Detach(c.services[s].needs, e)
  BY CopyNames, CopiedNeeds
<1>2. DOMAIN c.services[s].needs \subseteq Names(c)
  BY DEF Resolved
<1> QED BY <1>1, <1>2 DEF Required, Detach

\* Of every app and environment: the copy boots as the app does.
LEMMA BootsAsTheirs ==
  ASSUME NEW c, Resolved(c), Theirs(c), NEW e, Environment(c, e)
  PROVE  BootsLikeTheirs(c, e)
<1> SUFFICES ASSUME NEW db \in Databases(e), Starts(c, BootProfiles(c, e, db)), e.sql \subseteq Playing(e, "support")
             PROVE  LET doc      == Overlay(c, e, db)
                        profiles == BootProfiles(c, e, db)
                    IN  /\ Starts(doc, profiles)
                        /\ \A s \in Up(doc, profiles) : Required(c, s) \subseteq Up(doc, profiles) \cup Held(e)
                        /\ {App(e), db} \ {Unset} \subseteq Up(doc, profiles)
  BY DEF BootsLikeTheirs
<1> DEFINE doc == Overlay(c, e, db)
           profiles == BootProfiles(c, e, db)
<1>1. Up(doc, profiles) = Up(c, profiles) \ Absent(e)
  BY CopyIsUp
<1>2. ASSUME NEW s \in Up(doc, profiles)
      PROVE  /\ s \in Names(c) \ Ignored(e) /\ s \in Up(c, profiles)
             /\ Required(doc, s) = Required(c, s) \ Absent(e)
             /\ Required(c, s) \cap Ignored(e) = {}
  <2>1. s \in Names(c) \ Ignored(e) /\ s \in Up(c, profiles)
    BY <1>1 DEF Up, Absent
  <2>2. Required(c, s) \cap Ignored(e) = {}
    BY <2>1 DEF Environment, Check, CheckServices, Closure
  <2> QED BY <2>1, <2>2, CopyRequires
<1>3. \A s \in Up(c, profiles) : Required(c, s) \subseteq Up(c, profiles)
  BY DEF Starts
<1>4. {App(e), db} \ {Unset} \subseteq Up(c, profiles) \ Absent(e)
  <2>1. App(e) \in Names(c) /\ e.role[App(e)] = "tested" /\ DOMAIN e.role = Names(c)
    BY AppIsKept DEF Environment, Check
  <2>2. db # Unset => db \in Names(c) /\ e.role[db] = "support"
    BY <2>1 DEF Databases, Playing
  <2>3. \A s \in Names(c) \cap {App(e), db} : s \in Up(c, profiles)
    BY DEF Up, BootProfiles
  <2>4. \A s \in Absent(e) : e.role[s] \notin {"tested", "support"}
    BY DEF Absent, Held, OnDemand, Schema, Ignored, Playing
  <2> QED BY <2>1, <2>2, <2>3, <2>4
<1> HIDE DEF doc, profiles
<1>5. Starts(doc, profiles)
  BY <1>1, <1>2, <1>3 DEF Starts
<1>6. \A s \in Up(doc, profiles) : Required(c, s) \subseteq Up(doc, profiles) \cup Held(e)
  BY <1>1, <1>2, <1>3 DEF Absent
<1> QED BY <1>1, <1>4, <1>5, <1>6 DEF doc, profiles

\* What a schema step brings with it is kept and is not held back.
LEMMA SchemaBrings ==
  ASSUME NEW c, Resolved(c), NEW e, NEW db, NEW s \in Names(c) \ Ignored(e)
  PROVE  /\ Needing(Overlay(c, e, db), {s}) \subseteq {s} \cup (Names(c) \ Absent(e))
         /\ s \in Needing(Overlay(c, e, db), {s})
<1> DEFINE doc == Overlay(c, e, db)
           kept == {s} \cup (Names(c) \ Absent(e))
<1>1. Names(doc) = Names(c) \ Ignored(e)
  BY CopyNames
<1>2. ASSUME NEW t \in Names(doc) PROVE DOMAIN doc.services[t].needs \subseteq kept
  BY <1>1, <1>2, CopyRequires
<1> HIDE DEF doc
<1>3. kept \in SUBSET (Names(doc) \cup {s})
  BY <1>1 DEF Absent
<1>4. Needing(doc, {s}) \subseteq kept /\ s \in Needing(doc, {s})
  BY <1>2, <1>3 DEF Needing
<1> QED BY <1>4 DEF doc

\* Of every app and environment: what the copy runs is what was asked for.
LEMMA RunsAreAsked ==
  ASSUME NEW c, Resolved(c), Theirs(c), NEW e, Environment(c, e)
  PROVE  RunsAsAsked(c, e)
<1> SUFFICES ASSUME NEW db \in Databases(e)
             PROVE  LET doc == Overlay(c, e, db)
                        boots  == Up(doc, BootProfiles(c, e, db))
                    IN  /\ (boots \cup (UNION {r[2] : r \in SchemaRuns(doc, e)})) \cap (OnDemand(e) \cup Ignored(e)) = {}
                        /\ boots \cap Schema(e) = {}
                        /\ \A r \in SchemaRuns(doc, e) : r[2] \cap Schema(e) = {r[1]}
  BY DEF RunsAsAsked
<1> DEFINE doc == Overlay(c, e, db)
           boots  == Up(doc, BootProfiles(c, e, db))
<1>1. boots \cap Absent(e) = {}
  BY CopyIsUp
<1>2. Absent(e) = OnDemand(e) \cup Ignored(e) \cup Schema(e)
  BY DEF Absent, Held
<1>3. Schema(e) \cap (OnDemand(e) \cup Ignored(e)) = {} /\ Schema(e) \subseteq Names(c)
  BY DEF Schema, OnDemand, Ignored, Playing, Environment, Check, CheckServices
<1>4. ASSUME NEW r \in SchemaRuns(doc, e)
      PROVE  r[1] \in Schema(e) /\ r[1] \in r[2] /\ r[2] \subseteq {r[1]} \cup (Names(c) \ Absent(e))
  <2>1. PICK s \in Schema(e) : r = <<s, Needing(doc, {s})>>
    BY DEF SchemaRuns
  <2>2. s \in Names(c) \ Ignored(e)
    BY <1>3
  <2> HIDE DEF doc
  <2>3. Needing(doc, {s}) \subseteq {s} \cup (Names(c) \ Absent(e)) /\ s \in Needing(doc, {s})
    BY <2>2, SchemaBrings DEF doc
  <2> QED BY <2>1, <2>3
<1> HIDE DEF doc, boots
<1>5. (boots \cup (UNION {r[2] : r \in SchemaRuns(doc, e)})) \cap (OnDemand(e) \cup Ignored(e)) = {}
  BY <1>1, <1>2, <1>3, <1>4
<1>6. boots \cap Schema(e) = {} /\ \A r \in SchemaRuns(doc, e) : r[2] \cap Schema(e) = {r[1]}
  BY <1>1, <1>2, <1>3, <1>4
<1> QED BY <1>5, <1>6 DEF doc, boots

\* The small files are files that compose resolves, and none has a name of GritQA's.
LEMMA PlainIs == DOMAIN Plain = ServiceKeys /\ Plain.mounts = {} /\ Plain.joins = {} /\ Plain.profiles = {}
  BY DEF Plain, ServiceKeys

\* The apps of the small instances are resolved ones.
LEMMA StructuresAreResolved ==
  ASSUME NEW c \in Structures
  PROVE  Resolved(c) /\ Theirs(c)
<1> DEFINE Three == {"app", "db", "job"}
<1>1. PICK g \in Graphs : \E required \in SUBSET g, gated \in SUBSET Three : c = Structure(g, required, gated)
  BY DEF Structures
<1> PICK required \in SUBSET g, gated \in SUBSET Three : c = Structure(g, required, gated)
  BY <1>1
<1> DEFINE Needs(s) == [t \in {u \in Three : <<s, u>> \in g} |-> <<s, t>> \in required]
           Gates(s) == IF s \in gated THEN {"tools"} ELSE {}
           Service(s) == [Plain EXCEPT !.needs = Needs(s), !.login = s # "job", !.profiles = Gates(s)]
<1>2. /\ c.project = "hotel" /\ c.networks = <<>> /\ c.volumes = <<>>
      /\ c.services = [s \in Three |-> Service(s)]
  BY DEF Structure
<1>3. ASSUME NEW s \in Three
      PROVE  /\ DOMAIN Service(s) = ServiceKeys /\ Service(s).needs = Needs(s) /\ Service(s).profiles = Gates(s)
             /\ Service(s).mounts = {} /\ Service(s).joins = {}
  <2> HIDE DEF Needs, Gates
  <2> QED BY PlainIs DEF ServiceKeys
<1>4. \A s \in Three : <<s, s>> \notin g
  <2>1. PICK rank \in [Three -> 1..3] : \A edge \in g : rank[edge[1]] < rank[edge[2]]
    BY DEF Graphs
  <2> SUFFICES ASSUME NEW s \in Three, <<s, s>> \in g PROVE FALSE
    OBVIOUS
  <2>2. rank[s] < rank[s]
    BY <2>1
  <2> QED BY <2>2
<1>5. ASSUME NEW s \in Three, NEW t \in DOMAIN Needs(s) PROVE t \in Three \ {s} /\ Needs(s)[t] \in BOOLEAN
  <2>1. t \in {u \in Three : <<s, u>> \in g}
    OBVIOUS
  <2>2. Needs(s)[t] = (<<s, t>> \in required)
    BY <2>1, Zenon
  <2> HIDE DEF Needs
  <2>3. Needs(s)[t] \in BOOLEAN
    <3>1. (<<s, t>> \in required) \in BOOLEAN
      OBVIOUS
    <3> QED BY <2>2, <3>1
  <2>4. t \in Three \ {s}
    BY <1>4, <2>1
  <2> QED BY <2>3, <2>4
<1>6. \A s \in Three : HoldProfile \notin Gates(s)
  BY DEF HoldProfile
<1> HIDE DEF Needs, Gates, Service
<1>7. Names(c) = Three /\ \A s \in Three : c.services[s] = Service(s)
  BY <1>2 DEF Names
<1>8. DOMAIN c.networks = {} /\ DOMAIN c.volumes = {}
  BY <1>2
<1> HIDE DEF Three
<1>9. Resolved(c)
  BY <1>3, <1>5, <1>7, <1>8 DEF Resolved
<1>10. Theirs(c)
  BY <1>2, <1>3, <1>6, <1>7, NamesAreNames DEF Theirs
<1> QED BY <1>9, <1>10

\* And those that hold files.
LEMMA HoldingsAreResolved ==
  ASSUME NEW c \in Holdings
  PROVE  Resolved(c) /\ Theirs(c)
<1> DEFINE Data == Mount("volume", "data", "/data")
           Some == {Mount("bind", "src", "/app"), Mount("bind", "up", "/up"), Data}
           Two == {"app", "db"}
<1>1. PICK mounts \in SUBSET Some, ext \in BOOLEAN, named \in BOOLEAN, on \in Cables :
        c = Holding(mounts, ext, named, on)
  BY DEF Holdings
<1> DEFINE PortsOf(s) == {<<s, 80>>}
           NameOf(s) == IF named THEN s ELSE Unset
           JoinsOf(s) == IF s = "app" THEN on.joins ELSE {}
           MountsOf(s) == IF s = "app" THEN mounts ELSE {Data}
           Service(s) == [Plain EXCEPT !.ports = PortsOf(s), !.name = NameOf(s), !.restart = TRUE,
                                   !.joins = JoinsOf(s), !.mounts = MountsOf(s)]
           Volume == [external |-> ext, name |-> "hotel_data"]
<1>2. /\ c.project = "hotel" /\ c.networks = on.nets
      /\ c.volumes = [v \in {<<"volume", "data">>} |-> Volume]
      /\ c.services = [s \in Two |-> Service(s)]
  BY <1>1 DEF Holding
<1>3. ASSUME NEW s \in Two
      PROVE  /\ DOMAIN Service(s) = ServiceKeys /\ Service(s).needs = <<>> /\ Service(s).profiles = {}
             /\ Service(s).mounts = MountsOf(s) /\ Service(s).joins = JoinsOf(s)
  <2>1. Plain.needs = <<>>
    BY DEF Plain
  <2> HIDE DEF PortsOf, NameOf, JoinsOf, MountsOf
  <2> QED BY PlainIs, <2>1 DEF ServiceKeys
<1>4. /\ \A m \in Some : DOMAIN m = MountKeys /\ (m.kind = "volume" => m.source = <<"volume", "data">>)
      /\ \A m, n \in Some : m.target = n.target => m = n
  BY DEF Mount, MountKeys
<1>5. \A s \in Two : MountsOf(s) \subseteq Some
  OBVIOUS
<1>6. /\ on.joins \subseteq DOMAIN on.nets
      /\ \A n \in DOMAIN on.nets :
           /\ DOMAIN on.nets[n] = NetworkKeys /\ on.nets[n].name # Unset
           /\ on.nets[n].bridge \in BOOLEAN /\ on.nets[n].open \in BOOLEAN
  <2> DEFINE Is(net) == /\ DOMAIN net = NetworkKeys /\ net.name # Unset
                        /\ net.bridge \in BOOLEAN /\ net.open \in BOOLEAN
             Woven == [Network(FALSE, "woven") EXCEPT !.bridge = FALSE]
  <2>1. \A x \in BOOLEAN : \A name : name # Unset => Is(Network(x, name))
    BY DEF Network, NetworkKeys
  <2>2. Is(Woven)
    BY NamesAreNames DEF Network, NetworkKeys
  <2> HIDE DEF Is, Woven
  <2>3. Is(Network(FALSE, "hotel_default")) /\ Is(Network(TRUE, "theirs"))
    BY <2>1, NamesAreNames
  <2> DEFINE Hotel == [n \in {Default} |-> Network(FALSE, "hotel_default")]
             Shared  == [n \in {"shared"} |-> Network(TRUE, "theirs")]
             Weaves  == [n \in {"shared"} |-> Woven]
             Both    == [n \in {"shared", Default} |->
                           IF n = "shared" THEN Woven ELSE Network(FALSE, "hotel_default")]
  <2>4. on \in {[nets |-> <<>>, joins |-> {}], [nets |-> Hotel, joins |-> {}], [nets |-> Shared, joins |-> {"shared"}],
                [nets |-> Shared, joins |-> {}], [nets |-> Weaves, joins |-> {"shared"}],
                [nets |-> Both, joins |-> {"shared", Default}]}
    BY DEF Cables, Woven
  <2>5. /\ "shared" \in DOMAIN Shared /\ "shared" \in DOMAIN Weaves /\ {"shared", Default} \subseteq DOMAIN Both
        /\ \A n \in DOMAIN Hotel : Is(Hotel[n])
        /\ \A n \in DOMAIN Shared : Is(Shared[n])
        /\ \A n \in DOMAIN Weaves : Is(Weaves[n])
        /\ \A n \in DOMAIN Both : Is(Both[n])
    BY <2>2, <2>3
  <2> HIDE DEF Hotel, Shared, Weaves, Both
  <2>6. \/ on.nets = <<>> /\ on.joins = {}
        \/ on.nets \in {Hotel, Shared} /\ on.joins = {}
        \/ on.nets \in {Shared, Weaves} /\ on.joins = {"shared"}
        \/ on.nets = Both /\ on.joins = {"shared", Default}
    BY <2>4
  <2>7. on.joins \subseteq DOMAIN on.nets
    BY <2>5, <2>6
  <2>8. \A n \in DOMAIN on.nets : Is(on.nets[n])
    BY <2>5, <2>6
  <2> QED BY <2>7, <2>8 DEF Is
<1>7. DOMAIN Volume = {"external", "name"} /\ Volume.name # Unset
  BY NamesAreNames
<1> HIDE DEF Data, Some, MountsOf, Service, Volume
<1>8. Names(c) = Two /\ \A s \in Two : c.services[s] = Service(s)
  BY <1>2 DEF Names
<1>9. DOMAIN c.volumes = {<<"volume", "data">>} /\ \A v \in DOMAIN c.volumes : c.volumes[v] = Volume
  BY <1>2
<1>10. \A s \in Two : JoinsOf(s) \subseteq DOMAIN on.nets
  BY <1>6
<1>11. DOMAIN (<<>>) = {}
  OBVIOUS
<1> HIDE DEF Two, JoinsOf
<1>12. Resolved(c)
  BY <1>2, <1>3, <1>4, <1>5, <1>6, <1>7, <1>8, <1>9, <1>10, <1>11 DEF Resolved
<1>13. Theirs(c)
  BY <1>2, <1>3, <1>8, NamesAreNames DEF Theirs
<1> QED BY <1>12, <1>13

\* A copy holds nothing of the machine that the stack of the file it was made of holds, and
\* nothing that is not its own project's; no two mounts of a service of it meet, the paths
\* the app and the schema steps write to are the copy's, and one that is cut off has no way
\* out but a network whose driver is not a bridge: for every file that compose resolves,
\* whatever a checked environment says of it.
THEOREM CopiesAreApart ==
  /\ \A c, e : Resolved(c) /\ Theirs(c) /\ Environment(c, e) => IsApart(c, e)
  /\ SandboxSpec => []CopyIsApart
<1>1. \A c, e : Resolved(c) /\ Theirs(c) /\ Environment(c, e) => IsApart(c, e)
  BY ApartFromTheirs
<1>2. CopyIsApart
  BY <1>1, HoldingsAreResolved DEF CopyIsApart, EveryCopyIsApart
<1> QED BY <1>1, <1>2, PTL

\* A copy comes up where the developer's own file does: nothing that boots waits for what is
\* left out, and the app and the database boot; and nothing that was to be held back or left
\* out is started, by the boot or behind a schema step: for every file and environment.
THEOREM CopiesBootAsAsked ==
  /\ \A c, e : Resolved(c) /\ Theirs(c) /\ Environment(c, e) => BootsLikeTheirs(c, e) /\ RunsAsAsked(c, e)
  /\ SandboxSpec => []CopyBootsAsAsked
<1>1. \A c, e : Resolved(c) /\ Theirs(c) /\ Environment(c, e) => BootsLikeTheirs(c, e) /\ RunsAsAsked(c, e)
  BY BootsAsTheirs, RunsAreAsked
<1>2. CopyBootsAsAsked
  BY <1>1, StructuresAreResolved DEF CopyBootsAsAsked, EveryCopyBoots
<1> QED BY <1>1, <1>2, PTL

=============================================================================
