-------------------------- MODULE RunEngineProofs ---------------------------
(***************************************************************************)
(* Proofs about RunEngine: its type invariant, what the order is, that a   *)
(* step runs after its needs and is told once, that claims are kept, that  *)
(* green means green, that a plan is refused for cause, and that the       *)
(* ledger of what moved is true.  About PlanGate: that the form of the     *)
(* dashboard and the machine decide alike about ids and dependencies.      *)
(* About StepText, for every step: that what a gate lets through loads,    *)
(* and that a step means the same wherever it is written.  And about       *)
(* Answers, for every answer: that a check reads the channel it is named   *)
(* for, and that a value that was read comes back as it was sent.          *)
(***************************************************************************)
EXTENDS MCRunEngine, FiniteSetTheorems, SequenceTheorems, WellFoundedInduction, TLAPS

InHand == {"trying", "waiting", "judging", "measuring"}
Early  == {"loading", "ordering", "refused"}

-----------------------------------------------------------------------------
(* Types.                                                                  *)

\* What the engine starts from is typed.
LEMMA InitTyped == Init => EngineTypeOK
<1> SUFFICES ASSUME Init PROVE EngineTypeOK
  OBVIOUS
<1>1. plan \in [Position -> StepDef] /\ wired \subseteq Wiring
  BY CasesAssumption DEF Init
<1>2. ledger \in Ledger
  BY LimitsAssumption DEF Init, Ledger, Measured, Blind
<1>3. order \in Seq(Position) /\ result \in Seq([step: Position, status: Status])
  BY DEF Init
<1>4. settled \in [Id -> Status \cup {Unset}]
  BY DEF Init
<1>5. /\ scan \in 1..(StepCount + 1) /\ pos \in 1..(StepCount + 1)
      /\ try \in 0..MaxTries /\ asked \in 0..RepairAttempts /\ spent \in 0..RepairBudget
      /\ world \in 0..MaxMoves
  BY LimitsAssumption DEF Init
<1>6. /\ at = "loading" /\ progressed = FALSE /\ status = "pending" /\ aborted = FALSE
      /\ cancelled = FALSE /\ step = plan /\ sent = {} /\ verdict = Unset
  BY DEF Init
<1> QED BY <1>1, <1>2, <1>3, <1>4, <1>5, <1>6 DEF EngineTypeOK, Status

\* The hand is a step of the plan while there is one.
LEMMA HandType ==
  ASSUME EngineTypeOK, Len(order) = StepCount, pos <= StepCount
  PROVE  Hand \in Position
<1>1. pos \in 1..Len(order) /\ order \in Seq(Position)
  BY LimitsAssumption DEF EngineTypeOK
<1> QED BY <1>1 DEF Hand

\* Where the engine has a step in hand, the order is whole and the loop is inside it.
HandShape ==
  /\ at \in {"walking", "done"} \cup InHand => Len(order) = StepCount
  /\ at \in InHand => pos <= StepCount
  /\ at = "waiting" => try < MaxTries

LEMMA SettleTyped ==
  ASSUME EngineTypeOK, Len(order) = StepCount, pos <= StepCount, NEW s \in Status, Settle(s)
  PROVE  /\ settled' \in [Id -> Status \cup {Unset}]
         /\ result' \in Seq([step: Position, status: Status])
         /\ aborted' \in BOOLEAN
         /\ pos' \in 1..(StepCount + 1)
         /\ at' = "walking"
<1>1. Hand \in Position
  BY HandType
<1>2. settled' \in [Id -> Status \cup {Unset}]
  BY DEF Settle, EngineTypeOK
<1>3. result' \in Seq([step: Position, status: Status])
  <2>1. [step |-> Hand, status |-> s] \in [step: Position, status: Status]
    BY <1>1
  <2> QED BY <2>1 DEF Settle, EngineTypeOK
<1>4. aborted' \in BOOLEAN
  <2>1. aborted' = AbortsAfter(Hand, s)
    BY DEF Settle
  <2>2. AbortsAfter(Hand, s) \in BOOLEAN
    BY DEF AbortsAfter
  <2> QED BY <2>1, <2>2
<1>5. pos' \in 1..(StepCount + 1)
  BY LimitsAssumption DEF Settle, EngineTypeOK
<1> QED BY <1>2, <1>3, <1>4, <1>5 DEF Settle

\* A step rewritten as Fixes and Allowed let it be is a step.
LEMMA FixesTyped ==
  ASSUME NEW s \in StepDef, NEW fix \in Fixes(s), Allowed(s, fix)
  PROVE  fix \in StepDef
<1>1. ASSUME NEW r \in [what: What, claim: Claim, target: {"setup", "verify"},
                        method: {"reads", "writes"}],
             fix = [s EXCEPT !.what = r.what, !.claim = r.claim, !.target = r.target,
                             !.method = r.method]
      PROVE  fix \in StepDef
  BY <1>1 DEF StepDef
<1>2. ASSUME NEW r \in [id: Id, needs: {{}, s.needs}],
             fix = [s EXCEPT !.id = r.id, !.needs = r.needs]
      PROVE  fix \in StepDef
  <2>1. r.id \in Id /\ r.needs \in SUBSET Id
    BY DEF StepDef
  <2> QED BY <1>2, <2>1 DEF StepDef
<1>3. ASSUME NEW r \in [kind: {"http", "sql", "shell"}, onFailure: {"abort", "continue"}],
             fix = [s EXCEPT !.kind = r.kind, !.onFailure = r.onFailure]
      PROVE  fix \in StepDef
  BY <1>3 DEF StepDef
<1> QED BY <1>1, <1>2, <1>3 DEF Fixes

LEMMA TypeKept ==
  ASSUME EngineTypeOK, HandShape, [Next]_vars PROVE EngineTypeOK'
<1> USE LimitsAssumption
<1>1. CASE Load
  BY <1>1 DEF Load, Unstarted, orderVars, walkVars, handVars, givenVars, EngineTypeOK
<1>2. CASE Scan
  <2>1. scan \in Position
    BY <1>2 DEF Scan, EngineTypeOK, Position
  <2>2. order' \in Seq(Position) /\ scan' \in 1..(StepCount + 1) /\ progressed' \in BOOLEAN
    <3>1. scan' \in 1..(StepCount + 1)
      BY <1>2 DEF Scan, EngineTypeOK
    <3>2. CASE UNCHANGED <<progressed, order>>
      BY <3>1, <3>2 DEF EngineTypeOK
    <3>3. CASE progressed' = TRUE /\ order' = Append(order, scan)
      BY <2>1, <3>1, <3>3 DEF EngineTypeOK
    <3> QED BY <1>2, <3>2, <3>3 DEF Scan
  <2> QED BY <1>2, <2>2 DEF Scan, Unstarted, orderVars, walkVars, handVars, givenVars, EngineTypeOK
<1>3. CASE NextPass
  <2>1. scan' \in 1..(StepCount + 1) /\ progressed' \in BOOLEAN /\ at' \in {"ordering", "refused"}
    <3>1. CASE progressed
      <4>1. at' = "ordering" /\ scan' = 1 /\ progressed' = FALSE
        BY <1>3, <3>1 DEF NextPass
      <4>2. scan' \in 1..(StepCount + 1)
        BY <4>1
      <4>3. progressed' \in BOOLEAN
        BY <4>1
      <4> QED BY <4>1, <4>2, <4>3
    <3>2. CASE ~ progressed
      <4>1. at' = "refused" /\ scan' = scan /\ progressed' = progressed
        BY <1>3, <3>2 DEF NextPass
      <4>2. scan \in 1..(StepCount + 1) /\ progressed \in BOOLEAN
        BY DEF EngineTypeOK
      <4> QED BY <4>1, <4>2
    <3> QED BY <3>1, <3>2
  <2> QED BY <1>3, <2>1 DEF NextPass, Unstarted, walkVars, handVars, givenVars, EngineTypeOK
<1>4. CASE Begin
  <2>1. ledger' \in Ledger
    <3>1. CASE UNCHANGED ledger
      BY <3>1 DEF EngineTypeOK
    <3>2. ASSUME NEW r \in {world, Blind},
                 ledger' = [ledger EXCEPT !.before = r, !.last = r, !.blinded = (r = Blind)]
          PROVE  ledger' \in Ledger
      <4>1. r \in Measured /\ ledger \in Ledger /\ (r = Blind) \in BOOLEAN
        BY DEF EngineTypeOK, Measured
      <4> QED BY <3>2, <4>1 DEF Ledger
    <3> QED BY <1>4, <3>1, <3>2 DEF Begin
  <2> QED BY <1>4, <2>1 DEF Begin, orderVars, walkVars, handVars, givenVars, EngineTypeOK
<1>5. CASE NotRun
  <2>1. PICK s \in {"pending", "skipped"} : Settle(s)
    BY <1>5 DEF NotRun
  <2>2. pos <= StepCount /\ Len(order) = StepCount
    BY <1>5 DEF NotRun, Walking, HandShape
  <2>3. s \in Status
    BY DEF Status
  <2> QED BY <1>5, <2>1, <2>2, <2>3, SettleTyped
          DEF NotRun, orderVars, handVars, givenVars, EngineTypeOK
<1>6. CASE StartStep
  BY <1>6 DEF StartStep, Untold, orderVars, walkVars, givenVars, EngineTypeOK, Status
<1>7. CASE Unbuilt
  BY <1>7 DEF Unbuilt, Untold, orderVars, walkVars, givenVars, EngineTypeOK, Status
<1>8. ASSUME NEW a \in Answer, Attempt(a) PROVE EngineTypeOK'
  <2>1. Hand \in Position
    BY <1>8, HandType DEF Attempt, HandShape, InHand
  <2>2. status' \in Status /\ at' \in {"waiting", "judging"}
    BY <1>8 DEF Attempt, Answer, Status, Broken
  <2>3. PICK n \in 0..1 :
          /\ world + n <= MaxMoves /\ world' = world + n
          /\ ledger' = [ledger EXCEPT !.wrote[Hand] = @ + n,
               !.quiet = @ /\ (n = 0 \/ plan[Hand].kind # "http" \/ plan[Hand].method = "writes")]
    <3>1. PICK n \in (IF "state" \in wired THEN 0..1 ELSE {0}) :
            /\ world + n <= MaxMoves /\ world' = world + n
            /\ ledger' = [ledger EXCEPT !.wrote[Hand] = @ + n,
                 !.quiet = @ /\ (n = 0 \/ plan[Hand].kind # "http" \/ plan[Hand].method = "writes")]
      BY <1>8 DEF Attempt
    <3>2. n \in 0..1
      BY <3>1
    <3> QED BY <3>1, <3>2
  <2>4. world' \in 0..MaxMoves
    BY <2>3 DEF EngineTypeOK
  <2>5. ledger' \in Ledger
    <3> DEFINE q == ledger.quiet /\ (n = 0 \/ plan[Hand].kind # "http" \/ plan[Hand].method = "writes")
               w == [ledger.wrote EXCEPT ![Hand] = @ + n]
    <3>1. ledger \in Ledger
      BY DEF EngineTypeOK
    <3>2. w \in [Position -> Nat] /\ q \in BOOLEAN
      BY <2>1, <3>1 DEF Ledger
    <3>3. ledger' = [ledger EXCEPT !.wrote = w, !.quiet = q]
      BY <2>3, <3>1 DEF Ledger
    <3> HIDE DEF w, q
    <3> QED BY <3>1, <3>2, <3>3 DEF Ledger
  <2>6. sent' \subseteq Position
    BY <1>8, <2>1 DEF Attempt, EngineTypeOK
  <2> QED BY <1>8, <2>2, <2>4, <2>5, <2>6
          DEF Attempt, Untold, orderVars, walkVars, givenVars, EngineTypeOK
<1>9. CASE WaitForNext
  <2>1. try' \in 0..MaxTries
    BY <1>9 DEF WaitForNext, HandShape, EngineTypeOK
  <2> QED BY <1>9, <2>1
          DEF WaitForNext, Untold, orderVars, walkVars, givenVars, EngineTypeOK, Status
<1>10. CASE Repair
  <2>1. Hand \in Position
    BY <1>10, HandType DEF Repair, HandShape, InHand
  <2>2. asked' \in 0..RepairAttempts /\ spent' \in 0..RepairBudget
    BY <1>10 DEF Repair, MayAsk, EngineTypeOK
  <2>3. step' \in [Position -> StepDef] /\ try' \in 0..MaxTries /\ at' \in {"measuring", "trying"}
    BY <1>10, <2>1, FixesTyped DEF Repair, EngineTypeOK
  <2> QED BY <1>10, <2>2, <2>3 DEF Repair, Untold, orderVars, walkVars, givenVars, EngineTypeOK
<1>11. CASE LeaveAsItIs
  BY <1>11 DEF LeaveAsItIs, Untold, orderVars, walkVars, handVars, givenVars, EngineTypeOK
<1>12. CASE Report
  <2>1. Len(order) = StepCount /\ pos <= StepCount /\ status \in Status
    BY <1>12 DEF Report, HandShape, InHand, EngineTypeOK
  <2>2. Hand \in Position
    BY <2>1, HandType
  <2>3. ledger' \in Ledger
    <3>1. ledger \in Ledger /\ world \in 0..MaxMoves
      BY DEF EngineTypeOK
    <3>2. CASE UNCHANGED ledger
      BY <3>1, <3>2
    <3>3. ASSUME NEW r \in {world, Blind}, Measure(r) PROVE ledger' \in Ledger
      <4>1. r \in Measured
        BY <3>1, <3>3 DEF Measured
      <4>2. CASE r = Blind
        BY <3>1, <3>3, <4>2 DEF Measure, Ledger
      <4>3. CASE r # Blind
        <5> DEFINE v == [ledger.moved EXCEPT ![Hand] = Diff(ledger.last, r)]
        <5>1. Diff(ledger.last, r) \in Int
          BY <3>1, <4>1 DEF Diff, Ledger, Measured, Blind
        <5>2. v \in [Position -> Int]
          BY <2>2, <3>1, <5>1 DEF Ledger
        <5>3. ledger' = [ledger EXCEPT !.moved = v, !.last = r]
          BY <3>1, <3>3, <4>3 DEF Measure, Ledger
        <5> HIDE DEF v
        <5> QED BY <3>1, <4>1, <5>2, <5>3 DEF Ledger
      <4> QED BY <4>2, <4>3
    <3> QED BY <1>12, <3>2, <3>3 DEF Report
  <2> QED BY <1>12, <2>1, <2>3, SettleTyped
          DEF Report, orderVars, handVars, givenVars, EngineTypeOK
<1>13. CASE Finish
  <2>1. verdict' \in {"passed", "failed", "error"}
    BY <1>13 DEF Finish, StatusOf
  <2> QED BY <1>13, <2>1 DEF Finish, orderVars, walkVars, handVars, givenVars, EngineTypeOK
<1>14. CASE Cancel
  BY <1>14 DEF Cancel, orderVars, walkVars, handVars, givenVars, EngineTypeOK
<1>15. CASE UNCHANGED vars
  BY <1>15 DEF vars, orderVars, walkVars, handVars, givenVars, EngineTypeOK
<1> QED BY <1>1, <1>2, <1>3, <1>4, <1>5, <1>6, <1>7, <1>8, <1>9, <1>10, <1>11, <1>12, <1>13,
           <1>14, <1>15 DEF Next, Advance

-----------------------------------------------------------------------------
(* The given never changes, and the shape of the walk is kept.             *)

LEMMA GivenStays ==
  ASSUME [Next]_vars PROVE plan' = plan /\ wired' = wired
<1>1. CASE Load \/ Scan \/ NextPass \/ Begin
  BY <1>1 DEF Load, Scan, NextPass, Begin, Unstarted, givenVars
<1>2. CASE NotRun \/ Report \/ Finish \/ Cancel
  BY <1>2 DEF NotRun, Report, Finish, Cancel, givenVars
<1>3. CASE StartStep \/ Unbuilt \/ WaitForNext \/ Repair \/ LeaveAsItIs \/ \E a \in Answer : Attempt(a)
  BY <1>3 DEF StartStep, Unbuilt, WaitForNext, Repair, LeaveAsItIs, Attempt, Untold, givenVars
<1>4. CASE UNCHANGED vars
  BY <1>4 DEF vars, givenVars
<1> QED BY <1>1, <1>2, <1>3, <1>4 DEF Next, Advance

LEMMA HandShapeKept ==
  ASSUME EngineTypeOK, HandShape, [Next]_vars PROVE HandShape'
<1> USE LimitsAssumption DEF HandShape, InHand
<1>1. CASE Load
  BY <1>1 DEF Load
<1>2. CASE Scan
  BY <1>2 DEF Scan
<1>3. CASE NextPass
  BY <1>3 DEF NextPass
<1>4. CASE Begin
  BY <1>4 DEF Begin, orderVars
<1>5. CASE NotRun
  BY <1>5 DEF NotRun, Walking, Settle, orderVars
<1>6. CASE StartStep
  BY <1>6 DEF StartStep, Walking, Untold, orderVars, walkVars
<1>7. CASE Unbuilt
  BY <1>7 DEF Unbuilt, Untold, orderVars, walkVars
<1>8. ASSUME NEW a \in Answer, Attempt(a) PROVE HandShape'
  <2>1. Hand \in Position
    BY <1>8, HandType DEF Attempt
  <2>2. step[Hand].tries \in 1..MaxTries /\ try \in 0..MaxTries
    BY <2>1 DEF EngineTypeOK, StepDef
  <2>3. at' = "waiting" => try < step[Hand].tries /\ try' = try
    BY <1>8 DEF Attempt
  <2>4. at' = "waiting" => try' < MaxTries
    BY <2>2, <2>3
  <2>5. at' \in {"waiting", "judging"}
    BY <1>8 DEF Attempt
  <2> QED BY <1>8, <2>4, <2>5 DEF Attempt, Untold, orderVars, walkVars
<1>9. CASE WaitForNext
  BY <1>9 DEF WaitForNext, Untold, orderVars, walkVars
<1>10. CASE Repair
  BY <1>10 DEF Repair, Untold, orderVars, walkVars
<1>11. CASE LeaveAsItIs
  BY <1>11 DEF LeaveAsItIs, Untold, orderVars, walkVars
<1>12. CASE Report
  BY <1>12 DEF Report, Settle, orderVars
<1>13. CASE Finish
  BY <1>13 DEF Finish, orderVars
<1>14. CASE Cancel
  BY <1>14 DEF Cancel, orderVars, walkVars, handVars
<1>15. CASE UNCHANGED vars
  BY <1>15 DEF vars, orderVars, walkVars, handVars
<1> QED BY <1>1, <1>2, <1>3, <1>4, <1>5, <1>6, <1>7, <1>8, <1>9, <1>10, <1>11, <1>12, <1>13,
           <1>14, <1>15 DEF Next, Advance

-----------------------------------------------------------------------------
(* The order.                                                              *)

\* Nothing is in the order twice.
OrderDistinct == \A k, l \in 1..Len(order) : order[k] = order[l] => k = l

\* What a step needs is in the order before it.
NeedsFirst ==
  \A k \in 1..Len(order) : \A d \in plan[order[k]].needs :
    \E j \in 1..Len(order) : j < k /\ plan[order[j]].id = d

\* No step of a circle is ever placed.
NoCircle == \A U \in SUBSET Position : Circular(U) => U \cap Placed = {}

\* What a pass without progress has passed over is placed or not ready.
PassKnows == ~ progressed => \A i \in Position : i < scan => i \in Placed \/ ~ Ready(i)

\* When each of these was established.
OrderInv ==
  /\ at \notin {"loading", "refused"} => Valid
  /\ at = "loading" => order = <<>> /\ scan = 1
  /\ OrderDistinct /\ NeedsFirst /\ (Valid => NoCircle)
  /\ at = "ordering" => PassKnows
  /\ at \in {"walking", "done"} \cup InHand => CanRun
  /\ at = "refused" => ~ Valid \/ ~ CanRun \/ Circle

\* The order is all of the plan when it is as long.
LEMMA WholeOrder ==
  ASSUME EngineTypeOK, OrderDistinct
  PROVE  /\ Len(order) = StepCount => Placed = Position
         /\ Len(order) < StepCount => Placed # Position
<1>1. order \in [1..Len(order) -> Position] /\ Len(order) \in Nat
  BY DEF EngineTypeOK
<1>2. IsFiniteSet(Position) /\ Cardinality(Position) = StepCount
  <2>1. StepCount \in Int /\ StepCount >= 1 /\ 1 \in Int
    BY LimitsAssumption
  <2>2. IsFiniteSet(1..StepCount) /\ Cardinality(1..StepCount) = StepCount - 1 + 1
    BY <2>1, FS_Interval
  <2> QED BY <2>1, <2>2 DEF Position
<1>3. IsFiniteSet(1..Len(order)) /\ Cardinality(1..Len(order)) = Len(order)
  <2>1. \A n \in Nat : IsFiniteSet(1..n) /\ Cardinality(1..n) = IF 1 > n THEN 0 ELSE n - 1 + 1
    BY FS_Interval
  <2> QED BY <1>1, <2>1
<1>4. order \in Injection(1..Len(order), Position)
  BY <1>1 DEF OrderDistinct, Injection, IsInjective
<1>5. Cardinality(1..Len(order)) = Cardinality(Position) <=> order \in Surjection(1..Len(order), Position)
  BY <1>2, <1>4, FS_Injection
<1>6. order \in Surjection(1..Len(order), Position) <=> Placed = Position
  <2>1. Placed \subseteq Position
    BY <1>1 DEF Placed
  <2>2. order \in Surjection(1..Len(order), Position)
          <=> \A p \in Position : \E k \in 1..Len(order) : order[k] = p
    BY <1>1 DEF Surjection
  <2>3. Position \subseteq Placed <=> \A p \in Position : \E k \in 1..Len(order) : order[k] = p
    BY DEF Placed
  <2> QED BY <2>1, <2>2, <2>3
<1>7. Len(order) = StepCount <=> Placed = Position
  BY <1>2, <1>3, <1>5, <1>6
<1> QED BY <1>1, <1>7

\* What is placed, and who is ready, when a step is appended.
LEMMA Appended ==
  ASSUME EngineTypeOK, NEW i \in Position, order' = Append(order, i), plan' = plan
  PROVE  /\ Len(order') = Len(order) + 1 /\ order'[Len(order) + 1] = i
         /\ \A k \in 1..Len(order) : order'[k] = order[k]
         /\ Placed' = Placed \cup {i}
<1>1. order \in Seq(Position) /\ Len(order) \in Nat
  BY DEF EngineTypeOK
<1>2. /\ Len(order') = Len(order) + 1 /\ order'[Len(order) + 1] = i
      /\ \A k \in 1..Len(order) : order'[k] = order[k]
  BY <1>1
<1>3. Placed' = Placed \cup {i}
  <2>1. \A p : p \in Placed' <=> p \in Placed \/ p = i
    BY <1>1, <1>2 DEF Placed
  <2> QED BY <2>1
<1> QED BY <1>2, <1>3

\* A step that is placed while it is ready keeps the order an order.
LEMMA ScanKeeps ==
  ASSUME EngineTypeOK, OrderInv, Scan, plan' = plan
  PROVE  OrderInv'
<1>1. /\ at = "ordering" /\ at' = "ordering" /\ Valid /\ Valid' /\ scan \in Position
      /\ Len(order) \in Nat /\ order \in Seq(Position)
  BY DEF Scan, OrderInv, Valid, EngineTypeOK, Position
<1>2. CASE scan \in Placed \/ ~ Ready(scan)
  <2>1. order' = order /\ progressed' = progressed /\ scan' = scan + 1
    BY <1>2 DEF Scan
  <2>2. Placed' = Placed /\ \A i : Ready(i)' <=> Ready(i)
    BY <2>1 DEF Placed, Ready, Done
  <2>3. PassKnows'
    <3> SUFFICES ASSUME ~ progressed, NEW i \in Position, i < scan + 1
                 PROVE  i \in Placed \/ ~ Ready(i)
      BY <2>1, <2>2 DEF PassKnows, Position
    <3>1. CASE i = scan
      BY <1>2, <3>1
    <3>2. CASE i < scan
      BY <1>1, <3>2 DEF OrderInv, PassKnows
    <3> QED BY <1>1, <3>1, <3>2 DEF Position
  <2>4. OrderDistinct' /\ NeedsFirst'
    BY <2>1 DEF OrderInv, OrderDistinct, NeedsFirst
  <2>5. NoCircle'
    BY <1>1, <2>2 DEF OrderInv, NoCircle, Circular, Position
  <2> QED BY <1>1, <2>3, <2>4, <2>5 DEF OrderInv, InHand
<1>3. CASE ~ (scan \in Placed \/ ~ Ready(scan))
  <2>1. order' = Append(order, scan) /\ progressed' = TRUE
    BY <1>3 DEF Scan
  <2>2. /\ Len(order') = Len(order) + 1 /\ order'[Len(order) + 1] = scan
        /\ \A k \in 1..Len(order) : order'[k] = order[k]
        /\ Placed' = Placed \cup {scan}
    BY <1>1, <2>1, Appended
  <2>3. OrderDistinct'
    <3> SUFFICES ASSUME NEW k \in 1..(Len(order) + 1), NEW l \in 1..(Len(order) + 1),
                        order'[k] = order'[l]
                 PROVE  k = l
      BY <2>2 DEF OrderDistinct
    <3>1. \A m \in 1..Len(order) : order'[m] # scan
      BY <1>3, <2>2 DEF Placed
    <3>2. CASE k \in 1..Len(order) /\ l \in 1..Len(order)
      BY <2>2, <3>2 DEF OrderInv, OrderDistinct
    <3>3. CASE k = Len(order) + 1 \/ l = Len(order) + 1
      BY <1>1, <2>2, <3>1, <3>3
    <3> QED BY <1>1, <3>2, <3>3
  <2>4. NeedsFirst'
    <3> SUFFICES ASSUME NEW k \in 1..(Len(order) + 1), NEW d \in plan[order'[k]].needs
                 PROVE  \E j \in 1..(Len(order) + 1) : j < k /\ plan[order'[j]].id = d
      BY <2>2 DEF NeedsFirst
    <3>1. CASE k \in 1..Len(order)
      <4>1. PICK j \in 1..Len(order) : j < k /\ plan[order[j]].id = d
        BY <2>2, <3>1 DEF OrderInv, NeedsFirst
      <4> QED BY <1>1, <2>2, <4>1
    <3>2. CASE k = Len(order) + 1
      <4>1. d \in Done
        BY <1>3, <2>2, <3>2 DEF Ready
      <4>2. PICK j \in 1..Len(order) : plan[order[j]].id = d
        BY <4>1 DEF Done, Placed
      <4> QED BY <1>1, <2>2, <3>2, <4>2
    <3> QED BY <1>1, <3>1, <3>2
  <2>5. NoCircle'
    <3>1. NoCircle /\ plan' = plan
      BY <1>1 DEF OrderInv
    <3>2. ASSUME NEW U \in SUBSET Position, Circular(U), scan \in U PROVE FALSE
      <4>1. PICK j \in U : plan[j].id \in plan[scan].needs
        BY <3>2 DEF Circular
      <4>2. PICK o \in Placed : plan[o].id = plan[j].id
        BY <1>3, <4>1 DEF Ready, Done
      <4>3. o \in Position
        BY <1>1 DEF Placed
      <4>4. o = j
        BY <1>1, <4>2, <4>3 DEF Valid
      <4> QED BY <3>1, <3>2, <4>4 DEF NoCircle
    <3>3. ASSUME NEW U \in SUBSET Position, Circular(U)' PROVE U \cap Placed' = {}
      <4>1. Circular(U)
        BY <3>1, <3>3 DEF Circular
      <4>2. U \cap Placed = {} /\ scan \notin U
        BY <3>1, <3>2, <4>1 DEF NoCircle
      <4> QED BY <2>2, <4>2
    <3> QED BY <3>3 DEF NoCircle, Position
  <2>6. PassKnows'
    BY <2>1 DEF PassKnows
  <2> QED BY <1>1, <2>3, <2>4, <2>5, <2>6 DEF OrderInv, InHand
<1> QED BY <1>2, <1>3

\* A pass that placed nothing and left steps over leaves a circle.
LEMMA StuckIsCircular ==
  ASSUME EngineTypeOK, OrderInv, NextPass, ~ progressed PROVE Circle
<1>1. Valid /\ scan > StepCount /\ Len(order) < StepCount /\ PassKnows
  BY DEF NextPass, OrderInv
<1> DEFINE U == Position \ Placed
<1>2. U # {}
  <2>1. Placed # Position /\ Placed \subseteq Position
    BY <1>1, WholeOrder DEF OrderInv, Placed, EngineTypeOK
  <2> QED BY <2>1
<1>3. ASSUME NEW i \in U PROVE \E j \in U : plan[j].id \in plan[i].needs
  <2>1. ~ Ready(i)
    BY <1>1, <1>3, LimitsAssumption DEF PassKnows, Position, EngineTypeOK
  <2>2. PICK d \in plan[i].needs : d \notin Done
    BY <2>1 DEF Ready
  <2>3. PICK j \in Position : plan[j].id = d
    BY <1>1, <2>2 DEF Valid
  <2>4. j \notin Placed
    BY <2>2, <2>3 DEF Done
  <2> QED BY <2>2, <2>3, <2>4
<1> QED BY <1>2, <1>3 DEF Circle, Circular

\* Where neither the order nor what is known of it changes, the order stays an order.
LEMMA OrderStays ==
  ASSUME OrderInv, plan' = plan, wired' = wired, order' = order,
         at' \notin {"loading", "ordering", "refused"}, at \notin {"loading", "refused"},
         at' \in {"walking", "done"} \cup InHand => CanRun
  PROVE  OrderInv'
<1>1. Placed' = Placed
  BY DEF Placed
<1>2. OrderDistinct' /\ NeedsFirst' /\ (Valid' <=> Valid) /\ (NoCircle' <=> NoCircle) /\ (CanRun' <=> CanRun)
  BY <1>1 DEF OrderInv, OrderDistinct, NeedsFirst, NoCircle, Valid, CanRun, Circular, Position
<1> QED BY <1>2 DEF OrderInv

LEMMA OrderKept ==
  ASSUME EngineTypeOK, OrderInv, [Next]_vars PROVE OrderInv'
<1>0. plan' = plan /\ wired' = wired
  BY GivenStays
<1>1. (Valid' <=> Valid) /\ (CanRun' <=> CanRun) /\ (Circle' <=> Circle)
  BY <1>0 DEF Valid, CanRun, Circle, Circular, Position
<1>2. ASSUME order' = order
      PROVE  /\ OrderDistinct' /\ NeedsFirst' /\ (NoCircle' <=> NoCircle) /\ Placed' = Placed
             /\ progressed' = progressed /\ scan' = scan => (PassKnows' <=> PassKnows)
  <2>1. Placed' = Placed /\ \A i : Ready(i)' <=> Ready(i)
    BY <1>0, <1>2 DEF Placed, Ready, Done
  <2> QED BY <1>0, <1>2, <2>1
          DEF OrderInv, OrderDistinct, NeedsFirst, NoCircle, Circular, PassKnows, Position
<1>3. CASE Load
  <2>1. order' = order /\ scan' = 1 /\ at' = IF Valid THEN "ordering" ELSE "refused"
    BY <1>3 DEF Load, orderVars, OrderInv
  <2>2. PassKnows'
    BY <2>1 DEF PassKnows, Position
  <2> QED BY <1>1, <1>2, <2>1, <2>2 DEF OrderInv, InHand
<1>4. CASE Scan
  BY <1>0, <1>4, ScanKeeps
<1>5. CASE NextPass
  <2>1. order' = order /\ at = "ordering"
    BY <1>5 DEF NextPass
  <2>2. CASE progressed
    <3>1. at' = "ordering" /\ scan' = 1
      BY <1>5, <2>2 DEF NextPass
    <3>2. PassKnows'
      BY <3>1 DEF PassKnows, Position
    <3> QED BY <1>1, <1>2, <2>1, <3>1, <3>2 DEF OrderInv, InHand
  <2>3. CASE ~ progressed
    <3>1. at' = "refused" /\ Circle
      BY <1>5, <2>3, StuckIsCircular DEF NextPass
    <3> QED BY <1>1, <1>2, <2>1, <3>1 DEF OrderInv, InHand
  <2> QED BY <2>2, <2>3
<1>6. CASE Begin
  <2>1. order' = order /\ at = "ordering" /\ ((at' = "refused" /\ ~ CanRun) \/ (at' = "walking" /\ CanRun))
    BY <1>6 DEF Begin, orderVars
  <2> QED BY <1>1, <1>2, <2>1 DEF OrderInv, InHand
<1>7. CASE NotRun \/ StartStep
  <2>1. order' = order /\ at = "walking" /\ at' \in {"walking", "trying"}
    BY <1>7 DEF NotRun, StartStep, Walking, Settle, Untold, orderVars
  <2> QED BY <1>0, <2>1, OrderStays DEF OrderInv
<1>8. CASE Unbuilt \/ WaitForNext \/ Repair \/ LeaveAsItIs \/ \E a \in Answer : Attempt(a)
  <2>1. order' = order /\ at \in InHand /\ at' \in InHand
    BY <1>8 DEF Unbuilt, WaitForNext, Repair, LeaveAsItIs, Attempt, Untold, orderVars, InHand
  <2> QED BY <1>0, <2>1, OrderStays DEF OrderInv, InHand
<1>9. CASE Report
  <2>1. order' = order /\ at \in InHand /\ at' = "walking"
    BY <1>9 DEF Report, Settle, orderVars, InHand
  <2> QED BY <1>0, <2>1, OrderStays DEF OrderInv, InHand
<1>10. CASE Finish
  <2>1. order' = order /\ at = "walking" /\ at' = "done"
    BY <1>10 DEF Finish, orderVars
  <2> QED BY <1>0, <2>1, OrderStays DEF OrderInv
<1>11. CASE Cancel \/ UNCHANGED vars
  <2>1. order' = order /\ at' = at /\ scan' = scan /\ progressed' = progressed
    BY <1>11 DEF Cancel, orderVars, vars
  <2> QED BY <1>1, <1>2, <2>1 DEF OrderInv
<1> QED BY <1>3, <1>4, <1>5, <1>6, <1>7, <1>8, <1>9, <1>10, <1>11 DEF Next, Advance

-----------------------------------------------------------------------------
(* The walk.                                                               *)

\* The results are those of the order so far.
Along ==
  /\ at \in Early => pos = 1 /\ result = <<>> /\ sent = {} /\ ~ aborted /\ \A d \in Id : settled[d] = Unset
  /\ Len(result) = pos - 1
  /\ \A k \in 1..Len(result) : result[k].step = order[k]
  /\ at = "done" => pos = StepCount + 1

\* What is settled is what was told.
SettledAsTold ==
  /\ \A k \in 1..Len(result) : settled[plan[order[k]].id] = result[k].status
  /\ \A d \in Id : settled[d] # Unset => \E k \in 1..Len(result) : plan[order[k]].id = d

\* A step is in hand only when it may run.
InHandMayRun == at \in InHand => ~ aborted /\ ~ Blocked(Hand)

\* What was executed has been told or is in hand.
SentIsPast ==
  \A i \in sent : (\E k \in 1..Len(result) : order[k] = i) \/ (at \in InHand /\ i = Hand)

\* What is told behind a broken abort step is pending and was not executed.
AbortSilences ==
  /\ \A k \in 1..Len(result) :
       result[k].status \in Broken /\ plan[order[k]].onFailure = "abort" => aborted
  /\ \A k, l \in 1..Len(result) :
       (k < l /\ result[k].status \in Broken /\ plan[order[k]].onFailure = "abort")
         => result[l].status = "pending" /\ order[l] \notin sent

\* Something broke, or the run was cancelled.
Blamed == cancelled \/ \E k \in 1..Len(result) : result[k].status \in Broken

\* What did not pass has a cause among what was told; a settled status is one of three.
HasCause ==
  /\ aborted => Blamed
  /\ \A k \in 1..Len(result) : result[k].status # "passed" => Blamed
  /\ at \in {"judging", "waiting", "measuring"} => status \in {"passed", "failed", "error"}
  /\ verdict # Unset => at = "done"
  /\ at = "done" => verdict = StatusOf

WalkInv ==
  /\ Along /\ SettledAsTold /\ InHandMayRun /\ SentIsPast /\ RunsAfterItsNeeds
  /\ AbortSilences /\ HasCause

Shape == EngineTypeOK /\ HandShape /\ OrderInv

\* The step in hand has not been settled, nor any other of its id.
LEMMA HandUnsettled ==
  ASSUME Shape, Along, SettledAsTold, at = "walking" \/ at \in InHand, pos <= StepCount
  PROVE  /\ Hand \in Position /\ settled[plan[Hand].id] = Unset
         /\ \A k \in 1..Len(result) : order[k] # Hand /\ plan[order[k]].id # plan[Hand].id
<1>1. /\ Len(order) = StepCount /\ Valid /\ OrderDistinct /\ Len(result) = pos - 1
      /\ pos \in 1..Len(order) /\ order \in Seq(Position)
  BY LimitsAssumption DEF Shape, HandShape, OrderInv, Along, InHand, EngineTypeOK
<1>2. Hand \in Position /\ \A k \in 1..Len(result) : order[k] \in Position /\ order[k] # Hand
  BY <1>1 DEF Hand, OrderDistinct
<1>3. \A k \in 1..Len(result) : plan[order[k]].id # plan[Hand].id
  BY <1>1, <1>2 DEF Valid
<1>4. plan[Hand].id \in Id
  BY <1>2 DEF Shape, EngineTypeOK, StepDef
<1> QED BY <1>2, <1>3, <1>4 DEF SettledAsTold

\* What Settle leaves of the results and of what is settled.
LEMMA SettleAdds ==
  ASSUME Shape, Along, SettledAsTold, at = "walking" \/ at \in InHand, pos <= StepCount,
         NEW s \in Status, Settle(s), plan' = plan, order' = order
  PROVE  /\ Len(result') = pos /\ Len(result) = pos - 1 /\ pos' = pos + 1 /\ pos \in Nat \ {0}
         /\ result'[pos] = [step |-> order[pos], status |-> s]
         /\ \A k \in 1..Len(result) : result'[k] = result[k]
         /\ \A d \in Id : settled[d] # Unset => settled'[d] = settled[d]
         /\ settled'[plan[Hand].id] = s
         /\ \A d \in Id : settled'[d] # Unset => settled[d] # Unset \/ d = plan[Hand].id
<1>1. Hand \in Position /\ settled[plan[Hand].id] = Unset /\ plan[Hand].id \in Id
  BY HandUnsettled DEF Shape, EngineTypeOK, StepDef
<1>2. result \in Seq([step: Position, status: Status]) /\ Len(result) = pos - 1 /\ pos \in Nat \ {0}
  BY LimitsAssumption DEF Shape, EngineTypeOK, Along
<1>3. result' = Append(result, [step |-> order[pos], status |-> s]) /\ pos' = pos + 1
  BY DEF Settle, Hand
<1>4. settled' = [settled EXCEPT ![plan[Hand].id] = s] /\ settled \in [Id -> Status \cup {Unset}]
  BY DEF Settle, Shape, EngineTypeOK
<1> QED BY <1>1, <1>2, <1>3, <1>4

\* A step settled by NotRun or Report keeps the results what they were and adds its own.
LEMMA SettleKeeps ==
  ASSUME Shape, WalkInv, at = "walking" \/ at \in InHand, pos <= StepCount,
         NEW s \in Status, Settle(s), plan' = plan, order' = order, sent' = sent
  PROVE  Along' /\ SettledAsTold' /\ InHandMayRun' /\ SentIsPast' /\ RunsAfterItsNeeds'
<1>0. Along /\ SettledAsTold
  BY DEF WalkInv
<1>1. /\ Len(result') = pos /\ Len(result) = pos - 1 /\ pos' = pos + 1 /\ pos \in Nat \ {0}
      /\ result'[pos] = [step |-> order[pos], status |-> s]
      /\ \A k \in 1..Len(result) : result'[k] = result[k]
      /\ \A d \in Id : settled[d] # Unset => settled'[d] = settled[d]
      /\ settled'[plan[Hand].id] = s
      /\ \A d \in Id : settled'[d] # Unset => settled[d] # Unset \/ d = plan[Hand].id
  BY <1>0, SettleAdds
<1>2. at' = "walking"
  BY DEF Settle
<1>3. Along'
  BY <1>0, <1>1, <1>2 DEF Along, Early
<1>4. \A i \in Position : plan[i].id \in Id /\ plan[i].needs \subseteq Id
  BY DEF Shape, EngineTypeOK, StepDef
<1>5. \A k \in 1..Len(order) : order[k] \in Position
  BY DEF Shape, EngineTypeOK
<1>6. Len(order) = StepCount
  BY DEF Shape, HandShape
<1>7. SettledAsTold'
  <2>1. ASSUME NEW k \in 1..pos PROVE settled'[plan[order[k]].id] = result'[k].status
    <3>1. CASE k = pos
      BY <1>1, <3>1 DEF Hand
    <3>2. CASE k \in 1..Len(result)
      <4>0. result \in Seq([step: Position, status: Status])
        BY DEF Shape, EngineTypeOK
      <4>5. \A S : result \in Seq(S) => result[k] \in S
        BY <3>2
      <4>4. result[k] \in [step: Position, status: Status]
        BY <4>0, <4>5
      <4>1. result[k].status \in Status
        BY <4>4
      <4>3. settled[plan[order[k]].id] = result[k].status /\ settled[plan[order[k]].id] # Unset
        BY <1>0, <3>2, <4>1 DEF SettledAsTold, Status, Unset
      <4>2. plan[order[k]].id \in Id
        BY <1>1, <1>4, <1>5, <1>6, <3>2
      <4> QED BY <1>1, <3>2, <4>2, <4>3
    <3> QED BY <1>1, <3>1, <3>2
  <2>2. ASSUME NEW d \in Id, settled'[d] # Unset PROVE \E k \in 1..pos : plan[order[k]].id = d
    <3>1. CASE settled[d] # Unset
      <4>1. PICK k \in 1..Len(result) : plan[order[k]].id = d
        BY <1>0, <3>1 DEF SettledAsTold
      <4> QED BY <1>1, <4>1
    <3>2. CASE d = plan[Hand].id
      BY <1>1, <3>2 DEF Hand
    <3> QED BY <1>1, <2>2, <3>1, <3>2
  <2> QED BY <1>1, <2>1, <2>2 DEF SettledAsTold
<1>8. InHandMayRun'
  BY <1>2 DEF InHandMayRun, InHand
<1>9. SentIsPast'
  <2> SUFFICES ASSUME NEW i \in sent PROVE \E k \in 1..pos : order[k] = i
    BY <1>1 DEF SentIsPast
  <2>1. CASE i = Hand
    BY <1>1, <2>1 DEF Hand
  <2>2. CASE \E k \in 1..Len(result) : order[k] = i
    BY <1>1, <2>2
  <2> QED BY <2>1, <2>2 DEF WalkInv, SentIsPast
<1>10. RunsAfterItsNeeds'
  <2> SUFFICES ASSUME NEW i \in sent, NEW d \in plan[i].needs PROVE settled'[d] = "passed"
    BY DEF RunsAfterItsNeeds
  <2>1. settled[d] = "passed" /\ d \in Id
    BY <1>4 DEF WalkInv, RunsAfterItsNeeds, Shape, EngineTypeOK
  <2> QED BY <1>1, <2>1 DEF Unset
<1> QED BY <1>3, <1>7, <1>8, <1>9, <1>10

\* A step settled behind an abort is pending, and one that aborts is remembered.
LEMMA SettleSilences ==
  ASSUME Shape, WalkInv, at = "walking" \/ at \in InHand, pos <= StepCount,
         NEW s \in Status, Settle(s), plan' = plan, order' = order, sent' = sent,
         aborted => s = "pending", aborted => at = "walking"
  PROVE  AbortSilences'
<1>0. Along /\ SettledAsTold /\ AbortSilences
  BY DEF WalkInv
<1>1. /\ Len(result') = pos /\ Len(result) = pos - 1 /\ pos \in Nat \ {0}
      /\ result'[pos] = [step |-> order[pos], status |-> s]
      /\ \A k \in 1..Len(result) : result'[k] = result[k]
  BY <1>0, SettleAdds
<1>2. aborted' = (aborted \/ (plan[Hand].onFailure = "abort" /\ s \in Broken) \/ cancelled)
  BY DEF Settle, AbortsAfter
<1>3. ASSUME NEW k \in 1..pos, result'[k].status \in Broken, plan[order[k]].onFailure = "abort"
      PROVE  aborted'
  <2>1. CASE k = pos
    <3>1. plan[Hand].onFailure = "abort" /\ s \in Broken
      BY <1>1, <1>3, <2>1 DEF Hand
    <3> QED BY <1>2, <3>1
  <2>2. CASE k \in 1..Len(result)
    BY <1>0, <1>1, <1>2, <1>3, <2>2 DEF AbortSilences
  <2> QED BY <1>1, <2>1, <2>2
<1>4. ASSUME NEW k \in 1..pos, NEW l \in 1..pos, k < l, result'[k].status \in Broken,
             plan[order[k]].onFailure = "abort"
      PROVE  result'[l].status = "pending" /\ order[l] \notin sent
  <2>1. k \in 1..Len(result) /\ result'[k] = result[k]
    BY <1>1, <1>4
  <2>2. aborted
    BY <1>0, <1>4, <2>1 DEF AbortSilences
  <2>3. CASE l = pos
    <3>1. s = "pending" /\ at = "walking" /\ order[l] = Hand
      BY <2>2, <2>3 DEF Hand
    <3>2. Hand \notin sent
      <4>1. \A m \in 1..Len(result) : order[m] # Hand
        BY <1>0, HandUnsettled
      <4> QED BY <3>1, <4>1 DEF WalkInv, SentIsPast, InHand
    <3> QED BY <1>1, <2>3, <3>1, <3>2
  <2>4. CASE l \in 1..Len(result)
    BY <1>0, <1>1, <1>4, <2>1, <2>4 DEF AbortSilences
  <2> QED BY <1>1, <2>3, <2>4
<1> QED BY <1>1, <1>3, <1>4 DEF AbortSilences

\* A step that is settled as something other than passed has a cause.
LEMMA SettleBlames ==
  ASSUME Shape, WalkInv, at = "walking" \/ at \in InHand, pos <= StepCount,
         NEW s \in Status, Settle(s), plan' = plan, order' = order, cancelled' = cancelled,
         verdict' = verdict, s \in {"passed", "failed", "error"} \/ Blamed
  PROVE  HasCause'
<1>0. Along /\ SettledAsTold /\ HasCause
  BY DEF WalkInv
<1>1. /\ Len(result') = pos /\ Len(result) = pos - 1 /\ pos \in Nat \ {0}
      /\ result'[pos] = [step |-> order[pos], status |-> s]
      /\ \A k \in 1..Len(result) : result'[k] = result[k]
  BY <1>0, SettleAdds
<1>2. Blamed => Blamed'
  BY <1>1 DEF Blamed
<1>3. s \in Broken => Blamed'
  BY <1>1 DEF Blamed
<1>4. aborted' => Blamed'
  <2>1. aborted' = (aborted \/ (plan[Hand].onFailure = "abort" /\ s \in Broken) \/ cancelled)
    BY DEF Settle, AbortsAfter
  <2>2. cancelled => Blamed
    BY DEF Blamed
  <2> QED BY <1>0, <1>2, <1>3, <2>1, <2>2 DEF HasCause
<1>5. ASSUME NEW k \in 1..pos, result'[k].status # "passed" PROVE Blamed'
  <2>1. CASE k = pos
    BY <1>1, <1>2, <1>3, <1>5, <2>1 DEF Broken
  <2>2. CASE k \in 1..Len(result)
    BY <1>0, <1>1, <1>2, <1>5, <2>2 DEF HasCause
  <2> QED BY <1>1, <2>1, <2>2
<1>6. at' = "walking" /\ at # "done"
  BY DEF Settle, InHand
<1> QED BY <1>0, <1>1, <1>4, <1>5, <1>6 DEF HasCause

\* A step that a dependency blocks has a cause: the dependency was told before it.
LEMMA BlockedIsBlamed ==
  ASSUME Shape, WalkInv, at = "walking", pos <= StepCount, Blocked(Hand) PROVE Blamed
<1>1. /\ Len(order) = StepCount /\ NeedsFirst /\ Len(result) = pos - 1 /\ pos \in 1..Len(order)
  BY LimitsAssumption DEF Shape, HandShape, OrderInv, WalkInv, Along, EngineTypeOK
<1>2. PICK d \in plan[order[pos]].needs : settled[d] # "passed"
  BY DEF Blocked, Hand
<1>3. PICK j \in 1..Len(order) : j < pos /\ plan[order[j]].id = d
  BY <1>1, <1>2 DEF NeedsFirst
<1>4. j \in 1..Len(result)
  BY <1>1, <1>3
<1>5. result[j].status # "passed"
  BY <1>2, <1>3, <1>4 DEF WalkInv, SettledAsTold
<1> QED BY <1>4, <1>5 DEF WalkInv, HasCause

\* While a step is in hand nothing of the walk changes.
LEMMA HandKeeps ==
  ASSUME Shape, WalkInv, at \in InHand \/ (at = "walking" /\ ~ aborted /\ ~ Blocked(Hand)),
         at' \in InHand, plan' = plan, order' = order, pos' = pos, result' = result,
         settled' = settled, aborted' = aborted, cancelled' = cancelled, verdict' = verdict,
         pos <= StepCount, sent' = sent \/ sent' = sent \cup {Hand},
         at' = "trying" \/ status' \in {"passed", "failed", "error"}
  PROVE  WalkInv'
<1>0. Along /\ SettledAsTold /\ ~ aborted /\ ~ Blocked(Hand) /\ Hand' = Hand
  BY DEF WalkInv, InHandMayRun, Hand
<1>1. Along'
  BY <1>0 DEF Along, Early, InHand
<1>2. SettledAsTold'
  BY <1>0 DEF SettledAsTold
<1>3. InHandMayRun'
  BY <1>0 DEF InHandMayRun, Blocked, Hand
<1>4. SentIsPast'
  BY <1>0 DEF WalkInv, SentIsPast, InHand
<1>5. RunsAfterItsNeeds'
  BY <1>0 DEF WalkInv, RunsAfterItsNeeds, Blocked
<1>6. AbortSilences'
  BY <1>0 DEF WalkInv, AbortSilences
<1>7. HasCause'
  <2>1. Blamed' <=> Blamed
    BY DEF Blamed
  <2> QED BY <1>0, <2>1 DEF WalkInv, HasCause, InHand
<1> QED BY <1>1, <1>2, <1>3, <1>4, <1>5, <1>6, <1>7 DEF WalkInv

\* Before the walk there is nothing to keep.
LEMMA EarlyKeeps ==
  ASSUME WalkInv, at \in Early, at' \in Early \cup {"walking"}, plan' = plan,
         pos' = pos, result' = result, settled' = settled, aborted' = aborted,
         cancelled' = cancelled, verdict' = verdict, sent' = sent
  PROVE  WalkInv'
<1>1. /\ pos = 1 /\ result = <<>> /\ sent = {} /\ ~ aborted /\ Len(result) = 0
      /\ at' \notin InHand \cup {"done"} /\ verdict = Unset /\ \A d \in Id : settled[d] = Unset
  BY DEF WalkInv, Along, Early, InHand, HasCause
<1>2. Along' /\ SettledAsTold' /\ InHandMayRun'
  BY <1>1 DEF Along, SettledAsTold, InHandMayRun
<1>3. SentIsPast' /\ RunsAfterItsNeeds' /\ AbortSilences'
  BY <1>1 DEF SentIsPast, RunsAfterItsNeeds, AbortSilences
<1>4. HasCause'
  BY <1>1 DEF HasCause, InHand
<1> QED BY <1>2, <1>3, <1>4 DEF WalkInv

LEMMA WalkKept ==
  ASSUME Shape, WalkInv, [Next]_vars PROVE WalkInv'
<1>0. plan' = plan
  BY GivenStays
<1>1. CASE Load \/ Scan \/ NextPass \/ Begin
  <2>1. at \in Early /\ at' \in Early \cup {"walking"} /\ UNCHANGED <<walkVars, sent, cancelled, verdict>>
    BY <1>1 DEF Load, Scan, NextPass, Begin, Unstarted, handVars, Early
  <2> QED BY <1>0, <2>1, EarlyKeeps DEF walkVars
<1>2. CASE NotRun
  <2>1. /\ at = "walking" /\ pos <= StepCount
        /\ UNCHANGED <<order, sent, cancelled, verdict>>
    BY <1>2 DEF NotRun, Walking, orderVars, handVars
  <2>2. PICK s \in {"pending", "skipped"} :
          Settle(s) /\ (aborted => s = "pending") /\ (aborted \/ Blocked(Hand))
    BY <1>2 DEF NotRun
  <2>3. Blamed
    BY <2>1, <2>2, BlockedIsBlamed DEF WalkInv, HasCause
  <2>4. s \in Status
    BY DEF Status
  <2> QED BY <1>0, <2>1, <2>2, <2>3, <2>4, SettleKeeps, SettleSilences, SettleBlames DEF WalkInv
<1>3. CASE StartStep
  <2>1. /\ at = "walking" /\ ~ aborted /\ ~ Blocked(Hand) /\ pos <= StepCount /\ at' = "trying"
        /\ UNCHANGED <<order, pos, result, settled, aborted, cancelled, verdict, sent>>
    BY <1>3 DEF StartStep, Walking, Untold, orderVars, walkVars
  <2> QED BY <1>0, <2>1, HandKeeps DEF InHand
<1>4. CASE Unbuilt \/ WaitForNext \/ Repair \/ LeaveAsItIs \/ \E a \in Answer : Attempt(a)
  <2>1. /\ at \in InHand /\ at' \in InHand
        /\ UNCHANGED <<order, pos, result, settled, aborted, cancelled, verdict>>
        /\ sent' = sent \/ sent' = sent \cup {Hand}
    BY <1>4 DEF Unbuilt, WaitForNext, Repair, LeaveAsItIs, Attempt, Untold, orderVars, walkVars,
                handVars, InHand
  <2>2. at' = "trying" \/ status' \in {"passed", "failed", "error"}
    <3>1. CASE Unbuilt
      BY <3>1 DEF Unbuilt
    <3>2. CASE WaitForNext
      BY <3>2 DEF WaitForNext
    <3>3. CASE Repair
      BY <3>3 DEF Repair, MayAsk, Broken
    <3>4. CASE LeaveAsItIs
      BY <3>4 DEF LeaveAsItIs, handVars, WalkInv, HasCause
    <3>5. ASSUME NEW a \in Answer, Attempt(a) PROVE status' \in {"passed", "failed", "error"}
      BY <3>5 DEF Attempt, Answer
    <3> QED BY <1>4, <3>1, <3>2, <3>3, <3>4, <3>5
  <2>3. pos <= StepCount
    BY <2>1 DEF Shape, HandShape
  <2> QED BY <1>0, <2>1, <2>2, <2>3, HandKeeps
<1>5. CASE Report
  <2>1. /\ at \in InHand /\ ~ aborted /\ pos <= StepCount /\ Settle(status)
        /\ UNCHANGED <<order, sent, cancelled, verdict>>
    BY <1>5 DEF Report, orderVars, handVars, InHand, Shape, HandShape, WalkInv, InHandMayRun
  <2>2. status \in {"passed", "failed", "error"} /\ status \in Status
    BY <1>5 DEF Report, WalkInv, HasCause, Status
  <2> QED BY <1>0, <2>1, <2>2, SettleKeeps, SettleSilences, SettleBlames DEF WalkInv
<1>6. CASE Finish
  <2>1. /\ at = "walking" /\ pos = StepCount + 1 /\ at' = "done" /\ verdict' = StatusOf
        /\ UNCHANGED <<order, walkVars, handVars, cancelled>>
    BY <1>6, LimitsAssumption DEF Finish, orderVars, Shape, EngineTypeOK
  <2>2. Along' /\ SettledAsTold' /\ InHandMayRun'
    BY <1>0, <2>1 DEF WalkInv, Along, SettledAsTold, InHandMayRun, walkVars, Early, InHand
  <2>3. SentIsPast'
    BY <2>1 DEF WalkInv, SentIsPast, walkVars, handVars, InHand
  <2>4. RunsAfterItsNeeds' /\ AbortSilences'
    BY <1>0, <2>1 DEF WalkInv, RunsAfterItsNeeds, AbortSilences, walkVars, handVars
  <2>5. HasCause'
    <3>1. (Blamed' <=> Blamed) /\ StatusOf' = StatusOf
      BY <2>1 DEF Blamed, walkVars, StatusOf, Told
    <3> QED BY <2>1, <3>1 DEF WalkInv, HasCause, walkVars
  <2> QED BY <2>2, <2>3, <2>4, <2>5 DEF WalkInv
<1>7. CASE Cancel \/ UNCHANGED vars
  <2>1. /\ UNCHANGED <<at, order, walkVars, handVars, verdict>> /\ (cancelled => cancelled')
    BY <1>7 DEF Cancel, vars, orderVars
  <2>2. Along' /\ SettledAsTold' /\ InHandMayRun' /\ SentIsPast' /\ RunsAfterItsNeeds' /\ AbortSilences'
    BY <1>0, <2>1 DEF WalkInv, Along, SettledAsTold, InHandMayRun, SentIsPast, RunsAfterItsNeeds,
                      AbortSilences, walkVars, handVars, Blocked, Hand
  <2>3. HasCause'
    <3>1. (Blamed => Blamed') /\ StatusOf' = StatusOf
      BY <2>1 DEF Blamed, walkVars, StatusOf, Told
    <3> QED BY <2>1, <3>1 DEF WalkInv, HasCause, walkVars, handVars
  <2> QED BY <2>2, <2>3 DEF WalkInv
<1> QED BY <1>1, <1>2, <1>3, <1>4, <1>5, <1>6, <1>7 DEF Next, Advance

\* The inductive invariant of the walk.
EngineInv == Shape /\ WalkInv

LEMMA EngineInvHolds == Spec => []EngineInv
<1>1. Init => EngineInv
  <2> SUFFICES ASSUME Init PROVE EngineInv
    OBVIOUS
  <2>1. /\ at = "loading" /\ order = <<>> /\ scan = 1 /\ pos = 1 /\ result = <<>> /\ sent = {}
        /\ ~ aborted /\ verdict = Unset /\ \A d \in Id : settled[d] = Unset
    BY DEF Init
  <2>2. HandShape /\ OrderInv
    <3>1. Placed = {}
      BY <2>1 DEF Placed
    <3> QED BY <2>1, <3>1
            DEF HandShape, InHand, OrderInv, OrderDistinct, NeedsFirst, NoCircle
  <2>3. Along /\ SettledAsTold /\ InHandMayRun
    BY <2>1 DEF Along, SettledAsTold, InHandMayRun, InHand
  <2>4. SentIsPast /\ RunsAfterItsNeeds /\ AbortSilences
    BY <2>1 DEF SentIsPast, RunsAfterItsNeeds, AbortSilences
  <2>5. HasCause
    BY <2>1 DEF HasCause
  <2> QED BY <2>2, <2>3, <2>4, <2>5, InitTyped DEF EngineInv, Shape, WalkInv
<1>2. EngineInv /\ [Next]_vars => EngineInv'
  BY TypeKept, HandShapeKept, OrderKept, WalkKept DEF EngineInv, Shape
<1> QED BY <1>1, <1>2, PTL DEF Spec

\* Every variable of the engine keeps to its type, whatever the plan: the budget of repairs
\* is never overspent, no loop runs past its end.
THEOREM EngineTyped == Spec => []EngineTypeOK
<1>1. EngineInv => EngineTypeOK
  BY DEF EngineInv, Shape
<1> QED BY <1>1, EngineInvHolds, PTL

\* A step is executed only when everything it depends on has passed, and that stays so.
THEOREM StepsRunAfterTheirNeeds == Spec => []RunsAfterItsNeeds
<1>1. EngineInv => RunsAfterItsNeeds
  BY DEF EngineInv, WalkInv
<1> QED BY <1>1, EngineInvHolds, PTL

\* Every step is told once, and what is told behind an abort is pending and was not executed.
THEOREM EveryStepToldOnce == Spec => []EachStepToldOnce
<1>1. ASSUME EngineInv PROVE EachStepToldOnce
  <2>1. /\ Along /\ AbortSilences /\ OrderDistinct /\ EngineTypeOK /\ HandShape
        /\ pos \in Nat \ {0}
    BY <1>1, LimitsAssumption DEF EngineInv, Shape, WalkInv, OrderInv, EngineTypeOK
  <2>2. Len(result) <= Len(order) /\ Len(order) \in Nat /\ Len(result) \in Nat
    <3>1. CASE at \in Early
      BY <2>1, <3>1 DEF Along, EngineTypeOK
    <3>2. CASE at \notin Early
      BY <2>1, <3>2, LimitsAssumption DEF Along, HandShape, Early, InHand, EngineTypeOK
    <3> QED BY <3>1, <3>2
  <2>3. \A k, l \in 1..Len(result) : result[k].step = result[l].step => k = l
    BY <2>1, <2>2 DEF Along, OrderDistinct
  <2>4. at = "done" => Len(result) = StepCount
    BY <2>1, LimitsAssumption DEF Along
  <2>5. \A k, l \in 1..Len(result) :
          (k < l /\ result[k].status \in Broken /\ plan[result[k].step].onFailure = "abort")
            => result[l].status = "pending" /\ result[l].step \notin sent
    BY <2>1 DEF Along, AbortSilences
  <2> QED BY <2>3, <2>4, <2>5 DEF EachStepToldOnce
<1> QED BY <1>1, EngineInvHolds, PTL

\* A run that was not cancelled is passed only if every step of it passed: each that did not
\* can be traced to one that broke, or to the cancellation.
THEOREM GreenIsGreen == Spec => []GreenMeansEveryStepPassed
<1>1. ASSUME EngineInv, verdict = "passed", ~ cancelled PROVE Told = {"passed"}
  <2>1. at = "done" /\ StatusOf = "passed" /\ Along /\ HasCause
    BY <1>1 DEF EngineInv, WalkInv, HasCause, Unset
  <2>2. Told \cap Broken = {}
    BY <2>1 DEF StatusOf, Broken
  <2>3. ~ Blamed
    BY <1>1, <2>2 DEF Blamed, Told
  <2>4. \A k \in 1..Len(result) : result[k].status = "passed"
    BY <2>1, <2>3 DEF HasCause
  <2>5. 1 \in 1..Len(result)
    BY <2>1, LimitsAssumption DEF Along
  <2> QED BY <2>4, <2>5 DEF Told
<1> QED BY <1>1, EngineInvHolds, PTL DEF GreenMeansEveryStepPassed

\* A plan is refused for what is wrong with it and run only when nothing is: the passes of
\* Order place every step of a plan exactly when its dependencies make no circle.
THEOREM RefusalsHaveCause == Spec => []RefusedForCause
<1>1. ASSUME EngineInv PROVE RefusedForCause
  <2>1. OrderInv /\ HandShape /\ EngineTypeOK
    BY <1>1 DEF EngineInv, Shape
  <2>2. ASSUME at \notin {"loading", "ordering", "refused"} PROVE ~ Circle
    <3>1. at \in {"walking", "done"} \cup InHand
      BY <2>1, <2>2 DEF EngineTypeOK, InHand
    <3>2. Placed = Position /\ NoCircle
      BY <2>1, <3>1, WholeOrder DEF HandShape, OrderInv, InHand
    <3> QED BY <3>2 DEF Circle, NoCircle
  <2>3. at \notin {"loading", "ordering", "refused"} => Valid /\ CanRun
    BY <2>1 DEF OrderInv, EngineTypeOK, InHand
  <2> QED BY <2>1, <2>2, <2>3 DEF RefusedForCause, OrderInv
<1> QED BY <1>1, EngineInvHolds, PTL

-----------------------------------------------------------------------------
(* The gate of the dashboard's editor.                                     *)

\* A set of naturals that is not empty has a least member.
LEMMA LeastNatural ==
  ASSUME NEW S \in SUBSET Nat, S # {} PROVE \E m \in S : \A k \in S : m <= k
<1> DEFINE R == {ss \in Nat \X Nat : ss[1] < ss[2]}
<1>1. IsWellFoundedOn(R, Nat)
  BY NatLessThanWellFounded DEF OpToRel
<1>2. PICK m \in S : \A k \in S : ~ (<<k, m>> \in R)
  <2> HIDE DEF R
  <2> QED BY <1>1, WFMin
<1>3. ASSUME NEW k \in S PROVE m <= k
  <2>1. <<k, m>> \in Nat \X Nat /\ k \in Nat /\ m \in Nat
    OBVIOUS
  <2>2. ~ (k < m)
    BY <1>2, <2>1
  <2> QED BY <2>1, <2>2
<1> QED BY <1>3

\* What one more pass over the steps places.
Pass(placed) == placed \cup {plan[i].id : i \in {j \in Position : Free(placed, j)}}

\* A function that counts the passes up to n as PlacedAfter does.
PassesTo(n, f) == f = [k \in 0..n |-> IF k = 0 THEN {} ELSE Pass(f[k - 1])]

LEMMA PassesExist ==
  ASSUME NEW n \in Nat PROVE \E f : PassesTo(n, f)
<1> DEFINE Beyond == {k \in Nat : ~ \E f : PassesTo(k, f)}
<1>1. SUFFICES ASSUME Beyond # {} PROVE FALSE
  OBVIOUS
<1>2. PICK m \in Beyond : \A k \in Beyond : m <= k
  BY <1>1, LeastNatural
<1>3. CASE m = 0
  <2> DEFINE f == [k \in 0..0 |-> {}]
  <2>1. f = [k \in 0..0 |-> IF k = 0 THEN {} ELSE Pass(f[k - 1])]
    OBVIOUS
  <2> QED BY <1>2, <1>3, <2>1 DEF PassesTo
<1>4. CASE m # 0
  <2>1. m - 1 \in Nat /\ m - 1 \notin Beyond
    BY <1>2, <1>4
  <2>2. PICK f : PassesTo(m - 1, f)
    BY <2>1
  <2> DEFINE g == [k \in 0..m |-> IF k = m THEN Pass(f[m - 1]) ELSE f[k]]
  <2>3. \A k \in 0..(m - 1) : g[k] = f[k]
    BY <1>2
  <2>4. \A k \in 0..(m - 1) : f[k] = IF k = 0 THEN {} ELSE Pass(f[k - 1])
    BY <2>2 DEF PassesTo
  <2>5. ASSUME NEW k \in 0..m PROVE g[k] = IF k = 0 THEN {} ELSE Pass(g[k - 1])
    <3>1. CASE k = m
      <4>1. g[m] = Pass(f[m - 1]) /\ g[m - 1] = f[m - 1]
        BY <1>2, <1>4, <2>1, <2>3
      <4> QED BY <1>4, <3>1, <4>1
    <3>2. CASE k # m
      <4>1. k \in 0..(m - 1) /\ (k # 0 => k - 1 \in 0..(m - 1))
        BY <1>2, <3>2
      <4> HIDE DEF g
      <4> QED BY <2>3, <2>4, <4>1
    <3> QED BY <3>1, <3>2
  <2>6. g = [k \in 0..m |-> IF k = 0 THEN {} ELSE Pass(g[k - 1])]
    <3>1. g = [k \in 0..m |-> g[k]]
      OBVIOUS
    <3> HIDE DEF g
    <3> QED BY <2>5, <3>1
  <2> QED BY <1>2, <2>6 DEF PassesTo
<1> QED BY <1>3, <1>4

\* PlacedAfter is what its definition says.
LEMMA Passes ==
  /\ PlacedAfter[0] = {}
  /\ \A n \in 1..StepCount : PlacedAfter[n] = Pass(PlacedAfter[n - 1])
<1>0. StepCount \in Nat
  BY LimitsAssumption
<1>1. PICK f : PassesTo(StepCount, f)
  BY <1>0, PassesExist
<1>2. PassesTo(StepCount, PlacedAfter)
  <2>1. PlacedAfter = CHOOSE h : PassesTo(StepCount, h)
    BY DEF PlacedAfter, PassesTo, Pass
  <2> QED BY <1>1, <2>1
<1>3. \A n \in 0..StepCount : PlacedAfter[n] = IF n = 0 THEN {} ELSE Pass(PlacedAfter[n - 1])
  BY <1>2 DEF PassesTo
<1> QED BY <1>0, <1>3

\* A later pass has placed what an earlier one had.
LEMMA PassesGrow ==
  ASSUME NEW i \in 0..StepCount, NEW n \in 0..StepCount, i <= n
  PROVE  PlacedAfter[i] \subseteq PlacedAfter[n]
<1>0. StepCount \in Nat
  BY LimitsAssumption
<1> DEFINE Beyond == {k \in i..StepCount : ~ (PlacedAfter[i] \subseteq PlacedAfter[k])}
<1>1. SUFFICES ASSUME Beyond # {} PROVE FALSE
  BY <1>0
<1>2. Beyond \subseteq Nat
  BY <1>0
<1>3. PICK m \in Beyond : \A k \in Beyond : m <= k
  BY <1>1, <1>2, LeastNatural
<1>4. m # i /\ m \in 1..StepCount /\ m - 1 \in i..StepCount /\ m - 1 \notin Beyond
  BY <1>0, <1>3
<1>5. PlacedAfter[m] = Pass(PlacedAfter[m - 1])
  BY <1>4, Passes
<1> QED BY <1>3, <1>4, <1>5 DEF Pass

\* A step of a circle is never free, so the form's passes never place it.
LEMMA CirclesStayOut ==
  ASSUME Valid, NEW U \in SUBSET Position, Circular(U), NEW n \in 0..StepCount
  PROVE  \A i \in U : plan[i].id \notin PlacedAfter[n]
<1>0. StepCount \in Nat
  BY LimitsAssumption
<1> DEFINE Beyond == {k \in 0..StepCount : \E i \in U : plan[i].id \in PlacedAfter[k]}
<1>1. SUFFICES ASSUME Beyond # {} PROVE FALSE
  OBVIOUS
<1>2. Beyond \subseteq Nat
  BY <1>0
<1>3. PICK m \in Beyond : \A k \in Beyond : m <= k
  BY <1>1, <1>2, LeastNatural
<1>4. m \in 1..StepCount /\ m - 1 \in 0..StepCount /\ m - 1 \notin Beyond
  BY <1>0, <1>3, Passes
<1>5. PlacedAfter[m] = Pass(PlacedAfter[m - 1])
  BY <1>4, Passes
<1>6. PICK i \in U : plan[i].id \in PlacedAfter[m]
  BY <1>3
<1>7. PICK k \in Position : Free(PlacedAfter[m - 1], k) /\ plan[k].id = plan[i].id
  BY <1>4, <1>5, <1>6 DEF Pass
<1>8. k = i
  BY <1>7 DEF Valid
<1>9. PICK j \in U : plan[j].id \in plan[i].needs
  BY DEF Circular
<1>10. plan[j].id # plan[i].id /\ plan[j].id \in Known /\ plan[j].id \notin PlacedAfter[m - 1]
  BY <1>4, <1>9 DEF Valid, Known
<1> QED BY <1>7, <1>8, <1>9, <1>10 DEF Free

\* What stands at a place of the order is placed by the form's pass of that number.
LEMMA OrderIsPlaced ==
  ASSUME EngineTypeOK, NeedsFirst, Len(order) = StepCount
  PROVE  \A k \in 1..StepCount : plan[order[k]].id \in PlacedAfter[k]
<1>0. StepCount \in Nat /\ \A k \in 1..StepCount : order[k] \in Position
  BY LimitsAssumption DEF EngineTypeOK
<1> DEFINE Beyond == {k \in 1..StepCount : plan[order[k]].id \notin PlacedAfter[k]}
<1>1. SUFFICES ASSUME Beyond # {} PROVE FALSE
  OBVIOUS
<1>2. Beyond \subseteq Nat
  BY <1>0
<1>3. PICK m \in Beyond : \A k \in Beyond : m <= k
  BY <1>1, <1>2, LeastNatural
<1>4. m \in 1..StepCount /\ m - 1 \in 0..StepCount
  BY <1>0, <1>3
<1>5. PlacedAfter[m] = Pass(PlacedAfter[m - 1])
  BY <1>4, Passes
<1>6. ASSUME NEW d \in plan[order[m]].needs PROVE d \in PlacedAfter[m - 1]
  <2>1. PICK j \in 1..StepCount : j < m /\ plan[order[j]].id = d
    BY <1>4, <1>6 DEF NeedsFirst
  <2>2. j \in 0..StepCount /\ j <= m - 1 /\ j \notin Beyond
    BY <1>0, <1>3, <1>4, <2>1
  <2>3. PlacedAfter[j] \subseteq PlacedAfter[m - 1]
    BY <1>4, <2>2, PassesGrow
  <2> QED BY <2>1, <2>2, <2>3
<1>7. Free(PlacedAfter[m - 1], order[m]) /\ order[m] \in Position
  BY <1>0, <1>4, <1>6 DEF Free
<1>8. plan[order[m]].id \in PlacedAfter[m]
  BY <1>5, <1>7 DEF Pass
<1> QED BY <1>3, <1>8

\* The two lists of the form that need no passes are Validate's rules.
LEMMA ListsAreTheRules == Valid <=> Twins = {} /\ Dangling = {}
<1>1. Twins = {} <=> \A i, j \in Position : plan[i].id = plan[j].id => i = j
  BY DEF Twins
<1>2. Dangling = {} <=> \A i \in Position : /\ plan[i].id \notin plan[i].needs
                                           /\ plan[i].needs \subseteq Known
  BY DEF Dangling
<1> QED BY <1>1, <1>2 DEF Valid, Known

\* The form of the dashboard and the machine decide alike, for a plan of any length: what
\* the machine orders the form's passes place, and what it refuses they list, unless it is
\* for the means of a run, which the form does not ask about.
THEOREM EditorAndMachineAgree == Spec => []EditorHoldsTheMachinesBar
<1>1. ASSUME EngineInv PROVE EditorHoldsTheMachinesBar
  <2>1. OrderInv /\ HandShape /\ EngineTypeOK /\ StepCount \in Nat
    BY <1>1, LimitsAssumption DEF EngineInv, Shape
  <2>2. ASSUME at = "refused" PROVE ~ EditorAccepts \/ ~ CanRun
    <3>1. CASE ~ Valid
      BY <3>1, ListsAreTheRules DEF EditorAccepts
    <3>2. CASE Valid /\ Circle
      <4>1. PICK U \in (SUBSET Position) \ {{}} : Circular(U)
        BY <3>2 DEF Circle
      <4>2. PICK i \in U : i \in Position
        BY <4>1
      <4>3. plan[i].id \notin PlacedAfter[StepCount]
        BY <2>1, <3>2, <4>1, <4>2, CirclesStayOut
      <4> QED BY <4>2, <4>3 DEF EditorAccepts, CircularSteps
    <3> QED BY <2>1, <2>2, <3>1, <3>2 DEF OrderInv
  <2>3. ASSUME at \notin {"loading", "ordering", "refused"} PROVE EditorAccepts
    <3>1. at \in {"walking", "done"} \cup InHand /\ Valid
      BY <2>1, <2>3 DEF EngineTypeOK, InHand, OrderInv
    <3>2. Len(order) = StepCount /\ Placed = Position
      BY <2>1, <3>1, WholeOrder DEF HandShape, OrderInv, InHand
    <3>3. ASSUME NEW i \in Position PROVE plan[i].id \in PlacedAfter[StepCount]
      <4>1. PICK k \in 1..StepCount : order[k] = i
        BY <3>2, <3>3 DEF Placed
      <4>2. plan[i].id \in PlacedAfter[k]
        BY <2>1, <3>2, <4>1, OrderIsPlaced DEF OrderInv
      <4>3. PlacedAfter[k] \subseteq PlacedAfter[StepCount]
        BY <2>1, <4>1, PassesGrow
      <4> QED BY <4>2, <4>3
    <3> QED BY <3>1, <3>3, ListsAreTheRules DEF EditorAccepts, CircularSteps
  <2> QED BY <2>2, <2>3 DEF EditorHoldsTheMachinesBar
<1> QED BY <1>1, EngineInvHolds, PTL

-----------------------------------------------------------------------------
(* Claims.                                                                 *)

\* What every chain of repairs has kept of a step.
KeptSoFar ==
  \A i \in Position :
    /\ step[i].claim = plan[i].claim /\ step[i].id = plan[i].id
    /\ step[i].needs = plan[i].needs /\ step[i].kind = plan[i].kind
    /\ plan[i].kind # "http" => step[i].target = plan[i].target
    /\ plan[i].kind # "http" /\ Evidence(plan[i]) => step[i].what = plan[i].what

LEMMA KeptKept ==
  ASSUME Shape, KeptSoFar, [Next]_vars PROVE KeptSoFar'
<1>0. plan' = plan
  BY GivenStays
<1>1. CASE UNCHANGED step
  BY <1>0, <1>1 DEF KeptSoFar, Position, Evidence
<1>2. CASE Repair
  <2>1. Hand \in Position
    BY <1>2, HandType DEF Repair, Shape, HandShape, InHand
  <2>2. CASE UNCHANGED step
    BY <1>1, <2>2
  <2>3. ASSUME NEW fix \in Fixes(step[Hand]), Allowed(step[Hand], fix),
               step' = [step EXCEPT ![Hand] = fix]
        PROVE  KeptSoFar'
    <3>1. step \in [Position -> StepDef]
      BY DEF Shape, EngineTypeOK
    <3> SUFFICES ASSUME NEW i \in Position
                 PROVE  /\ step'[i].claim = plan[i].claim /\ step'[i].id = plan[i].id
                        /\ step'[i].needs = plan[i].needs /\ step'[i].kind = plan[i].kind
                        /\ plan[i].kind # "http" => step'[i].target = plan[i].target
                        /\ plan[i].kind # "http" /\ Evidence(plan[i]) => step'[i].what = plan[i].what
      BY <1>0 DEF KeptSoFar, Position, Evidence
    <3>2. CASE i = Hand
      <4>1. step'[i] = fix
        BY <2>1, <2>3, <3>1, <3>2
      <4>2. /\ fix.claim = step[i].claim /\ fix.id = step[i].id /\ fix.needs = step[i].needs
            /\ fix.kind = step[i].kind
            /\ step[i].kind # "http" => fix.target = step[i].target
            /\ step[i].kind # "http" /\ Evidence(step[i]) => fix.what = step[i].what
        BY <2>3, <3>2 DEF Allowed
      <4>3. plan[i].kind # "http" => (Evidence(step[i]) <=> Evidence(plan[i]))
        BY DEF KeptSoFar, Evidence
      <4> QED BY <4>1, <4>2, <4>3 DEF KeptSoFar
    <3>3. CASE i # Hand
      <4>1. step'[i] = step[i]
        BY <2>3, <3>1, <3>3
      <4> QED BY <4>1 DEF KeptSoFar
    <3> QED BY <3>2, <3>3
  <2> QED BY <1>2, <2>2, <2>3 DEF Repair
<1>3. CASE Load \/ Scan \/ NextPass \/ Begin \/ NotRun \/ Report \/ Finish \/ Cancel
  BY <1>1, <1>3 DEF Load, Scan, NextPass, Begin, NotRun, Report, Finish, Cancel, Unstarted, handVars
<1>4. CASE StartStep \/ Unbuilt \/ WaitForNext \/ LeaveAsItIs \/ \E a \in Answer : Attempt(a)
  BY <1>1, <1>4 DEF StartStep, Unbuilt, WaitForNext, LeaveAsItIs, Attempt, handVars
<1>5. CASE UNCHANGED vars
  BY <1>1, <1>5 DEF vars, handVars
<1> QED BY <1>2, <1>3, <1>4, <1>5 DEF Next, Advance

\* Through any chain of repairs, however long and whatever a model proposes, a step keeps its
\* claim and what its claim is read against.
THEOREM RepairsKeepClaims == Spec => []ClaimsKept
<1>1. Init => KeptSoFar
  BY DEF Init, KeptSoFar
<1>2. EngineInv /\ KeptSoFar /\ [Next]_vars => KeptSoFar'
  BY KeptKept DEF EngineInv
<1>3. KeptSoFar => ClaimsKept
  BY DEF KeptSoFar, ClaimsKept
<1> QED BY <1>1, <1>2, <1>3, EngineInvHolds, PTL DEF Spec

-----------------------------------------------------------------------------
(* The ledger.                                                             *)

\* The steps that were told, by the order.
Past == {order[k] : k \in 1..Len(result)}

\* While every reading is had and only what says it writes moves anything, the last reading
\* lags the world by what the step in hand moved.
Balanced ==
  /\ at \in Early => ~ ledger.blinded
  /\ ("state" \in wired /\ ~ ledger.blinded /\ ledger.quiet) =>
       /\ at \in {"walking", "done"} => ledger.last = world
       /\ at \in InHand => ledger.last # Blind /\ world = ledger.last + ledger.wrote[Hand]
       /\ \A i \in Position : i \in Past => ledger.moved[i] = ledger.wrote[i]
       /\ \A i \in Position : i \notin Past /\ ~ (at \in InHand /\ i = Hand) => ledger.wrote[i] = 0
       /\ \A i \in Position : i \notin Past => ledger.moved[i] = 0
       /\ \A i \in Position : ~ Writes(plan[i]) => ledger.wrote[i] = 0

\* The engine keeps the readings of a step it has in hand, or of none.
LEMMA BalanceStays ==
  ASSUME Shape, Balanced, plan' = plan, wired' = wired, order' = order, result' = result,
         pos' = pos, world' = world, ledger' = ledger,
         \/ at' = at
         \/ at \in Early /\ at' \in Early
         \/ at \in InHand /\ at' \in InHand
         \/ at = "walking" /\ at' = "done"
  PROVE  Balanced'
<1>1. Past' = Past /\ Hand' = Hand
  BY DEF Past, Hand
<1>2. \A i \in Position : Writes(plan[i])' <=> Writes(plan[i])
  BY DEF Writes
<1>3. (at' \in Early <=> at \in Early) /\ (at' \in InHand <=> at \in InHand)
      /\ (at' \in {"walking", "done"} <=> at \in {"walking", "done"})
  BY DEF Early, InHand
<1> QED BY <1>1, <1>2, <1>3 DEF Balanced, Position

\* Where a step is settled, what it moved has been read: the past has one step more.
LEMMA BalanceSettles ==
  ASSUME EngineInv, Balanced, at = "walking" \/ at \in InHand, pos <= StepCount,
         NEW s \in Status, Settle(s), plan' = plan, wired' = wired, order' = order,
         world' = world, ledger' \in Ledger, ledger'.wrote = ledger.wrote,
         ledger.blinded => ledger'.blinded, ledger'.quiet = ledger.quiet,
         ("state" \in wired /\ ~ ledger'.blinded /\ ledger.quiet) =>
           /\ ledger'.last = world
           /\ ledger'.moved[Hand] = ledger.wrote[Hand]
           /\ \A i \in Position : i # Hand => ledger'.moved[i] = ledger.moved[i]
  PROVE  Balanced'
<1>1. Along /\ SettledAsTold /\ Shape
  BY DEF EngineInv, WalkInv
<1>2. /\ Len(result') = pos /\ Len(result) = pos - 1 /\ pos \in Nat \ {0}
  BY <1>1, SettleAdds
<1>3. Hand \in Position /\ \A k \in 1..Len(result) : order[k] # Hand
  BY <1>1, HandUnsettled
<1>4. Past' = Past \cup {Hand}
  <2>1. \A p : p \in Past' <=> p \in Past \/ p = Hand
    BY <1>2 DEF Past, Hand
  <2> QED BY <2>1
<1>5. at' = "walking"
  BY DEF Settle
<1> SUFFICES ASSUME "state" \in wired, ~ ledger'.blinded, ledger.quiet, NEW i \in Position
             PROVE  /\ ledger'.last = world
                    /\ i \in Past' => ledger'.moved[i] = ledger.wrote[i]
                    /\ i \notin Past' => ledger.wrote[i] = 0 /\ ledger'.moved[i] = 0
                    /\ ~ Writes(plan[i]) => ledger.wrote[i] = 0
  BY <1>3, <1>5 DEF Balanced, Early, InHand, Writes, Position
<1>6. ~ ledger.blinded
  BY DEF EngineInv, Shape, EngineTypeOK, Ledger
<1> QED BY <1>4, <1>6 DEF Balanced

LEMMA BalanceKept ==
  ASSUME EngineInv, Balanced, [Next]_vars PROVE Balanced'
<1>0. plan' = plan /\ wired' = wired
  BY GivenStays
<1>1. /\ Shape /\ Along /\ SettledAsTold /\ ledger \in Ledger /\ world \in 0..MaxMoves
      /\ world # Blind /\ MaxMoves \in Nat
  BY LimitsAssumption DEF EngineInv, Shape, WalkInv, EngineTypeOK, Blind
<1>2. CASE Load \/ Scan \/ NextPass
  <2>1. at \in Early /\ at' \in Early /\ result' = result /\ ledger' = ledger /\ world' = world
    BY <1>2 DEF Load, Scan, NextPass, Unstarted, Early, walkVars
  <2>2. Past = {} /\ Past' = {}
    BY <1>1, <2>1 DEF Along, Past
  <2> QED BY <1>0, <2>1, <2>2 DEF Balanced, Early, InHand, Writes, Position
<1>3. CASE Begin
  <2>1. at \in Early /\ result' = result /\ order' = order /\ world' = world /\ pos' = pos
    BY <1>3 DEF Begin, Early, orderVars, walkVars
  <2>2. Past = {} /\ Past' = {}
    BY <1>1, <2>1 DEF Along, Past
  <2>3. CASE at' = "refused" /\ UNCHANGED ledger
    BY <1>0, <2>1, <2>2, <2>3 DEF Balanced, Early, InHand, Writes, Position
  <2>4. ASSUME at' = "walking", NEW r \in {world, Blind},
               ledger' = [ledger EXCEPT !.before = r, !.last = r, !.blinded = (r = Blind)]
        PROVE  Balanced'
    <3>1. /\ ledger'.last = r /\ ledger'.blinded = (r = Blind) /\ ledger'.quiet = ledger.quiet
          /\ ledger'.moved = ledger.moved /\ ledger'.wrote = ledger.wrote
      BY <1>1, <2>4 DEF Ledger
    <3>2. ~ ledger.blinded
      BY <2>1 DEF Balanced
    <3>3. ASSUME "state" \in wired, ~ ledger'.blinded, ledger.quiet, NEW i \in Position
          PROVE  /\ ledger'.last = world /\ ledger.wrote[i] = 0 /\ ledger.moved[i] = 0
      BY <2>1, <2>2, <3>1, <3>2, <3>3 DEF Balanced, Early, InHand
    <3> QED BY <1>0, <2>1, <2>2, <2>4, <3>1, <3>3 DEF Balanced, Early, InHand, Writes, Position
  <2> QED BY <1>3, <2>3, <2>4 DEF Begin
<1>4. CASE NotRun
  <2>1. /\ at = "walking" /\ pos <= StepCount
        /\ UNCHANGED <<order, world, ledger>>
    BY <1>4 DEF NotRun, Walking, orderVars
  <2>2. PICK s \in Status : Settle(s)
    BY <1>4 DEF NotRun, Status
  <2>3. Hand \in Position /\ Hand \notin Past
    BY <1>1, <2>1, HandUnsettled DEF Past
  <2>4. ("state" \in wired /\ ~ ledger.blinded /\ ledger.quiet) =>
          ledger.last = world /\ ledger.moved[Hand] = ledger.wrote[Hand]
    BY <2>1, <2>3 DEF Balanced, InHand
  <2> QED BY <1>0, <1>1, <2>1, <2>2, <2>4, BalanceSettles
<1>5. CASE StartStep
  <2>1. /\ at = "walking" /\ pos <= StepCount /\ at' = "trying"
        /\ UNCHANGED <<order, pos, result, world, ledger>>
    BY <1>5 DEF StartStep, Walking, Untold, orderVars, walkVars
  <2>2. Hand \in Position /\ Hand \notin Past /\ Past' = Past /\ Hand' = Hand
    BY <1>1, <2>1, HandUnsettled DEF Past, Hand
  <2>3. ("state" \in wired /\ ~ ledger.blinded /\ ledger.quiet) =>
          ledger.last = world /\ ledger.wrote[Hand] = 0
    BY <2>1, <2>2 DEF Balanced, InHand
  <2>4. ("state" \in wired /\ ~ ledger.blinded /\ ledger.quiet) =>
          ledger.last # Blind /\ world = ledger.last + ledger.wrote[Hand]
    BY <1>1, <2>3
  <2> QED BY <1>0, <2>1, <2>2, <2>4 DEF Balanced, Early, InHand, Writes, Position
<1>6. CASE Unbuilt \/ WaitForNext \/ Repair \/ LeaveAsItIs
  <2>1. /\ at \in InHand /\ at' \in InHand /\ UNCHANGED <<order, pos, result, world, ledger>>
    BY <1>6 DEF Unbuilt, WaitForNext, Repair, LeaveAsItIs, Untold, orderVars, walkVars, InHand
  <2> QED BY <1>0, <1>1, <2>1, BalanceStays
<1>7. ASSUME NEW a \in Answer, Attempt(a) PROVE Balanced'
  <2>1. /\ at \in InHand /\ at' \in InHand /\ UNCHANGED <<order, pos, result>>
    BY <1>7 DEF Attempt, Untold, orderVars, walkVars, InHand
  <2>2. Hand \in Position /\ Hand \notin Past /\ Past' = Past /\ Hand' = Hand
    BY <1>1, <2>1, HandUnsettled DEF Past, Hand, Shape, HandShape
  <2>3. PICK n \in (IF "state" \in wired THEN 0..1 ELSE {0}) :
          /\ world' = world + n
          /\ ledger' = [ledger EXCEPT !.wrote[Hand] = @ + n,
               !.quiet = @ /\ (n = 0 \/ plan[Hand].kind # "http" \/ plan[Hand].method = "writes")]
    BY <1>7 DEF Attempt
  <2>4. n \in 0..1
    BY <2>3
  <2>5. /\ ledger'.last = ledger.last /\ ledger'.blinded = ledger.blinded
        /\ ledger'.moved = ledger.moved /\ ledger'.wrote[Hand] = ledger.wrote[Hand] + n
        /\ \A i \in Position : i # Hand => ledger'.wrote[i] = ledger.wrote[i]
    BY <1>1, <2>2, <2>3 DEF Ledger
  <2>6. ledger'.quiet => ledger.quiet /\ (n = 0 \/ Writes(plan[Hand]))
    <3>1. ledger'.quiet = (ledger.quiet /\ (n = 0 \/ plan[Hand].kind # "http" \/ plan[Hand].method = "writes"))
      BY <1>1, <2>3 DEF Ledger
    <3> QED BY <3>1 DEF Writes
  <2>7. /\ at' \notin Early /\ at' \notin {"walking", "done"}
    BY <2>1 DEF Early, InHand
  <2>8. ledger.wrote[Hand] \in Nat /\ ledger.last \in Int
    BY <1>1, <2>2 DEF Ledger, Measured, Blind
  <2> SUFFICES ASSUME "state" \in wired, ~ ledger'.blinded, ledger'.quiet
               PROVE  /\ ledger'.last # Blind /\ world' = ledger'.last + ledger'.wrote[Hand]
                      /\ \A i \in Position :
                           /\ i \in Past => ledger'.moved[i] = ledger'.wrote[i]
                           /\ i \notin Past /\ i # Hand => ledger'.wrote[i] = 0
                           /\ i \notin Past => ledger'.moved[i] = 0
                           /\ ~ Writes(plan[i]) => ledger'.wrote[i] = 0
    BY <1>0, <2>1, <2>2, <2>7 DEF Balanced, Writes, Position
  <2>9. /\ ledger.last # Blind /\ world = ledger.last + ledger.wrote[Hand]
        /\ \A i \in Position :
             /\ i \in Past => ledger.moved[i] = ledger.wrote[i]
             /\ i \notin Past /\ i # Hand => ledger.wrote[i] = 0
             /\ i \notin Past => ledger.moved[i] = 0
             /\ ~ Writes(plan[i]) => ledger.wrote[i] = 0
    BY <2>1, <2>5, <2>6 DEF Balanced
  <2>10. ledger'.last # Blind /\ world' = ledger'.last + ledger'.wrote[Hand]
    BY <1>1, <2>3, <2>4, <2>5, <2>8, <2>9
  <2>11. ~ Writes(plan[Hand]) => ledger'.wrote[Hand] = 0
    BY <2>2, <2>4, <2>5, <2>6, <2>9
  <2> QED BY <2>2, <2>5, <2>9, <2>10, <2>11
<1>8. CASE Report
  <2>1. /\ at \in InHand /\ pos <= StepCount /\ Settle(status) /\ status \in Status
        /\ UNCHANGED <<order, world>>
    BY <1>1, <1>8 DEF Report, orderVars, InHand, Shape, HandShape, EngineTypeOK
  <2>2. Hand \in Position /\ Hand \notin Past
    BY <1>1, <2>1, HandUnsettled DEF Past
  <2>3. ledger' \in Ledger
    BY TypeKept DEF EngineInv, Shape, EngineTypeOK
  <2>4. ("state" \in wired /\ ~ ledger.blinded /\ ledger.quiet) =>
          /\ ledger.last # Blind /\ world = ledger.last + ledger.wrote[Hand]
          /\ ledger.moved[Hand] = 0
          /\ ~ Writes(plan[Hand]) => ledger.wrote[Hand] = 0
    BY <2>1, <2>2 DEF Balanced
  <2>5. ledger.wrote[Hand] \in Nat /\ ledger.last \in Int /\ world \in Int
    BY <1>1, <2>2 DEF Ledger, Measured, Blind
  <2>6. CASE ~ ("state" \in wired /\ Writes(plan[Hand]))
    <3>1. ledger' = ledger
      BY <1>8, <2>6 DEF Report
    <3>2. ("state" \in wired /\ ~ ledger.blinded /\ ledger.quiet) =>
            ledger.last = world /\ ledger.moved[Hand] = ledger.wrote[Hand]
      BY <2>4, <2>5, <2>6
    <3> QED BY <1>0, <2>1, <2>3, <3>1, <3>2, BalanceSettles
  <2>7. CASE "state" \in wired /\ Writes(plan[Hand])
    <3>1. PICK r \in {world, Blind} : Measure(r)
      BY <1>8, <2>7 DEF Report
    <3>2. ledger'.wrote = ledger.wrote /\ ledger'.quiet = ledger.quiet
          /\ (ledger.blinded => ledger'.blinded)
      BY <1>1, <3>1 DEF Measure, Ledger
    <3>3. ASSUME ~ ledger'.blinded, ledger.quiet
          PROVE  /\ ledger'.last = world
                 /\ ledger'.moved[Hand] = ledger.wrote[Hand]
                 /\ \A i \in Position : i # Hand => ledger'.moved[i] = ledger.moved[i]
      <4>1. r # Blind
        <5>1. r = Blind => ledger'.blinded
          BY <1>1, <3>1 DEF Measure, Ledger
        <5> QED BY <3>3, <5>1
      <4>2. ledger' = [ledger EXCEPT !.moved[Hand] = Diff(ledger.last, world), !.last = world]
        BY <3>1, <4>1 DEF Measure
      <4>3. /\ ledger'.last = world /\ ledger'.moved[Hand] = Diff(ledger.last, world)
            /\ \A i \in Position : i # Hand => ledger'.moved[i] = ledger.moved[i]
        BY <1>1, <2>2, <4>2 DEF Ledger
      <4>4. Diff(ledger.last, world) = ledger.wrote[Hand]
        BY <1>1, <2>4, <2>5, <2>7, <3>2, <3>3 DEF Diff
      <4> QED BY <4>3, <4>4
    <3> QED BY <1>0, <2>1, <2>3, <3>2, <3>3, BalanceSettles
  <2> QED BY <2>6, <2>7
<1>9. CASE Finish
  <2>1. at = "walking" /\ at' = "done" /\ UNCHANGED <<order, pos, result, world, ledger>>
    BY <1>9 DEF Finish, orderVars, walkVars
  <2> QED BY <1>0, <1>1, <2>1, BalanceStays
<1>10. CASE Cancel \/ UNCHANGED vars
  <2>1. UNCHANGED <<at, order, pos, result, world, ledger>>
    BY <1>10 DEF Cancel, vars, orderVars, walkVars
  <2> QED BY <1>0, <1>1, <2>1, BalanceStays
<1> QED BY <1>2, <1>3, <1>4, <1>5, <1>6, <1>7, <1>8, <1>9, <1>10 DEF Next, Advance

\* Once every reading was had and only steps that say they write have moved anything, what a
\* told step is said to have moved is what it moved, its failed attempts included.
THEOREM LedgerTrue == Spec => []LedgerIsTrue
<1>1. Init => Balanced
  <2> SUFFICES ASSUME Init PROVE Balanced
    OBVIOUS
  <2>1. /\ at = "loading" /\ result = <<>> /\ ~ ledger.blinded
        /\ \A i \in Position : ledger.wrote[i] = 0 /\ ledger.moved[i] = 0
    BY DEF Init
  <2> QED BY <2>1 DEF Balanced, Past, Early, InHand
<1>2. EngineInv /\ Balanced /\ [Next]_vars => Balanced'
  BY BalanceKept
<1>3. ASSUME EngineInv, Balanced PROVE LedgerIsTrue
  <2>1. \A k \in 1..Len(result) : result[k].step \in Past /\ result[k].step \in Position
    <3>1. \A k \in 1..Len(result) : result[k].step = order[k]
      BY <1>3 DEF EngineInv, WalkInv, Along
    <3>2. ASSUME NEW k \in 1..Len(result) PROVE result[k].step \in Position
      <4>1. result \in Seq([step: Position, status: Status])
        BY <1>3 DEF EngineInv, Shape, EngineTypeOK
      <4>2. \A S : result \in Seq(S) => result[k] \in S
        OBVIOUS
      <4>3. result[k] \in [step: Position, status: Status]
        BY <4>1, <4>2
      <4> QED BY <4>3
    <3> QED BY <3>1, <3>2 DEF Past
  <2> QED BY <1>3, <2>1 DEF Balanced, LedgerIsTrue
<1> QED BY <1>1, <1>2, <1>3, EngineInvHolds, PTL DEF Spec

-----------------------------------------------------------------------------
(* The text of a step.                                                     *)

\* A form shows the payload of its kind.
Editable(d) ==
  /\ KindOf(d) \in StepKinds
  /\ KindOf(d) = "http" => d.request # Missing
  /\ KindOf(d) # "http" => d.action # Missing
  /\ d.action # Missing => d.action.target \in Purposes

Form == {f \in [draft: TextOfStep, body: Phrase] : Editable(f.draft)}

\* Missing is none of the words.
LEMMA NoWord ==
  /\ Missing \notin {"", "blank", "padded", "ok", "bad", "http", "sql", "shell", "array", "object",
                    "setup", "verify", "abort", "continue"}
  /\ Missing \notin Phrase /\ Missing \notin Requested /\ Missing \notin Acted /\ Missing \notin Retried
BY MissingAssumption DEF Phrase, Words

\* A text that is more than white space.
LEMMA TrimOfWhole == \A t \in Phrase : Trim(t) # "" => t # "" /\ t # "blank"
BY DEF Trim

\* Without the white space around it, a text is a text.
LEMMA TrimIsText == \A t \in Given : Trim(t) \in Given
BY DEF Trim, Given, Phrase, Words

\* The checks of a kind are types of checks.
LEMMA CheckedTypes ==
  ASSUME NEW k \in StepKinds, NEW type, type \in AssertionsByKind[k] PROVE type \in Types /\ type # ""
<1>1. CASE k = "http"
  BY <1>1 DEF AssertionsByKind, Types
<1>2. CASE k = "sql"
  BY <1>2 DEF AssertionsByKind, Types
<1>3. CASE k = "shell"
  BY <1>3 DEF AssertionsByKind, Types
<1> QED BY <1>1, <1>2, <1>3 DEF StepKinds

\* draftFromWire: whatever the model replies, a step the agent's gate lets through is one the
\* machine loads, but for what only the loader asks.
THEOREM RepliesLoad ==
  \A w \in TextOfStep : ReplyLoads(w)
<1> SUFFICES ASSUME NEW w \in TextOfStep, DraftTakes(w), ~Unasked(FromWire(w))
             PROVE  Loads(FromWire(w))
  BY DEF ReplyLoads
<1> DEFINE s == FromWire(w)
<1>1. /\ s.id = w.id /\ s.name = w.name /\ s.kind = w.kind /\ s.onFailure = w.onFailure
      /\ s.extract = w.extract /\ s.checks = w.checks
      /\ s.request = IF w.kind = "http" /\ w.request # Missing THEN [w.request EXCEPT !.body = Body(@)] ELSE Missing
      /\ s.action = CASE w.kind = "http"  -> Missing
                      [] w.kind = "sql"   -> Statement(w.action)
                      [] w.kind = "shell" -> Command(w.action)
      /\ s.retry = IF w.retry # Missing /\ w.retry.attempts > 0 THEN w.retry ELSE Missing
  <2> DEFINE q == IF w.kind = "http" /\ w.request # Missing THEN [w.request EXCEPT !.body = Body(@)] ELSE Missing
             a == CASE w.kind = "http"  -> Missing
                    [] w.kind = "sql"   -> Statement(w.action)
                    [] w.kind = "shell" -> Command(w.action)
             r == IF w.retry # Missing /\ w.retry.attempts > 0 THEN w.retry ELSE Missing
  <2>1. s = [w EXCEPT !.retry = r, !.request = q, !.action = a]
    BY DEF FromWire
  <2> HIDE DEF s, q, a, r
  <2>2. /\ s.id = w.id /\ s.name = w.name /\ s.kind = w.kind /\ s.onFailure = w.onFailure
        /\ s.extract = w.extract /\ s.checks = w.checks
        /\ s.request = q /\ s.action = a /\ s.retry = r
    <3> DEFINE Same(x) == /\ x.id = w.id /\ x.name = w.name /\ x.kind = w.kind /\ x.onFailure = w.onFailure
        /\ x.extract = w.extract /\ x.checks = w.checks
        /\ x.request = q /\ x.action = a /\ x.retry = r
    <3>1. Same([w EXCEPT !.retry = r, !.request = q, !.action = a])
      BY ONLY w \in TextOfStep DEF TextOfStep
    <3> QED BY <2>1, <3>1
  <2> QED BY <2>2 DEF q, a, r
<1>2. ShapedReply(w) /\ ~Inconsistent(s) /\ ~Unloadable(s) /\ ~Unasked(s)
  BY DEF DraftTakes
<1> HIDE DEF s
<1>3. w.kind \in StepKinds /\ KindOf(s) = w.kind
  BY <1>1, <1>2, NoWord DEF ShapedReply, StepKinds, KindOf
<1>4. ValidPayload(s)
  <2>1. CASE w.kind = "http"
    <3>1. w.request # Missing /\ w.request \in Requested /\ s.request = [w.request EXCEPT !.body = Body(@)]
      BY <1>1, <1>2, <1>3, <2>1 DEF Inconsistent, TextOfStep
    <3>2. s.request.url = w.request.url /\ s.request.method = w.request.method /\ s.request.url \in Phrase
      BY <3>1 DEF Requested
    <3>3. s.request # Missing /\ Trim(s.request.url) # "" /\ w.request.method \in Methods
      BY <1>2, <1>3, <2>1, <3>1 DEF Inconsistent, Unasked, Blanked, ShapedReply
    <3> QED BY <1>3, <2>1, <3>2, <3>3 DEF ValidPayload, Upper, Methods
  <2>2. CASE w.kind = "sql"
    <3>1. s.action = Statement(w.action) /\ (w.action = Missing \/ w.action \in Acted)
      BY <1>1, <2>2 DEF TextOfStep
    <3>2. s.action # Missing /\ ~Blank(s.action.statement) /\ s.action.statement # "blank"
      BY <1>2, <1>3, <2>2 DEF Inconsistent, Unasked, Blanked
    <3>3. s.action.target \in Purposes
      <4>1. CASE w.action = Missing
        BY <3>1, <4>1 DEF Statement, Purposes
      <4>2. CASE w.action # Missing
        <5>1. w.action \in Acted /\ w.action.target \in Purposes
          BY <1>2, <3>1, <4>2 DEF ShapedReply
        <5>2. s.action.target = IF w.action.target = Missing THEN "verify" ELSE w.action.target
          BY <3>1, <4>2, <5>1 DEF Statement, Acted
        <5> QED BY <5>1, <5>2 DEF Purposes
      <4> QED BY <4>1, <4>2
    <3> QED BY <1>3, <2>2, <3>2, <3>3, NoWord DEF ValidPayload, Blank, Trim, Purposes
  <2>3. CASE w.kind = "shell"
    <3>1. s.action # Missing /\ ~Blank(s.action.command) /\ s.action.command # "blank"
      BY <1>2, <1>3, <2>3 DEF Inconsistent, Unasked, Blanked
    <3> QED BY <1>3, <2>3, <3>1, NoWord DEF ValidPayload, Blank, Trim
  <2> QED BY <1>3, <2>1, <2>2, <2>3 DEF StepKinds
<1>5. ~Braces(s)
  BY <1>2 DEF Unloadable, Braces
<1>6. \A e \in s.extract : ValidExtraction(e)
  BY <1>1, <1>2 DEF ShapedReply, ShapedExtraction, ValidExtraction, Unasked, Blanked
<1>7. \A a \in s.checks : ValidAssertion(a)
  BY <1>1, <1>2 DEF ShapedReply, ShapedAssertion, ValidAssertion, Unasked, Blanked
<1>8. s.retry # Missing => s.retry.attempts >= 1
  BY <1>1 DEF TextOfStep, Retried
<1>9. Loads(s)
  BY <1>1, <1>2, <1>4, <1>5, <1>6, <1>7, <1>8 DEF Loads, ShapedReply, Unasked
<1> QED BY <1>9 DEF s

\* The parts of the step the form hands over.
LEMMA SavedFields ==
  ASSUME NEW f \in Form
  PROVE  LET d == f.draft
             s == Saved(f)
         IN  /\ s.id = Trim(d.id) /\ s.name = Trim(d.name) /\ s.kind = d.kind
             /\ s.onFailure = d.onFailure /\ s.retry = d.retry
             /\ s.extract = d.extract /\ s.checks = d.checks
             /\ s.request = IF KindOf(d) # "http" THEN Missing
                            ELSE [d.request EXCEPT !.url = Trim(@),
                                    !.body = IF Trim(f.body) = "" THEN Missing ELSE f.body]
             /\ s.action = Trimmed(Action(d.action, KindOf(d)))
<1> DEFINE d == f.draft
           q == IF KindOf(d) # "http" THEN Missing
                ELSE [d.request EXCEPT !.url = Trim(@), !.body = IF Trim(f.body) = "" THEN Missing ELSE f.body]
           a == Trimmed(Action(d.action, KindOf(d)))
           i == Trim(d.id)
           n == Trim(d.name)
           s == Saved(f)
<1>1. s = [d EXCEPT !.id = i, !.name = n, !.request = q, !.action = a]
  BY DEF Saved
<1>2. d \in TextOfStep
  BY DEF Form, Editable
<1> HIDE DEF d, q, a, i, n, s
<1>3. /\ s.id = i /\ s.name = n /\ s.kind = d.kind /\ s.onFailure = d.onFailure /\ s.retry = d.retry
      /\ s.extract = d.extract /\ s.checks = d.checks /\ s.request = q /\ s.action = a
  BY ONLY <1>1, <1>2 DEF TextOfStep
<1> QED BY <1>3 DEF d, q, a, i, n, s

\* save, submitted: whatever a form shows, the step it keeps and the editor lets through is
\* one the machine loads, with the body that was on the screen.
THEOREM KeptStepsLoad == \A f \in Form : KeptLoads(f)
<1> SUFFICES ASSUME NEW f \in Form, NEW s \in Kept(f), EditorTakes(s), ~Blanked(s)
             PROVE  /\ Loads(s)
                    /\ s.request # Missing => s.request.body = IF Trim(f.body) = "" THEN Missing ELSE f.body
  BY DEF KeptLoads
<1> DEFINE d == f.draft
<1>1. s = Saved(f) /\ ~Inconsistent(s) /\ Shaped(s) /\ ~Problem(s)
  BY DEF Kept, EditorTakes
<1>2. /\ s.kind = d.kind
      /\ s.request = IF KindOf(d) # "http" THEN Missing
                     ELSE [d.request EXCEPT !.url = Trim(@),
                             !.body = IF Trim(f.body) = "" THEN Missing ELSE f.body]
      /\ s.action = Trimmed(Action(d.action, KindOf(d)))
  BY <1>1, SavedFields
<1>3. /\ KindOf(s) \in StepKinds /\ KindOf(s) = KindOf(d)
      /\ d \in TextOfStep
      /\ KindOf(d) = "http" => d.request \in Requested
      /\ KindOf(d) # "http" => d.action \in Acted /\ d.action.target \in Purposes /\ d.action # Missing
  BY <1>2 DEF KindOf, Form, Editable, TextOfStep
<1>4. s.request # Missing => s.request.body = IF Trim(f.body) = "" THEN Missing ELSE f.body
  BY <1>2, <1>3 DEF Requested
<1>5. ValidPayload(s)
  <2>1. CASE KindOf(s) = "http"
    BY <1>1, <2>1 DEF Inconsistent, Blanked, Shaped, ShapedRequest, ValidPayload, Upper, Methods
  <2>2. CASE KindOf(s) = "sql"
    <3>1. s.action # Missing /\ ~Blank(s.action.statement) /\ s.action.statement # "blank"
      BY <1>1, <2>2 DEF Inconsistent, Blanked
    <3>2. s.action.target \in Purposes
      <4>1. s.action = Trimmed([statement |-> OrEmpty(d.action.statement), command |-> Missing,
                                target |-> IF d.action.target = Missing THEN "verify" ELSE d.action.target])
        BY <1>2, <1>3, <2>2 DEF Action
      <4> QED BY <1>3, <2>2, <4>1, <3>1 DEF Trimmed, Purposes
    <3> QED BY <2>2, <3>1, <3>2, NoWord DEF ValidPayload, Blank, Trim, Purposes
  <2>3. CASE KindOf(s) = "shell"
    <3>1. s.action # Missing /\ ~Blank(s.action.command) /\ s.action.command # "blank"
      BY <1>1, <2>3 DEF Inconsistent, Blanked
    <3> QED BY <2>3, <3>1, NoWord DEF ValidPayload, Blank, Trim
  <2> QED BY <1>3, <2>1, <2>2, <2>3 DEF StepKinds
<1>6. \A e \in s.extract : ValidExtraction(e)
  BY <1>1 DEF Shaped, ShapedExtraction, ValidExtraction, Blanked
<1>7. \A a \in s.checks : ValidAssertion(a)
  BY <1>1 DEF Shaped, ShapedAssertion, ValidAssertion, Blanked, Problem
<1>8. ~Braces(s)
  BY <1>1 DEF Problem, Unloadable, Braces
<1>9. s.request # Missing => s.request.body # "array"
  BY <1>1, NoWord DEF Shaped, ShapedRequest
<1> QED BY <1>1, <1>4, <1>5, <1>6, <1>7, <1>8, <1>9 DEF Loads, Shaped

\* In a file a body is a record or it is not, and "array" is any that is not.
FileStep == {s \in TextOfStep : s.request # Missing => s.request.body \in {Missing, "object", "bad", "array"}}

\* The parts of a pushed step.
LEMMA PushedFields ==
  ASSUME NEW s \in TextOfStep
  PROVE  LET p    == Pushed(s)
             http == s.kind \in {Missing, "http"}
         IN  /\ p.id = Trim(s.id)
             /\ p.name = IF Trim(s.name) = "" THEN Trim(s.id) ELSE Trim(s.name)
             /\ p.kind = IF http THEN Missing ELSE s.kind
             /\ p.request = IF http THEN [s.request EXCEPT !.method = Upper(@)] ELSE Missing
             /\ p.action = IF s.action = Missing THEN Missing
                           ELSE [s.action EXCEPT !.statement = OmitEmpty(@), !.command = OmitEmpty(@)]
             /\ p.checks = {Targeted(a) : a \in s.checks}
             /\ p.onFailure = IF s.onFailure = Missing THEN "abort" ELSE s.onFailure
             /\ p.extract = s.extract /\ p.retry = s.retry
<1> DEFINE http == s.kind \in {Missing, "http"}
           i == Trim(s.id)
           n == IF Trim(s.name) = "" THEN i ELSE Trim(s.name)
           k == IF http THEN Missing ELSE s.kind
           q == IF http THEN [s.request EXCEPT !.method = Upper(@)] ELSE Missing
           a == IF s.action = Missing THEN Missing
                ELSE [s.action EXCEPT !.statement = OmitEmpty(@), !.command = OmitEmpty(@)]
           c == {Targeted(b) : b \in s.checks}
           o == IF s.onFailure = Missing THEN "abort" ELSE s.onFailure
           p == Pushed(s)
<1>1. p = [s EXCEPT !.id = i, !.name = n, !.kind = k, !.request = q, !.action = a, !.checks = c, !.onFailure = o]
  BY DEF Pushed
<1> HIDE DEF i, n, k, q, a, c, o, p
<1>2. /\ p.id = i /\ p.name = n /\ p.kind = k /\ p.request = q /\ p.action = a /\ p.checks = c
      /\ p.onFailure = o /\ p.extract = s.extract /\ p.retry = s.retry
  BY ONLY <1>1, s \in TextOfStep DEF TextOfStep
<1> QED BY <1>2 DEF i, n, k, q, a, c, o, p

\* What the parts of a pushed step say, where the file's step has them.
LEMMA PushedParts ==
  ASSUME NEW s \in TextOfStep, Loads(s)
  PROVE  LET p == Pushed(s)
         IN  /\ KindOf(p) = KindOf(s) /\ KindOf(s) \in StepKinds
             /\ p.request # Missing => /\ s.request \in Requested /\ KindOf(s) = "http"
                                       /\ p.request.method = Upper(s.request.method)
                                       /\ p.request.url = s.request.url /\ p.request.value = s.request.value
                                       /\ p.request.body = s.request.body
             /\ KindOf(s) = "http" => p.request # Missing
             /\ s.action # Missing => /\ s.action \in Acted /\ p.action # Missing
                                      /\ p.action.statement = OmitEmpty(s.action.statement)
                                      /\ p.action.command = OmitEmpty(s.action.command)
                                      /\ p.action.target = s.action.target
             /\ s.action = Missing => p.action = Missing
<1> DEFINE p == Pushed(s)
<1>1. KindOf(s) \in StepKinds
  BY DEF Loads, ValidPayload, StepKinds
<1>2. KindOf(p) = KindOf(s)
  BY <1>1, PushedFields, NoWord DEF KindOf, StepKinds
<1>3. KindOf(s) = "http" => s.request \in Requested /\ s.kind \in {Missing, "http"}
  BY DEF Loads, ValidPayload, TextOfStep, KindOf
<1>4. KindOf(s) # "http" => s.kind \notin {Missing, "http"}
  BY DEF KindOf
<1>5. ASSUME NEW r \in Requested, NEW m \in Phrase, NEW x, x = [r EXCEPT !.method = m]
      PROVE  x.method = m /\ x.url = r.url /\ x.value = r.value /\ x.body = r.body /\ x \in Requested
  BY <1>5 DEF Requested
<1>7. ASSUME KindOf(s) = "http"
      PROVE  /\ p.request.method = Upper(s.request.method)
             /\ p.request.url = s.request.url /\ p.request.value = s.request.value
             /\ p.request.body = s.request.body /\ p.request \in Requested
  <2>1. s.request \in Requested /\ p.request = [s.request EXCEPT !.method = Upper(@)]
    BY <1>3, <1>7, PushedFields
  <2>2. Upper(s.request.method) \in Phrase
    BY <2>1 DEF Upper, Requested, Phrase, Words
  <2> QED BY <1>5, <2>1, <2>2
<1>8. ASSUME s.action # Missing
      PROVE  /\ s.action \in Acted /\ p.action \in Acted
             /\ p.action.statement = OmitEmpty(s.action.statement)
             /\ p.action.command = OmitEmpty(s.action.command)
             /\ p.action.target = s.action.target
  <2> DEFINE a == s.action
             t == OmitEmpty(a.statement)
             c == OmitEmpty(a.command)
             x == p.action
  <2>1. a \in Acted /\ x = [a EXCEPT !.statement = t, !.command = c]
    BY <1>8, PushedFields DEF TextOfStep
  <2>2. t \in Given /\ c \in Given
    BY <2>1 DEF OmitEmpty, Acted, Given
  <2> HIDE DEF a, t, c, x
  <2>3. x.statement = t /\ x.command = c /\ x.target = a.target /\ x \in Acted
    BY ONLY <2>1, <2>2 DEF Acted
  <2> QED BY <2>1, <2>3 DEF a, t, c, x
<1>9. /\ s.kind \notin {Missing, "http"} => p.request = Missing
      /\ s.action = Missing => p.action = Missing
  BY PushedFields
<1> QED BY <1>1, <1>2, <1>3, <1>4, <1>7, <1>8, <1>9, NoWord

\* A file's step the machine loads is taken by the route, but for what only the dashboard
\* asks.
THEOREM LoadedStepsArePushed == \A s \in FileStep : LoadedIsPushed(s)
<1> SUFFICES ASSUME NEW s \in FileStep, Loads(s), Trim(s.id) # "",
                    \A a \in s.checks : a.type \in AssertionsByKind[KindOf(s)] /\ a.expected # "list",
                    s.retry # Missing => s.retry.delay >= 0,
                    s.action # Missing => s.action.target \in Purposes
             PROVE  PushTaken(s)
  BY DEF LoadedIsPushed
<1> DEFINE p == Pushed(s)
<1>1. s \in TextOfStep /\ (s.request # Missing => s.request.body \in {Missing, "object", "bad"})
  BY DEF FileStep, Loads
<1>2. /\ p.id # "" /\ p.name # ""
      /\ p.kind \in {Missing, "http", "sql", "shell"}
      /\ p.onFailure \in {"abort", "continue"}
      /\ p.retry # Missing => p.retry.attempts >= 1 /\ p.retry.delay >= 0
      /\ p.extract = s.extract
  <2>1. KindOf(s) \in StepKinds
    BY <1>1, PushedParts
  <2>2. p.retry = s.retry /\ (s.retry # Missing => s.retry \in Retried /\ s.retry.attempts >= 1)
    BY <1>1, PushedFields DEF Loads, TextOfStep
  <2>3. p.id # "" /\ p.name # "" /\ p.extract = s.extract
    BY <1>1, PushedFields
  <2>4. p.kind \in {Missing, "http", "sql", "shell"}
    BY <1>1, <2>1, PushedFields DEF StepKinds, KindOf
  <2>5. p.onFailure \in {"abort", "continue"}
    BY <1>1, PushedFields DEF Loads
  <2>6. p.retry # Missing => p.retry.attempts >= 1 /\ p.retry.delay >= 0
    BY <2>2
  <2> QED BY <2>3, <2>4, <2>5, <2>6
<1>3. p.request # Missing => ShapedRequest(p.request) /\ p.request.url \notin {Missing, ""}
  <2> SUFFICES ASSUME p.request # Missing PROVE ShapedRequest(p.request) /\ p.request.url \notin {Missing, ""}
    OBVIOUS
  <2>1. /\ s.request \in Requested /\ KindOf(s) = "http" /\ s.request # Missing
        /\ p.request.method = Upper(s.request.method) /\ p.request.url = s.request.url
        /\ p.request.body = s.request.body
    BY <1>1, PushedParts, NoWord
  <2>2. Upper(s.request.method) \in Methods /\ Trim(s.request.url) # ""
    BY <2>1 DEF Loads, ValidPayload
  <2>3. s.request.url \in Phrase
    BY <2>1 DEF Requested
  <2> QED BY <1>1, <2>1, <2>2, <2>3, TrimOfWhole, NoWord DEF ShapedRequest
<1>4. p.action # Missing => ShapedAction(p.action)
  BY <1>1, PushedParts, NoWord DEF ShapedAction, OmitEmpty
<1>5. \A e \in p.extract : ShapedExtraction(e)
  <2>1. \A e \in s.extract : e.path \in Phrase /\ ValidExtraction(e)
    BY <1>1 DEF TextOfStep, HandedOn, Loads
  <2> QED BY <1>2, <2>1, TrimOfWhole DEF ValidExtraction, ShapedExtraction
<1>6. \A b \in p.checks : ShapedAssertion(b) /\ b.type \in AssertionsByKind[KindOf(s)] /\ b.expected # "bad"
  <2> SUFFICES ASSUME NEW a \in s.checks, NEW b, b = Targeted(a)
               PROVE  ShapedAssertion(b) /\ b.type \in AssertionsByKind[KindOf(s)] /\ b.expected # "bad"
    <3>1. p.checks = {Targeted(a) : a \in s.checks}
      BY <1>1, PushedFields
    <3> HIDE DEF p
    <3> QED BY <3>1
  <2>1. /\ a \in Checked /\ ValidAssertion(a) /\ a.expected # "bad"
        /\ a.type \in AssertionsByKind[KindOf(s)] /\ a.expected # "list"
    BY <1>1 DEF TextOfStep, Loads, Braces
  <2>2. a.type \in Types /\ a.type # ""
    BY <1>1, <2>1, CheckedTypes, PushedParts
  <2>3. /\ b.type = a.type /\ b.operator = a.operator /\ b.expected = a.expected
        /\ b.target = IF Trim(a.target) = "" THEN a.type ELSE a.target
    BY <2>1 DEF Targeted, Checked
  <2>4. b.target # ""
    BY <2>2, <2>3 DEF Trim
  <2> QED BY <2>1, <2>2, <2>3, <2>4 DEF ShapedAssertion, ValidAssertion
<1>7. Shaped(p)
  BY <1>2, <1>3, <1>4, <1>5, <1>6 DEF Shaped
<1>8. ~Inconsistent(p)
  <2>1. KindOf(p) = KindOf(s) /\ KindOf(s) \in StepKinds
    BY <1>1, PushedParts
  <2>2. CASE KindOf(s) = "http"
    BY <1>1, <1>3, <1>6, <2>1, <2>2, PushedParts DEF Inconsistent, Blank
  <2>3. CASE KindOf(s) = "sql"
    <3>1. s.action # Missing /\ Trim(s.action.statement) \notin {"", Missing}
      BY <2>3 DEF Loads, ValidPayload
    <3>2. p.action # Missing /\ ~Blank(p.action.statement)
      BY <1>1, <3>1, PushedParts, NoWord DEF Blank, OmitEmpty, Trim
    <3> QED BY <1>6, <2>1, <2>3, <3>2 DEF Inconsistent
  <2>4. CASE KindOf(s) = "shell"
    <3>1. s.action # Missing /\ Trim(s.action.command) \notin {"", Missing}
      BY <2>4 DEF Loads, ValidPayload
    <3>2. p.action # Missing /\ ~Blank(p.action.command)
      BY <1>1, <3>1, PushedParts, NoWord DEF Blank, OmitEmpty, Trim
    <3> QED BY <1>6, <2>1, <2>4, <3>2 DEF Inconsistent
  <2> QED BY <2>1, <2>2, <2>3, <2>4 DEF StepKinds
<1>9. ~Unloadable(p)
  <2>1. ~Braces(s)
    BY DEF Loads
  <2>2. ~(p.request # Missing /\ "bad" \in {p.request.url, p.request.value, p.request.body})
    BY <1>1, <2>1, PushedParts, NoWord DEF Braces
  <2>3. ~(p.action # Missing /\ "bad" \in {p.action.statement, p.action.command})
    BY <1>1, <2>1, PushedParts, NoWord DEF Braces, OmitEmpty
  <2> QED BY <1>6, <2>2, <2>3 DEF Unloadable
<1>10. \A c \in Covered(s) : c.path # ""
  <2>1. Path(s.request.url) = "" => Covered(s) = {}
    BY DEF Covered
  <2>2. \A m, u, c : c = [method |-> m, path |-> u] => c.path = u
    BY ONLY TRUE
  <2>3. \A c \in Covered(s) : c.path = Path(s.request.url)
    BY <2>2 DEF Covered
  <2> QED BY <2>1, <2>3
<1> QED BY <1>7, <1>8, <1>9, <1>10 DEF PushTaken

\* Checks of a pushed step ask what the file's ask, of the same channel.
LEMMA SameChecks ==
  ASSUME NEW S \in SUBSET Checked, \A a \in S : ValidAssertion(a)
  PROVE  {[b EXCEPT !.target = IF b.type \in Own THEN b.type ELSE @] : b \in {Targeted(a) : a \in S}}
         = {[a EXCEPT !.target = IF a.type \in Own THEN a.type ELSE @] : a \in S}
<1> DEFINE Asks(a) == [a EXCEPT !.target = IF a.type \in Own THEN a.type ELSE @]
<1>1. ASSUME NEW a \in S PROVE Asks(Targeted(a)) = Asks(a)
  <2>1. CASE Trim(a.target) # ""
    BY <2>1 DEF Targeted
  <2>2. CASE Trim(a.target) = ""
    <3>1. a.type \in Own
      <4>1. a.type \in Types /\ a.type \notin {"bodyField", "header", "valueEquals"}
        BY <2>2 DEF ValidAssertion
      <4>2. Types = {"status", "bodyField", "header", "responseTime", "rowCount", "valueEquals",
                     "exitCode", "stdoutContains"}
        BY DEF Types, AssertionsByKind
      <4> QED BY <4>1, <4>2 DEF Own
    <3>2. a \in Checked /\ Targeted(a) = [a EXCEPT !.target = a.type]
      BY <2>2 DEF Targeted
    <3>3. Targeted(a).type = a.type
      BY <3>2 DEF Checked
    <3>4. [Targeted(a) EXCEPT !.target = a.type] = [a EXCEPT !.target = a.type]
      BY <3>2 DEF Checked
    <3> QED BY <3>1, <3>3, <3>4
  <2> QED BY <2>1, <2>2
<1> HIDE DEF Asks
<1>2. {Asks(b) : b \in {Targeted(a) : a \in S}} = {Asks(a) : a \in S}
  BY <1>1
<1> QED BY <1>2 DEF Asks

\* wireStep, covered: a pushed step loads again and does what the file's did, and approving it
\* asks twice exactly where it writes past the requests.
THEOREM PushedStepsMeanTheSame == \A s \in FileStep : PushedMeansTheSame(s)
<1> SUFFICES ASSUME NEW s \in TextOfStep, Loads(s), PushTaken(s)
             PROVE  /\ Loads(Pushed(s))
                    /\ Meaning(Pushed(s)) = Meaning(s)
                    /\ Heavy(Pushed(s)) <=> KindOf(s) = "shell" \/ (KindOf(s) = "sql" /\ s.action.target # "verify")
  BY DEF PushedMeansTheSame, FileStep
<1> DEFINE p == Pushed(s)
<1>1. /\ KindOf(p) = KindOf(s) /\ KindOf(s) \in StepKinds
      /\ p.extract = s.extract /\ p.retry = s.retry
      /\ p.onFailure = IF s.onFailure = Missing THEN "abort" ELSE s.onFailure
      /\ p.checks = {Targeted(a) : a \in s.checks}
  BY PushedFields, PushedParts
<1>2. s.request # Missing /\ KindOf(s) = "http"
      => /\ p.request = [s.request EXCEPT !.method = Upper(@)] /\ s.request \in Requested
         /\ [p.request EXCEPT !.method = Upper(@)] = [s.request EXCEPT !.method = Upper(@)]
  <2> SUFFICES ASSUME s.request # Missing, KindOf(s) = "http"
               PROVE  /\ p.request = [s.request EXCEPT !.method = Upper(@)] /\ s.request \in Requested
                      /\ [p.request EXCEPT !.method = Upper(@)] = [s.request EXCEPT !.method = Upper(@)]
    OBVIOUS
  <2> DEFINE m == Upper(s.request.method)
  <2>1. p.request = [s.request EXCEPT !.method = m] /\ s.request \in Requested
    BY PushedFields DEF TextOfStep, KindOf
  <2>2. Upper(m) = m
    BY DEF Upper
  <2> HIDE DEF m, p
  <2>3. p.request.method = m /\ [p.request EXCEPT !.method = m] = p.request
    BY ONLY <2>1 DEF Requested
  <2> QED BY <2>1, <2>2, <2>3 DEF m
<1>3. ValidPayload(p)
  <2>1. CASE KindOf(s) = "http"
    <3>1. s.request # Missing /\ Upper(s.request.method) \in Methods /\ Trim(s.request.url) # ""
      BY <2>1 DEF Loads, ValidPayload
    <3>2. p.request # Missing /\ p.request.method = Upper(s.request.method) /\ p.request.url = s.request.url
      BY <2>1, PushedParts
    <3> QED BY <1>1, <2>1, <3>1, <3>2 DEF ValidPayload, Upper, Methods
  <2>2. CASE KindOf(s) = "sql"
    <3>1. s.action # Missing /\ Trim(s.action.statement) \notin {"", Missing} /\ s.action.target \in Purposes
      BY <2>2 DEF Loads, ValidPayload, Purposes
    <3>2. p.action # Missing /\ p.action.statement = s.action.statement /\ p.action.target = s.action.target
      BY <3>1, PushedParts DEF OmitEmpty, Trim
    <3> QED BY <1>1, <2>2, <3>1, <3>2 DEF ValidPayload, Purposes
  <2>3. CASE KindOf(s) = "shell"
    <3>1. s.action # Missing /\ Trim(s.action.command) \notin {"", Missing}
      BY <2>3 DEF Loads, ValidPayload
    <3>2. p.action # Missing /\ p.action.command = s.action.command
      BY <3>1, PushedParts DEF OmitEmpty, Trim
    <3> QED BY <1>1, <2>3, <3>1, <3>2 DEF ValidPayload
  <2> QED BY <1>1, <2>1, <2>2, <2>3 DEF StepKinds
<1>4. ~Braces(p)
  BY DEF PushTaken, Unloadable, Braces
<1>5. \A b \in p.checks : ValidAssertion(b)
  <2> SUFFICES ASSUME NEW a \in s.checks, NEW b, b = Targeted(a) PROVE ValidAssertion(b)
    BY <1>1
  <2>1. a \in Checked /\ ValidAssertion(a)
    BY DEF TextOfStep, Loads
  <2>2. /\ b.type = a.type /\ b.operator = a.operator /\ b.expected = a.expected
        /\ b.target = IF Trim(a.target) = "" THEN a.type ELSE a.target
    BY <2>1 DEF Targeted, Checked
  <2>3. CASE Trim(a.target) = ""
    <3>1. a.type \notin {"bodyField", "header", "valueEquals"}
      BY <2>1, <2>3 DEF ValidAssertion
    <3> QED BY <2>1, <2>2, <3>1 DEF ValidAssertion
  <2>4. CASE Trim(a.target) # ""
    BY <2>1, <2>2, <2>4 DEF ValidAssertion
  <2> QED BY <2>3, <2>4
<1>6. Loads(p)
  <2>1. p.request # Missing => p.request.body # "array"
    BY PushedParts, NoWord DEF Loads
  <2>2. p.id # ""
    BY DEF PushTaken, Shaped
  <2>3. p.onFailure \in {Missing, "abort", "continue"}
    BY <1>1 DEF Loads
  <2>4. /\ \A e \in p.extract : ValidExtraction(e)
        /\ p.retry # Missing => p.retry.attempts >= 1
    BY <1>1 DEF Loads
  <2> HIDE DEF p
  <2> QED BY <1>3, <1>4, <1>5, <2>1, <2>2, <2>3, <2>4 DEF Loads
<1>7. Meaning(p) = Meaning(s)
  <2> DEFINE Does(x) == CASE KindOf(x) = "http"  -> [x.request EXCEPT !.method = Upper(@)]
                          [] KindOf(x) = "sql"   -> <<Trim(x.action.statement), x.action.target = "verify">>
                          [] KindOf(x) = "shell" -> <<Trim(x.action.command)>>
             Asks(x) == {[a EXCEPT !.target = IF a.type \in Own THEN a.type ELSE @] : a \in x.checks}
  <2>1. Does(p) = Does(s)
    <3>1. CASE KindOf(s) = "http"
      BY <1>1, <1>2, <3>1 DEF Loads, ValidPayload
    <3>2. CASE KindOf(s) = "sql"
      <4>1. s.action # Missing /\ Trim(s.action.statement) \notin {"", Missing}
        BY <3>2 DEF Loads, ValidPayload
      <4>2. p.action.statement = s.action.statement /\ p.action.target = s.action.target
        BY <4>1, PushedParts DEF OmitEmpty, Trim
      <4> HIDE DEF p
      <4> QED BY <1>1, <3>2, <4>2
    <3>3. CASE KindOf(s) = "shell"
      <4>1. s.action # Missing /\ Trim(s.action.command) \notin {"", Missing}
        BY <3>3 DEF Loads, ValidPayload
      <4>2. p.action.command = s.action.command
        BY <4>1, PushedParts DEF OmitEmpty, Trim
      <4> HIDE DEF p
      <4> QED BY <1>1, <3>3, <4>2
    <3> QED BY <1>1, <3>1, <3>2, <3>3 DEF StepKinds
  <2>2. Asks(p) = Asks(s)
    <3>1. s.checks \in SUBSET Checked /\ \A a \in s.checks : ValidAssertion(a)
      BY DEF TextOfStep, Loads
    <3> QED BY <1>1, <3>1, SameChecks
  <2>3. p.onFailure \in {Missing, "abort"} <=> s.onFailure \in {Missing, "abort"}
    BY <1>1
  <2> HIDE DEF p, Does, Asks
  <2>4. \A x : Meaning(x) = [does |-> Does(x), extract |-> x.extract, checks |-> Asks(x),
                             aborts |-> x.onFailure \in {Missing, "abort"},
                             tries |-> IF x.retry = Missing THEN <<1, 0>> ELSE <<x.retry.attempts, x.retry.delay>>]
    BY DEF Meaning, Does, Asks
  <2> QED BY <1>1, <2>1, <2>2, <2>3, <2>4
<1>8. Heavy(p) <=> KindOf(s) = "shell" \/ (KindOf(s) = "sql" /\ s.action.target # "verify")
  <2>1. KindOf(p) = KindOf(s) /\ (p.kind \in {"sql", "shell"} => KindOf(p) = p.kind)
    BY <1>1, NoWord DEF KindOf
  <2>2. KindOf(s) = "sql" => p.action # Missing /\ p.action.target = s.action.target
    BY PushedParts DEF Loads, ValidPayload
  <2>3. KindOf(p) \in {"sql", "shell"} => p.kind = KindOf(p)
    BY DEF KindOf
  <2> HIDE DEF p
  <2> QED BY <2>1, <2>2, <2>3 DEF Heavy
<1> QED BY <1>6, <1>7, <1>8

\* A step that was opened is a form.
LEMMA OpenedIsForm ==
  ASSUME NEW s \in TextOfStep, KindOf(s) \in StepKinds,
         KindOf(s) = "http" => s.request # Missing,
         KindOf(s) # "http" => s.action # Missing,
         s.action # Missing => s.action.target \in Purposes
  PROVE  Opened(s) \in Form /\ Opened(s).draft = s
<1>1. Opened(s).draft = s /\ Opened(s) \in [draft: TextOfStep, body: Phrase]
  <2> DEFINE b == IF s.request = Missing \/ s.request.body = Missing THEN "" ELSE s.request.body
  <2>1. s.request # Missing => s.request.body \in Given
    BY DEF TextOfStep, Requested
  <2>2. b \in Phrase
    BY <2>1 DEF Given, Phrase, Words
  <2>3. Opened(s) = [draft |-> s, body |-> b]
    BY DEF Opened
  <2> HIDE DEF b
  <2> QED BY <2>2, <2>3
<1> QED BY <1>1 DEF Form, Editable

\* save, where nothing was edited: opening a step and keeping it changes nothing of what the
\* machine does with it, nor whether approving it asks twice.
THEOREM OpenedStepsMeanTheSame == \A s \in TextOfStep : OpenedMeansTheSame(s)
<1> SUFFICES ASSUME NEW s \in TextOfStep, EditorTakes(s), Loads(s),
                    ~(s.kind = "sql" /\ s.action.target = Missing),
                    ~(s.request # Missing /\ s.request.url = "padded")
             PROVE  /\ Kept(Opened(s)) # {}
                    /\ \A t \in Kept(Opened(s)) : Meaning(t) = Meaning(s) /\ (Heavy(t) <=> Heavy(s))
  BY DEF OpenedMeansTheSame
<1> DEFINE f == Opened(s)
           t == Saved(f)
<1>1. /\ KindOf(s) \in StepKinds
      /\ KindOf(s) = "http" => s.request # Missing /\ s.request \in Requested
      /\ KindOf(s) # "http" => s.action # Missing
      /\ s.action # Missing => s.action \in Acted /\ s.action.target \in Purposes
  BY DEF EditorTakes, Shaped, ShapedAction, Problem, Inconsistent, TextOfStep, KindOf, StepKinds
<1>2. f \in Form /\ f.draft = s
  BY <1>1, OpenedIsForm
<1>3. /\ t.id = Trim(s.id) /\ t.name = Trim(s.name) /\ t.kind = s.kind
      /\ t.onFailure = s.onFailure /\ t.retry = s.retry /\ t.extract = s.extract /\ t.checks = s.checks
      /\ t.request = IF KindOf(s) # "http" THEN Missing
                     ELSE [s.request EXCEPT !.url = Trim(@), !.body = IF Trim(f.body) = "" THEN Missing ELSE f.body]
      /\ t.action = Trimmed(Action(s.action, KindOf(s)))
  BY <1>2, SavedFields
<1>4. KindOf(t) = KindOf(s)
  BY <1>3 DEF KindOf
<1>5. KindOf(s) = "http" => t.request = s.request
  <2> SUFFICES ASSUME KindOf(s) = "http" PROVE t.request = s.request
    OBVIOUS
  <2> DEFINE r == s.request
             b == IF Trim(f.body) = "" THEN Missing ELSE f.body
  <2>1. r \in Requested /\ t.request = [r EXCEPT !.url = Trim(r.url), !.body = b]
    BY <1>1, <1>3
  <2>2. Trim(r.url) = r.url
    BY <1>1 DEF Loads, ValidPayload, Trim
  <2>3. b = r.body
    <3>1. r.body \in {Missing, "object", "bad"}
      BY <1>1 DEF EditorTakes, Shaped, ShapedRequest
    <3>2. f.body = IF r.body = Missing THEN "" ELSE r.body
      BY <1>1 DEF Opened
    <3> QED BY <3>1, <3>2, NoWord DEF Trim
  <2> HIDE DEF r, b, t
  <2>4. [r EXCEPT !.url = r.url, !.body = r.body] = r
    BY <2>1 DEF Requested
  <2> QED BY <2>1, <2>2, <2>3, <2>4 DEF r
<1>6. KindOf(s) = "sql" => /\ t.action # Missing /\ t.action.target = s.action.target
                           /\ t.action.statement = Trim(s.action.statement)
  <2> SUFFICES ASSUME KindOf(s) = "sql"
               PROVE  /\ t.action # Missing /\ t.action.target = s.action.target
                      /\ t.action.statement = Trim(s.action.statement)
    OBVIOUS
  <2>1. s.action.target # Missing /\ s.action.statement # Missing /\ s.action \in Acted
    BY <1>1, NoWord DEF KindOf, Loads, ValidPayload, Trim
  <2> DEFINE a == [statement |-> s.action.statement, command |-> Missing, target |-> s.action.target]
  <2>2. Action(s.action, "sql") = a
    BY <1>1, <2>1 DEF Action, OrEmpty
  <2>3. a \in Acted
    BY <2>1 DEF Acted, Given
  <2>4. a # Missing
    BY <2>3, NoWord
  <2>5. t.action = [a EXCEPT !.statement = Trim(@), !.command = Trim(@)]
    <3>1. t.action = Trimmed(a)
      BY <1>3, <2>2
    <3> HIDE DEF a, t, f
    <3> QED BY <3>1, <2>4 DEF Trimmed
  <2>6. t.action.statement = Trim(s.action.statement) /\ t.action.target = s.action.target
    BY <2>5
  <2>7. t.action # Missing
    <3>1. Trim(s.action.statement) \in Given /\ Trim(Missing) \in Given
      BY <2>1, TrimIsText DEF Acted, Given
    <3>2. t.action \in Acted
      BY <2>3, <2>5, <3>1 DEF Acted
    <3> QED BY <3>2, NoWord
  <2> QED BY <2>6, <2>7
<1>7. KindOf(s) = "shell" => t.action # Missing /\ t.action.command = Trim(s.action.command)
  <2> SUFFICES ASSUME KindOf(s) = "shell"
               PROVE  t.action # Missing /\ t.action.command = Trim(s.action.command)
    OBVIOUS
  <2>1. s.action.command # Missing /\ s.action \in Acted
    BY <1>1, NoWord DEF KindOf, Loads, ValidPayload, Trim
  <2> DEFINE a == [statement |-> Missing, target |-> Missing, command |-> s.action.command]
  <2>2. Action(s.action, "shell") = a
    BY <1>1, <2>1 DEF Action, OrEmpty
  <2>3. a \in Acted
    BY <2>1, NoWord DEF Acted, Given, Named
  <2>4. a # Missing
    BY <2>3, NoWord
  <2>5. t.action = [a EXCEPT !.statement = Trim(@), !.command = Trim(@)]
    <3>1. t.action = Trimmed(a)
      BY <1>3, <2>2
    <3> HIDE DEF a, t, f
    <3> QED BY <3>1, <2>4 DEF Trimmed
  <2>6. t.action.command = Trim(s.action.command)
    BY <2>5
  <2>7. t.action # Missing
    <3>1. Trim(s.action.command) \in Given /\ Trim(Missing) \in Given
      BY <2>1, TrimIsText DEF Acted, Given
    <3>2. t.action \in Acted
      BY <2>3, <2>5, <3>1 DEF Acted
    <3> QED BY <3>2, NoWord
  <2> QED BY <2>6, <2>7
<1>8. Kept(f) = {t}
  <2>1. Trim(s.id) # "" /\ Trim(s.name) # "" /\ ~Inconsistent(s)
    BY DEF EditorTakes, Problem
  <2>2. ~Inconsistent(t)
    <3>1. CASE KindOf(s) = "http"
      BY <1>3, <1>4, <1>5, <2>1, <3>1 DEF Inconsistent
    <3>2. CASE KindOf(s) = "sql"
      BY <1>3, <1>4, <1>6, <2>1, <3>2, NoWord DEF Inconsistent, Blank, Loads, ValidPayload
    <3>3. CASE KindOf(s) = "shell"
      BY <1>3, <1>4, <1>7, <2>1, <3>3, NoWord DEF Inconsistent, Blank, Loads, ValidPayload
    <3> QED BY <1>1, <3>1, <3>2, <3>3 DEF StepKinds
  <2>3. KindOf(s) = "http" => f.body \notin {"array", "scalar", "broken"}
    BY <1>1, NoWord DEF Opened, EditorTakes, Shaped, ShapedRequest
  <2> HIDE DEF t, f
  <2> QED BY <1>2, <1>3, <2>1, <2>2, <2>3 DEF Kept, t
<1>9. Meaning(t) = Meaning(s)
  <2>1. CASE KindOf(s) = "http"
    BY <1>3, <1>4, <1>5, <2>1 DEF Meaning
  <2>2. \A x : Trim(Trim(x)) = Trim(x)
    BY DEF Trim
  <2>3. CASE KindOf(s) = "sql"
    BY <1>3, <1>4, <1>6, <2>2, <2>3 DEF Meaning
  <2>4. CASE KindOf(s) = "shell"
    BY <1>3, <1>4, <1>7, <2>2, <2>4 DEF Meaning
  <2> QED BY <1>1, <2>1, <2>3, <2>4 DEF StepKinds
<1>10. Heavy(t) <=> Heavy(s)
  <2>1. s.kind = "sql" => s.action # Missing /\ KindOf(s) = "sql"
    BY <1>1, NoWord DEF KindOf
  <2> QED BY <1>3, <1>6, <2>1 DEF Heavy
<1> QED BY <1>8, <1>9, <1>10

\* Another step in the form, or another part of the step there is.
LEMMA Redrafted ==
  ASSUME NEW f \in Form, NEW d \in TextOfStep, Editable(d) PROVE [f EXCEPT !.draft = d] \in Form
BY DEF Form

\* Every part of a form on its own.
LEMMA Rewritten ==
  ASSUME NEW f \in Form
  PROVE  /\ \A t \in Phrase : [f EXCEPT !.draft.id = t] \in Form
         /\ \A t \in Phrase : [f EXCEPT !.draft.name = t] \in Form
         /\ \A c \in SUBSET Checked : [f EXCEPT !.draft.checks = c] \in Form
         /\ \A e \in SUBSET HandedOn : [f EXCEPT !.draft.extract = e] \in Form
         /\ \A o \in Named : [f EXCEPT !.draft.onFailure = o] \in Form
         /\ \A r \in Retried \cup {Missing} : [f EXCEPT !.draft.retry = r] \in Form
         /\ \A q \in Requested : [f EXCEPT !.draft.request = q] \in Form
         /\ \A a \in Acted : a.target \in Purposes => [f EXCEPT !.draft.action = a] \in Form
         /\ \A t \in Phrase : [f EXCEPT !.body = t] \in Form
<1> DEFINE d == f.draft
<1>1. d \in TextOfStep /\ Editable(d) /\ f \in [draft: TextOfStep, body: Phrase]
  BY DEF Form
<1>2. \A x \in TextOfStep : Editable(x) => [f EXCEPT !.draft = x] \in Form
  BY Redrafted
<1> HIDE DEF d
<1>3. ASSUME NEW t \in Phrase PROVE [f EXCEPT !.draft.id = t] \in Form
  <2>1. \A x : x = [d EXCEPT !.id = t] => x \in TextOfStep /\ x.kind = d.kind /\ x.request = d.request /\ x.action = d.action
    BY <1>1 DEF TextOfStep
  <2>2. [d EXCEPT !.id = t] \in TextOfStep /\ Editable([d EXCEPT !.id = t])
    BY <1>1, <2>1 DEF Editable, KindOf
  <2>3. [f EXCEPT !.draft.id = t] = [f EXCEPT !.draft = [d EXCEPT !.id = t]]
    BY DEF d
  <2> QED BY <1>2, <2>2, <2>3
<1>4. ASSUME NEW t \in Phrase PROVE [f EXCEPT !.draft.name = t] \in Form
  <2>1. \A x : x = [d EXCEPT !.name = t] => x \in TextOfStep /\ x.kind = d.kind /\ x.request = d.request /\ x.action = d.action
    BY <1>1 DEF TextOfStep
  <2>2. [d EXCEPT !.name = t] \in TextOfStep /\ Editable([d EXCEPT !.name = t])
    BY <1>1, <2>1 DEF Editable, KindOf
  <2>3. [f EXCEPT !.draft.name = t] = [f EXCEPT !.draft = [d EXCEPT !.name = t]]
    BY DEF d
  <2> QED BY <1>2, <2>2, <2>3
<1>5. ASSUME NEW c \in SUBSET Checked PROVE [f EXCEPT !.draft.checks = c] \in Form
  <2>1. \A x : x = [d EXCEPT !.checks = c] => x \in TextOfStep /\ x.kind = d.kind /\ x.request = d.request /\ x.action = d.action
    BY <1>1 DEF TextOfStep
  <2>2. [d EXCEPT !.checks = c] \in TextOfStep /\ Editable([d EXCEPT !.checks = c])
    BY <1>1, <2>1 DEF Editable, KindOf
  <2>3. [f EXCEPT !.draft.checks = c] = [f EXCEPT !.draft = [d EXCEPT !.checks = c]]
    BY DEF d
  <2> QED BY <1>2, <2>2, <2>3
<1>6. ASSUME NEW e \in SUBSET HandedOn PROVE [f EXCEPT !.draft.extract = e] \in Form
  <2>1. \A x : x = [d EXCEPT !.extract = e] => x \in TextOfStep /\ x.kind = d.kind /\ x.request = d.request /\ x.action = d.action
    BY <1>1 DEF TextOfStep
  <2>2. [d EXCEPT !.extract = e] \in TextOfStep /\ Editable([d EXCEPT !.extract = e])
    BY <1>1, <2>1 DEF Editable, KindOf
  <2>3. [f EXCEPT !.draft.extract = e] = [f EXCEPT !.draft = [d EXCEPT !.extract = e]]
    BY DEF d
  <2> QED BY <1>2, <2>2, <2>3
<1>7. ASSUME NEW o \in Named PROVE [f EXCEPT !.draft.onFailure = o] \in Form
  <2>1. \A x : x = [d EXCEPT !.onFailure = o] => x \in TextOfStep /\ x.kind = d.kind /\ x.request = d.request /\ x.action = d.action
    BY <1>1 DEF TextOfStep
  <2>2. [d EXCEPT !.onFailure = o] \in TextOfStep /\ Editable([d EXCEPT !.onFailure = o])
    BY <1>1, <2>1 DEF Editable, KindOf
  <2>3. [f EXCEPT !.draft.onFailure = o] = [f EXCEPT !.draft = [d EXCEPT !.onFailure = o]]
    BY DEF d
  <2> QED BY <1>2, <2>2, <2>3
<1>8. ASSUME NEW r \in Retried \cup {Missing} PROVE [f EXCEPT !.draft.retry = r] \in Form
  <2>1. \A x : x = [d EXCEPT !.retry = r] => x \in TextOfStep /\ x.kind = d.kind /\ x.request = d.request /\ x.action = d.action
    BY <1>1 DEF TextOfStep
  <2>2. [d EXCEPT !.retry = r] \in TextOfStep /\ Editable([d EXCEPT !.retry = r])
    BY <1>1, <2>1 DEF Editable, KindOf
  <2>3. [f EXCEPT !.draft.retry = r] = [f EXCEPT !.draft = [d EXCEPT !.retry = r]]
    BY DEF d
  <2> QED BY <1>2, <2>2, <2>3
<1>9. ASSUME NEW q \in Requested PROVE [f EXCEPT !.draft.request = q] \in Form
  <2>1. \A x : x = [d EXCEPT !.request = q] => x \in TextOfStep /\ x.kind = d.kind /\ x.request = q /\ x.action = d.action
    BY <1>1 DEF TextOfStep
  <2>2. [d EXCEPT !.request = q] \in TextOfStep /\ Editable([d EXCEPT !.request = q])
    BY <1>1, <2>1, NoWord DEF Editable, KindOf
  <2>3. [f EXCEPT !.draft.request = q] = [f EXCEPT !.draft = [d EXCEPT !.request = q]]
    BY DEF d
  <2> QED BY <1>2, <2>2, <2>3
<1>10. ASSUME NEW a \in Acted, a.target \in Purposes PROVE [f EXCEPT !.draft.action = a] \in Form
  <2>1. \A x : x = [d EXCEPT !.action = a] => x \in TextOfStep /\ x.kind = d.kind /\ x.request = d.request /\ x.action = a
    BY <1>1 DEF TextOfStep
  <2>2. [d EXCEPT !.action = a] \in TextOfStep /\ Editable([d EXCEPT !.action = a])
    BY <1>1, <2>1, NoWord, <1>10 DEF Editable, KindOf
  <2>3. [f EXCEPT !.draft.action = a] = [f EXCEPT !.draft = [d EXCEPT !.action = a]]
    BY DEF d
  <2> QED BY <1>2, <2>2, <2>3
<1>11. ASSUME NEW t \in Phrase PROVE [f EXCEPT !.body = t] \in Form
  BY <1>1 DEF Form
<1> QED BY <1>3, <1>4, <1>5, <1>6, <1>7, <1>8, <1>9, <1>10, <1>11

\* The channel a type names, and the words of the form, are texts.
LEMMA FormsWords ==
  /\ \A k \in StepKinds : k \in Phrase /\ k \in Named
  /\ \A t \in Types : t \in Phrase /\ Channel(t) \in Phrase
  /\ Methods \subseteq Phrase /\ Operators \subseteq Phrase /\ Sources \subseteq Phrase
  /\ {"", "blank", "padded", "bad", "ok", "query", "object", "array", "scalar", "broken"} \subseteq Phrase
  /\ \A t \in Given : OrEmpty(t) \in Phrase
<1>1. \A k \in StepKinds : k \in Phrase /\ k \in Named
  BY DEF StepKinds, Phrase, Words, Named, Given
<1>2. \A t \in Types : t \in Phrase /\ Channel(t) \in Phrase
  BY DEF Phrase, Words, Channel, Sources
<1>3. /\ Methods \subseteq Phrase /\ Operators \subseteq Phrase /\ Sources \subseteq Phrase
      /\ {"", "blank", "padded", "bad", "ok", "query", "object", "array", "scalar", "broken"} \subseteq Phrase
  BY DEF Phrase, Words, Methods
<1>4. \A t \in Given : OrEmpty(t) \in Phrase
  BY <1>3 DEF OrEmpty, Given
<1> QED BY <1>1, <1>2, <1>3, <1>4

\* The parts of a form's step.
LEMMA FormsParts ==
  ASSUME NEW f \in Form
  PROVE  LET d == f.draft IN
         /\ d \in TextOfStep /\ f.body \in Phrase
         /\ KindOf(d) \in StepKinds
         /\ KindOf(d) = "http" => d.request \in Requested
         /\ KindOf(d) # "http" => d.action # Missing
         /\ d.action # Missing => d.action \in Acted /\ d.action.target \in Purposes
         /\ d.request # Missing => d.request \in Requested
         /\ d.checks \in SUBSET Checked /\ d.extract \in SUBSET HandedOn
         /\ d.retry # Missing => d.retry \in Retried
BY DEF Form, Editable, TextOfStep

\* The action of a kind, whatever there was.
LEMMA ActionOfKind ==
  ASSUME NEW a, a # Missing => a \in Acted /\ a.target \in Purposes, NEW k \in StepKinds
  PROVE  /\ k = "http" => Action(a, k) = Missing
         /\ k # "http" => Action(a, k) \in Acted /\ Action(a, k).target \in Purposes
<1> DEFINE had == IF a = Missing THEN [statement |-> Missing, target |-> Missing, command |-> Missing] ELSE a
<1>1. had.statement \in Given /\ had.command \in Given /\ had.target \in Purposes
  BY DEF Acted, Given, Purposes
<1>2. CASE k = "http"
  BY <1>2 DEF Action
<1>3. CASE k = "sql"
  <2> DEFINE w == IF had.target = Missing THEN "verify" ELSE had.target
  <2>1. Action(a, k) = [statement |-> OrEmpty(had.statement), command |-> Missing, target |-> w]
    BY <1>3 DEF Action
  <2>2. OrEmpty(had.statement) \in Given /\ Missing \in Given /\ w \in Named /\ w \in Purposes
    BY <1>1, FormsWords, NoWord DEF Given, Named, Purposes, Words, Phrase
  <2> HIDE DEF w, had
  <2> QED BY <1>3, <2>1, <2>2 DEF Acted
<1>4. CASE k = "shell"
  <2>1. Action(a, k) = [statement |-> Missing, target |-> Missing, command |-> OrEmpty(had.command)]
    BY <1>4 DEF Action
  <2>2. OrEmpty(had.command) \in Given /\ Missing \in Given /\ Missing \in Named /\ Missing \in Purposes
    BY <1>1, FormsWords, NoWord DEF Given, Named, Purposes
  <2> HIDE DEF had
  <2> QED BY <1>4, <2>1, <2>2 DEF Acted
<1> QED BY <1>2, <1>3, <1>4 DEF StepKinds

\* Another kind: the form still shows a payload of its kind.
LEMMA ChangeKindKeeps ==
  ASSUME NEW f \in Form, NEW k \in StepKinds PROVE ChangeKind(f, k) \in Form
<1> DEFINE d == f.draft
           q == IF k # "http" THEN Missing ELSE IF d.request = Missing THEN NewRequest ELSE d.request
           a == Action(d.action, k)
           c == {x \in d.checks : x.type \in AssertionsByKind[k]}
           e == [d EXCEPT !.kind = k, !.request = q, !.action = a, !.checks = c]
<1>1. /\ d \in TextOfStep /\ k \in Named /\ c \in SUBSET Checked
  BY FormsParts, FormsWords
<1>2. q \in Requested \cup {Missing} /\ (k = "http" => q # Missing)
  <2>1. NewRequest \in Requested
    BY FormsWords DEF NewRequest, Requested, Given, Methods
  <2> QED BY <2>1, FormsParts, NoWord
<1>3. /\ a \in Acted \cup {Missing}
      /\ k # "http" => a # Missing
      /\ a # Missing => a.target \in Purposes
  <2>1. d.action # Missing => d.action \in Acted /\ d.action.target \in Purposes
    BY FormsParts
  <2> QED BY <2>1, ActionOfKind, NoWord
<1>4. ChangeKind(f, k) = [f EXCEPT !.draft = e]
  BY DEF ChangeKind
<1> HIDE DEF d, q, a, c
<1>5. \A x : x = e => x \in TextOfStep /\ x.kind = k /\ x.request = q /\ x.action = a
  BY <1>1, <1>2, <1>3 DEF TextOfStep
<1>6. k # Missing
  BY NoWord DEF StepKinds
<1>7. e \in TextOfStep /\ Editable(e)
  BY <1>2, <1>3, <1>5, <1>6 DEF Editable, KindOf
<1> HIDE DEF e
<1> QED BY <1>4, <1>7, Redrafted

\* A call a run has made, offered to a request.
LEMMA FillFromKeeps ==
  ASSUME NEW f \in Form, KindOf(f.draft) = "http",
         NEW call \in [method: Phrase, url: Phrase, body: Phrase]
  PROVE  FillFrom(f, call) \in Form
<1> DEFINE r == f.draft.request
           v == IF r = Missing THEN Missing ELSE r.value
           q == [method |-> call.method, url |-> call.url, body |-> Missing, value |-> v]
           b == IF call.body \in {"object", "bad"} THEN call.body ELSE f.body
           g == [f EXCEPT !.draft.request = q]
<1>1. r \in Requested /\ f.body \in Phrase
  BY FormsParts
<1>2. v \in Given
  BY <1>1 DEF Requested, Given
<1>3. q \in Requested
  <2> HIDE DEF v
  <2> QED BY <1>2 DEF Requested, Given
<1>4. b \in Phrase
  BY <1>1
<1>5. FillFrom(f, call) = [f EXCEPT !.draft.request = q, !.body = b]
  BY DEF FillFrom
<1> HIDE DEF q, b, r, v
<1>6. g \in Form
  BY <1>3, Rewritten
<1>7. [f EXCEPT !.draft.request = q, !.body = b] = [g EXCEPT !.body = b]
  BY DEF Form
<1> HIDE DEF g
<1> QED BY <1>4, <1>5, <1>6, <1>7, Rewritten

\* One check for another.
LEMMA SetCheckKeeps ==
  ASSUME NEW f \in Form, NEW a, NEW b \in Checked PROVE SetCheck(f, a, b) \in Form
<1> DEFINE c == (f.draft.checks \ {a}) \cup {b}
<1>1. c \in SUBSET Checked
  BY FormsParts
<1>2. SetCheck(f, a, b) = [f EXCEPT !.draft.checks = c]
  BY DEF SetCheck
<1> HIDE DEF c
<1> QED BY <1>1, <1>2, Rewritten

\* The edits of a row of checks.
LEMMA CheckEditsKeep ==
  ASSUME NEW f \in Form, NEW a \in f.draft.checks PROVE CheckEdits(f, a) \subseteq Form
<1>1. a \in Checked /\ KindOf(f.draft) \in StepKinds
  BY FormsParts
<1>2. ASSUME NEW t \in AssertionsByKind[KindOf(f.draft)] PROVE SetCheck(f, a, Retyped(a, t)) \in Form
  <2> DEFINE u == IF a.target = "" \/ a.target = Channel(a.type) THEN Channel(t) ELSE a.target
  <2>1. t \in Phrase /\ u \in Phrase
    BY <1>1, CheckedTypes, FormsWords DEF Checked
  <2>2. Retyped(a, t) = [a EXCEPT !.type = t, !.target = u]
    BY DEF Retyped
  <2> HIDE DEF u
  <2>3. Retyped(a, t) \in Checked
    BY <1>1, <2>1, <2>2 DEF Checked
  <2> QED BY <2>3, SetCheckKeeps
<1>3. ASSUME NEW o \in Operators PROVE SetCheck(f, a, [a EXCEPT !.operator = o]) \in Form
  <2>1. [a EXCEPT !.operator = o] \in Checked
    BY <1>1, FormsWords DEF Checked
  <2> QED BY <2>1, SetCheckKeeps
<1>4. ASSUME NEW e \in {Missing, "ok", "bad"} PROVE SetCheck(f, a, [a EXCEPT !.expected = e]) \in Form
  <2>1. e \in Given
    BY FormsWords DEF Given
  <2>2. [a EXCEPT !.expected = e] \in Checked
    BY <1>1, <2>1 DEF Checked
  <2> QED BY <2>2, SetCheckKeeps
<1>5. [f EXCEPT !.draft.checks = @ \ {a}] \in Form
  <2> DEFINE c == f.draft.checks \ {a}
  <2>1. c \in SUBSET Checked
    BY FormsParts
  <2> HIDE DEF c
  <2>2. [f EXCEPT !.draft.checks = c] \in Form
    BY <2>1, Rewritten
  <2> QED BY <2>2 DEF c
<1>6. ASSUME NEW t \in {"", "ok"} PROVE SetCheck(f, a, [a EXCEPT !.target = t]) \in Form
  <2>1. [a EXCEPT !.target = t] \in Checked
    BY <1>1, FormsWords DEF Checked
  <2> QED BY <2>1, SetCheckKeeps
<1> QED BY <1>2, <1>3, <1>4, <1>5, <1>6 DEF CheckEdits

\* The edits of a value handed on.
LEMMA ExtractionEditsKeep ==
  ASSUME NEW f \in Form, NEW e \in f.draft.extract PROVE ExtractionEdits(f, e) \subseteq Form
<1>1. e \in HandedOn
  BY FormsParts
<1>2. ASSUME NEW x \in HandedOn PROVE [f EXCEPT !.draft.extract = (@ \ {e}) \cup {x}] \in Form
  <2> DEFINE c == (f.draft.extract \ {e}) \cup {x}
  <2>1. c \in SUBSET HandedOn
    BY FormsParts
  <2> HIDE DEF c
  <2>2. [f EXCEPT !.draft.extract = c] \in Form
    BY <2>1, Rewritten
  <2> QED BY <2>2 DEF c
<1>3. [f EXCEPT !.draft.extract = @ \ {e}] \in Form
  <2> DEFINE c == f.draft.extract \ {e}
  <2>1. c \in SUBSET HandedOn
    BY FormsParts
  <2> HIDE DEF c
  <2>2. [f EXCEPT !.draft.extract = c] \in Form
    BY <2>1, Rewritten
  <2> QED BY <2>2 DEF c
<1>4. \A t \in {"", "blank", "ok"} : [e EXCEPT !.name = t] \in HandedOn /\ [e EXCEPT !.path = t] \in HandedOn
  BY <1>1, FormsWords DEF HandedOn
<1>5. \A s \in Sources : [e EXCEPT !.source = s] \in HandedOn
  BY <1>1, FormsWords DEF HandedOn
<1> QED BY <1>2, <1>3, <1>4, <1>5 DEF ExtractionEdits

\* A new row.
LEMMA AddsKeep ==
  ASSUME NEW f \in Form PROVE AddCheck(f) \in Form /\ AddExtraction(f) \in Form
<1>0. KindOf(f.draft) \in StepKinds
  BY FormsParts
<1>1. AddCheck(f) \in Form
  <2> DEFINE type == CASE KindOf(f.draft) = "http" -> "status" [] KindOf(f.draft) = "sql" -> "rowCount"
                       [] KindOf(f.draft) = "shell" -> "exitCode"
             x == [type |-> type, operator |-> "equals", target |-> Channel(type), expected |-> Missing]
             c == f.draft.checks \cup {x}
  <2>1. type \in Types
    BY <1>0 DEF StepKinds, Types, AssertionsByKind
  <2>2. type \in Phrase /\ Channel(type) \in Phrase /\ "equals" \in Phrase /\ Missing \in Given
    BY <2>1, FormsWords DEF Operators, Given
  <2> HIDE DEF type
  <2>3. x \in Checked
    BY <2>2 DEF Checked
  <2>4. c \in SUBSET Checked
    BY <2>3, FormsParts
  <2>5. AddCheck(f) = [f EXCEPT !.draft.checks = c]
    BY DEF AddCheck, type
  <2> HIDE DEF c
  <2> QED BY <2>4, <2>5, Rewritten
<1>2. AddExtraction(f) \in Form
  <2> DEFINE source == CASE KindOf(f.draft) = "http" -> "body" [] KindOf(f.draft) = "sql" -> "result"
                         [] KindOf(f.draft) = "shell" -> "stdout"
             x == [name |-> "", path |-> "", source |-> source]
             c == f.draft.extract \cup {x}
  <2>1. source \in Phrase /\ "" \in Phrase
    BY <1>0, FormsWords DEF StepKinds, Sources
  <2> HIDE DEF source
  <2>3. x \in HandedOn
    BY <2>1 DEF HandedOn
  <2>4. c \in SUBSET HandedOn
    BY <2>3, FormsParts
  <2>5. AddExtraction(f) = [f EXCEPT !.draft.extract = c]
    BY DEF AddExtraction, source
  <2> HIDE DEF c
  <2> QED BY <2>4, <2>5, Rewritten
<1> QED BY <1>1, <1>2

\* Other attempts.
LEMMA SetAttemptsKeeps ==
  ASSUME NEW f \in Form, NEW n \in Int PROVE SetAttempts(f, n) \in Form
<1> DEFINE y == IF f.draft.retry = Missing THEN 250 ELSE f.draft.retry.delay
           r == IF n <= 1 THEN Missing ELSE [attempts |-> n, delay |-> y]
<1>1. y \in Int
  BY FormsParts DEF Retried
<1> HIDE DEF y
<1>2. r \in Retried \cup {Missing}
  BY <1>1 DEF Retried
<1>3. SetAttempts(f, n) = [f EXCEPT !.draft.retry = r]
  BY DEF SetAttempts, y
<1> HIDE DEF r
<1> QED BY <1>2, <1>3, Rewritten

\* What is typed.
LEMMA TypedKeeps ==
  ASSUME NEW f \in Form PROVE Typed(f) \subseteq Form
<1> DEFINE d == f.draft
           texts == {"", "blank", "padded", "bad", "ok"}
<1>0. /\ KindOf(d) \in StepKinds /\ texts \subseteq Phrase /\ "query" \in Phrase
      /\ {"", "object", "bad", "array", "scalar", "broken"} \subseteq Phrase
  BY FormsParts, FormsWords
<1>1. \A t \in texts : [f EXCEPT !.draft.name = t] \in Form /\ [f EXCEPT !.draft.id = t] \in Form
  BY <1>0, Rewritten
<1>2. ASSUME KindOf(d) = "http"
      PROVE  /\ \A t \in texts \cup {"query"} : [f EXCEPT !.draft.request.url = t] \in Form
             /\ \A t \in {Missing, "ok", "bad"} : [f EXCEPT !.draft.request.value = t] \in Form
             /\ \A t \in {"", "object", "bad", "array", "scalar", "broken"} : [f EXCEPT !.body = t] \in Form
  <2>1. d.request \in Requested
    BY <1>2, FormsParts
  <2>2. ASSUME NEW t \in Phrase PROVE [f EXCEPT !.draft.request.url = t] \in Form
    <3>1. [d.request EXCEPT !.url = t] \in Requested
      BY <2>1 DEF Requested
    <3>2. [f EXCEPT !.draft.request = [d.request EXCEPT !.url = t]] \in Form
      BY <3>1, Rewritten
    <3>3. [f EXCEPT !.draft.request.url = t] = [f EXCEPT !.draft.request = [f.draft.request EXCEPT !.url = t]]
      OBVIOUS
    <3> QED BY <3>2, <3>3
  <2>3. ASSUME NEW t \in Given PROVE [f EXCEPT !.draft.request.value = t] \in Form
    <3>1. [d.request EXCEPT !.value = t] \in Requested
      BY <2>1 DEF Requested
    <3>2. [f EXCEPT !.draft.request = [d.request EXCEPT !.value = t]] \in Form
      BY <3>1, Rewritten
    <3>3. [f EXCEPT !.draft.request.value = t] = [f EXCEPT !.draft.request = [f.draft.request EXCEPT !.value = t]]
      OBVIOUS
    <3> QED BY <3>2, <3>3
  <2>4. {Missing, "ok", "bad"} \subseteq Given
    BY FormsWords DEF Given
  <2>5. \A t \in Phrase : [f EXCEPT !.body = t] \in Form
    BY Rewritten
  <2> QED BY <1>0, <2>2, <2>3, <2>4, <2>5
<1>3. ASSUME KindOf(d) # "http"
      PROVE  \A t \in texts : [f EXCEPT !.draft.action.statement = t] \in Form
                              /\ [f EXCEPT !.draft.action.command = t] \in Form
  <2>1. d.action \in Acted /\ d.action.target \in Purposes
    BY <1>3, FormsParts
  <2>2. ASSUME NEW t \in texts PROVE [f EXCEPT !.draft.action.statement = t] \in Form
    <3>1. [d.action EXCEPT !.statement = t] \in Acted /\ [d.action EXCEPT !.statement = t].target = d.action.target
      BY <1>0, <2>1 DEF Acted, Given
    <3>2. [f EXCEPT !.draft.action = [d.action EXCEPT !.statement = t]] \in Form
      BY <2>1, <3>1, Rewritten
    <3>3. [f EXCEPT !.draft.action.statement = t] = [f EXCEPT !.draft.action = [f.draft.action EXCEPT !.statement = t]]
      OBVIOUS
    <3> QED BY <3>2, <3>3
  <2>3. ASSUME NEW t \in texts PROVE [f EXCEPT !.draft.action.command = t] \in Form
    <3>1. [d.action EXCEPT !.command = t] \in Acted /\ [d.action EXCEPT !.command = t].target = d.action.target
      BY <1>0, <2>1 DEF Acted, Given
    <3>2. [f EXCEPT !.draft.action = [d.action EXCEPT !.command = t]] \in Form
      BY <2>1, <3>1, Rewritten
    <3>3. [f EXCEPT !.draft.action.command = t] = [f EXCEPT !.draft.action = [f.draft.action EXCEPT !.command = t]]
      OBVIOUS
    <3> QED BY <3>2, <3>3
  <2> QED BY <2>2, <2>3
<1> DEFINE N(t) == [f EXCEPT !.draft.name = t]
           I(t) == [f EXCEPT !.draft.id = t]
           U(t) == [f EXCEPT !.draft.request.url = t]
           V(t) == [f EXCEPT !.draft.request.value = t]
           B(t) == [f EXCEPT !.body = t]
           S(t) == [f EXCEPT !.draft.action.statement = t]
           C(t) == [f EXCEPT !.draft.action.command = t]
<1>4. Typed(f) = {N(t) : t \in texts} \cup {I(t) : t \in texts}
                 \cup CASE KindOf(d) = "http" -> {U(t) : t \in texts \cup {"query"}}
                             \cup {V(t) : t \in {Missing, "ok", "bad"}}
                             \cup {B(t) : t \in {"", "object", "bad", "array", "scalar", "broken"}}
                        [] KindOf(d) = "sql"   -> {S(t) : t \in texts}
                        [] KindOf(d) = "shell" -> {C(t) : t \in texts}
  BY DEF Typed
<1>5. /\ \A t \in texts : N(t) \in Form /\ I(t) \in Form
      /\ KindOf(d) = "http" =>
           /\ \A t \in texts \cup {"query"} : U(t) \in Form
           /\ \A t \in {Missing, "ok", "bad"} : V(t) \in Form
           /\ \A t \in {"", "object", "bad", "array", "scalar", "broken"} : B(t) \in Form
      /\ KindOf(d) # "http" => \A t \in texts : S(t) \in Form /\ C(t) \in Form
  BY <1>1, <1>2, <1>3
<1> HIDE DEF N, I, U, V, B, S, C, d
<1> QED BY <1>0, <1>4, <1>5 DEF StepKinds

\* What is chosen.
LEMMA ChosenKeeps ==
  ASSUME NEW f \in Form PROVE Chosen(f) \subseteq Form
<1> DEFINE d == f.draft
<1>0. KindOf(d) \in StepKinds /\ Methods \subseteq Phrase
  BY FormsParts, FormsWords
<1>1. \A o \in {"abort", "continue"} : [f EXCEPT !.draft.onFailure = o] \in Form
  <2>1. {"abort", "continue"} \subseteq Named
    BY DEF Named, Given, Phrase, Words
  <2> QED BY <2>1, Rewritten
<1>2. ASSUME KindOf(d) = "http", NEW m \in Methods PROVE [f EXCEPT !.draft.request.method = m] \in Form
  <2>1. d.request \in Requested
    BY <1>2, FormsParts
  <2>2. [d.request EXCEPT !.method = m] \in Requested
    BY <1>0, <2>1 DEF Requested
  <2>3. [f EXCEPT !.draft.request = [d.request EXCEPT !.method = m]] \in Form
    BY <2>2, Rewritten
  <2>4. [f EXCEPT !.draft.request.method = m] = [f EXCEPT !.draft.request = [f.draft.request EXCEPT !.method = m]]
    OBVIOUS
  <2> QED BY <2>3, <2>4
<1>3. ASSUME KindOf(d) = "sql", NEW t \in {"setup", "verify"} PROVE [f EXCEPT !.draft.action.target = t] \in Form
  <2>1. d.action \in Acted
    BY <1>3, FormsParts
  <2>2. t \in Named /\ t \in Purposes
    BY DEF Named, Given, Phrase, Words, Purposes
  <2>3. [d.action EXCEPT !.target = t] \in Acted /\ [d.action EXCEPT !.target = t].target = t
    BY <2>1, <2>2 DEF Acted
  <2>4. [f EXCEPT !.draft.action = [d.action EXCEPT !.target = t]] \in Form
    BY <2>2, <2>3, Rewritten
  <2>5. [f EXCEPT !.draft.action.target = t] = [f EXCEPT !.draft.action = [f.draft.action EXCEPT !.target = t]]
    OBVIOUS
  <2> QED BY <2>4, <2>5
<1>4. CASE KindOf(d) = "http"
  BY <1>1, <1>2, <1>4 DEF Chosen
<1>5. CASE KindOf(d) = "sql"
  BY <1>1, <1>3, <1>5 DEF Chosen
<1>6. CASE KindOf(d) = "shell"
  BY <1>1, <1>6 DEF Chosen
<1> QED BY <1>0, <1>4, <1>5, <1>6 DEF StepKinds

\* Edits: no edit, and so no number of them, leaves a form that shows another kind's payload
\* than its own, or none: what keeping it relies on.
THEOREM EditsKeepForms ==
  \A f \in Form : Edits(f) \subseteq Form
<1> SUFFICES ASSUME NEW f \in Form PROVE Edits(f) \subseteq Form
  OBVIOUS
<1>1. \A k \in {"http", "sql", "shell"} : ChangeKind(f, k) \in Form
  BY ChangeKindKeeps DEF StepKinds
<1>2. KindOf(f.draft) = "http" =>
        \A b \in {"", "object", "array", "scalar"} :
          FillFrom(f, [method |-> "POST", url |-> "ok", body |-> b]) \in Form
  <2>1. \A b \in {"", "object", "array", "scalar"} :
          [method |-> "POST", url |-> "ok", body |-> b] \in [method: Phrase, url: Phrase, body: Phrase]
    BY FormsWords DEF Methods
  <2> QED BY <2>1, FillFromKeeps
<1>3. AddCheck(f) \in Form /\ AddExtraction(f) \in Form
  BY AddsKeep
<1>4. \A a \in f.draft.checks : CheckEdits(f, a) \subseteq Form
  BY CheckEditsKeep
<1>5. \A e \in f.draft.extract : ExtractionEdits(f, e) \subseteq Form
  BY ExtractionEditsKeep
<1>6. \A n \in 1..2 : SetAttempts(f, n) \in Form
  BY SetAttemptsKeeps
<1>7. Typed(f) \subseteq Form /\ Chosen(f) \subseteq Form
  BY TypedKeeps, ChosenKeeps
<1> QED BY <1>1, <1>2, <1>3, <1>4, <1>5, <1>6, <1>7 DEF Edits

-----------------------------------------------------------------------------
\* The texts of the small instances are texts.
LEMMA InstanceWords ==
  /\ Texts \subseteq Phrase
  /\ \A t \in Phrase : t \in Given
  /\ {"get", "list", "TRACE", "query", "GET", "setup", "verify", "ok", "abort", "continue"} \subseteq Phrase
  /\ {"http", "sql", "shell", "ftp", "stop", "neither", "abort", "setup", Missing} \subseteq Named
  /\ Purposes \subseteq Named
<1>1. /\ Texts \subseteq Phrase
      /\ {"get", "list", "TRACE", "query", "GET", "setup", "verify", "ok", "abort", "continue"} \subseteq Phrase
      /\ {"http", "sql", "shell", "ftp", "stop", "neither", "abort", "setup", "verify"} \subseteq Phrase
  BY DEF Texts, Phrase, Words
<1>2. {"http", "sql", "shell", "ftp", "stop", "neither", "abort", "setup", "verify"} \subseteq Phrase \ {""}
  BY <1>1
<1>3. Missing # ""
  BY NoWord
<1>4. \A t \in Phrase : t \in Given /\ (t # "" => t \in Named)
  BY DEF Given, Named
<1>5. Missing \in Named
  BY <1>3 DEF Given, Named
<1>6. /\ {"http", "sql", "shell", "ftp", "stop", "neither", "abort", "setup", Missing} \subseteq Named
      /\ Purposes \subseteq Named
  BY <1>2, <1>4, <1>5 DEF Purposes
<1> QED BY <1>1, <1>4, <1>6

\* The plain steps of the small instances.
LEMMA PlainStepIsStep ==
  ASSUME NEW k \in StepKinds \cup {Missing}, NEW body \in Given
  PROVE  /\ PlainStep(k, body) \in TextOfStep /\ PlainStep(k, body).kind = k
         /\ PlainStep(k, body).request # Missing => PlainStep(k, body).request.body = body
         /\ k \in {"http", Missing} <=> PlainStep(k, body).request # Missing
         /\ k \in {"sql", "shell"} => /\ PlainStep(k, body).action # Missing
                                      /\ PlainStep(k, body).action.target \in Purposes
         /\ k \in {"http", Missing} => PlainStep(k, body).action = Missing
<1> DEFINE q == [method |-> "GET", url |-> "ok", value |-> Missing, body |-> body]
           a == CASE k = "sql"   -> [statement |-> "ok", target |-> "setup", command |-> Missing]
                  [] k = "shell" -> [statement |-> Missing, target |-> Missing, command |-> "ok"]
                  [] OTHER       -> Missing
           r == IF k \in {"http", Missing} THEN q ELSE Missing
           s == [id |-> "ok", name |-> "ok", kind |-> k, extract |-> {}, checks |-> {}, onFailure |-> "abort",
                 retry |-> Missing, request |-> r, action |-> a]
<1>1. q \in Requested
  BY InstanceWords DEF Requested, Given
<1>2. /\ [statement |-> "ok", target |-> "setup", command |-> Missing] \in Acted
      /\ [statement |-> Missing, target |-> Missing, command |-> "ok"] \in Acted
  BY InstanceWords DEF Acted, Given
<1>3. k = "sql" => a \in Acted /\ a.target \in Purposes
  BY <1>2 DEF Purposes
<1>4. k = "shell" => a \in Acted /\ a.target \in Purposes
  BY <1>2 DEF Purposes
<1>5. k \in {"http", Missing} => a = Missing
  BY NoWord
<1>6. /\ r \in Requested \cup {Missing}
      /\ r # Missing => r.body = body
      /\ k \in {"http", Missing} <=> r # Missing
  BY <1>1, NoWord
<1>7. k \in Named /\ "ok" \in Phrase /\ "abort" \in Named
  BY InstanceWords DEF StepKinds
<1>8. PlainStep(k, body) = s
  BY DEF PlainStep
<1> HIDE DEF q, a, r
<1>9. a \in Acted \cup {Missing}
  BY <1>3, <1>4, <1>5 DEF StepKinds
<1>10. s \in TextOfStep /\ s.kind = k /\ s.request = r /\ s.action = a
  BY <1>6, <1>7, <1>9 DEF TextOfStep
<1> HIDE DEF s
<1> QED BY <1>3, <1>4, <1>5, <1>6, <1>8, <1>10, NoWord

\* And their variants, on the same payload.
LEMMA VariantsAreSteps ==
  ASSUME NEW s \in TextOfStep, NEW v \in Variants(s)
  PROVE  v \in TextOfStep /\ v.request = s.request /\ v.action = s.action /\ v.kind = s.kind
<1>1. ASSUME NEW c \in CheckSets, v = [s EXCEPT !.checks = c]
      PROVE  v \in TextOfStep /\ v.request = s.request /\ v.action = s.action /\ v.kind = s.kind
  <2>1. \A a \in [type: {"status", "bodyField", "rowCount", "valueEquals", "stdoutContains"},
                  operator: Operators, target: {"", "blank", "ok"},
                  expected: {Missing, "ok", "bad", "list"}] : a \in Checked
    <3>1. /\ {"status", "bodyField", "rowCount", "valueEquals", "stdoutContains"} \subseteq Types
          /\ {"", "blank", "ok"} \subseteq Phrase /\ {"ok", "bad", "list"} \subseteq Phrase
      <4>1. Types = {"status", "bodyField", "header", "responseTime", "rowCount", "valueEquals",
                     "exitCode", "stdoutContains"}
        BY DEF Types, AssertionsByKind
      <4> QED BY <4>1, InstanceWords, FormsWords
    <3> QED BY <3>1, FormsWords DEF Checked, Given
  <2>2. c \in SUBSET Checked
    BY <2>1 DEF CheckSets
  <2> QED BY <1>1, <2>2 DEF TextOfStep
<1>2. ASSUME NEW e \in ExtractSets, v = [s EXCEPT !.extract = e]
      PROVE  v \in TextOfStep /\ v.request = s.request /\ v.action = s.action /\ v.kind = s.kind
  <2>1. \A x \in [name: {"", "ok"}, path: {"", "blank", "ok"}, source: {"body"}] : x \in HandedOn
    BY FormsWords DEF HandedOn, Sources
  <2>2. e \in SUBSET HandedOn
    BY <2>1 DEF ExtractSets
  <2> QED BY <1>2, <2>2 DEF TextOfStep
<1>3. ASSUME NEW r \in {Missing} \cup [attempts: 0..2, delay: {-1, 0}], v = [s EXCEPT !.retry = r]
      PROVE  v \in TextOfStep /\ v.request = s.request /\ v.action = s.action /\ v.kind = s.kind
  <2>1. r \in Retried \cup {Missing}
    BY <1>3 DEF Retried
  <2> QED BY <1>3, <2>1 DEF TextOfStep
<1>4. ASSUME NEW t \in Texts \X Texts, v = [s EXCEPT !.id = t[1], !.name = t[2]]
      PROVE  v \in TextOfStep /\ v.request = s.request /\ v.action = s.action /\ v.kind = s.kind
  <2>1. t[1] \in Phrase /\ t[2] \in Phrase
    BY InstanceWords
  <2> QED BY <1>4, <2>1 DEF TextOfStep
<1> DEFINE Good(x) == x \in TextOfStep /\ x.request = s.request /\ x.action = s.action /\ x.kind = s.kind
           C(c) == [s EXCEPT !.checks = c]
           E(e) == [s EXCEPT !.extract = e]
           R(r) == [s EXCEPT !.retry = r]
           I(t) == [s EXCEPT !.id = t[1], !.name = t[2]]
<1>5. v \in {C(c) : c \in CheckSets} \cup {E(e) : e \in ExtractSets}
           \cup {R(r) : r \in {Missing} \cup [attempts: 0..2, delay: {-1, 0}]}
           \cup {I(t) : t \in Texts \X Texts}
  BY DEF Variants
<1>6. /\ \A c \in CheckSets : v = C(c) => Good(v)
      /\ \A e \in ExtractSets : v = E(e) => Good(v)
      /\ \A r \in {Missing} \cup [attempts: 0..2, delay: {-1, 0}] : v = R(r) => Good(v)
      /\ \A t \in Texts \X Texts : v = I(t) => Good(v)
  BY <1>1, <1>2, <1>3, <1>4
<1> HIDE DEF C, E, R, I
<1>7. Good(v)
  <2> HIDE DEF Good
  <2> QED BY <1>5, <1>6
<1> QED BY <1>7

\* Steps of any payload.
LEMMA StepsOfAreSteps ==
  ASSUME NEW K, K \subseteq Named, NEW M, M \subseteq Phrase, NEW U, U \subseteq Phrase, NEW B, B \subseteq Given,
         NEW T, T \subseteq Given, NEW s \in StepsOf(K, Requests(M, U, B), Actions(T))
  PROVE  s \in TextOfStep /\ (s.request # Missing => s.request.body \in B)
<1>1. ASSUME NEW q \in Requests(M, U, B)
      PROVE  q \in Requested \cup {Missing} /\ (q # Missing => q.body \in B)
  <2>1. {Missing, "ok", "bad"} \subseteq Given
    BY FormsWords DEF Given
  <2> QED BY <2>1 DEF Requests, Requested
<1>2. ASSUME NEW a \in Actions(T) PROVE a \in Acted \cup {Missing}
  BY InstanceWords DEF Actions, Acted
<1>3. /\ s \in [id: {"ok"}, name: {"ok"}, kind: K, request: Requests(M, U, B), action: Actions(T), extract: {{}},
                checks: {{}}, onFailure: {"abort"}, retry: {Missing}]
  BY DEF StepsOf
<1>4. "ok" \in Phrase /\ "abort" \in Named /\ {} \in SUBSET HandedOn /\ {} \in SUBSET Checked
  BY InstanceWords
<1> QED BY <1>1, <1>2, <1>3, <1>4 DEF TextOfStep

\* The replies of the small instances are steps.
LEMMA RepliesAreSteps == Replies \subseteq TextOfStep
<1>1. StepsOf(StepKinds, Requests({"GET"}, Texts, {"", "object", "bad", "array", "scalar", "broken"}), Actions(Texts))
        \subseteq TextOfStep
  <2>1. /\ StepKinds \subseteq Named /\ {"GET"} \subseteq Phrase /\ Texts \subseteq Phrase /\ Texts \subseteq Given
        /\ {"", "object", "bad", "array", "scalar", "broken"} \subseteq Given
    BY InstanceWords, FormsWords DEF StepKinds
  <2> QED BY <2>1, StepsOfAreSteps
<1>2. \A k \in StepKinds : Variants(PlainStep(k, "")) \subseteq TextOfStep
  <2>1. "" \in Given
    BY FormsWords DEF Given
  <2> QED BY <2>1, PlainStepIsStep, VariantsAreSteps
<1> QED BY <1>1, <1>2 DEF Replies

\* And so are the files.
LEMMA FilesAreSteps == Files \subseteq FileStep
<1> DEFINE bodies == {Missing, "object", "bad", "array"}
<1>1. StepsOf(StepKinds \cup {Missing, "ftp"}, Requests({"GET", "get", "TRACE"}, Texts \cup {"query"}, bodies),
              Actions({Missing, "", "blank", "ok", "bad"})) \subseteq FileStep
  <2>1. /\ StepKinds \cup {Missing, "ftp"} \subseteq Named /\ {"GET", "get", "TRACE"} \subseteq Phrase
        /\ Texts \cup {"query"} \subseteq Phrase /\ bodies \subseteq Given
        /\ {Missing, "", "blank", "ok", "bad"} \subseteq Given
    BY InstanceWords, FormsWords DEF StepKinds, Given
  <2> DEFINE S == StepsOf(StepKinds \cup {Missing, "ftp"}, Requests({"GET", "get", "TRACE"}, Texts \cup {"query"}, bodies),
                          Actions({Missing, "", "blank", "ok", "bad"}))
  <2>2. \A s \in S : s \in TextOfStep /\ (s.request # Missing => s.request.body \in bodies)
    <3> HIDE DEF bodies
    <3> QED BY <2>1, StepsOfAreSteps
  <2> HIDE DEF S
  <2>3. S \subseteq FileStep
    BY <2>2 DEF FileStep
  <2> QED BY <2>3 DEF S
<1>2. \A k \in StepKinds \cup {Missing} :
        /\ PlainStep(k, Missing) \in TextOfStep
        /\ PlainStep(k, Missing).request # Missing => PlainStep(k, Missing).request.body = Missing
        /\ k \in {"sql", "shell"} => PlainStep(k, Missing).action \in Acted /\ PlainStep(k, Missing).request = Missing
  <2>1. Missing \in Given
    BY DEF Given
  <2> SUFFICES ASSUME NEW k \in StepKinds \cup {Missing}
               PROVE  LET s == PlainStep(k, Missing) IN
                      /\ s \in TextOfStep /\ (s.request # Missing => s.request.body = Missing)
                      /\ k \in {"sql", "shell"} => s.action \in Acted /\ s.request = Missing
    OBVIOUS
  <2> DEFINE s == PlainStep(k, Missing)
  <2>2. /\ s \in TextOfStep /\ (s.request # Missing => s.request.body = Missing)
        /\ k \in {"http", Missing} <=> s.request # Missing
        /\ k \in {"sql", "shell"} => s.action # Missing
    BY <2>1, PlainStepIsStep
  <2> HIDE DEF s
  <2>3. s.action \in Acted \cup {Missing} /\ (k \in {"sql", "shell"} => k \notin {"http", Missing})
    BY <2>2, NoWord DEF TextOfStep
  <2> QED BY <2>2, <2>3 DEF s
<1>3. \A k \in StepKinds \cup {Missing} : Variants(PlainStep(k, Missing)) \subseteq FileStep
  <2> SUFFICES ASSUME NEW k \in StepKinds \cup {Missing}, NEW v \in Variants(PlainStep(k, Missing))
               PROVE  v \in FileStep
    OBVIOUS
  <2>1. v \in TextOfStep /\ v.request = PlainStep(k, Missing).request
    BY <1>2, VariantsAreSteps
  <2> QED BY <1>2, <2>1 DEF FileStep
<1>4. ASSUME NEW k \in StepKinds, NEW o \in Named PROVE [PlainStep(k, Missing) EXCEPT !.onFailure = o] \in FileStep
  <2> DEFINE s == PlainStep(k, Missing)
  <2>1. s \in TextOfStep /\ (s.request # Missing => s.request.body = Missing)
    BY <1>2
  <2> HIDE DEF s
  <2>2. \A x : x = [s EXCEPT !.onFailure = o] => x \in TextOfStep /\ x.request = s.request
    BY <2>1 DEF TextOfStep
  <2> QED BY <2>1, <2>2 DEF FileStep, s
<1>5. ASSUME NEW k \in {"sql", "shell"} PROVE [PlainStep(k, Missing) EXCEPT !.action.target = "neither"] \in FileStep
  <2> DEFINE s == PlainStep(k, Missing)
             a == [s.action EXCEPT !.target = "neither"]
  <2>1. s \in TextOfStep /\ s.action \in Acted /\ s.request = Missing
    BY <1>2 DEF StepKinds
  <2>2. [s EXCEPT !.action.target = "neither"] = [s EXCEPT !.action = a]
    OBVIOUS
  <2>3. a \in Acted
    BY <2>1, InstanceWords DEF Acted
  <2> HIDE DEF s, a
  <2>4. \A x : x = [s EXCEPT !.action = a] => x \in TextOfStep /\ x.request = Missing
    BY <2>1, <2>3 DEF TextOfStep
  <2> QED BY <2>2, <2>4 DEF FileStep, s
<1>6. "stop" \in Named /\ Missing \in Named /\ "sql" \in StepKinds /\ "http" \in StepKinds
  BY InstanceWords DEF StepKinds
<1> QED BY <1>1, <1>3, <1>4, <1>5, <1>6 DEF Files

\* And what becomes of a form in three edits is a form.
LEMMA FormsAreForms == FormsAsKept \subseteq Form
<1>1. \A k \in StepKinds \cup {Missing} : Opened(PlainStep(k, Missing)) \in Form
  <2> SUFFICES ASSUME NEW k \in StepKinds \cup {Missing} PROVE Opened(PlainStep(k, Missing)) \in Form
    OBVIOUS
  <2> DEFINE s == PlainStep(k, Missing)
  <2>1. /\ s \in TextOfStep /\ s.kind = k
        /\ k \in {"http", Missing} <=> s.request # Missing
        /\ k \in {"sql", "shell"} => s.action # Missing /\ s.action.target \in Purposes
        /\ k \in {"http", Missing} => s.action = Missing
    <3>1. Missing \in Given
      BY DEF Given
    <3> QED BY <3>1, PlainStepIsStep
  <2> HIDE DEF s
  <2>2. /\ KindOf(s) \in StepKinds
        /\ KindOf(s) = "http" => s.request # Missing
        /\ KindOf(s) # "http" => s.action # Missing
        /\ s.action # Missing => s.action.target \in Purposes
    BY <2>1 DEF KindOf, StepKinds
  <2>3. Opened(s) \in Form
    BY <2>1, <2>2, OpenedIsForm
  <2> QED BY <2>3 DEF s
<1>2. Opened(BlankStep("ok", "http")) \in Form
  <2> DEFINE s == BlankStep("ok", "http")
             x == [id |-> "ok", name |-> "", kind |-> "http", request |-> NewRequest, action |-> Missing,
                   extract |-> {}, checks |-> {}, onFailure |-> "abort", retry |-> Missing]
  <2>1. s = x
    BY DEF BlankStep
  <2>2. NewRequest \in Requested
    BY FormsWords DEF NewRequest, Requested, Given, Methods
  <2>3. x \in TextOfStep /\ x.kind = "http" /\ x.request = NewRequest /\ x.action = Missing
    <3>1. "ok" \in Phrase /\ "" \in Phrase /\ "http" \in Named /\ "abort" \in Named
      BY InstanceWords, FormsWords
    <3> QED BY <2>2, <3>1 DEF TextOfStep
  <2> HIDE DEF x
  <2>4. KindOf(x) = "http" /\ x.request # Missing
    BY <2>2, <2>3, NoWord DEF KindOf
  <2>5. Opened(x) \in Form
    BY <2>3, <2>4, OpenedIsForm DEF StepKinds
  <2> QED BY <2>1, <2>5
<1>3. FormsOpened \subseteq Form
  BY <1>1, <1>2 DEF FormsOpened
<1>4. FormsEdited \subseteq Form
  BY <1>3, EditsKeepForms DEF FormsEdited
<1>5. FormsOnce \subseteq Form
  BY <1>4, EditsKeepForms DEF FormsOnce
<1> QED BY <1>5, EditsKeepForms DEF FormsAsKept

\* At every step of every run: the gates of the dashboard let through what the machine loads.
THEOREM StepTextsAreLoaded == Spec => []StepTextsLoad
<1>1. EveryTextLoads
  BY RepliesLoad, RepliesAreSteps, KeptStepsLoad, FormsAreForms DEF EveryTextLoads
<1>2. StepTextsLoad
  BY <1>1 DEF StepTextsLoad
<1> QED BY <1>2, PTL

\* And a step means the same where it was written, pushed, opened and kept.
THEOREM StepTextsMeanTheSame == Spec => []StepTextsKeepTheirMeaning
<1>1. Files \subseteq FileStep /\ FileStep \subseteq TextOfStep
  BY FilesAreSteps DEF FileStep
<1>2. EveryTextKeepsItsMeaning
  BY <1>1, LoadedStepsArePushed, PushedStepsMeanTheSame, OpenedStepsMeanTheSame DEF EveryTextKeepsItsMeaning
<1>3. StepTextsKeepTheirMeaning
  BY <1>2 DEF StepTextsKeepTheirMeaning
<1> QED BY <1>3, PTL

-----------------------------------------------------------------------------
(* Answers: what a check says of one, what is read out of one, and what a  *)
(* step hands on of many.                                                  *)

\* A comparison and its opposite have opposite verdicts, of any two values.
LEMMA Opposites ==
  ASSUME NEW actual, NEW expected
  PROVE  /\ {Compare("equals", actual, expected), Compare("notEquals", actual, expected)} = {"passed", "failed"}
         /\ {Compare("contains", actual, expected), Compare("notContains", actual, expected)} = {"passed", "failed"}
<1> DEFINE found == actual # Absent
           same  == Normalise(actual) = Normalise(expected)
           holds == Holds(Normalise(actual), Normalise(expected))
<1>1. /\ Compare("equals", actual, expected) = Verdict(found /\ same)
      /\ Compare("notEquals", actual, expected) = Verdict(found => ~same)
      /\ Compare("contains", actual, expected) = Verdict(found /\ holds)
      /\ Compare("notContains", actual, expected) = Verdict(found => ~holds)
  BY DEF Compare
<1> HIDE DEF found, same, holds
<1> QED BY <1>1 DEF Verdict

\* Whatever a check is of, it and its opposite never agree unless neither can be answered.
LEMMA ChecksDisagree ==
  ASSUME NEW a, DOMAIN a = {"type", "target", "operator", "expected"}, NEW res, NEW env
  PROVE  Disagree(a, res, env)
<1> DEFINE expected == Deep(a.expected, env)
           lost == (a.type = "bodyField" /\ ~IsJSON(res)) \/ expected = Absent
<1>1. ASSUME NEW op
      PROVE  Outcome([a EXCEPT !.operator = op], res, env) =
               IF lost THEN "error" ELSE Compare(op, ActualOf(a, res), expected)
  <2> DEFINE b == [a EXCEPT !.operator = op]
  <2>1. b.type = a.type /\ b.target = a.target /\ b.expected = a.expected /\ b.operator = op
    OBVIOUS
  <2> HIDE DEF b
  <2>2. ActualOf(b, res) = ActualOf(a, res)
    BY <2>1 DEF ActualOf, ReadAt
  <2>3. Outcome(b, res, env) = IF lost THEN "error" ELSE Compare(op, ActualOf(a, res), expected)
    BY <2>1, <2>2 DEF Outcome
  <2> QED BY <2>3 DEF b
<1> HIDE DEF expected, lost
<1>2. CASE lost
  BY <1>1, <1>2 DEF Disagree
<1>3. CASE ~lost
  BY <1>1, <1>3, Opposites DEF Disagree
<1> QED BY <1>2, <1>3

\* What a check that is called by its channel says does not depend on its target.
LEMMA ChecksArePinned ==
  ASSUME NEW a, DOMAIN a = {"type", "target", "operator", "expected"}, NEW target, NEW res, NEW env
  PROVE  Pinned(a, target, res, env)
<1> SUFFICES ASSUME a.type \in DOMAIN Channels
             PROVE  Outcome([a EXCEPT !.target = target], res, env) = Outcome(a, res, env)
  BY DEF Pinned
<1> DEFINE b == [a EXCEPT !.target = target]
<1>1. b.type = a.type /\ b.expected = a.expected /\ b.operator = a.operator
  OBVIOUS
<1> HIDE DEF b
<1>2. a.type \in {"exitCode", "rowCount", "stdoutContains"}
  BY DEF Channels
<1>3. ReadAt(b) = ReadAt(a)
  BY <1>1 DEF ReadAt
<1>4. ActualOf(b, res) = ActualOf(a, res)
  BY <1>1, <1>2, <1>3 DEF ActualOf
<1>5. Outcome(b, res, env) = Outcome(a, res, env)
  BY <1>1, <1>4 DEF Outcome
<1> QED BY <1>5 DEF b

\* A path with a segment before it.
LEMMA Prepended ==
  ASSUME NEW S, NEW s \in S, NEW q \in Seq(S)
  PROVE  /\ <<s>> \o q \in Seq(S) /\ Len(<<s>> \o q) = Len(q) + 1 /\ <<s>> \o q # <<>>
         /\ Head(<<s>> \o q) = s /\ Tail(<<s>> \o q) = q
         /\ SubSeq(<<s>> \o q, 1, 1) = <<s>>
         /\ SubSeq(<<s>> \o q, 2, Len(<<s>> \o q)) = q
<1> DEFINE p == <<s>> \o q
<1>1. <<s>> \in Seq(S) /\ Len(<<s>>) = 1 /\ <<s>>[1] = s
  OBVIOUS
<1>2. p \in Seq(S) /\ Len(p) = Len(q) + 1 /\ p[1] = s /\ \A i \in 1..Len(q) : p[i + 1] = q[i]
  BY <1>1
<1> HIDE DEF p
<1>3. p # <<>> /\ Head(p) = s
  BY <1>2
<1>4. Tail(p) = q
  <2>1. Len(p) \in Nat /\ Len(q) \in Nat /\ Len(p) - 1 = Len(q)
    BY <1>2
  <2>2. Tail(p) \in Seq(S) /\ Len(Tail(p)) = Len(q)
    BY <1>2, <1>3, <2>1
  <2>3. \A i \in 1..Len(q) : Tail(p)[i] = q[i]
    BY <1>2, <1>3, <2>1
  <2> QED BY <2>2, <2>3, SeqEqual
<1>5. SubSeq(p, 1, 1) = <<s>>
  <2>1. /\ SubSeq(p, 1, 1) \in Seq(S) /\ Len(SubSeq(p, 1, 1)) = 1
        /\ SubSeq(p, 1, 1)[1] = s
    BY <1>2
  <2>2. \A i \in 1..Len(SubSeq(p, 1, 1)) : SubSeq(p, 1, 1)[i] = <<s>>[i]
    BY <1>1, <2>1
  <2> QED BY <1>1, <2>1, <2>2, SeqEqual
<1>6. SubSeq(p, 2, Len(p)) = q
  <2>1. Len(q) \in Nat /\ Len(p) - 1 = Len(q)
    BY <1>2
  <2>2. SubSeq(p, 2, Len(p)) \in Seq(S) /\ Len(SubSeq(p, 2, Len(p))) = Len(q)
    BY <1>2, <2>1
  <2>3. \A i \in 1..Len(q) : SubSeq(p, 2, Len(p))[i] = q[i]
    BY <1>2, <2>1
  <2> QED BY <2>2, <2>3, SeqEqual
<1> QED BY <1>2, <1>3, <1>4, <1>5, <1>6 DEF p

\* A value that is there, and whose paths are made of these segments.
Rooted(v, S) ==
  /\ v = [p \in DOMAIN v |-> v[p]]
  /\ <<>> \in DOMAIN v /\ DOMAIN v \subseteq Seq(S)

\* The values that something has under its segments.
Branches(of, S) == DOMAIN of \subseteq S /\ \A seg \in DOMAIN of : Rooted(of[seg], S)

\* The value that a node has under a segment is read back at that segment.
LEMMA NodeAt ==
  ASSUME NEW S, NEW kind, NEW of, Branches(of, S), NEW seg \in DOMAIN of, <<seg>> # Absent
  PROVE  Value(Node(kind, of), <<seg>>) = of[seg]
<1> DEFINE Under(s) == {<<s>> \o q : q \in DOMAIN of[s]}
           doc == Node(kind, of)
           read(p) == IF p = <<>> THEN <<kind>> ELSE of[Head(p)][Tail(p)]
           all == {<<>>} \cup (UNION {Under(s) : s \in DOMAIN of})
           here == {r \in all : IsPrefix(<<seg>>, r)}
<1>0. /\ DOMAIN of \subseteq S /\ \A s \in DOMAIN of : DOMAIN of[s] \subseteq Seq(S)
      /\ <<>> \in DOMAIN of[seg]
  BY DEF Branches, Rooted
<1>1. doc = [p \in all |-> read(p)]
  BY DEF Node
<1>2. ASSUME NEW s \in DOMAIN of, NEW q \in DOMAIN of[s]
      PROVE  /\ <<s>> \o q \in Seq(S) /\ Len(<<s>> \o q) = Len(q) + 1 /\ <<s>> \o q # <<>>
             /\ Head(<<s>> \o q) = s /\ Tail(<<s>> \o q) = q
             /\ SubSeq(<<s>> \o q, 1, 1) = <<s>>
             /\ SubSeq(<<s>> \o q, 2, Len(<<s>> \o q)) = q
             /\ Len(q) \in Nat
  <2>1. s \in S /\ q \in Seq(S)
    BY <1>0
  <2> QED BY <2>1, Prepended
<1>3. ASSUME NEW s \in DOMAIN of, NEW q \in DOMAIN of[s]
      PROVE  IsPrefix(<<seg>>, <<s>> \o q) <=> s = seg
  <2>1. Len(<<seg>>) = 1 /\ SubSeq(<<seg>>, 1, 1) = <<seg>>
    <3>1. <<seg>> \in Seq(S) /\ Len(<<seg>>) = 1
      BY <1>0
    <3> QED BY <3>1, SubSeqFull
  <2>2. Len(<<s>> \o q) >= 1
    BY <1>2
  <2> QED BY <1>2, <2>1, <2>2 DEF IsPrefix
<1>4. ~IsPrefix(<<seg>>, <<>>)
  BY DEF IsPrefix
<1>5. here = Under(seg)
  <2>1. ASSUME NEW r \in Under(seg) PROVE r \in here
    <3>1. PICK q \in DOMAIN of[seg] : r = <<seg>> \o q
      OBVIOUS
    <3>2. IsPrefix(<<seg>>, r)
      BY <1>3, <3>1
    <3> HIDE DEF Under
    <3> QED BY <3>2
  <2>2. ASSUME NEW r \in here PROVE r \in Under(seg)
    <3>1. PICK s \in DOMAIN of : r \in Under(s)
      BY <1>4
    <3>2. PICK q \in DOMAIN of[s] : r = <<s>> \o q
      BY <3>1
    <3>3. s = seg
      BY <1>3, <3>2
    <3> QED BY <3>1, <3>3
  <2> HIDE DEF here, Under
  <2> QED BY <2>1, <2>2
<1>6. {SubSeq(p, Len(<<seg>>) + 1, Len(p)) : p \in here} = DOMAIN of[seg]
  <2>1. Len(<<seg>>) + 1 = 2
    OBVIOUS
  <2> DEFINE put(q) == <<seg>> \o q
             cut(p) == SubSeq(p, 2, Len(p))
  <2>2. \A q \in DOMAIN of[seg] : cut(put(q)) = q
    BY <1>2
  <2>3. here = {put(q) : q \in DOMAIN of[seg]}
    BY <1>5
  <2>4. {SubSeq(p, Len(<<seg>>) + 1, Len(p)) : p \in here} = {cut(p) : p \in here}
    BY <2>1
  <2> HIDE DEF here, put, cut
  <2>5. ASSUME NEW p \in here PROVE cut(p) \in DOMAIN of[seg]
    BY <2>2, <2>3
  <2>6. ASSUME NEW q \in DOMAIN of[seg] PROVE \E p \in here : q = cut(p)
    BY <2>2, <2>3
  <2>7. {cut(p) : p \in here} = DOMAIN of[seg]
    BY <2>5, <2>6
  <2> QED BY <2>4, <2>7
<1>7. ASSUME NEW q \in DOMAIN of[seg] PROVE doc[<<seg>> \o q] = of[seg][q]
  <2>0. <<seg>> \o q \in Under(seg)
    OBVIOUS
  <2>1. <<seg>> \o q \in all /\ <<seg>> \o q # <<>> /\ Head(<<seg>> \o q) = seg /\ Tail(<<seg>> \o q) = q
    <3> HIDE DEF Under
    <3> QED BY <1>2, <2>0
  <2>2. read(<<seg>> \o q) = of[seg][q]
    BY <2>1
  <2> HIDE DEF all, read
  <2> QED BY <1>1, <2>1, <2>2
<1>8. <<seg>> \in DOMAIN doc
  <2>1. <<seg>> \o <<>> = <<seg>>
    OBVIOUS
  <2> QED BY <1>0, <1>1, <2>1
<1>9. DOMAIN doc = all
  BY <1>1
<1> HIDE DEF doc, here
<1>10. Value(doc, <<seg>>) = [q \in {SubSeq(p, Len(<<seg>>) + 1, Len(p)) : p \in here} |-> doc[<<seg>> \o q]]
  BY <1>8, <1>9 DEF Value, here
<1>11. Value(doc, <<seg>>) = [q \in DOMAIN of[seg] |-> of[seg][q]]
  BY <1>6, <1>7, <1>10
<1>12. of[seg] = [q \in DOMAIN of[seg] |-> of[seg][q]]
  BY DEF Branches, Rooted
<1> QED BY <1>11, <1>12 DEF doc

\* What is under it makes a value.
LEMMA NodeIsRooted ==
  ASSUME NEW S, NEW kind, NEW of, Branches(of, S) PROVE Rooted(Node(kind, of), S)
<1> DEFINE Under(s) == {<<s>> \o q : q \in DOMAIN of[s]}
           doc == Node(kind, of)
<1>1. DOMAIN doc = {<<>>} \cup (UNION {Under(s) : s \in DOMAIN of}) /\ doc = [p \in DOMAIN doc |-> doc[p]]
  BY DEF Node
<1>2. ASSUME NEW s \in DOMAIN of PROVE Under(s) \subseteq Seq(S)
  <2>1. s \in S /\ DOMAIN of[s] \subseteq Seq(S)
    BY DEF Branches, Rooted
  <2> QED BY <2>1, Prepended
<1>3. <<>> \in Seq(S)
  OBVIOUS
<1> HIDE DEF Under, doc
<1>4. Rooted(doc, S)
  BY <1>1, <1>2, <1>3 DEF Rooted
<1> QED BY <1>4 DEF doc

\* A value that is no more than this.
LEMMA LeafIs ==
  ASSUME NEW x, NEW S PROVE Rooted(Leaf(x), S) /\ DOMAIN Leaf(x) = {<<>>} /\ Leaf(x)[<<>>] = x
<1>1. <<>> \in Seq(S)
  OBVIOUS
<1> QED BY <1>1 DEF Leaf, Rooted

\* What the kinds other than a request answer is read back under its name.
LEMMA SyntheticAt ==
  ASSUME NEW S, NEW answers, \A k \in DOMAIN answers : <<"key", k>> \in S /\ Rooted(answers[k], S),
         NEW k \in DOMAIN answers, <<<<"key", k>>>> # Absent
  PROVE  Value(Synthetic(answers).json, <<<<"key", k>>>>) = answers[k]
<1> DEFINE of == [seg \in {<<"key", j>> : j \in DOMAIN answers} |-> answers[seg[2]]]
<1>1. Synthetic(answers).json = Node("map", of)
  BY DEF Synthetic
<1>2. ASSUME NEW j \in DOMAIN answers PROVE <<"key", j>> \in DOMAIN of /\ of[<<"key", j>>] = answers[j]
  OBVIOUS
<1>3. \A seg \in DOMAIN of : \E j \in DOMAIN answers : seg = <<"key", j>>
  OBVIOUS
<1> HIDE DEF of
<1>4. Branches(of, S)
  BY <1>2, <1>3 DEF Branches
<1>5. <<"key", k>> \in DOMAIN of /\ of[<<"key", k>>] = answers[k]
  BY <1>2
<1> DEFINE seg == <<"key", k>>
<1> HIDE DEF seg
<1>6. seg \in DOMAIN of /\ of[seg] = answers[k] /\ <<seg>> # Absent
  BY <1>5 DEF seg
<1>7. Value(Node("map", of), <<seg>>) = of[seg]
  BY <1>4, <1>6, NodeAt
<1> QED BY <1>1, <1>6, <1>7 DEF seg

\* The rows that were found are a value.
LEMMA RowsAreRooted ==
  ASSUME NEW S, \A i \in Nat : <<"index", i>> \in S, NEW R, \A r \in R : Rooted(r, S), NEW rows \in Seq(R)
  PROVE  Rooted(Rows(rows), S)
<1> DEFINE of == [seg \in {<<"index", i>> : i \in 0..(Len(rows) - 1)} |-> rows[seg[2] + 1]]
<1>1. Rows(rows) = Node("list", of)
  BY DEF Rows
<1>2. ASSUME NEW seg \in DOMAIN of PROVE seg \in S /\ of[seg] \in R
  OBVIOUS
<1> HIDE DEF of
<1>3. Branches(of, S)
  BY <1>2 DEF Branches
<1> QED BY <1>1, <1>3, NodeIsRooted

\* A check for the number of rows reads it.
LEMMA CountsRead ==
  ASSUME NEW n \in 0..MaxSQLRows, NEW res,
         Value(res.json, <<<<"key", "rowCount">>>>) = Leaf(<<"num", n>>)
  PROVE  Outcome([type |-> "rowCount", operator |-> "equals", target |-> Absent, expected |-> Leaf(<<"num", n>>)],
                 res, <<>>) = "passed"
<1> DEFINE a == [type |-> "rowCount", operator |-> "equals", target |-> Absent, expected |-> Leaf(<<"num", n>>)]
           said == Leaf(<<"num", n>>)
<1>1. a.type = "rowCount" /\ a.operator = "equals" /\ a.expected = said
  OBVIOUS
<1> HIDE DEF a
<1>2. ReadAt(a) = <<<<"key", "rowCount">>>>
  BY <1>1 DEF ReadAt, Channels
<1>3. ActualOf(a, res) = said
  BY <1>1, <1>2 DEF ActualOf
<1>4. said[<<>>] = <<"num", n>> /\ DOMAIN said = {<<>>} /\ said # Absent /\ <<"num", n>> # Absent
  BY LeafIs, CountAssumption
<1>5. Deep(said, <<>>) = said
  <2>1. said = [p \in DOMAIN said |-> said[p]]
    BY DEF Leaf
  <2>2. \A p \in DOMAIN said : said[p] = <<"num", n>>
    BY <1>4
  <2> HIDE DEF said
  <2>3. Deep(said, <<>>) = AllOf(said)
    <3>1. \A p \in DOMAIN said : said[p][1] # "text"
      BY <2>2
    <3> QED BY <2>1, <3>1 DEF Deep
  <2> QED BY <1>4, <2>2, <2>3 DEF AllOf
<1> HIDE DEF said
<1>6. Compare("equals", said, said) = "passed"
  BY <1>4 DEF Compare, Verdict
<1>7. Outcome(a, res, <<>>) = "passed"
  BY <1>1, <1>3, <1>4, <1>5, <1>6 DEF Outcome
<1> QED BY <1>7 DEF a, said

\* As many rows as a result set is read up to are counted, whatever is in them, and as
\* many as were moved.
LEMMA RowsAreCounted ==
  ASSUME NEW S, \A i \in Nat : <<"index", i>> \in S,
         <<"key", "rowsAffected">> \in S, <<"key", "rowCount">> \in S, <<"key", "rows">> \in S, <<"key", "row">> \in S,
         NEW R, \A r \in R : Rooted(r, S), NEW rows \in Seq(R), NEW moved \in Nat, NEW target
  PROVE  Counted(target, rows, moved)
<1> DEFINE n == IF target = "verify" THEN Len(rows) ELSE moved
           res == RunStatement(target, rows, moved)
           path == <<<<"key", "rowCount">>>>
<1>1. SUFFICES ASSUME n <= MaxSQLRows
               PROVE  Outcome([type |-> "rowCount", operator |-> "equals", target |-> Absent,
                               expected |-> Leaf(<<"num", n>>)], res, <<>>) = "passed"
  BY DEF Counted
<1>2. n \in 0..MaxSQLRows
  BY <1>1, CountAssumption
<1>3. Value(res.json, path) = Leaf(<<"num", n>>)
  <2>1. CASE target # "verify"
    <3> DEFINE answers == [k \in {"rowsAffected", "rowCount"} |-> Leaf(<<"num", moved>>)]
    <3>1. res = Synthetic(answers)
      BY <2>1 DEF RunStatement
    <3>2. DOMAIN answers = {"rowsAffected", "rowCount"} /\ \A k \in DOMAIN answers : answers[k] = Leaf(<<"num", moved>>)
      OBVIOUS
    <3> HIDE DEF answers, res
    <3>3. \A k \in DOMAIN answers : <<"key", k>> \in S /\ Rooted(answers[k], S)
      BY <3>2, LeafIs
    <3>4. "rowCount" \in DOMAIN answers
      BY <3>2
    <3>5. path # Absent
      BY CountAssumption
    <3>6. Value(Synthetic(answers).json, path) = answers["rowCount"]
      BY <3>3, <3>4, <3>5, SyntheticAt
    <3> QED BY <2>1, <3>1, <3>2, <3>6
  <2>2. CASE target = "verify"
    <3> DEFINE names == {"rowCount", "rows"} \cup (IF rows = <<>> THEN {} ELSE {"row"})
               answer(k) == CASE k = "rowCount" -> Leaf(<<"num", Len(rows)>>)
                              [] k = "rows"     -> Rows(rows)
                              [] k = "row"      -> rows[1]
               answers == [k \in names |-> answer(k)]
    <3>1. SubSeq(rows, 1, IF Len(rows) < MaxSQLRows THEN Len(rows) ELSE MaxSQLRows) = rows
      <4>1. (IF Len(rows) < MaxSQLRows THEN Len(rows) ELSE MaxSQLRows) = Len(rows)
        BY <1>2, <2>2, CountAssumption
      <4>2. SubSeq(rows, 1, Len(rows)) = rows
        BY SubSeqFull
      <4> QED BY <4>1, <4>2
    <3>2. res = Synthetic(answers)
      BY <2>2, <3>1 DEF RunStatement
    <3>3. answer("rowCount") = Leaf(<<"num", Len(rows)>>) /\ answer("rows") = Rows(rows) /\ answer("row") = rows[1]
      OBVIOUS
    <3>4. Rooted(Rows(rows), S)
      BY RowsAreRooted
    <3>5. rows # <<>> => Rooted(rows[1], S)
      BY Len(rows) \in Nat
    <3>6. Rooted(Leaf(<<"num", Len(rows)>>), S)
      BY LeafIs
    <3>7. DOMAIN answers = names /\ \A k \in names : answers[k] = answer(k)
      OBVIOUS
    <3>8. names \subseteq {"rowCount", "rows", "row"} /\ ("row" \in names => rows # <<>>) /\ "rowCount" \in names
      OBVIOUS
    <3> HIDE DEF answers, res, answer, names
    <3>9. \A k \in DOMAIN answers : <<"key", k>> \in S /\ Rooted(answers[k], S)
      BY <3>3, <3>4, <3>5, <3>6, <3>7, <3>8
    <3>11. path # Absent
      BY CountAssumption
    <3>12. Value(Synthetic(answers).json, path) = answers["rowCount"]
      BY <3>7, <3>8, <3>9, <3>11, SyntheticAt
    <3> QED BY <2>2, <3>2, <3>3, <3>7, <3>8, <3>12
  <2> QED BY <2>1, <2>2
<1> HIDE DEF n, res
<1> QED BY <1>2, <1>3, CountsRead

\* The same of rows whose paths are made of any segments.
LEMMA AnyRowsAreCounted ==
  ASSUME NEW S, NEW R, \A r \in R : Rooted(r, S), NEW rows \in Seq(R), NEW moved \in Nat, NEW target
  PROVE  Counted(target, rows, moved)
<1> DEFINE all == S \cup {<<"index", i>> : i \in Nat} \cup {<<"key", k>> : k \in {"rowsAffected", "rowCount", "rows", "row"}}
<1>1. /\ S \subseteq all /\ \A i \in Nat : <<"index", i>> \in all
      /\ <<"key", "rowsAffected">> \in all /\ <<"key", "rowCount">> \in all
      /\ <<"key", "rows">> \in all /\ <<"key", "row">> \in all
  OBVIOUS
<1> HIDE DEF all
<1>2. \A r \in R : Rooted(r, all)
  BY <1>1 DEF Rooted
<1> QED BY <1>1, <1>2, RowsAreCounted

\* A text of one part is that part.
LEMMA OneFlattened ==
  ASSUME NEW seqs, DOMAIN seqs = 1..1, Len(seqs) = 1 PROVE FlattenSeq(seqs) = seqs[1]
<1> DEFINE Flattens(f) == f = [i \in 1..1 |-> IF i = 1 THEN seqs[i] ELSE f[i - 1] \o seqs[i]]
<1>1. FlattenSeq(seqs) = (CHOOSE f : Flattens(f))[1]
  BY DEF FlattenSeq
<1>2. \E f : Flattens(f)
  <2> DEFINE f == [i \in 1..1 |-> seqs[i]]
  <2>1. Flattens(f)
    OBVIOUS
  <2> HIDE DEF f
  <2> QED BY <2>1
<1>3. Flattens(CHOOSE f : Flattens(f))
  <2> HIDE DEF Flattens
  <2> QED BY <1>2
<1> QED BY <1>1, <1>3

\* A template that is one variable is what the variable says.
LEMMA FilledFromOne ==
  ASSUME NEW name, NEW env, name \in DOMAIN env
  PROVE  Interpolated(<<<<"ref", name>>>>, env) = env[name]
<1> DEFINE ref == <<<<"ref", name>>>>
           parts == [i \in 1..Len(ref) |-> IF ref[i][1] = "ref" THEN env[ref[i][2]] ELSE <<ref[i]>>]
<1>1. Len(ref) = 1 /\ ref[1][1] = "ref" /\ ref[1][2] = name
  OBVIOUS
<1>2. Refs(ref) = {name}
  BY <1>1 DEF Refs
<1>3. Filled(ref, env) = FlattenSeq(parts)
  BY DEF Filled
<1>4. parts = [i \in 1..1 |-> env[name]]
  BY <1>1
<1>5. DOMAIN parts = 1..1 /\ parts[1] = env[name] /\ Len(parts) = 1
  BY <1>4
<1> HIDE DEF parts, ref
<1>6. Filled(ref, env) = env[name]
  BY <1>3, <1>5, OneFlattened
<1>7. Interpolated(ref, env) = env[name]
  BY <1>2, <1>6 DEF Interpolated
<1> QED BY <1>7 DEF ref

\* What is bound out of a body by one extraction.
LEMMA OneBound ==
  ASSUME NEW e, NEW res, NEW env, Read(e, res) # Absent
  PROVE  Extract(<<e>>, res, env) = [broken |-> FALSE, vars |-> Bind(e, res, env)]
<1> DEFINE es == <<e>>
           next(r, n) == IF r.broken \/ Read(es[n], res) = Absent THEN [r EXCEPT !.broken = TRUE]
                         ELSE [r EXCEPT !.vars = Bind(es[n], res, @)]
           start == [broken |-> FALSE, vars |-> env]
           Reads(f) == f = [n \in 0..1 |-> IF n = 0 THEN start ELSE next(f[n - 1], n)]
<1>1. Len(es) = 1 /\ es[1] = e
  OBVIOUS
<1>2. Extract(es, res, env) = (CHOOSE f : Reads(f))[1]
  BY <1>1 DEF Extract
<1>3. \E f : Reads(f)
  <2> DEFINE f == [n \in 0..1 |-> IF n = 0 THEN start ELSE next(start, 1)]
  <2> HIDE DEF start, next
  <2>1. f = [n \in 0..1 |-> IF n = 0 THEN start ELSE next(f[n - 1], n)]
    <3>1. \A n \in 0..1 : f[n] = IF n = 0 THEN start ELSE next(f[n - 1], n)
      OBVIOUS
    <3>2. f = [n \in 0..1 |-> f[n]]
      OBVIOUS
    <3> HIDE DEF f
    <3> QED BY <3>1, <3>2
  <2> HIDE DEF f
  <2> QED BY <2>1
<1>4. Reads(CHOOSE f : Reads(f))
  <2> HIDE DEF Reads
  <2> QED BY <1>3
<1>5. (CHOOSE f : Reads(f))[1] = next(start, 1)
  <2> HIDE DEF start, next
  <2> DEFINE g == CHOOSE f : Reads(f)
  <2>0. Reads(g)
    BY <1>4
  <2> HIDE DEF g
  <2>1. g = [n \in 0..1 |-> IF n = 0 THEN start ELSE next(g[n - 1], n)]
    BY <2>0
  <2>2. g[0] = start
    BY <2>1
  <2>3. g[1] = next(g[0], 1)
    BY <2>1
  <2>4. g[1] = next(start, 1)
    BY <2>2, <2>3
  <2> QED BY <2>4 DEF g
<1>6. next(start, 1) = [broken |-> FALSE, vars |-> Bind(e, res, env)]
  BY <1>1
<1> QED BY <1>2, <1>5, <1>6

\* A body that is a template of one variable is filled in as the text the variable says.
LEMMA DeepOfOne ==
  ASSUME NEW name, NEW env, name \in DOMAIN env, Spoken(env[name])
  PROVE  Deep(Leaf(<<"text", <<<<"ref", name>>>>>>), env) = Leaf(<<"text", env[name]>>)
<1> DEFINE said == Leaf(<<"text", <<<<"ref", name>>>>>>)
           fill(p) == IF said[p][1] # "text" THEN said[p]
                      ELSE LET t == Interpolated(said[p][2], env) IN IF t = Absent THEN Absent ELSE <<"text", t>>
<1>1. DOMAIN said = {<<>>} /\ said[<<>>] = <<"text", <<<<"ref", name>>>>>>
  BY LeafIs
<1>2. Interpolated(<<<<"ref", name>>>>, env) = env[name]
  BY FilledFromOne
<1>3. Deep(said, env) = AllOf([p \in DOMAIN said |-> fill(p)])
  BY DEF Deep
<1>4. fill(<<>>) = <<"text", env[name]>>
  BY <1>1, <1>2 DEF Spoken
<1> HIDE DEF fill, said
<1>5. [p \in DOMAIN said |-> fill(p)] = [p \in {<<>>} |-> <<"text", env[name]>>]
  BY <1>1, <1>4
<1>6. AllOf([p \in {<<>>} |-> <<"text", env[name]>>]) = [p \in {<<>>} |-> <<"text", env[name]>>]
  BY DEF AllOf, Spoken
<1>7. Leaf(<<"text", env[name]>>) = [p \in {<<>>} |-> <<"text", env[name]>>]
  BY DEF Leaf
<1> QED BY <1>3, <1>5, <1>6, <1>7 DEF said

\* Where a body has a value there, and what it says is a text, it comes back.
LEMMA ValueReturns ==
  ASSUME NEW given, NEW res, NEW path, NEW env, NEW name,
         Value(given, path) # Absent => Spoken(Normalise(Value(given, path)))
  PROVE  ComesBack(given, res, path, env, name)
<1> DEFINE v == Value(given, path)
           t == Normalise(v)
           e == [name |-> name, path |-> path, source |-> "body"]
           after == Extract(<<e>>, res, env)
           ref == <<<<"ref", name>>>>
           said == Leaf(<<"text", ref>>)
           claim == [type |-> "bodyField", target |-> path, operator |-> "equals", expected |-> said]
           Asks(x) == [url |-> x, values |-> [k |-> x], body |-> Leaf(<<"text", x>>)]
<1>1. SUFFICES ASSUME res.json = given, IsJSON(res), v # Absent
               PROVE  /\ ~after.broken /\ Outcome(claim, res, after.vars) = "passed"
                      /\ Built(Asks(ref), after.vars) = Asks(t)
  BY DEF ComesBack
<1>2. Spoken(t)
  BY <1>1
<1>3. e.source = "body" /\ e.path = path /\ e.name = name
  OBVIOUS
<1>4. Read(e, res) = t /\ t # Absent
  <2> HIDE DEF e
  <2> QED BY <1>1, <1>2, <1>3 DEF Read, Spoken
<1>5. after = [broken |-> FALSE, vars |-> Bind(e, res, env)]
  <2> HIDE DEF e, t
  <2> QED BY <1>4, OneBound
<1>6. name \in DOMAIN Bind(e, res, env) /\ Bind(e, res, env)[name] = t
  <2> HIDE DEF e, t
  <2> QED BY <1>3, <1>4 DEF Bind
<1> DEFINE bound == after.vars
<1>7. ~after.broken /\ name \in DOMAIN bound /\ bound[name] = t
  <2> HIDE DEF e, t
  <2> QED BY <1>5, <1>6
<1> HIDE DEF after, bound, e
<1>8. Interpolated(ref, bound) = t
  BY <1>7, FilledFromOne
<1>9. Deep(said, bound) = Leaf(<<"text", t>>)
  <2> HIDE DEF t
  <2> QED BY <1>2, <1>7, DeepOfOne
<1>10. Outcome(claim, res, bound) = "passed"
  <2>1. /\ claim.type = "bodyField" /\ claim.target = path /\ claim.operator = "equals" /\ claim.expected = said
    OBVIOUS
  <2> HIDE DEF claim, said
  <2>2. ReadAt(claim) = path
    BY <2>1 DEF ReadAt, Channels
  <2>3. ActualOf(claim, res) = v
    BY <1>1, <2>1, <2>2 DEF ActualOf
  <2>4. Normalise(Leaf(<<"text", t>>)) = t
    <3>1. Leaf(<<"text", t>>)[<<>>] = <<"text", t>>
      BY LeafIs
    <3> HIDE DEF t
    <3> QED BY <3>1 DEF Normalise, Kind, Said
  <2>5. Compare("equals", v, Leaf(<<"text", t>>)) = Verdict(v # Absent /\ Normalise(v) = t)
    <3> HIDE DEF v
    <3> QED BY <2>4 DEF Compare
  <2>6. Compare("equals", v, Leaf(<<"text", t>>)) = "passed"
    <3> HIDE DEF v
    <3> QED BY <1>1, <2>5 DEF Verdict
  <2> HIDE DEF v, t
  <2> QED BY <1>1, <1>2, <1>9, <2>1, <2>3, <2>6 DEF Outcome, Spoken
<1>11. Built(Asks(ref), bound) = Asks(t)
  <2> DEFINE r == Asks(ref)
             values == [k \in DOMAIN r.values |-> Interpolated(r.values[k], bound)]
             made == [url |-> Interpolated(r.url, bound), values |-> AllOf(values), body |-> Deep(r.body, bound)]
  <2>1. r.url = ref /\ r.values = [k |-> ref] /\ r.body = said /\ DOMAIN r.values = {"k"} /\ r.values["k"] = ref
    OBVIOUS
  <2>2. Built(r, bound) = AllOf(made)
    BY DEF Built
  <2> HIDE DEF r, t, said, ref
  <2>3. values = [k |-> t]
    BY <1>8, <2>1
  <2>4. AllOf([k |-> t]) = [k |-> t]
    BY <1>2 DEF AllOf, Spoken
  <2>5. made = [url |-> t, values |-> [k |-> t], body |-> Leaf(<<"text", t>>)]
    BY <1>8, <1>9, <2>1, <2>3, <2>4
  <2> HIDE DEF made
  <2>6. AllOf([url |-> t, values |-> [k |-> t], body |-> Leaf(<<"text", t>>)])
           = [url |-> t, values |-> [k |-> t], body |-> Leaf(<<"text", t>>)]
    BY <1>2 DEF AllOf, Spoken
  <2> QED BY <2>2, <2>5, <2>6 DEF r
<1> QED BY <1>7, <1>10, <1>11 DEF bound

\* One extraction more.
Extracted(r, e, res) ==
  IF r.broken \/ Read(e, res) = Absent THEN [r EXCEPT !.broken = TRUE]
  ELSE [r EXCEPT !.vars = Bind(e, res, @)]

\* A function that extracts up to n as Extract does.
ExtractsTo(n, f, es, res, env) ==
  f = [k \in 0..n |-> IF k = 0 THEN [broken |-> FALSE, vars |-> env] ELSE Extracted(f[k - 1], es[k], res)]

\* There is one, however many are extracted.
LEMMA ExtractsExist ==
  ASSUME NEW es, NEW res, NEW env, NEW n \in Nat PROVE \E f : ExtractsTo(n, f, es, res, env)
<1> DEFINE To(k, f) == ExtractsTo(k, f, es, res, env)
           start == [broken |-> FALSE, vars |-> env]
           next(r, k) == Extracted(r, es[k], res)
           Beyond == {k \in Nat : ~ \E f : To(k, f)}
<1>0. ASSUME NEW k, NEW f PROVE To(k, f) <=> f = [j \in 0..k |-> IF j = 0 THEN start ELSE next(f[j - 1], j)]
  BY DEF ExtractsTo
<1> HIDE DEF To, start, next
<1>1. SUFFICES ASSUME Beyond # {} PROVE FALSE
  BY DEF To
<1>2. PICK m \in Beyond : \A k \in Beyond : m <= k
  BY <1>1, LeastNatural
<1>3. CASE m = 0
  <2> DEFINE f == [k \in 0..0 |-> start]
  <2>1. f = [k \in 0..0 |-> IF k = 0 THEN start ELSE next(f[k - 1], k)]
    OBVIOUS
  <2>2. To(0, f)
    BY <1>0, <2>1
  <2> QED BY <1>2, <1>3, <2>2
<1>4. CASE m # 0
  <2>1. m - 1 \in Nat /\ m - 1 \notin Beyond
    BY <1>2, <1>4
  <2>2. PICK f : To(m - 1, f)
    BY <2>1
  <2> DEFINE g == [k \in 0..m |-> IF k = m THEN next(f[m - 1], m) ELSE f[k]]
  <2>3. \A k \in 0..(m - 1) : g[k] = f[k]
    BY <1>2
  <2>4. \A k \in 0..(m - 1) : f[k] = IF k = 0 THEN start ELSE next(f[k - 1], k)
    <3>1. f = [j \in 0..(m - 1) |-> IF j = 0 THEN start ELSE next(f[j - 1], j)]
      BY <1>0, <2>2
    <3> QED BY <3>1
  <2>5. ASSUME NEW k \in 0..m PROVE g[k] = IF k = 0 THEN start ELSE next(g[k - 1], k)
    <3>1. CASE k = m
      <4>1. g[m] = next(f[m - 1], m) /\ g[m - 1] = f[m - 1]
        BY <1>2, <1>4, <2>1, <2>3
      <4> QED BY <1>4, <3>1, <4>1
    <3>2. CASE k # m
      <4>1. k \in 0..(m - 1) /\ (k # 0 => k - 1 \in 0..(m - 1))
        BY <1>2, <3>2
      <4> HIDE DEF g
      <4> QED BY <2>3, <2>4, <4>1
    <3> QED BY <3>1, <3>2
  <2>6. g = [k \in 0..m |-> IF k = 0 THEN start ELSE next(g[k - 1], k)]
    <3>1. g = [k \in 0..m |-> g[k]]
      OBVIOUS
    <3> HIDE DEF g
    <3> QED BY <2>5, <3>1
  <2>7. To(m, g)
    BY <1>0, <2>6
  <2> QED BY <1>2, <2>7
<1> QED BY <1>3, <1>4

\* Extract is the last of what is extracted one by one.
LEMMA ExtractIs ==
  ASSUME NEW es, Len(es) \in Nat, NEW res, NEW env
  PROVE  \E f : /\ f[0] = [broken |-> FALSE, vars |-> env]
                /\ \A k \in 1..Len(es) : f[k] = Extracted(f[k - 1], es[k], res)
                /\ Extract(es, res, env) = f[Len(es)]
<1> DEFINE To(f) == ExtractsTo(Len(es), f, es, res, env)
           g == CHOOSE f : To(f)
<1>1. Extract(es, res, env) = g[Len(es)]
  BY DEF Extract, ExtractsTo, Extracted
<1>2. To(g)
  <2>1. \E f : To(f)
    BY ExtractsExist
  <2> HIDE DEF To
  <2> QED BY <2>1
<1> HIDE DEF g
<1> DEFINE start == [broken |-> FALSE, vars |-> env]
<1>3. \A k \in 0..Len(es) : g[k] = IF k = 0 THEN start ELSE Extracted(g[k - 1], es[k], res)
  BY <1>2 DEF ExtractsTo
<1>4. g[0] = start
  <2>1. 0 \in 0..Len(es)
    OBVIOUS
  <2> HIDE DEF start
  <2> QED BY <1>3, <2>1
<1>5. \A k \in 1..Len(es) : g[k] = Extracted(g[k - 1], es[k], res)
  BY <1>3
<1> QED BY <1>1, <1>4, <1>5

\* What is extracted: nothing that is not named is touched, and when every extraction found
\* its value, every name has what the last of that name found.
Binds(es, res, env) ==
  /\ \A x \in DOMAIN env : (\A i \in 1..Len(es) : es[i].name # x) => Extract(es, res, env).vars[x] = env[x]
  /\ ~Extract(es, res, env).broken =>
       \A i \in 1..Len(es) :
         /\ es[i].name \in DOMAIN Extract(es, res, env).vars
         /\ (\A j \in (i + 1)..Len(es) : es[j].name # es[i].name) =>
              Extract(es, res, env).vars[es[i].name] = Read(es[i], res)

\* Extract binds so, by induction on how many are extracted.
LEMMA ExtractBinds ==
  ASSUME NEW es, Len(es) \in Nat, NEW res, NEW env PROVE Binds(es, res, env)
<1>1. PICK f : /\ f[0] = [broken |-> FALSE, vars |-> env]
               /\ \A k \in 1..Len(es) : f[k] = Extracted(f[k - 1], es[k], res)
               /\ Extract(es, res, env) = f[Len(es)]
  BY ExtractIs
<1> DEFINE Formed(n) == DOMAIN f[n] = {"broken", "vars"}
           Left(n)   == /\ DOMAIN env \subseteq DOMAIN f[n].vars
                        /\ \A x \in DOMAIN env : (\A i \in 1..n : es[i].name # x) => f[n].vars[x] = env[x]
           Bound(n)  == ~f[n].broken =>
                          \A i \in 1..n :
                            /\ es[i].name \in DOMAIN f[n].vars
                            /\ (\A j \in (i + 1)..n : es[j].name # es[i].name) => f[n].vars[es[i].name] = Read(es[i], res)
           Fine(n) == Formed(n) /\ Left(n) /\ Bound(n)
           Beyond == {n \in 0..Len(es) : ~Fine(n)}
<1>2. Fine(0)
  <2>1. f[0].broken = FALSE /\ f[0].vars = env /\ DOMAIN f[0] = {"broken", "vars"}
    BY <1>1
  <2> QED BY <2>1
<1>3. ASSUME NEW n \in 1..Len(es), Fine(n - 1) PROVE Fine(n)
  <2> DEFINE r == f[n - 1]
  <2>1. f[n] = Extracted(r, es[n], res) /\ DOMAIN r = {"broken", "vars"}
    BY <1>1, <1>3
  <2>2. n - 1 \in Nat /\ \A i \in 1..n : i = n \/ i \in 1..(n - 1)
    OBVIOUS
  <2>3. CASE r.broken \/ Read(es[n], res) = Absent
    <3>1. f[n].broken = TRUE /\ f[n].vars = r.vars /\ Formed(n)
      <4> HIDE DEF r
      <4>1. f[n] = [r EXCEPT !.broken = TRUE]
        BY <2>1, <2>3 DEF Extracted
      <4>2. f[n].broken = TRUE
        BY <2>1, <4>1
      <4>3. f[n].vars = r.vars
        BY <2>1, <4>1
      <4>4. DOMAIN f[n] = {"broken", "vars"}
        BY <2>1, <4>1
      <4> QED BY <4>2, <4>3, <4>4
    <3>2. Left(n)
      BY <1>3, <3>1
    <3> QED BY <3>1, <3>2
  <2>4. CASE ~(r.broken \/ Read(es[n], res) = Absent)
    <3>1. f[n].broken = r.broken /\ f[n].vars = Bind(es[n], res, r.vars) /\ Formed(n)
      <4> HIDE DEF r
      <4>1. f[n] = [r EXCEPT !.vars = Bind(es[n], res, @)]
        BY <2>1, <2>4 DEF Extracted
      <4>2. f[n].broken = r.broken
        BY <2>1, <4>1
      <4>3. f[n].vars = Bind(es[n], res, r.vars)
        BY <2>1, <4>1
      <4>4. DOMAIN f[n] = {"broken", "vars"}
        BY <2>1, <4>1
      <4> QED BY <4>2, <4>3, <4>4
    <3>2. /\ DOMAIN f[n].vars = DOMAIN r.vars \cup {es[n].name}
          /\ \A x \in DOMAIN f[n].vars : f[n].vars[x] = IF x = es[n].name THEN Read(es[n], res) ELSE r.vars[x]
      <4> HIDE DEF r
      <4> QED BY <3>1 DEF Bind
    <3>3. Left(n)
      <4>1. DOMAIN env \subseteq DOMAIN f[n].vars
        BY <1>3, <3>2
      <4>2. ASSUME NEW x \in DOMAIN env, \A i \in 1..n : es[i].name # x PROVE f[n].vars[x] = env[x]
        <5>1. es[n].name # x /\ \A i \in 1..(n - 1) : es[i].name # x
          BY <4>2
        <5>2. r.vars[x] = env[x] /\ x \in DOMAIN r.vars
          BY <1>3, <5>1
        <5> HIDE DEF r
        <5> QED BY <3>2, <5>1, <5>2
      <4> QED BY <4>1, <4>2
    <3>4. Bound(n)
      <4>1. ASSUME NEW i \in 1..n
            PROVE  /\ es[i].name \in DOMAIN f[n].vars
                   /\ (\A j \in (i + 1)..n : es[j].name # es[i].name) => f[n].vars[es[i].name] = Read(es[i], res)
        <5>1. CASE i = n
          <6> HIDE DEF r
          <6> QED BY <3>2, <5>1
        <5>2. CASE i # n
          <6>1. i \in 1..(n - 1) /\ n \in (i + 1)..n /\ \A j \in (i + 1)..(n - 1) : j \in (i + 1)..n
            BY <5>2
          <6>2. ~r.broken
            BY <2>4
          <6>3. /\ es[i].name \in DOMAIN r.vars
                /\ (\A j \in (i + 1)..(n - 1) : es[j].name # es[i].name) => r.vars[es[i].name] = Read(es[i], res)
            BY <1>3, <6>1, <6>2
          <6> HIDE DEF r
          <6> QED BY <3>2, <6>1, <6>3
        <5> QED BY <5>1, <5>2
      <4> QED BY <4>1
    <3> QED BY <3>1, <3>3, <3>4
  <2> QED BY <2>3, <2>4
<1> HIDE DEF Formed, Left, Bound
<1>4. Beyond = {}
  <2> SUFFICES ASSUME Beyond # {} PROVE FALSE
    OBVIOUS
  <2> HIDE DEF Fine
  <2>1. Beyond \subseteq Nat
    OBVIOUS
  <2>2. PICK m \in Beyond : \A k \in Beyond : m <= k
    BY <2>1, LeastNatural
  <2>3. m # 0
    BY <1>2, <2>2
  <2>4. m \in 1..Len(es) /\ m - 1 \in 0..Len(es) /\ m - 1 \notin Beyond
    BY <2>2, <2>3
  <2>5. Fine(m - 1)
    BY <2>4
  <2> QED BY <1>3, <2>2, <2>4, <2>5
<1>5. Fine(Len(es))
  <2> HIDE DEF Fine
  <2> QED BY <1>4
<1> QED BY <1>1, <1>5 DEF Left, Bound, Binds

\* Before the first try.
NotTried(env) == [status |-> "pending", vars |-> env, over |-> FALSE, err |-> FALSE]

\* A function that tries up to n as Tried does.
TriesTo(n, f, s, answers, env) ==
  f = [k \in 0..n |-> IF k = 0 THEN NotTried(env) ELSE Try(s, answers[k], f[k - 1])]

\* There is one, however often it is tried.
LEMMA TriesExist ==
  ASSUME NEW s, NEW answers, NEW env, NEW n \in Nat PROVE \E f : TriesTo(n, f, s, answers, env)
<1> DEFINE To(k, f) == TriesTo(k, f, s, answers, env)
           start == NotTried(env)
           next(r, k) == Try(s, answers[k], r)
           Beyond == {k \in Nat : ~ \E f : To(k, f)}
<1>0. ASSUME NEW k, NEW f PROVE To(k, f) <=> f = [j \in 0..k |-> IF j = 0 THEN start ELSE next(f[j - 1], j)]
  BY DEF TriesTo
<1> HIDE DEF To, start, next
<1>1. SUFFICES ASSUME Beyond # {} PROVE FALSE
  BY DEF To
<1>2. PICK m \in Beyond : \A k \in Beyond : m <= k
  BY <1>1, LeastNatural
<1>3. CASE m = 0
  <2> DEFINE f == [k \in 0..0 |-> start]
  <2>1. f = [k \in 0..0 |-> IF k = 0 THEN start ELSE next(f[k - 1], k)]
    OBVIOUS
  <2>2. To(0, f)
    BY <1>0, <2>1
  <2> QED BY <1>2, <1>3, <2>2
<1>4. CASE m # 0
  <2>1. m - 1 \in Nat /\ m - 1 \notin Beyond
    BY <1>2, <1>4
  <2>2. PICK f : To(m - 1, f)
    BY <2>1
  <2> DEFINE g == [k \in 0..m |-> IF k = m THEN next(f[m - 1], m) ELSE f[k]]
  <2>3. \A k \in 0..(m - 1) : g[k] = f[k]
    BY <1>2
  <2>4. \A k \in 0..(m - 1) : f[k] = IF k = 0 THEN start ELSE next(f[k - 1], k)
    <3>1. f = [j \in 0..(m - 1) |-> IF j = 0 THEN start ELSE next(f[j - 1], j)]
      BY <1>0, <2>2
    <3> QED BY <3>1
  <2>5. ASSUME NEW k \in 0..m PROVE g[k] = IF k = 0 THEN start ELSE next(g[k - 1], k)
    <3>1. CASE k = m
      <4>1. g[m] = next(f[m - 1], m) /\ g[m - 1] = f[m - 1]
        BY <1>2, <1>4, <2>1, <2>3
      <4> QED BY <1>4, <3>1, <4>1
    <3>2. CASE k # m
      <4>1. k \in 0..(m - 1) /\ (k # 0 => k - 1 \in 0..(m - 1))
        BY <1>2, <3>2
      <4> HIDE DEF g
      <4> QED BY <2>3, <2>4, <4>1
    <3> QED BY <3>1, <3>2
  <2>6. g = [k \in 0..m |-> IF k = 0 THEN start ELSE next(g[k - 1], k)]
    <3>1. g = [k \in 0..m |-> g[k]]
      OBVIOUS
    <3> HIDE DEF g
    <3> QED BY <2>5, <3>1
  <2>7. To(m, g)
    BY <1>0, <2>6
  <2> QED BY <1>2, <2>7
<1> QED BY <1>3, <1>4

\* What the tries make of it, one by one.
TriesAre(f, s, answers, env) ==
  /\ f[0] = NotTried(env)
  /\ \A k \in 1..Len(answers) : f[k] = Try(s, answers[k], f[k - 1])
  /\ Tried(s, answers, env) = f[Len(answers)]

\* Tried is the last of them.
LEMMA TriedIs ==
  ASSUME NEW s, NEW answers, Len(answers) \in Nat, NEW env PROVE \E f : TriesAre(f, s, answers, env)
<1> DEFINE To(f) == TriesTo(Len(answers), f, s, answers, env)
           g == CHOOSE f : To(f)
<1>1. Tried(s, answers, env) = g[Len(answers)]
  BY DEF Tried, TriesTo, NotTried
<1>2. To(g)
  <2>1. \E f : To(f)
    BY TriesExist
  <2> HIDE DEF To
  <2> QED BY <2>1
<1> HIDE DEF g
<1>3. \A k \in 0..Len(answers) : g[k] = IF k = 0 THEN NotTried(env) ELSE Try(s, answers[k], g[k - 1])
  BY <1>2 DEF TriesTo
<1>4. g[0] = NotTried(env)
  <2>1. 0 \in 0..Len(answers)
    OBVIOUS
  <2> QED BY <1>3, <2>1
<1>5. \A k \in 1..Len(answers) : g[k] = Try(s, answers[k], g[k - 1])
  BY <1>3
<1> QED BY <1>1, <1>4, <1>5 DEF TriesAre

\* What a check may compare with.
CheckOperators == {"exists", "equals", "notEquals", "contains", "notContains", "lt", "gt"}

\* A check says one of three things.
LEMMA ChecksSay ==
  ASSUME NEW a, a.operator \in CheckOperators, NEW res, NEW env
  PROVE  Outcome(a, res, env) \in {"passed", "failed", "error"}
<1>1. ASSUME NEW op \in CheckOperators, NEW actual, NEW expected
      PROVE  Compare(op, actual, expected) \in {"passed", "failed", "error"}
  <2>1. \A b : Verdict(b) \in {"passed", "failed", "error"}
    BY DEF Verdict
  <2> HIDE DEF Verdict
  <2>2. CASE op = "exists"
    BY <2>1, <2>2 DEF Compare
  <2>3. CASE op = "equals"
    BY <2>1, <2>3 DEF Compare
  <2>4. CASE op = "notEquals"
    BY <2>1, <2>4 DEF Compare
  <2>5. CASE op = "contains"
    BY <2>1, <2>5 DEF Compare
  <2>6. CASE op = "notContains"
    BY <2>1, <2>6 DEF Compare
  <2>7. CASE op \in {"lt", "gt"}
    <3> DEFINE a1 == Number(actual)
               b1 == Number(expected)
    <3>1. Compare(op, actual, expected) = IF actual = Absent \/ Absent \in {a1, b1} THEN "error"
                                          ELSE Verdict(IF op = "lt" THEN a1 < b1 ELSE a1 > b1)
      BY <2>7 DEF Compare
    <3> HIDE DEF a1, b1
    <3>2. CASE actual = Absent \/ Absent \in {a1, b1}
      BY <3>1, <3>2
    <3>3. CASE ~(actual = Absent \/ Absent \in {a1, b1})
      BY <2>1, <3>1, <3>3
    <3> QED BY <3>2, <3>3
  <2> QED BY <2>2, <2>3, <2>4, <2>5, <2>6, <2>7 DEF CheckOperators
<1> QED BY <1>1 DEF Outcome

\* What one try makes of it is of this form.
Went(r) == DOMAIN r = {"status", "vars", "over", "err"}

\* An attempt that is not the one that passes changes no variable, and does not end it.
LEMMA TryFails ==
  ASSUME NEW s, NEW res, NEW got, Went(got), ~got.over,
         \A i \in 1..Len(s.assertions) : s.assertions[i].operator \in CheckOperators,
         ~(res # Absent /\ Outcomes(s.assertions, res, got.vars) \subseteq {"passed"})
  PROVE  /\ Went(Try(s, res, got)) /\ Try(s, res, got).vars = got.vars /\ Try(s, res, got).over = got.over
         /\ Try(s, res, got).status \in {"failed", "error"}
<1> DEFINE outcomes == Outcomes(s.assertions, res, got.vars)
           other(how, err) == [got EXCEPT !.status = how, !.err = err]
           said == (got.err /\ s.kind # "http") \/ Complains(s, res)
<1>1. Try(s, res, got) = other("error", TRUE) \/ Try(s, res, got) = other("failed", said)
  <2>1. CASE res = Absent \/ "error" \in outcomes
    <3>1. Try(s, res, got) = other("error", TRUE)
      BY <2>1 DEF Try
    <3> HIDE DEF other
    <3> QED BY <3>1
  <2>2. CASE res # Absent /\ "error" \notin outcomes
    <3>1. outcomes \subseteq {"passed", "failed", "error"}
      BY ChecksSay DEF Outcomes
    <3>2. "failed" \in outcomes
      BY <2>2, <3>1
    <3>3. Try(s, res, got) = other("failed", said)
      BY <2>2, <3>2 DEF Try
    <3> HIDE DEF other
    <3> QED BY <3>3
  <2> QED BY <2>1, <2>2
<1> HIDE DEF other, said
<1>2. PICK how \in {"failed", "error"} : \E err : Try(s, res, got) = other(how, err)
  BY <1>1
<1>3. PICK err : Try(s, res, got) = other(how, err)
  BY <1>2
<1> USE DEF other
<1> DEFINE r == other(how, err)
<1>4. DOMAIN r = DOMAIN got
  OBVIOUS
<1>5. r.vars = got.vars
  BY DEF Went
<1>6. r.over = got.over
  BY DEF Went
<1>7. r.status = how
  BY DEF Went
<1> HIDE DEF r
<1>8. Try(s, res, got) = r
  BY <1>3 DEF r
<1> QED BY <1>2, <1>4, <1>5, <1>6, <1>7, <1>8 DEF Went

\* The attempt that passes ends it.
LEMMA TryPasses ==
  ASSUME NEW s, NEW res, NEW got, ~got.over, res # Absent,
         Outcomes(s.assertions, res, got.vars) \subseteq {"passed"}
  PROVE  Try(s, res, got) =
           [status |-> IF Extract(s.extract, res, got.vars).broken THEN "error" ELSE "passed",
            vars |-> Extract(s.extract, res, got.vars).vars, over |-> TRUE,
            err |-> (got.err /\ s.kind # "http") \/ Extract(s.extract, res, got.vars).broken]
<1>1. "error" \notin Outcomes(s.assertions, res, got.vars) /\ "failed" \notin Outcomes(s.assertions, res, got.vars)
  OBVIOUS
<1> QED BY <1>1 DEF Try

\* Whatever is answered, in however many attempts: what a step hands on is of the first
\* attempt whose checks all passed, and before it nothing is.
LEMMA FirstPassingHandsOn ==
  ASSUME NEW s, Len(s.extract) \in Nat, \A i \in 1..Len(s.assertions) : s.assertions[i].operator \in CheckOperators,
         NEW answers, Len(answers) \in Nat \ {0}, NEW env
  PROVE  HandedOnByThePassing(s, answers, env)
<1>a. Len(answers) \in Nat
  OBVIOUS
<1>b. PICK f : TriesAre(f, s, answers, env)
  BY <1>a, TriedIs
<1> DEFINE N == Len(answers)
           good == {i \in 1..Len(answers) : answers[i] # Absent
                      /\ Outcomes(s.assertions, answers[i], env) \subseteq {"passed"}}
           out == Tried(s, answers, env)
<1>0. N \in Nat /\ N \in 1..N /\ good \subseteq 1..N
  OBVIOUS
<1>1. /\ f[0] = NotTried(env)
      /\ \A k \in 1..N : f[k] = Try(s, answers[k], f[k - 1])
      /\ out = f[N]
  BY <1>b DEF TriesAre
<1> DEFINE Unpassed(n) == /\ Went(f[n]) /\ f[n].vars = env /\ ~f[n].over
                          /\ n # 0 => f[n].status \in {"failed", "error"}
                          /\ n = 0 => f[n].err = FALSE
           Before(n) == (\A i \in 1..n : i \notin good) => Unpassed(n)
<1>2. \A n \in 0..N : Before(n)
  <2>1. Before(0)
    BY <1>1 DEF NotTried, Went
  <2>2. ASSUME NEW n \in 1..N, Before(n - 1), \A i \in 1..n : i \notin good PROVE Unpassed(n)
    <3>1. n - 1 \in Nat /\ \A i \in 1..(n - 1) : i \in 1..n
      OBVIOUS
    <3>2. Unpassed(n - 1)
      <4> HIDE DEF Unpassed, good
      <4> QED BY <2>2, <3>1
    <3>3. f[n] = Try(s, answers[n], f[n - 1])
      BY <1>1
    <3> DEFINE r == f[n - 1]
               q == Try(s, answers[n], r)
    <3>4. Went(r) /\ r.vars = env /\ ~r.over
      BY <3>2
    <3>5. ~(answers[n] # Absent /\ Outcomes(s.assertions, answers[n], r.vars) \subseteq {"passed"})
      <4>1. n \notin good
        BY <2>2
      <4> HIDE DEF r
      <4> QED BY <3>4, <4>1
    <3> HIDE DEF r
    <3>6. /\ Went(q) /\ q.vars = r.vars /\ q.over = r.over /\ q.status \in {"failed", "error"}
      BY <3>4, <3>5, TryFails
    <3>7. f[n] = q
      BY <3>3 DEF r
    <3> HIDE DEF q
    <3> QED BY <3>4, <3>6, <3>7
  <2> DEFINE Beyond == {n \in 0..N : ~Before(n)}
  <2>3. Beyond = {}
    <3> SUFFICES ASSUME Beyond # {} PROVE FALSE
      OBVIOUS
    <3> HIDE DEF Before
    <3>1. Beyond \subseteq Nat
      OBVIOUS
    <3>2. PICK m \in Beyond : \A k \in Beyond : m <= k
      BY <3>1, LeastNatural
    <3>3. m # 0
      BY <2>1, <3>2
    <3>4. m \in 1..N /\ m - 1 \in 0..N /\ m - 1 \notin Beyond
      BY <3>2, <3>3
    <3>5. Before(m - 1)
      BY <3>4
    <3>6. Before(m)
      <4>1. (\A i \in 1..m : i \notin good) => Unpassed(m)
        <5> HIDE DEF Unpassed, good
        <5> QED BY <2>2, <3>4, <3>5
      <4> QED BY <4>1 DEF Before
    <3> QED BY <3>2, <3>6
  <2> HIDE DEF Before
  <2> QED BY <2>3
<1> HIDE DEF Unpassed
<1>3. CASE good = {}
  <2>1. Unpassed(N)
    <3> HIDE DEF good
    <3> QED BY <1>0, <1>2, <1>3
  <2>2. out.vars = env /\ out.status \in {"failed", "error"}
    BY <1>0, <1>1, <2>1 DEF Unpassed
  <2> HIDE DEF out
  <2> QED BY <1>3, <2>2 DEF HandedOnByThePassing, out
<1>4. CASE good # {}
  <2> DEFINE first == CHOOSE i \in good : \A j \in good : i <= j
  <2>1. first \in good /\ \A j \in good : first <= j
    <3>1. \E i \in good : \A j \in good : i <= j
      <4>1. good \subseteq Nat
        BY <1>0
      <4> HIDE DEF good
      <4> QED BY <1>4, <4>1, LeastNatural
    <3> HIDE DEF good
    <3> QED BY <3>1
  <2> DEFINE got == f[first - 1]
             bound == Extract(s.extract, answers[first], env)
             end == [status |-> IF bound.broken THEN "error" ELSE "passed", vars |-> bound.vars, over |-> TRUE,
                     err |-> (got.err /\ s.kind # "http") \/ bound.broken]
  <2> HIDE DEF first
  <2>2. first \in 1..N /\ first - 1 \in 0..N /\ \A i \in 1..(first - 1) : i \notin good
    <3> HIDE DEF good
    <3> QED BY <1>0, <2>1
  <2>3. Unpassed(first - 1)
    <3> HIDE DEF good
    <3> QED BY <1>2, <2>2
  <2>4. got.vars = env /\ ~got.over /\ (first = 1 => got.err = FALSE)
    BY <2>2, <2>3 DEF Unpassed
  <2>5. answers[first] # Absent /\ Outcomes(s.assertions, answers[first], env) \subseteq {"passed"}
    BY <2>1
  <2>6. f[first] = end
    <3>1. f[first] = Try(s, answers[first], got)
      BY <1>1, <2>2
    <3> HIDE DEF got, bound
    <3> QED BY <2>4, <2>5, <3>1, TryPasses DEF bound
  <2>7. /\ end.vars = bound.vars /\ end.over = TRUE
        /\ end.status = IF bound.broken THEN "error" ELSE "passed"
        /\ end.err = ((got.err /\ s.kind # "http") \/ bound.broken)
    <3> HIDE DEF bound, got
    <3> QED OBVIOUS
  <2> HIDE DEF end
  <2>8. \A n \in first..N : f[n] = end
    <3> DEFINE Beyond == {n \in first..N : f[n] # end}
    <3> SUFFICES ASSUME Beyond # {} PROVE FALSE
      OBVIOUS
    <3>1. Beyond \subseteq Nat
      BY <2>2
    <3>2. PICK m \in Beyond : \A k \in Beyond : m <= k
      BY <3>1, LeastNatural
    <3>3. m \in 1..N /\ m - 1 \in first..N /\ m - 1 \notin Beyond
      BY <2>2, <2>6, <3>2
    <3>4. f[m - 1] = end
      BY <3>3
    <3>5. f[m] = Try(s, answers[m], end)
      BY <1>1, <3>3, <3>4
    <3>6. f[m] = end
      BY <2>7, <3>5 DEF Try
    <3> QED BY <3>2, <3>6
  <2>9. out = end
    BY <1>0, <1>1, <2>2, <2>8
  <2> HIDE DEF out, got
  <2>10. /\ \A x \in DOMAIN env : (\A i \in 1..Len(s.extract) : s.extract[i].name # x) => bound.vars[x] = env[x]
         /\ ~bound.broken =>
              \A i \in 1..Len(s.extract) :
                /\ s.extract[i].name \in DOMAIN bound.vars
                /\ (\A j \in (i + 1)..Len(s.extract) : s.extract[j].name # s.extract[i].name) =>
                     bound.vars[s.extract[i].name] = Read(s.extract[i], answers[first])
    <3>1. Binds(s.extract, answers[first], env)
      BY ExtractBinds
    <3> QED BY <3>1 DEF Binds
  <2> HIDE DEF bound
  <2>11. out.status = "passed" => ~bound.broken
    BY <2>7, <2>9
  <2>12. out.status = "passed" /\ (s.kind = "http" \/ first = 1) => ~out.err
    BY <2>4, <2>7, <2>9, <2>11
  <2>13. out.status = "passed" =>
           \A i \in 1..Len(s.extract) :
             /\ s.extract[i].name \in DOMAIN out.vars
             /\ (\A j \in (i + 1)..Len(s.extract) : s.extract[j].name # s.extract[i].name) =>
                  out.vars[s.extract[i].name] = Read(s.extract[i], answers[first])
    BY <2>7, <2>9, <2>10, <2>11
  <2>14. \A x \in DOMAIN env : (\A i \in 1..Len(s.extract) : s.extract[i].name # x) => out.vars[x] = env[x]
    BY <2>7, <2>9, <2>10
  <2> HIDE DEF good
  <2> QED BY <1>4, <2>12, <2>13, <2>14 DEF HandedOnByThePassing, good, out, first
<1> QED BY <1>3, <1>4

\* What a check of the small instances is.
LEMMA ClaimsAreChecks ==
  ASSUME NEW T, NEW G, NEW O, NEW E, NEW a \in [type: T, target: G, operator: O, expected: E]
  PROVE  DOMAIN a = {"type", "target", "operator", "expected"}
  OBVIOUS

\* The rows of the small instances are maps of one name.
LEMMA RowSetsAreRows ==
  \E S, R : (\A r \in R : Rooted(r, S)) /\ RowSets \subseteq Seq(R)
<1> DEFINE S == {Key("n")}
           R == {Row(v) : v \in Scalars}
<1>1. ASSUME NEW v \in Scalars PROVE \E x : v = Leaf(x)
  BY DEF Scalars, Null, Num, Text
<1>2. ASSUME NEW v \in Scalars PROVE Rooted(Row(v), S)
  <2>1. PICK x : v = Leaf(x)
    BY <1>1
  <2> DEFINE of == [seg \in {Key("n")} |-> v]
  <2>2. Rooted(v, S)
    BY <2>1, LeafIs
  <2>3. Branches(of, S)
    BY <2>2 DEF Branches
  <2>4. Row(v) = Node("map", of)
    BY DEF Row, MapOf
  <2> HIDE DEF S, of
  <2> QED BY <2>3, <2>4, NodeIsRooted
<1>3. Num(1) \in Scalars /\ Null \in Scalars
  BY DEF Scalars
<1>4. RowSets \subseteq Seq(R)
  <2>1. ASSUME NEW v \in Scalars PROVE Row(v) \in R
    OBVIOUS
  <2> HIDE DEF R
  <2>2. <<>> \in Seq(R)
    OBVIOUS
  <2>3. ASSUME NEW v \in Scalars PROVE <<Row(v)>> \in Seq(R)
    BY <2>1
  <2>4. ASSUME NEW v \in Scalars, NEW w \in {Num(1), Null} PROVE <<Row(v), Row(w)>> \in Seq(R)
    <3>1. Row(v) \in R /\ Row(w) \in R
      BY <1>3, <2>1
    <3> QED BY <3>1
  <2>5. <<Row(Num(1)), Row(Num(1)), Row(Num(1))>> \in Seq(R)
    <3>1. Row(Num(1)) \in R
      BY <1>3, <2>1
    <3> QED BY <3>1
  <2>6. ASSUME NEW rows \in RowSets PROVE rows \in Seq(R)
    <3>1. CASE rows \in {<<Row(v)>> : v \in Scalars}
      <4>1. PICK v \in Scalars : rows = <<Row(v)>>
        BY <3>1
      <4> QED BY <2>3, <4>1
    <3>2. CASE rows \in {<<Row(v), Row(w)>> : v \in Scalars, w \in {Num(1), Null}}
      <4>1. PICK v \in Scalars, w \in {Num(1), Null} : rows = <<Row(v), Row(w)>>
        BY <3>2
      <4> QED BY <2>4, <4>1
    <3>3. CASE rows = <<>> \/ rows = <<Row(Num(1)), Row(Num(1)), Row(Num(1))>>
      BY <2>2, <2>5, <3>3
    <3> QED BY <3>1, <3>2, <3>3 DEF RowSets
  <2> QED BY <2>6
<1> HIDE DEF S, R
<1>5. \A r \in R : Rooted(r, S)
  BY <1>2 DEF R
<1> QED BY <1>4, <1>5

\* Of every check, response and variable, and not only those of the small instances: a check
\* and its opposite never agree (assert.go, compare); a check that is called by its channel
\* reads it whatever its target says (readAt); and rowCount is how many rows a statement
\* found or moved, of any rows (step_sql.go, runStatement).  So in every state of a run
\* checks read their channel.
THEOREM ChecksReadWhatTheyName ==
  /\ \A T, G, O, E : \A a \in [type: T, target: G, operator: O, expected: E] :
       \A target, res, env : Disagree(a, res, env) /\ Pinned(a, target, res, env)
  /\ \A S, R : (\A r \in R : Rooted(r, S)) =>
       \A rows \in Seq(R), moved \in Nat : \A target : Counted(target, rows, moved)
  /\ Spec => []ChecksReadTheirChannel
<1>1. ASSUME NEW T, NEW G, NEW O, NEW E, NEW a \in [type: T, target: G, operator: O, expected: E],
             NEW target, NEW res, NEW env
      PROVE  Disagree(a, res, env) /\ Pinned(a, target, res, env)
  <2>1. DOMAIN a = {"type", "target", "operator", "expected"}
    BY ClaimsAreChecks
  <2> QED BY <2>1, ChecksDisagree, ChecksArePinned
<1>2. ASSUME NEW S, NEW R, \A r \in R : Rooted(r, S), NEW rows \in Seq(R), NEW moved \in Nat, NEW target
      PROVE  Counted(target, rows, moved)
  BY <1>2, AnyRowsAreCounted
<1>3. EveryCheckReadsItsChannel
  <2>1. ASSUME NEW types, NEW targets, NEW a \in Claims(types, targets), NEW target, NEW res, NEW env
        PROVE  Disagree(a, res, env) /\ Pinned(a, target, res, env)
    <3>1. a \in [type: types, target: targets, operator: {"exists", "equals", "contains", "lt", "gt"},
                 expected: Expectations]
      BY DEF Claims
    <3> QED BY <1>1, <3>1
  <2>2. ASSUME NEW res \in HTTPAnswers, NEW env \in VarCases,
               NEW a \in Claims({"status", "bodyField", "responseTime"}, PathCases) \cup Claims({"header"}, {"etag"})
        PROVE  Disagree(a, res, env)
    BY <2>1
  <2>3. ASSUME NEW res \in SQLAnswers \cup ShellAnswers, NEW env \in VarCases, NEW path \in OwnPaths,
               NEW a \in Claims({"rowCount", "exitCode", "stdoutContains"}, {Absent})
        PROVE  Pinned(a, path, res, env)
    BY <2>1
  <2>4. ASSUME NEW target \in Targets, NEW rows \in RowSets, NEW moved \in 0..3
        PROVE  Counted(target, rows, moved)
    <3>1. PICK S, R : (\A r \in R : Rooted(r, S)) /\ RowSets \subseteq Seq(R)
      BY RowSetsAreRows
    <3>2. rows \in Seq(R) /\ moved \in Nat
      BY <3>1
    <3> QED BY <1>2, <3>1, <3>2
  <2> QED BY <2>2, <2>3, <2>4 DEF EveryCheckReadsItsChannel
<1>4. ChecksReadTheirChannel
  BY <1>3 DEF ChecksReadTheirChannel
<1>5. Spec => []ChecksReadTheirChannel
  BY <1>4, PTL
<1> QED BY <1>1, <1>2, <1>5

\* The steps of the small instances are steps.
LEMMA InstanceSteps ==
  ASSUME NEW s \in HTTPSteps \cup Statements \cup Commands
  PROVE  /\ Len(s.extract) \in Nat
         /\ \A i \in 1..Len(s.assertions) : s.assertions[i].operator \in CheckOperators
<1>1. ASSUME NEW kind, NEW checks, NEW extracts, \A es \in extracts : Len(es) \in Nat, s \in StepsThat(kind, checks, extracts)
      PROVE  /\ Len(s.extract) \in Nat
             /\ \A i \in 1..Len(s.assertions) : s.assertions[i].operator \in CheckOperators
  <2>1. /\ s.extract \in extracts
        /\ s.assertions \in {<<>>} \cup {<<c>> : c \in [type: {checks[1]}, target: {checks[2]}, operator: {"equals"},
                                                       expected: Expectations]}
    BY <1>1 DEF StepsThat
  <2>2. ASSUME NEW c \in [type: {checks[1]}, target: {checks[2]}, operator: {"equals"}, expected: Expectations]
        PROVE  c.operator \in CheckOperators /\ Len(<<c>>) = 1 /\ <<c>>[1] = c
    BY DEF CheckOperators
  <2>3. \A i \in 1..Len(s.assertions) : s.assertions[i].operator \in CheckOperators
    <3>1. CASE s.assertions = <<>>
      BY <3>1
    <3>2. CASE s.assertions # <<>>
      <4>1. PICK c \in [type: {checks[1]}, target: {checks[2]}, operator: {"equals"}, expected: Expectations] :
              s.assertions = <<c>>
        BY <2>1, <3>2
      <4>2. Len(s.assertions) = 1 /\ s.assertions[1] = c /\ c.operator \in CheckOperators
        BY <2>2, <4>1
      <4> QED BY <4>2
    <3> QED BY <3>1, <3>2
  <2> QED BY <1>1, <2>1, <2>3
<1>2. \A e, f : Len(<<>>) = 0 /\ Len(<<e>>) = 1 /\ Len(<<e, f>>) = 2
  OBVIOUS
<1>3. CASE s \in HTTPSteps
  <2>1. \A es \in {<<>>, <<FromBody("new", <<Key("a")>>)>>,
                   <<FromBody("new", <<Key("a")>>), FromBody("new", <<Key("b")>>)>>,
                   <<FromBody("known", <<Key("a")>>), [name |-> "new", path |-> "etag", source |-> "header"]>>} :
          Len(es) \in Nat
    BY <1>2
  <2> QED BY <1>1, <1>3, <2>1 DEF HTTPSteps
<1>4. CASE s \in Statements
  <2>1. \A es \in {<<>>, <<FromBody("new", <<Key("row"), Key("n")>>)>>} : Len(es) \in Nat
    BY <1>2
  <2> QED BY <1>1, <1>4, <2>1 DEF Statements
<1>5. CASE s \in Commands
  <2>1. \A es \in {<<>>, <<FromBody("new", <<Key("stdout")>>)>>} : Len(es) \in Nat
    BY <1>2
  <2> QED BY <1>1, <1>5, <2>1 DEF Commands
<1> QED BY <1>3, <1>4, <1>5

\* Of every body, path and name: a value that is read into a variable compares equal to where
\* it came from, and is sent as it was read (extract.go, interpolate.go).  Of every step with
\* any number of attempts and extractions: what it hands on is what the first attempt whose
\* checks all passed was answered, and before it nothing is (step.go, httpStep, sqlStep,
\* shellStep).  So in every state of a run values come back.
THEOREM ValuesThatWereReadComeBack ==
  /\ \A given, res, path, env, name :
       (Value(given, path) # Absent => Spoken(Normalise(Value(given, path)))) => ComesBack(given, res, path, env, name)
  /\ \A s, answers, env :
       Len(s.extract) \in Nat /\ Len(answers) \in Nat \ {0}
         /\ (\A i \in 1..Len(s.assertions) : s.assertions[i].operator \in CheckOperators)
       => HandedOnByThePassing(s, answers, env)
  /\ Spec => []ValuesComeBack
<1>1. ASSUME NEW given, NEW res, NEW path, NEW env, NEW name,
             Value(given, path) # Absent => Spoken(Normalise(Value(given, path)))
      PROVE  ComesBack(given, res, path, env, name)
  BY <1>1, ValueReturns
<1>2. ASSUME NEW s, NEW answers, NEW env, Len(s.extract) \in Nat, Len(answers) \in Nat \ {0},
             \A i \in 1..Len(s.assertions) : s.assertions[i].operator \in CheckOperators
      PROVE  HandedOnByThePassing(s, answers, env)
  BY <1>2, FirstPassingHandsOn
<1>3. EveryValueComesBack
  <2>1. ASSUME NEW raw \in Bodies \ {Absent}, NEW path \in PathCases, NEW env \in VarCases
        PROVE  ComesBack(raw, Served(200, <<>>, raw, 3), path, env, "new")
    BY <1>1, TextAssumption
  <2>2. ASSUME NEW res \in SQLAnswers \cup ShellAnswers, NEW path \in OwnPaths, NEW env \in VarCases
        PROVE  ComesBack(res.json, res, path, env, "new")
    BY <1>1, TextAssumption
  <2>3. ASSUME NEW s \in HTTPSteps \cup Statements \cup Commands,
               NEW first \in Attempts(s.kind), NEW second \in Attempts(s.kind), NEW env \in VarCases
        PROVE  HandedOnByThePassing(s, <<first, second>>, env)
    <3>1. Len(<<first, second>>) \in Nat \ {0}
      OBVIOUS
    <3>2. /\ Len(s.extract) \in Nat
          /\ \A i \in 1..Len(s.assertions) : s.assertions[i].operator \in CheckOperators
      BY InstanceSteps
    <3> DEFINE answers == <<first, second>>
    <3> HIDE DEF answers
    <3>3. Len(answers) \in Nat \ {0}
      BY <3>1 DEF answers
    <3>4. HandedOnByThePassing(s, answers, env)
      BY <1>2, <3>2, <3>3
    <3> QED BY <3>4 DEF answers
  <2> QED BY <2>1, <2>2, <2>3 DEF EveryValueComesBack
<1>4. ValuesComeBack
  BY <1>3 DEF ValuesComeBack
<1>5. Spec => []ValuesComeBack
  BY <1>4, PTL
<1> QED BY <1>1, <1>2, <1>5
=============================================================================
