------------------------- MODULE MachineQueueProofs -------------------------
(***************************************************************************)
(* Theorems about MachineQueue, for any number of machines, plans, steps,  *)
(* requests, errands, attempts and crashes, and with no assumption about   *)
(* timing unless a theorem states one.                                     *)
(***************************************************************************)
EXTENDS MachineQueue, TLAPS

USE DEF JobId, NoJob

-----------------------------------------------------------------------------
(* Types.                                                                  *)

LEMMA TypeInit == Init => TypeOK
BY BoundsAssumption
   DEF Init, TypeOK, Kind, Status, Board!Init, Board!NoRows, Board!Live, Board!Verdict, Board!Row

-----------------------------------------------------------------------------
(* The inductive invariant.                                                *)

\* What a row without a run, or a run without its errand, may not look like.
RowShape ==
  \A j \in JobId :
    /\ status[j] = "none" => kind[j] = "none" /\ attempts[j] = 0
    /\ kind[j] = "execute_tests" => status[j] # "none"
    /\ (kind[j] = "execute_tests") <=> (runStatus[j] # "none")
    /\ kind[j] = "execute_tests" => runPlan[j] \in Plan

\* A request starts only an errand it claimed, and owes an error only to the dead.
RequestShape ==
  \A q \in Request :
    /\ at[q] = "start" => handing[q] \in JobId
    /\ \A j \in owedError[q] : status[j] = "dead"

\* test_executions_one_live_idx.
OneLiveRunPerPlan ==
  \A i, j \in JobId :
    (i # j /\ runStatus[i] \in Board!Live /\ runStatus[j] \in Board!Live) => runPlan[i] # runPlan[j]

IInv ==
  /\ TypeOK
  /\ RowShape
  /\ RequestShape
  /\ PendingHasAttemptLeft
  /\ OpenErrandHasLiveRun
  /\ OneLiveRunPerPlan
  /\ CompletedRunIsItsReport

(* What a completion does, whichever kind of errand it completes.          *)
Completed(j, S, outcome) ==
  /\ status[j] = "claimed" /\ ~Overtaking(j)
  /\ status' = [status EXCEPT ![j] = "completed"]
  /\ verdict' = [verdict EXCEPT ![j] = outcome]
  /\ runStatus' = IF kind[j] = "execute_tests" /\ runStatus[j] \in Board!Live
                  THEN [runStatus EXCEPT ![j] = outcome] ELSE runStatus
  /\ rows' = IF kind[j] = "execute_tests"
             THEN [rows EXCEPT ![j] = [s \in Step |-> IF s \in S THEN "record" ELSE "none"]]
             ELSE rows
  /\ quiet' = quiet \ {j}
  /\ UNCHANGED <<kind, claimedBy, attempts, cooling, runPlan, reqVars, clicks>>

LEMMA CompleteEffect ==
  ASSUME NEW m, NEW j, NEW S, NEW outcome, CompleteJob(m, j, outcome, S)
  PROVE  Completed(j, S, outcome)
<1> USE DEF CompleteJob, WriteResults, Holds, boardVars
<1>1. /\ status[j] = "claimed" /\ ~Overtaking(j)
      /\ status' = [status EXCEPT ![j] = "completed"]
      /\ verdict' = [verdict EXCEPT ![j] = outcome]
      /\ quiet' = quiet \ {j}
  OBVIOUS
<1>2. runStatus' = IF kind[j] = "execute_tests" /\ runStatus[j] \in Board!Live
                   THEN [runStatus EXCEPT ![j] = outcome] ELSE runStatus
  OBVIOUS
<1>3. rows' = IF kind[j] = "execute_tests"
              THEN [rows EXCEPT ![j] = [s \in Step |-> IF s \in S THEN "record" ELSE "none"]]
              ELSE rows
  OBVIOUS
<1>4. UNCHANGED <<kind, claimedBy, attempts, cooling, runPlan, reqVars, clicks>>
  OBVIOUS
<1> QED
  BY <1>1, <1>2, <1>3, <1>4 DEF Completed

LEMMA TypeStep ==
  ASSUME TypeOK, PendingHasAttemptLeft, [Next]_vars
  PROVE  TypeOK'
<1> USE BoundsAssumption
    DEF TypeOK, Kind, Status, Board!Live, Board!Verdict, Board!Row, PendingHasAttemptLeft, vars, jobVars, boardVars, reqVars
<1>1. ASSUME NEW j \in JobId, NEW p \in Plan, EnqueueRun(j, p) PROVE TypeOK'
  BY <1>1 DEF EnqueueRun, Insert, IsNext, Board!HasLiveRun
<1>2. CASE EnqueueIndexCheck
  BY <1>2 DEF EnqueueIndexCheck
<1>3. ASSUME NEW j \in JobId, EnqueueIndexInsert(j) PROVE TypeOK'
  BY <1>3 DEF EnqueueIndexInsert, Insert, IsNext
<1>4. ASSUME NEW q \in Request, NEW m \in Machine, Poll(q, m) PROVE TypeOK'
  BY <1>4 DEF Poll, Goto
<1>5. ASSUME NEW q \in Request, ReapRevive(q) PROVE TypeOK'
  BY <1>5 DEF ReapRevive, Goto, RunsAmong, Revivable, Stale
<1>6. ASSUME NEW q \in Request, ReapBury(q) PROVE TypeOK'
  BY <1>6 DEF ReapBury, Goto, RunsAmong, Spent, Stale
<1>7. ASSUME NEW q \in Request, NEW j \in JobId, SettleRevived(q, j) PROVE TypeOK'
  BY <1>7 DEF SettleRevived, SettleRunOf
<1>8. ASSUME NEW q \in Request, NEW j \in JobId, SettleDead(q, j) PROVE TypeOK'
  BY <1>8 DEF SettleDead, SettleRunOf
<1>9. ASSUME NEW q \in Request, NEW j \in JobId, ClaimNextJob(q, j) PROVE TypeOK'
  BY <1>9 DEF ClaimNextJob, Claimable, Goto
<1>10. ASSUME NEW q \in Request, ClaimNothing(q) PROVE TypeOK'
  BY <1>10 DEF ClaimNothing, Goto
<1>11. ASSUME NEW q \in Request, StartRun(q) PROVE TypeOK'
  BY <1>11 DEF StartRun, Goto
<1>12. ASSUME NEW q \in Request, RequestDies(q) PROVE TypeOK'
  BY <1>12 DEF RequestDies
<1>13. ASSUME NEW m \in Machine, NEW j \in JobId, HeartbeatJob(m, j) PROVE TypeOK'
  BY <1>13 DEF HeartbeatJob
<1>14. ASSUME NEW m \in Machine, NEW j \in JobId, NEW S \in SUBSET Step, RecordSteps(m, j, S)
      PROVE  TypeOK'
  BY <1>14 DEF RecordSteps, Holds
<1>15. ASSUME NEW m \in Machine, NEW j \in JobId, NEW S \in SUBSET Step,
             NEW outcome \in Board!Verdict, CompleteJob(m, j, outcome, S)
      PROVE  TypeOK'
  <2>1. Completed(j, S, outcome)
    BY <1>15, CompleteEffect
  <2>2. CASE kind[j] = "execute_tests"
    BY <2>1, <2>2 DEF Completed
  <2>3. CASE kind[j] # "execute_tests"
    BY <2>1, <2>3 DEF Completed
  <2> QED
    BY <2>2, <2>3
<1>16. ASSUME NEW m \in Machine, NEW j \in JobId, ReleaseRequeued(m, j) PROVE TypeOK'
  BY <1>16 DEF ReleaseRequeued, Holds, SettleRunOf
<1>17. ASSUME NEW m \in Machine, NEW j \in JobId, ReleaseDead(m, j) PROVE TypeOK'
  BY <1>17 DEF ReleaseDead, Holds, SettleRunOf
<1>18. ASSUME NEW j \in JobId, GoQuiet(j) PROVE TypeOK'
  BY <1>18 DEF GoQuiet
<1>19. ASSUME NEW j \in JobId, RetryDue(j) PROVE TypeOK'
  BY <1>19 DEF RetryDue
<1>20. CASE UNCHANGED vars
  BY <1>20
<1> HIDE DEF TypeOK, Kind, Status, Board!Live, Board!Verdict, Board!Row, PendingHasAttemptLeft, vars, jobVars, boardVars, reqVars
<1> QED
  BY <1>1, <1>2, <1>3, <1>4, <1>5, <1>6, <1>7, <1>8, <1>9, <1>10, <1>11, <1>12, <1>13, <1>14, <1>15, <1>16, <1>17, <1>18, <1>19, <1>20
     DEF Next, RequestStep, MachineCall

LEMMA ShapeStep ==
  ASSUME TypeOK, RowShape, RequestShape, [Next]_vars
  PROVE  RowShape' /\ RequestShape'
<1> USE BoundsAssumption, PlanAssumption
    DEF TypeOK, Kind, Status, Board!Live, Board!Verdict, Board!Row, RowShape, RequestShape, vars, jobVars, boardVars, reqVars
<1>1. ASSUME NEW j \in JobId, NEW p \in Plan, EnqueueRun(j, p) PROVE RowShape' /\ RequestShape'
  BY <1>1 DEF EnqueueRun, Insert, IsNext, Board!HasLiveRun
<1>2. CASE EnqueueIndexCheck
  BY <1>2 DEF EnqueueIndexCheck
<1>3. ASSUME NEW j \in JobId, EnqueueIndexInsert(j) PROVE RowShape' /\ RequestShape'
  BY <1>3 DEF EnqueueIndexInsert, Insert, IsNext
<1>4. ASSUME NEW q \in Request, NEW m \in Machine, Poll(q, m) PROVE RowShape' /\ RequestShape'
  BY <1>4 DEF Poll, Goto
<1>5. ASSUME NEW q \in Request, ReapRevive(q) PROVE RowShape' /\ RequestShape'
  BY <1>5 DEF ReapRevive, Goto, RunsAmong, Revivable, Stale
<1>6. ASSUME NEW q \in Request, ReapBury(q) PROVE RowShape' /\ RequestShape'
  BY <1>6 DEF ReapBury, Goto, RunsAmong, Spent, Stale
<1>7. ASSUME NEW q \in Request, NEW j \in JobId, SettleRevived(q, j)
      PROVE  RowShape' /\ RequestShape'
  BY <1>7 DEF SettleRevived, SettleRunOf
<1>8. ASSUME NEW q \in Request, NEW j \in JobId, SettleDead(q, j) PROVE RowShape' /\ RequestShape'
  BY <1>8 DEF SettleDead, SettleRunOf
<1>9. ASSUME NEW q \in Request, NEW j \in JobId, ClaimNextJob(q, j) PROVE RowShape' /\ RequestShape'
  BY <1>9 DEF ClaimNextJob, Claimable, Goto
<1>10. ASSUME NEW q \in Request, ClaimNothing(q) PROVE RowShape' /\ RequestShape'
  BY <1>10 DEF ClaimNothing, Goto
<1>11. ASSUME NEW q \in Request, StartRun(q) PROVE RowShape' /\ RequestShape'
  BY <1>11 DEF StartRun, Goto
<1>12. ASSUME NEW q \in Request, RequestDies(q) PROVE RowShape' /\ RequestShape'
  BY <1>12 DEF RequestDies
<1>13. ASSUME NEW m \in Machine, NEW j \in JobId, HeartbeatJob(m, j)
      PROVE  RowShape' /\ RequestShape'
  BY <1>13 DEF HeartbeatJob
<1>14. ASSUME NEW m \in Machine, NEW j \in JobId, NEW S \in SUBSET Step, RecordSteps(m, j, S)
      PROVE  RowShape' /\ RequestShape'
  BY <1>14 DEF RecordSteps, Holds
<1>15. ASSUME NEW m \in Machine, NEW j \in JobId, NEW S \in SUBSET Step,
             NEW outcome \in Board!Verdict, CompleteJob(m, j, outcome, S)
      PROVE  RowShape' /\ RequestShape'
  <2>1. Completed(j, S, outcome)
    BY <1>15, CompleteEffect
  <2>2. CASE kind[j] = "execute_tests"
    BY <2>1, <2>2 DEF Completed
  <2>3. CASE kind[j] # "execute_tests"
    BY <2>1, <2>3 DEF Completed
  <2> QED
    BY <2>2, <2>3
<1>16. ASSUME NEW m \in Machine, NEW j \in JobId, ReleaseRequeued(m, j)
      PROVE  RowShape' /\ RequestShape'
  BY <1>16 DEF ReleaseRequeued, Holds, SettleRunOf
<1>17. ASSUME NEW m \in Machine, NEW j \in JobId, ReleaseDead(m, j) PROVE RowShape' /\ RequestShape'
  BY <1>17 DEF ReleaseDead, Holds, SettleRunOf
<1>18. ASSUME NEW j \in JobId, GoQuiet(j) PROVE RowShape' /\ RequestShape'
  BY <1>18 DEF GoQuiet
<1>19. ASSUME NEW j \in JobId, RetryDue(j) PROVE RowShape' /\ RequestShape'
  BY <1>19 DEF RetryDue
<1>20. CASE UNCHANGED vars
  BY <1>20
<1> HIDE DEF TypeOK, Kind, Status, Board!Live, Board!Verdict, Board!Row, RowShape, RequestShape, vars, jobVars, boardVars, reqVars
<1> QED
  BY <1>1, <1>2, <1>3, <1>4, <1>5, <1>6, <1>7, <1>8, <1>9, <1>10, <1>11, <1>12, <1>13, <1>14, <1>15, <1>16, <1>17, <1>18, <1>19, <1>20
     DEF Next, RequestStep, MachineCall

LEMMA AttemptStep ==
  ASSUME TypeOK, PendingHasAttemptLeft, RowShape, [Next]_vars
  PROVE  PendingHasAttemptLeft'
<1> USE BoundsAssumption
    DEF TypeOK, Kind, Status, Board!Live, Board!Verdict, Board!Row, RowShape, PendingHasAttemptLeft, vars, jobVars, boardVars, reqVars
<1>1. ASSUME NEW j \in JobId, NEW p \in Plan, EnqueueRun(j, p) PROVE PendingHasAttemptLeft'
  BY <1>1 DEF EnqueueRun, Insert, IsNext, Board!HasLiveRun
<1>2. CASE EnqueueIndexCheck
  BY <1>2 DEF EnqueueIndexCheck
<1>3. ASSUME NEW j \in JobId, EnqueueIndexInsert(j) PROVE PendingHasAttemptLeft'
  BY <1>3 DEF EnqueueIndexInsert, Insert, IsNext
<1>4. ASSUME NEW q \in Request, NEW m \in Machine, Poll(q, m) PROVE PendingHasAttemptLeft'
  BY <1>4 DEF Poll, Goto
<1>5. ASSUME NEW q \in Request, ReapRevive(q) PROVE PendingHasAttemptLeft'
  BY <1>5 DEF ReapRevive, Goto, RunsAmong, Revivable, Stale
<1>6. ASSUME NEW q \in Request, ReapBury(q) PROVE PendingHasAttemptLeft'
  BY <1>6 DEF ReapBury, Goto, RunsAmong, Spent, Stale
<1>7. ASSUME NEW q \in Request, NEW j \in JobId, SettleRevived(q, j) PROVE PendingHasAttemptLeft'
  BY <1>7 DEF SettleRevived, SettleRunOf
<1>8. ASSUME NEW q \in Request, NEW j \in JobId, SettleDead(q, j) PROVE PendingHasAttemptLeft'
  BY <1>8 DEF SettleDead, SettleRunOf
<1>9. ASSUME NEW q \in Request, NEW j \in JobId, ClaimNextJob(q, j) PROVE PendingHasAttemptLeft'
  BY <1>9 DEF ClaimNextJob, Claimable, Goto
<1>10. ASSUME NEW q \in Request, ClaimNothing(q) PROVE PendingHasAttemptLeft'
  BY <1>10 DEF ClaimNothing, Goto
<1>11. ASSUME NEW q \in Request, StartRun(q) PROVE PendingHasAttemptLeft'
  BY <1>11 DEF StartRun, Goto
<1>12. ASSUME NEW q \in Request, RequestDies(q) PROVE PendingHasAttemptLeft'
  BY <1>12 DEF RequestDies
<1>13. ASSUME NEW m \in Machine, NEW j \in JobId, HeartbeatJob(m, j) PROVE PendingHasAttemptLeft'
  BY <1>13 DEF HeartbeatJob
<1>14. ASSUME NEW m \in Machine, NEW j \in JobId, NEW S \in SUBSET Step, RecordSteps(m, j, S)
      PROVE  PendingHasAttemptLeft'
  BY <1>14 DEF RecordSteps, Holds
<1>15. ASSUME NEW m \in Machine, NEW j \in JobId, NEW S \in SUBSET Step,
             NEW outcome \in Board!Verdict, CompleteJob(m, j, outcome, S)
      PROVE  PendingHasAttemptLeft'
  <2>1. Completed(j, S, outcome)
    BY <1>15, CompleteEffect
  <2>2. CASE kind[j] = "execute_tests"
    BY <2>1, <2>2 DEF Completed
  <2>3. CASE kind[j] # "execute_tests"
    BY <2>1, <2>3 DEF Completed
  <2> QED
    BY <2>2, <2>3
<1>16. ASSUME NEW m \in Machine, NEW j \in JobId, ReleaseRequeued(m, j) PROVE PendingHasAttemptLeft'
  BY <1>16 DEF ReleaseRequeued, Holds, SettleRunOf
<1>17. ASSUME NEW m \in Machine, NEW j \in JobId, ReleaseDead(m, j) PROVE PendingHasAttemptLeft'
  BY <1>17 DEF ReleaseDead, Holds, SettleRunOf
<1>18. ASSUME NEW j \in JobId, GoQuiet(j) PROVE PendingHasAttemptLeft'
  BY <1>18 DEF GoQuiet
<1>19. ASSUME NEW j \in JobId, RetryDue(j) PROVE PendingHasAttemptLeft'
  BY <1>19 DEF RetryDue
<1>20. CASE UNCHANGED vars
  BY <1>20
<1> HIDE DEF TypeOK, Kind, Status, Board!Live, Board!Verdict, Board!Row, RowShape, PendingHasAttemptLeft, vars, jobVars, boardVars, reqVars
<1> QED
  BY <1>1, <1>2, <1>3, <1>4, <1>5, <1>6, <1>7, <1>8, <1>9, <1>10, <1>11, <1>12, <1>13, <1>14, <1>15, <1>16, <1>17, <1>18, <1>19, <1>20
     DEF Next, RequestStep, MachineCall

LEMMA OpenStep ==
  ASSUME TypeOK, RowShape, RequestShape, OpenErrandHasLiveRun, [Next]_vars
  PROVE  OpenErrandHasLiveRun'
<1> USE DEF TypeOK, Kind, Status, Board!Live, Board!Verdict, Board!Row, RowShape, RequestShape, OpenErrandHasLiveRun, IsOpen, vars, jobVars, boardVars, reqVars
<1>1. ASSUME NEW j \in JobId, NEW p \in Plan, EnqueueRun(j, p) PROVE OpenErrandHasLiveRun'
  BY <1>1 DEF EnqueueRun, Insert, IsNext, Board!HasLiveRun
<1>2. CASE EnqueueIndexCheck
  BY <1>2 DEF EnqueueIndexCheck
<1>3. ASSUME NEW j \in JobId, EnqueueIndexInsert(j) PROVE OpenErrandHasLiveRun'
  BY <1>3 DEF EnqueueIndexInsert, Insert, IsNext
<1>4. ASSUME NEW q \in Request, NEW m \in Machine, Poll(q, m) PROVE OpenErrandHasLiveRun'
  BY <1>4 DEF Poll, Goto
<1>5. ASSUME NEW q \in Request, ReapRevive(q) PROVE OpenErrandHasLiveRun'
  BY <1>5 DEF ReapRevive, Goto, RunsAmong, Revivable, Stale
<1>6. ASSUME NEW q \in Request, ReapBury(q) PROVE OpenErrandHasLiveRun'
  BY <1>6 DEF ReapBury, Goto, RunsAmong, Spent, Stale
<1>7. ASSUME NEW q \in Request, NEW j \in JobId, SettleRevived(q, j) PROVE OpenErrandHasLiveRun'
  BY <1>7 DEF SettleRevived, SettleRunOf
<1>8. ASSUME NEW q \in Request, NEW j \in JobId, SettleDead(q, j) PROVE OpenErrandHasLiveRun'
  BY <1>8 DEF SettleDead, SettleRunOf
<1>9. ASSUME NEW q \in Request, NEW j \in JobId, ClaimNextJob(q, j) PROVE OpenErrandHasLiveRun'
  BY <1>9 DEF ClaimNextJob, Claimable, Goto
<1>10. ASSUME NEW q \in Request, ClaimNothing(q) PROVE OpenErrandHasLiveRun'
  BY <1>10 DEF ClaimNothing, Goto
<1>11. ASSUME NEW q \in Request, StartRun(q) PROVE OpenErrandHasLiveRun'
  BY <1>11 DEF StartRun, Goto
<1>12. ASSUME NEW q \in Request, RequestDies(q) PROVE OpenErrandHasLiveRun'
  BY <1>12 DEF RequestDies
<1>13. ASSUME NEW m \in Machine, NEW j \in JobId, HeartbeatJob(m, j) PROVE OpenErrandHasLiveRun'
  BY <1>13 DEF HeartbeatJob
<1>14. ASSUME NEW m \in Machine, NEW j \in JobId, NEW S \in SUBSET Step, RecordSteps(m, j, S)
      PROVE  OpenErrandHasLiveRun'
  BY <1>14 DEF RecordSteps, Holds
<1>15. ASSUME NEW m \in Machine, NEW j \in JobId, NEW S \in SUBSET Step,
             NEW outcome \in Board!Verdict, CompleteJob(m, j, outcome, S)
      PROVE  OpenErrandHasLiveRun'
  <2>1. Completed(j, S, outcome)
    BY <1>15, CompleteEffect
  <2>2. CASE kind[j] = "execute_tests"
    BY <2>1, <2>2 DEF Completed
  <2>3. CASE kind[j] # "execute_tests"
    BY <2>1, <2>3 DEF Completed
  <2> QED
    BY <2>2, <2>3
<1>16. ASSUME NEW m \in Machine, NEW j \in JobId, ReleaseRequeued(m, j) PROVE OpenErrandHasLiveRun'
  BY <1>16 DEF ReleaseRequeued, Holds, SettleRunOf
<1>17. ASSUME NEW m \in Machine, NEW j \in JobId, ReleaseDead(m, j) PROVE OpenErrandHasLiveRun'
  BY <1>17 DEF ReleaseDead, Holds, SettleRunOf
<1>18. ASSUME NEW j \in JobId, GoQuiet(j) PROVE OpenErrandHasLiveRun'
  BY <1>18 DEF GoQuiet
<1>19. ASSUME NEW j \in JobId, RetryDue(j) PROVE OpenErrandHasLiveRun'
  BY <1>19 DEF RetryDue
<1>20. CASE UNCHANGED vars
  BY <1>20
<1> HIDE DEF TypeOK, Kind, Status, Board!Live, Board!Verdict, Board!Row, RowShape, RequestShape, OpenErrandHasLiveRun, IsOpen, vars, jobVars, boardVars, reqVars
<1> QED
  BY <1>1, <1>2, <1>3, <1>4, <1>5, <1>6, <1>7, <1>8, <1>9, <1>10, <1>11, <1>12, <1>13, <1>14, <1>15, <1>16, <1>17, <1>18, <1>19, <1>20
     DEF Next, RequestStep, MachineCall

LEMMA OneLiveStep ==
  ASSUME TypeOK, OneLiveRunPerPlan, [Next]_vars
  PROVE  OneLiveRunPerPlan'
<1> USE DEF TypeOK, Kind, Status, Board!Live, Board!Verdict, Board!Row, OneLiveRunPerPlan, vars, jobVars, boardVars, reqVars
<1>1. ASSUME NEW j \in JobId, NEW p \in Plan, EnqueueRun(j, p) PROVE OneLiveRunPerPlan'
  BY <1>1 DEF EnqueueRun, Insert, IsNext, Board!HasLiveRun
<1>2. CASE EnqueueIndexCheck
  BY <1>2 DEF EnqueueIndexCheck
<1>3. ASSUME NEW j \in JobId, EnqueueIndexInsert(j) PROVE OneLiveRunPerPlan'
  BY <1>3 DEF EnqueueIndexInsert, Insert, IsNext
<1>4. ASSUME NEW q \in Request, NEW m \in Machine, Poll(q, m) PROVE OneLiveRunPerPlan'
  BY <1>4 DEF Poll, Goto
<1>5. ASSUME NEW q \in Request, ReapRevive(q) PROVE OneLiveRunPerPlan'
  BY <1>5 DEF ReapRevive, Goto, RunsAmong, Revivable, Stale
<1>6. ASSUME NEW q \in Request, ReapBury(q) PROVE OneLiveRunPerPlan'
  BY <1>6 DEF ReapBury, Goto, RunsAmong, Spent, Stale
<1>7. ASSUME NEW q \in Request, NEW j \in JobId, SettleRevived(q, j) PROVE OneLiveRunPerPlan'
  BY <1>7 DEF SettleRevived, SettleRunOf
<1>8. ASSUME NEW q \in Request, NEW j \in JobId, SettleDead(q, j) PROVE OneLiveRunPerPlan'
  BY <1>8 DEF SettleDead, SettleRunOf
<1>9. ASSUME NEW q \in Request, NEW j \in JobId, ClaimNextJob(q, j) PROVE OneLiveRunPerPlan'
  BY <1>9 DEF ClaimNextJob, Claimable, Goto
<1>10. ASSUME NEW q \in Request, ClaimNothing(q) PROVE OneLiveRunPerPlan'
  BY <1>10 DEF ClaimNothing, Goto
<1>11. ASSUME NEW q \in Request, StartRun(q) PROVE OneLiveRunPerPlan'
  BY <1>11 DEF StartRun, Goto
<1>12. ASSUME NEW q \in Request, RequestDies(q) PROVE OneLiveRunPerPlan'
  BY <1>12 DEF RequestDies
<1>13. ASSUME NEW m \in Machine, NEW j \in JobId, HeartbeatJob(m, j) PROVE OneLiveRunPerPlan'
  BY <1>13 DEF HeartbeatJob
<1>14. ASSUME NEW m \in Machine, NEW j \in JobId, NEW S \in SUBSET Step, RecordSteps(m, j, S)
      PROVE  OneLiveRunPerPlan'
  BY <1>14 DEF RecordSteps, Holds
<1>15. ASSUME NEW m \in Machine, NEW j \in JobId, NEW S \in SUBSET Step,
             NEW outcome \in Board!Verdict, CompleteJob(m, j, outcome, S)
      PROVE  OneLiveRunPerPlan'
  <2>1. Completed(j, S, outcome)
    BY <1>15, CompleteEffect
  <2>2. CASE kind[j] = "execute_tests"
    BY <2>1, <2>2 DEF Completed
  <2>3. CASE kind[j] # "execute_tests"
    BY <2>1, <2>3 DEF Completed
  <2> QED
    BY <2>2, <2>3
<1>16. ASSUME NEW m \in Machine, NEW j \in JobId, ReleaseRequeued(m, j) PROVE OneLiveRunPerPlan'
  BY <1>16 DEF ReleaseRequeued, Holds, SettleRunOf
<1>17. ASSUME NEW m \in Machine, NEW j \in JobId, ReleaseDead(m, j) PROVE OneLiveRunPerPlan'
  BY <1>17 DEF ReleaseDead, Holds, SettleRunOf
<1>18. ASSUME NEW j \in JobId, GoQuiet(j) PROVE OneLiveRunPerPlan'
  BY <1>18 DEF GoQuiet
<1>19. ASSUME NEW j \in JobId, RetryDue(j) PROVE OneLiveRunPerPlan'
  BY <1>19 DEF RetryDue
<1>20. CASE UNCHANGED vars
  BY <1>20
<1> HIDE DEF TypeOK, Kind, Status, Board!Live, Board!Verdict, Board!Row, OneLiveRunPerPlan, vars, jobVars, boardVars, reqVars
<1> QED
  BY <1>1, <1>2, <1>3, <1>4, <1>5, <1>6, <1>7, <1>8, <1>9, <1>10, <1>11, <1>12, <1>13, <1>14, <1>15, <1>16, <1>17, <1>18, <1>19, <1>20
     DEF Next, RequestStep, MachineCall

LEMMA ReportStep ==
  ASSUME TypeOK, RowShape, OpenErrandHasLiveRun, CompletedRunIsItsReport, [Next]_vars
  PROVE  CompletedRunIsItsReport'
<1> USE DEF TypeOK, Kind, Status, Board!Live, Board!Verdict, Board!Row, RowShape, OpenErrandHasLiveRun, IsOpen, CompletedRunIsItsReport, vars, jobVars, boardVars, reqVars
<1>1. ASSUME NEW j \in JobId, NEW p \in Plan, EnqueueRun(j, p) PROVE CompletedRunIsItsReport'
  BY <1>1 DEF EnqueueRun, Insert, IsNext, Board!HasLiveRun
<1>2. CASE EnqueueIndexCheck
  BY <1>2 DEF EnqueueIndexCheck
<1>3. ASSUME NEW j \in JobId, EnqueueIndexInsert(j) PROVE CompletedRunIsItsReport'
  BY <1>3 DEF EnqueueIndexInsert, Insert, IsNext
<1>4. ASSUME NEW q \in Request, NEW m \in Machine, Poll(q, m) PROVE CompletedRunIsItsReport'
  BY <1>4 DEF Poll, Goto
<1>5. ASSUME NEW q \in Request, ReapRevive(q) PROVE CompletedRunIsItsReport'
  BY <1>5 DEF ReapRevive, Goto, RunsAmong, Revivable, Stale
<1>6. ASSUME NEW q \in Request, ReapBury(q) PROVE CompletedRunIsItsReport'
  BY <1>6 DEF ReapBury, Goto, RunsAmong, Spent, Stale
<1>7. ASSUME NEW q \in Request, NEW j \in JobId, SettleRevived(q, j) PROVE CompletedRunIsItsReport'
  BY <1>7 DEF SettleRevived, SettleRunOf
<1>8. ASSUME NEW q \in Request, NEW j \in JobId, SettleDead(q, j) PROVE CompletedRunIsItsReport'
  BY <1>8 DEF SettleDead, SettleRunOf
<1>9. ASSUME NEW q \in Request, NEW j \in JobId, ClaimNextJob(q, j) PROVE CompletedRunIsItsReport'
  BY <1>9 DEF ClaimNextJob, Claimable, Goto
<1>10. ASSUME NEW q \in Request, ClaimNothing(q) PROVE CompletedRunIsItsReport'
  BY <1>10 DEF ClaimNothing, Goto
<1>11. ASSUME NEW q \in Request, StartRun(q) PROVE CompletedRunIsItsReport'
  BY <1>11 DEF StartRun, Goto
<1>12. ASSUME NEW q \in Request, RequestDies(q) PROVE CompletedRunIsItsReport'
  BY <1>12 DEF RequestDies
<1>13. ASSUME NEW m \in Machine, NEW j \in JobId, HeartbeatJob(m, j) PROVE CompletedRunIsItsReport'
  BY <1>13 DEF HeartbeatJob
<1>14. ASSUME NEW m \in Machine, NEW j \in JobId, NEW S \in SUBSET Step, RecordSteps(m, j, S)
      PROVE  CompletedRunIsItsReport'
  BY <1>14 DEF RecordSteps, Holds
<1>15. ASSUME NEW m \in Machine, NEW j \in JobId, NEW S \in SUBSET Step,
             NEW outcome \in Board!Verdict, CompleteJob(m, j, outcome, S)
      PROVE  CompletedRunIsItsReport'
  <2>1. Completed(j, S, outcome)
    BY <1>15, CompleteEffect
  <2>2. CASE kind[j] = "execute_tests"
    BY <2>1, <2>2 DEF Completed
  <2>3. CASE kind[j] # "execute_tests"
    BY <2>1, <2>3 DEF Completed
  <2> QED
    BY <2>2, <2>3
<1>16. ASSUME NEW m \in Machine, NEW j \in JobId, ReleaseRequeued(m, j)
      PROVE  CompletedRunIsItsReport'
  BY <1>16 DEF ReleaseRequeued, Holds, SettleRunOf
<1>17. ASSUME NEW m \in Machine, NEW j \in JobId, ReleaseDead(m, j) PROVE CompletedRunIsItsReport'
  BY <1>17 DEF ReleaseDead, Holds, SettleRunOf
<1>18. ASSUME NEW j \in JobId, GoQuiet(j) PROVE CompletedRunIsItsReport'
  BY <1>18 DEF GoQuiet
<1>19. ASSUME NEW j \in JobId, RetryDue(j) PROVE CompletedRunIsItsReport'
  BY <1>19 DEF RetryDue
<1>20. CASE UNCHANGED vars
  BY <1>20
<1> HIDE DEF TypeOK, Kind, Status, Board!Live, Board!Verdict, Board!Row, RowShape, OpenErrandHasLiveRun, IsOpen, CompletedRunIsItsReport, vars, jobVars, boardVars, reqVars
<1> QED
  BY <1>1, <1>2, <1>3, <1>4, <1>5, <1>6, <1>7, <1>8, <1>9, <1>10, <1>11, <1>12, <1>13, <1>14, <1>15, <1>16, <1>17, <1>18, <1>19, <1>20
     DEF Next, RequestStep, MachineCall

LEMMA InitInvariant == Init => IInv
<1> SUFFICES ASSUME Init PROVE IInv
  OBVIOUS
<1>1. TypeOK
  BY TypeInit
<1>2. RowShape /\ RequestShape /\ PendingHasAttemptLeft
  BY DEF Init, Board!Init, RowShape, RequestShape, PendingHasAttemptLeft
<1>3. OpenErrandHasLiveRun /\ OneLiveRunPerPlan /\ CompletedRunIsItsReport
  BY DEF Init, Board!Init, Board!Live, OpenErrandHasLiveRun, OneLiveRunPerPlan, IsOpen,
         CompletedRunIsItsReport
<1> QED
  BY <1>1, <1>2, <1>3 DEF IInv

LEMMA StepInvariant == IInv /\ [Next]_vars => IInv'
BY TypeStep, ShapeStep, AttemptStep, OpenStep, OneLiveStep, ReportStep DEF IInv

\* The inductive invariant holds in every reachable state, with crashes and slow
\* requests as the code allows them.
THEOREM Invariance == Spec => []IInv
<1>1. Init => IInv
  BY InitInvariant
<1>2. IInv /\ [Next]_vars => IInv'
  BY StepInvariant
<1> QED
  BY <1>1, <1>2, PTL DEF Spec

\* Every column of jobs and test_executions keeps its type; attempts stays within
\* max_attempts, so no claim trips the CHECK constraint.
THEOREM TypeCorrect == Spec => []TypeOK
<1>1. IInv => TypeOK
  BY DEF IInv
<1> QED
  BY <1>1, Invariance, PTL

\* Two open errands never carry the same plan.
THEOREM NeverTwoErrands == Spec => []OneErrandPerPlan
<1>1. IInv => OneErrandPerPlan
  BY DEF IInv, OneErrandPerPlan, OpenErrandHasLiveRun, OneLiveRunPerPlan, IsErrandOf
<1> QED
  BY <1>1, Invariance, PTL

\* An errand a machine has, or can be handed, belongs to a run nobody has settled.
THEOREM OpenErrandsLive == Spec => []OpenErrandHasLiveRun
<1>1. IInv => OpenErrandHasLiveRun
  BY DEF IInv
<1> QED
  BY <1>1, Invariance, PTL

\* Every errand waiting in the queue can still be claimed.
THEOREM QueueNeverJams == Spec => []PendingHasAttemptLeft
<1>1. IInv => PendingHasAttemptLeft
  BY DEF IInv
<1> QED
  BY <1>1, Invariance, PTL

\* A completed errand's run carries the reported verdict and no preview.
THEOREM VerdictsLand == Spec => []CompletedRunIsItsReport
<1>1. IInv => CompletedRunIsItsReport
  BY DEF IInv
<1> QED
  BY <1>1, Invariance, PTL

-----------------------------------------------------------------------------
(* The queue implements the board.                                         *)

LEMMA BoardStep ==
  ASSUME IInv, [Next]_vars
  PROVE  [Board!Next]_Board!boardVars
<1> USE DEF vars, jobVars, boardVars, reqVars, Board!boardVars
<1>1. ASSUME NEW j \in JobId, NEW p \in Plan, EnqueueRun(j, p) PROVE [Board!Next]_Board!boardVars
  <2>1. Board!Ask(j, p)
    BY <1>1 DEF EnqueueRun, Insert, IsNext, Board!Ask, IInv, RowShape, TypeOK
  <2> QED
    BY <2>1 DEF Board!Next
<1>2. CASE EnqueueIndexCheck
  BY <1>2 DEF EnqueueIndexCheck
<1>3. ASSUME NEW j \in JobId, EnqueueIndexInsert(j) PROVE [Board!Next]_Board!boardVars
  BY <1>3 DEF EnqueueIndexInsert, Insert, IsNext
<1>4. ASSUME NEW q \in Request, NEW m \in Machine, Poll(q, m) PROVE [Board!Next]_Board!boardVars
  BY <1>4 DEF Poll, Goto
<1>5. ASSUME NEW q \in Request, ReapRevive(q) PROVE [Board!Next]_Board!boardVars
  BY <1>5 DEF ReapRevive, Goto, RunsAmong, Revivable, Stale
<1>6. ASSUME NEW q \in Request, ReapBury(q) PROVE [Board!Next]_Board!boardVars
  BY <1>6 DEF ReapBury, Goto, RunsAmong, Spent, Stale
<1>7. ASSUME NEW q \in Request, NEW j \in JobId, SettleRevived(q, j)
      PROVE  [Board!Next]_Board!boardVars
  <2>1. CASE runStatus[j] = "running"
    <3>1. Board!Shift(j, "running", "pending")
      BY <1>7, <2>1 DEF SettleRevived, SettleRunOf, Board!Shift
    <3> QED
      BY <3>1 DEF Board!Next
  <2>2. CASE runStatus[j] # "running"
    BY <1>7, <2>2 DEF SettleRevived, SettleRunOf
  <2> QED
    BY <2>1, <2>2
<1>8. ASSUME NEW q \in Request, NEW j \in JobId, SettleDead(q, j) PROVE [Board!Next]_Board!boardVars
  <2>1. CASE runStatus[j] = "running"
    <3>1. Board!GiveUp(j)
      BY <1>8, <2>1 DEF SettleDead, SettleRunOf, Board!GiveUp
    <3> QED
      BY <3>1 DEF Board!Next
  <2>2. CASE runStatus[j] # "running"
    BY <1>8, <2>2 DEF SettleDead, SettleRunOf
  <2> QED
    BY <2>1, <2>2
<1>9. ASSUME NEW q \in Request, NEW j \in JobId, ClaimNextJob(q, j)
      PROVE  [Board!Next]_Board!boardVars
  BY <1>9 DEF ClaimNextJob, Claimable, Goto
<1>10. ASSUME NEW q \in Request, ClaimNothing(q) PROVE [Board!Next]_Board!boardVars
  BY <1>10 DEF ClaimNothing, Goto
<1>11. ASSUME NEW q \in Request, StartRun(q) PROVE [Board!Next]_Board!boardVars
  <2> DEFINE j == handing[q]
  <2>1. j \in JobId
    BY <1>11 DEF StartRun, Goto, IInv, RequestShape
  <2>2. CASE runStatus[j] = "pending"
    <3>1. Board!Shift(j, "pending", "running")
      BY <1>11, <2>2 DEF StartRun, Board!Shift
    <3> QED
      BY <2>1, <3>1 DEF Board!Next
  <2>3. CASE runStatus[j] # "pending"
    BY <1>11, <2>3 DEF StartRun
  <2> QED
    BY <2>2, <2>3
<1>12. ASSUME NEW q \in Request, RequestDies(q) PROVE [Board!Next]_Board!boardVars
  BY <1>12 DEF RequestDies
<1>13. ASSUME NEW m \in Machine, NEW j \in JobId, HeartbeatJob(m, j)
      PROVE  [Board!Next]_Board!boardVars
  BY <1>13 DEF HeartbeatJob
<1>14. ASSUME NEW m \in Machine, NEW j \in JobId, NEW S \in SUBSET Step, RecordSteps(m, j, S)
      PROVE  [Board!Next]_Board!boardVars
  <2>1. CASE kind[j] = "execute_tests"
    <3>1. runStatus[j] \in Board!Live
      BY <1>14, <2>1 DEF RecordSteps, Holds, IInv, OpenErrandHasLiveRun, IsOpen
    <3>2. Board!Preview(j, S)
      BY <1>14, <2>1, <3>1 DEF RecordSteps, Board!Preview
    <3> QED
      BY <3>2 DEF Board!Next
  <2>2. CASE kind[j] # "execute_tests"
    BY <1>14, <2>2 DEF RecordSteps
  <2> QED
    BY <2>1, <2>2
<1>15. ASSUME NEW m \in Machine, NEW j \in JobId, NEW S \in SUBSET Step,
             NEW outcome \in Board!Verdict, CompleteJob(m, j, outcome, S)
      PROVE  [Board!Next]_Board!boardVars
  <2>1. Completed(j, S, outcome)
    BY <1>15, CompleteEffect
  <2>2. CASE kind[j] = "execute_tests"
    <3>1. runStatus[j] \in Board!Live
      BY <2>1, <2>2 DEF Completed, IInv, OpenErrandHasLiveRun, IsOpen
    <3>2. Board!Report(j, outcome, S)
      BY <2>1, <2>2, <3>1 DEF Completed, Board!Report
    <3> QED
      BY <3>2 DEF Board!Next
  <2>3. CASE kind[j] # "execute_tests"
    BY <2>1, <2>3 DEF Completed
  <2> QED
    BY <2>2, <2>3
<1>16. ASSUME NEW m \in Machine, NEW j \in JobId, ReleaseRequeued(m, j)
      PROVE  [Board!Next]_Board!boardVars
  <2>1. CASE runStatus[j] = "running"
    <3>1. Board!Shift(j, "running", "pending")
      BY <1>16, <2>1 DEF ReleaseRequeued, SettleRunOf, Board!Shift
    <3> QED
      BY <3>1 DEF Board!Next
  <2>2. CASE runStatus[j] # "running"
    BY <1>16, <2>2 DEF ReleaseRequeued, SettleRunOf
  <2> QED
    BY <2>1, <2>2
<1>17. ASSUME NEW m \in Machine, NEW j \in JobId, ReleaseDead(m, j)
      PROVE  [Board!Next]_Board!boardVars
  <2>1. CASE runStatus[j] = "running"
    <3>1. Board!GiveUp(j)
      BY <1>17, <2>1 DEF ReleaseDead, SettleRunOf, Board!GiveUp
    <3> QED
      BY <3>1 DEF Board!Next
  <2>2. CASE runStatus[j] # "running"
    BY <1>17, <2>2 DEF ReleaseDead, SettleRunOf
  <2> QED
    BY <2>1, <2>2
<1>18. ASSUME NEW j \in JobId, GoQuiet(j) PROVE [Board!Next]_Board!boardVars
  BY <1>18 DEF GoQuiet
<1>19. ASSUME NEW j \in JobId, RetryDue(j) PROVE [Board!Next]_Board!boardVars
  BY <1>19 DEF RetryDue
<1>20. CASE UNCHANGED vars
  BY <1>20
<1> HIDE DEF vars, jobVars, boardVars, reqVars, Board!boardVars
<1> QED
  BY <1>1, <1>2, <1>3, <1>4, <1>5, <1>6, <1>7, <1>8, <1>9, <1>10, <1>11, <1>12, <1>13, <1>14, <1>15, <1>16, <1>17, <1>18, <1>19, <1>20
     DEF Next, RequestStep, MachineCall

\* Every run the queue moves, it moves as the board allows: asked for one at a time
\* per plan, settled once, verdict and rows together, never touched again.
THEOREM QueueImplementsBoard == Spec => ImplementsRunBoard
<1>1. Init => Board!Init
  BY DEF Init
<1>2. IInv /\ [Next]_vars => [Board!Next]_Board!boardVars
  BY BoardStep
<1> QED
  BY <1>1, <1>2, Invariance, PTL DEF Spec, ImplementsRunBoard, Board!Spec

-----------------------------------------------------------------------------
(* When claim requests neither die nor stall, no live run is stranded.     *)

\* What such a request carries at each of its stages.
TimelyShape ==
  /\ \A j \in quiet : status[j] = "claimed"
  /\ \A q \in Request :
       /\ at[q] \notin {"bury", "settle"} => owedPending[q] = {}
       /\ at[q] # "settle" => owedError[q] = {}
       /\ at[q] # "start" => handing[q] = NoJob
       /\ handing[q] # NoJob => status[handing[q]] = "claimed" /\ handing[q] \notin quiet
       /\ \A j \in owedPending[q] : status[j] = "pending" /\ j \in cooling

TimelyInv == TimelyShape /\ RunMirrorsErrand /\ LiveRunIsAccountedFor

LEMMA TimelyShapeStep ==
  ASSUME IInv, TimelyShape, Timely, MaxCrashes = 0, [Next]_vars
  PROVE  TimelyShape'
<1> USE BoundsAssumption
    DEF TypeOK, Kind, Status, Board!Live, Board!Verdict, Board!Row, IInv, TimelyShape, RequestShape, BeingHanded, Overtaking, vars, jobVars, boardVars, reqVars
<1>1. ASSUME NEW j \in JobId, NEW p \in Plan, EnqueueRun(j, p) PROVE TimelyShape'
  BY <1>1 DEF EnqueueRun, Insert, IsNext, Board!HasLiveRun
<1>2. CASE EnqueueIndexCheck
  BY <1>2 DEF EnqueueIndexCheck
<1>3. ASSUME NEW j \in JobId, EnqueueIndexInsert(j) PROVE TimelyShape'
  BY <1>3 DEF EnqueueIndexInsert, Insert, IsNext
<1>4. ASSUME NEW q \in Request, NEW m \in Machine, Poll(q, m) PROVE TimelyShape'
  BY <1>4 DEF Poll, Goto
<1>5. ASSUME NEW q \in Request, ReapRevive(q) PROVE TimelyShape'
  BY <1>5 DEF ReapRevive, Goto, RunsAmong, Revivable, Stale
<1>6. ASSUME NEW q \in Request, ReapBury(q) PROVE TimelyShape'
  BY <1>6 DEF ReapBury, Goto, RunsAmong, Spent, Stale
<1>7. ASSUME NEW q \in Request, NEW j \in JobId, SettleRevived(q, j) PROVE TimelyShape'
  BY <1>7 DEF SettleRevived, SettleRunOf
<1>8. ASSUME NEW q \in Request, NEW j \in JobId, SettleDead(q, j) PROVE TimelyShape'
  BY <1>8 DEF SettleDead, SettleRunOf
<1>9. ASSUME NEW q \in Request, NEW j \in JobId, ClaimNextJob(q, j) PROVE TimelyShape'
  BY <1>9 DEF ClaimNextJob, Claimable, Goto
<1>10. ASSUME NEW q \in Request, ClaimNothing(q) PROVE TimelyShape'
  BY <1>10 DEF ClaimNothing, Goto
<1>11. ASSUME NEW q \in Request, StartRun(q) PROVE TimelyShape'
  BY <1>11 DEF StartRun, Goto
<1>12. ASSUME NEW q \in Request, RequestDies(q) PROVE TimelyShape'
  BY <1>12 DEF RequestDies
<1>13. ASSUME NEW m \in Machine, NEW j \in JobId, HeartbeatJob(m, j) PROVE TimelyShape'
  BY <1>13 DEF HeartbeatJob
<1>14. ASSUME NEW m \in Machine, NEW j \in JobId, NEW S \in SUBSET Step, RecordSteps(m, j, S)
      PROVE  TimelyShape'
  BY <1>14 DEF RecordSteps, Holds
<1>15. ASSUME NEW m \in Machine, NEW j \in JobId, NEW S \in SUBSET Step,
             NEW outcome \in Board!Verdict, CompleteJob(m, j, outcome, S)
      PROVE  TimelyShape'
  <2>1. Completed(j, S, outcome)
    BY <1>15, CompleteEffect
  <2>2. CASE kind[j] = "execute_tests"
    BY <2>1, <2>2 DEF Completed
  <2>3. CASE kind[j] # "execute_tests"
    BY <2>1, <2>3 DEF Completed
  <2> QED
    BY <2>2, <2>3
<1>16. ASSUME NEW m \in Machine, NEW j \in JobId, ReleaseRequeued(m, j) PROVE TimelyShape'
  BY <1>16 DEF ReleaseRequeued, Holds, SettleRunOf
<1>17. ASSUME NEW m \in Machine, NEW j \in JobId, ReleaseDead(m, j) PROVE TimelyShape'
  BY <1>17 DEF ReleaseDead, Holds, SettleRunOf
<1>18. ASSUME NEW j \in JobId, GoQuiet(j) PROVE TimelyShape'
  BY <1>18 DEF GoQuiet
<1>19. ASSUME NEW j \in JobId, RetryDue(j) PROVE TimelyShape'
  BY <1>19 DEF RetryDue
<1>20. CASE UNCHANGED vars
  BY <1>20
<1> HIDE DEF TypeOK, Kind, Status, Board!Live, Board!Verdict, Board!Row, IInv, TimelyShape, RequestShape, BeingHanded, Overtaking, vars, jobVars, boardVars, reqVars
<1> QED
  BY <1>1, <1>2, <1>3, <1>4, <1>5, <1>6, <1>7, <1>8, <1>9, <1>10, <1>11, <1>12, <1>13, <1>14, <1>15, <1>16, <1>17, <1>18, <1>19, <1>20
     DEF Next, RequestStep, MachineCall

\* What the first UPDATE of a reap does to a run is recorded in what the request owes.
LEMMA ReviveMirror ==
  ASSUME IInv, TimelyShape, RunMirrorsErrand, LiveRunIsAccountedFor,
         NEW q \in Request, ReapRevive(q)
  PROVE  RunMirrorsErrand' /\ LiveRunIsAccountedFor'
<1>1. ASSUME NEW i \in Revivable
      PROVE  /\ i \in JobId /\ status[i] = "claimed" /\ ~BeingHanded(i)
             /\ runStatus[i] = "running" => i \in RunsAmong(Revivable)
  BY <1>1 DEF IInv, TypeOK, RowShape, TimelyShape, Revivable, Stale, BeingHanded, RunsAmong
<1>2. /\ \A i \in JobId : status'[i] = IF i \in Revivable THEN "pending" ELSE status[i]
      /\ owedPending'[q] = RunsAmong(Revivable)
      /\ UNCHANGED <<runStatus, owedError, handing>>
  BY DEF ReapRevive, Goto, IInv, TypeOK, boardVars
<1>3. \A r \in Request : owedPending[r] \subseteq owedPending'[r]
  BY DEF ReapRevive, Goto, IInv, TypeOK, TimelyShape
<1>4. ASSUME NEW i \in JobId, runStatus'[i] = "running"
      PROVE  status'[i] = "claimed" \/ \E r \in Request : i \in owedPending'[r] \cup owedError'[r]
  <2>1. CASE i \in Revivable
    BY <1>1, <1>2, <1>4, <2>1
  <2>2. CASE i \notin Revivable
    BY <1>2, <1>3, <1>4, <2>2 DEF RunMirrorsErrand
  <2> QED
    BY <2>1, <2>2
<1>5. ASSUME NEW i \in JobId, runStatus'[i] = "pending"
      PROVE  status'[i] = "pending" \/ BeingHanded(i)'
  BY <1>2, <1>5 DEF RunMirrorsErrand, BeingHanded
<1>6. RunMirrorsErrand'
  BY <1>4, <1>5 DEF RunMirrorsErrand
<1>7. LiveRunIsAccountedFor'
  BY <1>1, <1>2 DEF LiveRunIsAccountedFor, IsOpen, Owed
<1> QED
  BY <1>6, <1>7

\* So is what its second UPDATE does.
LEMMA BuryMirror ==
  ASSUME IInv, TimelyShape, RunMirrorsErrand, LiveRunIsAccountedFor,
         NEW q \in Request, ReapBury(q)
  PROVE  RunMirrorsErrand' /\ LiveRunIsAccountedFor'
<1>1. ASSUME NEW i \in Spent, runStatus[i] \in Board!Live
      PROVE  runStatus[i] = "running" /\ i \in RunsAmong(Spent)
  <2>1. i \in JobId /\ status[i] = "claimed" /\ ~BeingHanded(i)
    BY <1>1 DEF IInv, TypeOK, TimelyShape, Spent, Stale, BeingHanded
  <2> QED
    BY <1>1, <2>1 DEF IInv, RowShape, RunMirrorsErrand, RunsAmong, Board!Live
<1>2. /\ \A i \in JobId : status'[i] = IF i \in Spent THEN "dead" ELSE status[i]
      /\ owedError'[q] = RunsAmong(Spent)
      /\ UNCHANGED <<runStatus, owedPending, handing>>
  BY DEF ReapBury, Goto, IInv, TypeOK, boardVars
<1>3. \A r \in Request : owedError[r] \subseteq owedError'[r]
  BY DEF ReapBury, Goto, IInv, TypeOK, TimelyShape
<1>4. ASSUME NEW i \in JobId, i \in Spent, runStatus[i] \in Board!Live
      PROVE  i \in owedError'[q] /\ runStatus[i] = "running"
  BY <1>1, <1>2, <1>4
<1>5. ASSUME NEW i \in JobId
      PROVE  /\ runStatus'[i] = "running" =>
                  \/ status'[i] = "claimed"
                  \/ \E r \in Request : i \in owedPending'[r] \cup owedError'[r]
             /\ runStatus'[i] = "pending" => status'[i] = "pending" \/ BeingHanded(i)'
             /\ runStatus'[i] \in Board!Live => IsOpen(i)' \/ Owed(i)'
  <2>1. CASE i \in Spent
    BY <1>2, <1>4, <2>1 DEF Owed, Board!Live
  <2>2. CASE i \notin Spent
    BY <1>2, <1>3, <2>2 DEF RunMirrorsErrand, LiveRunIsAccountedFor, IsOpen, Owed, BeingHanded
  <2> QED
    BY <2>1, <2>2
<1> QED
  BY <1>5 DEF RunMirrorsErrand, LiveRunIsAccountedFor

\* An errand that can be claimed has a waiting run, which the claim then hands over.
LEMMA ClaimMirror ==
  ASSUME IInv, TimelyShape, RunMirrorsErrand, LiveRunIsAccountedFor,
         NEW q \in Request, NEW j \in JobId, ClaimNextJob(q, j)
  PROVE  RunMirrorsErrand' /\ LiveRunIsAccountedFor'
<1>1. /\ status[j] = "pending" /\ j \notin cooling /\ handing[q] = NoJob
      /\ status' = [status EXCEPT ![j] = "claimed"]
      /\ handing' = [handing EXCEPT ![q] = IF kind[j] = "execute_tests" THEN j ELSE NoJob]
      /\ UNCHANGED <<runStatus, owedPending, owedError>>
  BY DEF ClaimNextJob, Claimable, Goto, TimelyShape, boardVars
<1>2. runStatus[j] # "running"
  BY <1>1 DEF RunMirrorsErrand, TimelyShape, IInv, RequestShape
<1>3. runStatus[j] = "pending" => BeingHanded(j)'
  BY <1>1 DEF IInv, TypeOK, RowShape, BeingHanded
<1>4. \A i \in JobId : i # j => (BeingHanded(i) => BeingHanded(i)')
  BY <1>1 DEF IInv, TypeOK, BeingHanded
<1>5. \A i \in JobId : status'[i] = IF i = j THEN "claimed" ELSE status[i]
  BY <1>1 DEF IInv, TypeOK
<1>6. RunMirrorsErrand'
  BY <1>1, <1>2, <1>3, <1>4, <1>5 DEF RunMirrorsErrand
<1>7. LiveRunIsAccountedFor'
  BY <1>1, <1>5 DEF LiveRunIsAccountedFor, IsOpen, Owed
<1> QED
  BY <1>6, <1>7

LEMMA MirrorStep ==
  ASSUME IInv, TimelyShape, RunMirrorsErrand, LiveRunIsAccountedFor, Timely, MaxCrashes = 0, [Next]_vars
  PROVE  RunMirrorsErrand' /\ LiveRunIsAccountedFor'
<1> USE BoundsAssumption
    DEF TypeOK, Kind, Status, Board!Live, Board!Verdict, Board!Row, IInv, TimelyShape, RowShape, RequestShape, RunMirrorsErrand, LiveRunIsAccountedFor,
        OpenErrandHasLiveRun, IsOpen, Owed, BeingHanded, Overtaking, vars, jobVars, boardVars, reqVars
<1>1. ASSUME NEW j \in JobId, NEW p \in Plan, EnqueueRun(j, p)
      PROVE  RunMirrorsErrand' /\ LiveRunIsAccountedFor'
  BY <1>1 DEF EnqueueRun, Insert, IsNext, Board!HasLiveRun
<1>2. CASE EnqueueIndexCheck
  BY <1>2 DEF EnqueueIndexCheck
<1>3. ASSUME NEW j \in JobId, EnqueueIndexInsert(j)
      PROVE  RunMirrorsErrand' /\ LiveRunIsAccountedFor'
  BY <1>3 DEF EnqueueIndexInsert, Insert, IsNext
<1>4. ASSUME NEW q \in Request, NEW m \in Machine, Poll(q, m)
      PROVE  RunMirrorsErrand' /\ LiveRunIsAccountedFor'
  BY <1>4 DEF Poll, Goto
<1>5. ASSUME NEW q \in Request, ReapRevive(q) PROVE RunMirrorsErrand' /\ LiveRunIsAccountedFor'
  BY ONLY <1>5, IInv, TimelyShape, RunMirrorsErrand, LiveRunIsAccountedFor, ReviveMirror
<1>6. ASSUME NEW q \in Request, ReapBury(q) PROVE RunMirrorsErrand' /\ LiveRunIsAccountedFor'
  BY ONLY <1>6, IInv, TimelyShape, RunMirrorsErrand, LiveRunIsAccountedFor, BuryMirror
<1>7. ASSUME NEW q \in Request, NEW j \in JobId, SettleRevived(q, j)
      PROVE  RunMirrorsErrand' /\ LiveRunIsAccountedFor'
  BY <1>7 DEF SettleRevived, SettleRunOf
<1>8. ASSUME NEW q \in Request, NEW j \in JobId, SettleDead(q, j)
      PROVE  RunMirrorsErrand' /\ LiveRunIsAccountedFor'
  BY <1>8 DEF SettleDead, SettleRunOf
<1>9. ASSUME NEW q \in Request, NEW j \in JobId, ClaimNextJob(q, j)
      PROVE  RunMirrorsErrand' /\ LiveRunIsAccountedFor'
  BY ONLY <1>9, IInv, TimelyShape, RunMirrorsErrand, LiveRunIsAccountedFor, ClaimMirror
<1>10. ASSUME NEW q \in Request, ClaimNothing(q) PROVE RunMirrorsErrand' /\ LiveRunIsAccountedFor'
  BY <1>10 DEF ClaimNothing, Goto
<1>11. ASSUME NEW q \in Request, StartRun(q) PROVE RunMirrorsErrand' /\ LiveRunIsAccountedFor'
  BY <1>11 DEF StartRun, Goto
<1>12. ASSUME NEW q \in Request, RequestDies(q) PROVE RunMirrorsErrand' /\ LiveRunIsAccountedFor'
  BY <1>12 DEF RequestDies
<1>13. ASSUME NEW m \in Machine, NEW j \in JobId, HeartbeatJob(m, j)
      PROVE  RunMirrorsErrand' /\ LiveRunIsAccountedFor'
  BY <1>13 DEF HeartbeatJob
<1>14. ASSUME NEW m \in Machine, NEW j \in JobId, NEW S \in SUBSET Step, RecordSteps(m, j, S)
      PROVE  RunMirrorsErrand' /\ LiveRunIsAccountedFor'
  BY <1>14 DEF RecordSteps, Holds
<1>15. ASSUME NEW m \in Machine, NEW j \in JobId, NEW S \in SUBSET Step,
             NEW outcome \in Board!Verdict, CompleteJob(m, j, outcome, S)
      PROVE  RunMirrorsErrand' /\ LiveRunIsAccountedFor'
  <2>1. Completed(j, S, outcome)
    BY ONLY <1>15, CompleteEffect
  <2>2. CASE kind[j] = "execute_tests"
    BY <2>1, <2>2 DEF Completed
  <2>3. CASE kind[j] # "execute_tests"
    BY <2>1, <2>3 DEF Completed
  <2> QED
    BY <2>2, <2>3
<1>16. ASSUME NEW m \in Machine, NEW j \in JobId, ReleaseRequeued(m, j)
      PROVE  RunMirrorsErrand' /\ LiveRunIsAccountedFor'
  BY <1>16 DEF ReleaseRequeued, Holds, SettleRunOf
<1>17. ASSUME NEW m \in Machine, NEW j \in JobId, ReleaseDead(m, j)
      PROVE  RunMirrorsErrand' /\ LiveRunIsAccountedFor'
  <2>1. runStatus[j] \in Board!Live => runStatus[j] = "running"
    BY <1>17 DEF ReleaseDead, Holds
  <2>2. /\ status' = [status EXCEPT ![j] = "dead"]
        /\ runStatus' = IF runStatus[j] = "running" THEN [runStatus EXCEPT ![j] = "error"] ELSE runStatus
        /\ UNCHANGED <<owedPending, owedError, handing>>
    BY <1>17 DEF ReleaseDead, SettleRunOf
  <2> QED
    BY <2>1, <2>2
<1>18. ASSUME NEW j \in JobId, GoQuiet(j) PROVE RunMirrorsErrand' /\ LiveRunIsAccountedFor'
  BY <1>18 DEF GoQuiet
<1>19. ASSUME NEW j \in JobId, RetryDue(j) PROVE RunMirrorsErrand' /\ LiveRunIsAccountedFor'
  BY <1>19 DEF RetryDue
<1>20. CASE UNCHANGED vars
  BY <1>20
<1> HIDE DEF TypeOK, Kind, Status, Board!Live, Board!Verdict, Board!Row, IInv, TimelyShape, RowShape, RequestShape, RunMirrorsErrand, LiveRunIsAccountedFor,
        OpenErrandHasLiveRun, IsOpen, Owed, BeingHanded, Overtaking, vars, jobVars, boardVars, reqVars
<1> QED
  BY <1>1, <1>2, <1>3, <1>4, <1>5, <1>6, <1>7, <1>8, <1>9, <1>10, <1>11, <1>12, <1>13, <1>14, <1>15, <1>16, <1>17, <1>18, <1>19, <1>20
     DEF Next, RequestStep, MachineCall

LEMMA TimelyStep ==
  ASSUME Timely, MaxCrashes = 0
  PROVE  IInv /\ TimelyInv /\ [Next]_vars => TimelyInv'
BY TimelyShapeStep, MirrorStep DEF TimelyInv

\* While claim requests neither die nor stall, a live run always has an open errand
\* or a request about to end it, and reads running only while a machine has it.
THEOREM NoRunIsStranded ==
  ASSUME Timely, MaxCrashes = 0
  PROVE  Spec => [](LiveRunIsAccountedFor /\ RunMirrorsErrand)
<1>1. Init => TimelyInv
  BY DEF Init, Board!Init, Board!Live, TimelyInv, TimelyShape, RunMirrorsErrand,
         LiveRunIsAccountedFor
<1>2. IInv /\ TimelyInv /\ [Next]_vars => TimelyInv'
  BY TimelyStep
<1>3. TimelyInv => LiveRunIsAccountedFor /\ RunMirrorsErrand
  BY DEF TimelyInv
<1> QED
  BY <1>1, <1>2, <1>3, Invariance, PTL DEF Spec
=============================================================================
