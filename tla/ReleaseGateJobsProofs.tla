----------------------- MODULE ReleaseGateJobsProofs -----------------------
(***************************************************************************)
(* Theorems of ReleaseGateJobs, for any number of jobs, runners, request   *)
(* handlers, batches and faults.                                           *)
(***************************************************************************)
EXTENDS ReleaseGateJobs, TLAPS

USE ConstantsOK DEF Jobs

-----------------------------------------------------------------------------
(***************************************************************************)
(* Type correctness.                                                       *)
(***************************************************************************)

RunnerTypeOK == /\ runner \in [Runners -> Runner]
                /\ \A r \in Runners :
                       /\ Busy(r) => runner[r].job \in Jobs
                       /\ runner[r].pc \in ToReplay => runner[r].batch < Batches

HandlerTypeOK ==
    /\ handler \in [Handlers -> HandlerState]
    /\ \A h \in Handlers : handler[h].pc = "canceling" => handler[h].job \in Jobs

LEMMA LoadedType ==
    ASSUME TypeOK, NEW j \in Jobs
    PROVE  Loaded(j) \in Seen
  BY DEF TypeOK, Loaded, Seen, Row

LEMMA MovedType ==
    ASSUME NEW run \in Runner, NEW pc \in RunnerPcs, NEW seen \in Seen
    PROVE  /\ Moved(run, pc, seen) \in Runner
           /\ Moved(run, pc, seen).pc = pc
           /\ Moved(run, pc, seen).job = run.job
           /\ Moved(run, pc, seen).batch = run.batch
  BY DEF Moved, Runner

LEMMA GotoType ==
    ASSUME TypeOK, NEW r \in Runners, NEW pc \in RunnerPcs, NEW seen \in Seen,
           Busy(r), pc \in ToReplay => runner[r].pc \in ToReplay, Goto(r, pc, seen)
    PROVE  RunnerTypeOK'
<1>1. runner' \in [Runners -> Runner]
  BY MovedType DEF TypeOK, Goto
<1>2. \A s \in Runners : runner'[s].job = runner[s].job /\ runner'[s].batch = runner[s].batch
  BY MovedType DEF TypeOK, Goto
<1>3. runner'[r].pc = pc /\ \A s \in Runners : s # r => runner'[s] = runner[s]
  BY MovedType DEF TypeOK, Goto
<1> QED
  BY <1>1, <1>2, <1>3 DEF TypeOK, RunnerTypeOK, Busy

LEMMA ReturnType ==
    ASSUME TypeOK, NEW r \in Runners, Return(r)
    PROVE  RunnerTypeOK'
  BY DEF TypeOK, RunnerTypeOK, Busy, Return, Runner, IdleRunner, RunOf, RunnerPcs,
         Seen, Unseen, Statuses

LEMMA ReplayedType ==
    ASSUME NEW run \in Runner, NEW done \in 0..Batches
    PROVE  /\ Replayed(run, done) \in Runner
           /\ Replayed(run, done).pc =
                  IF AllDone(done) THEN "evaluating" ELSE "replaying"
           /\ Replayed(run, done).job = run.job
           /\ Replayed(run, done).batch = done
<1> "evaluating" \in RunnerPcs /\ "replaying" \in RunnerPcs
  BY DEF RunnerPcs, Running, AfterCharge
<1> QED
  BY DEF Replayed, Runner

LEMMA HandlerReset ==
    ASSUME TypeOK, NEW h \in Handlers, handler' = [handler EXCEPT ![h] = IdleHandler]
    PROVE  HandlerTypeOK'
  BY DEF TypeOK, HandlerTypeOK, HandlerState, IdleHandler, Seen, Unseen, Statuses

LEMMA RunnerSame ==
    ASSUME TypeOK, UNCHANGED runner PROVE RunnerTypeOK'
  BY DEF TypeOK, RunnerTypeOK, Busy

LEMMA HandlerSame ==
    ASSUME TypeOK, UNCHANGED handler PROVE HandlerTypeOK'
  BY DEF TypeOK, HandlerTypeOK

\* What each transaction writes is a row.
LEMMA QueuedType ==
    ASSUME NEW s \in Scopes \cup {NoScope}
    PROVE  QueuedRow(s) \in Row
  BY DEF QueuedRow, AbsentRow, Row, Statuses, Active

LEMMA LeasedType ==
    ASSUME NEW row \in Row, NEW lease \in {"valid", "lapsed"}
    PROVE  /\ LeasedRow(row, lease) \in Row
           /\ LeasedRow(row, lease).status = row.status
           /\ LeasedRow(row, lease).cancel = row.cancel
           /\ LeasedRow(row, lease).result = row.result
           /\ LeasedRow(row, lease).lease = lease
  BY DEF LeasedRow, Row

LEMMA RowTypes ==
    ASSUME NEW row \in Row
    PROVE  /\ ClaimedRow(row) \in Row
           /\ SucceededRow(row) \in Row
           /\ AcknowledgedRow(row) \in Row
           /\ \A seen \in Seen : /\ CanceledRow(row, seen) \in Row
                                /\ HonoredRow(row, seen) \in Row
                                /\ FailedRow(row, seen) \in Row
<1> USE DEF Row, Statuses, Active, Terminal
<1>1. ClaimedRow(row) \in Row
  BY DEF ClaimedRow
<1>2. SucceededRow(row) \in Row
  BY DEF SucceededRow
<1>3. AcknowledgedRow(row) \in Row
  BY DEF AcknowledgedRow
<1>4. ASSUME NEW seen \in Seen PROVE CanceledRow(row, seen) \in Row
  BY DEF CanceledRow
<1>5. ASSUME NEW seen \in Seen PROVE HonoredRow(row, seen) \in Row
  BY DEF HonoredRow, PutStatus
<1>6. ASSUME NEW seen \in Seen PROVE FailedRow(row, seen) \in Row
  BY DEF FailedRow, PutStatus
<1> QED
  BY <1>1, <1>2, <1>3, <1>4, <1>5, <1>6

LEMMA CountType ==
    \A n \in 0..2 : Count(n) \in 0..2 /\ Count(n) > 0 /\ (n = 0 => Count(n) = 1)
  BY DEF Count

\* The pcs a run visits, and the type of an unread row.
LEMMA Constants ==
    /\ Unseen \in Seen
    /\ BeforeCharge \cup AfterCharge \subseteq RunnerPcs
    /\ \A pc \in Running \cup {"claimed", "settling", "honoring", "acknowledging",
                               "erring"} :
          pc \in RunnerPcs /\ pc \notin {"idle", "down"}
  BY DEF Unseen, Seen, Statuses, RunnerPcs, Running, BeforeCharge, AfterCharge

\* One step per action; what an action leaves alone keeps its type.
LEMMA TypeStep == TypeOK /\ [Next]_vars => TypeOK'
<1> SUFFICES ASSUME TypeOK, [Next]_vars PROVE TypeOK'
  OBVIOUS
<1> TypeOK' <=> /\ RunnerTypeOK'
                /\ HandlerTypeOK'
                /\ jobs' \in [Jobs -> Row]
                /\ nextJob' \in 1..(MaxJobs + 1)
                /\ charges' \in [Jobs -> 0..2]
                /\ reports' \in [Jobs -> 0..2]
                /\ lapsed' \in [Jobs -> BOOLEAN]
                /\ faults' \in 0..MaxFaults
  BY DEF TypeOK, RunnerTypeOK, HandlerTypeOK
<1>t. /\ jobs \in [Jobs -> Row]
      /\ nextJob \in 1..(MaxJobs + 1)
      /\ runner \in [Runners -> Runner]
      /\ \A r \in Runners :
             /\ Busy(r) => runner[r].job \in Jobs
             /\ runner[r].pc \in ToReplay => runner[r].batch < Batches
      /\ handler \in [Handlers -> HandlerState]
      /\ \A h \in Handlers : handler[h].pc = "canceling" => handler[h].job \in Jobs
      /\ charges \in [Jobs -> 0..2]
      /\ reports \in [Jobs -> 0..2]
      /\ lapsed \in [Jobs -> BOOLEAN]
      /\ faults \in 0..MaxFaults
  BY DEF TypeOK
<1>1. ASSUME NEW h \in Handlers, NEW s \in Scopes, BeginEnqueue(h, s) PROVE TypeOK'
  <2>0. Enqueuing(s) \in HandlerState
    BY Constants DEF HandlerState, Enqueuing
  <2>1. HandlerTypeOK'
    BY <1>t, <1>1, <2>0 DEF BeginEnqueue, HandlerTypeOK, Enqueuing
  <2> QED
    BY <1>t, <1>1, <2>1, RunnerSame DEF BeginEnqueue
<1>2. ASSUME NEW h \in Handlers, InsertJob(h) PROVE TypeOK'
  <2>1. handler[h].scope \in Scopes \cup {NoScope} /\ handler[h].seen \in Seen
    BY <1>t DEF HandlerState
  <2>3. jobs' \in [Jobs -> Row]
    BY <1>t, <1>2, <2>1, QueuedType DEF InsertJob
  <2>4. HandlerTypeOK'
    BY <1>2, HandlerReset DEF InsertJob
  <2>5. nextJob' \in 1..(MaxJobs + 1)
    BY <1>t, <1>2 DEF InsertJob
  <2> QED
    BY <1>t, <1>2, <2>3, <2>4, <2>5, RunnerSame DEF InsertJob
<1>3. ASSUME NEW h \in Handlers, RejectEnqueue(h) PROVE TypeOK'
  BY <1>t, <1>3, HandlerReset, RunnerSame DEF RejectEnqueue
<1>4. ASSUME NEW h \in Handlers, NEW j \in Jobs, BeginCancel(h, j) PROVE TypeOK'
  <2>0. Canceling(j) \in HandlerState
    BY LoadedType DEF HandlerState, Canceling
  <2>1. HandlerTypeOK'
    BY <1>t, <1>4, <2>0 DEF BeginCancel, HandlerTypeOK, Canceling
  <2> QED
    BY <1>t, <1>4, <2>1, RunnerSame DEF BeginCancel
<1>5. ASSUME NEW h \in Handlers, CommitCancel(h) PROVE TypeOK'
  <2>1. handler[h].seen \in Seen
    BY <1>t DEF HandlerState
  <2>2. jobs' \in [Jobs -> Row]
    BY <1>t, <1>5, <2>1, RowTypes DEF CommitCancel
  <2> QED
    BY <1>t, <1>5, <2>2, HandlerReset, RunnerSame DEF CommitCancel
<1>6. ASSUME NEW r \in Runners, Claim(r) PROVE TypeOK'
  <2>1. PICK j \in Jobs :
          /\ jobs' = [jobs EXCEPT ![j] = ClaimedRow(@)]
          /\ runner' = [runner EXCEPT ![r] = RunOf("claimed", j)]
    BY <1>6 DEF Claim
  <2>2. jobs' \in [Jobs -> Row]
    BY <1>t, <2>1, RowTypes
  <2>3. RunOf("claimed", j) \in Runner
    BY Constants DEF Runner, RunOf
  <2>4. RunnerTypeOK'
    BY <1>t, <2>1, <2>3 DEF RunnerTypeOK, RunOf, Busy
  <2> QED
    BY <1>t, <1>6, <2>2, <2>4, HandlerSame DEF Claim
<1>7. ASSUME NEW j \in Jobs, Lapse(j) PROVE TypeOK'
  <2>1. jobs' \in [Jobs -> Row]
    BY <1>t, <1>7, LeasedType DEF Lapse
  <2> QED
    BY <1>t, <1>7, <2>1, RunnerSame, HandlerSame DEF Lapse
<1>8. ASSUME NEW r \in Runners, Busy(r)
      PROVE  /\ runner[r].job \in Jobs
             /\ Loaded(runner[r].job) \in Seen
             /\ runner[r].seen \in Seen
             /\ jobs[runner[r].job] \in Row
  BY <1>t, <1>8, LoadedType DEF Runner
<1> USE DEF ToReplay, BeforeCharge
<1>9. ASSUME NEW r \in Runners, LoadJob(r) PROVE TypeOK'
  <2>1. RunnerTypeOK'
    BY <1>8, <1>9, GotoType, ReturnType, Constants DEF LoadJob, Busy, Running, BeforeCharge
  <2> QED
    BY <1>t, <1>9, <2>1, HandlerSame DEF LoadJob
<1>10. ASSUME NEW r \in Runners, RefreshLease(r) PROVE TypeOK'
  <2>1. RunnerTypeOK'
    BY <1>8, <1>10, GotoType, Constants DEF RefreshLease, Busy, Running, BeforeCharge
  <2>2. jobs' \in [Jobs -> Row]
    BY <1>t, <1>8, <1>10, LeasedType DEF RefreshLease, Busy
  <2> QED
    BY <1>t, <1>10, <2>1, <2>2, HandlerSame DEF RefreshLease
<1>11. ASSUME NEW r \in Runners, RejectInputs(r) PROVE TypeOK'
  <2>1. RunnerTypeOK'
    BY <1>8, <1>11, GotoType, Constants DEF RejectInputs, Busy
  <2> QED
    BY <1>t, <1>11, <2>1, HandlerSame DEF RejectInputs
<1>12. ASSUME NEW r \in Runners, ChargeAttempts(r) PROVE TypeOK'
  <2>1. RunnerTypeOK'
    BY <1>8, <1>12, GotoType, Constants DEF ChargeAttempts, Busy, Running, AfterCharge
  <2>2. charges' \in [Jobs -> 0..2]
    BY <1>t, <1>12, CountType DEF ChargeAttempts
  <2> QED
    BY <1>t, <1>12, <2>1, <2>2, HandlerSame DEF ChargeAttempts
<1>13. ASSUME NEW r \in Runners, StartBatch(r) \/ Evaluate(r) PROVE TypeOK'
  <2>1. RunnerTypeOK'
    BY <1>8, <1>13, GotoType, Constants
       DEF StartBatch, Evaluate, StopIfCanceled, Busy, Running, AfterCharge
  <2> QED
    BY <1>t, <1>13, <2>1, HandlerSame DEF StartBatch, Evaluate, StopIfCanceled
<1>14. ASSUME NEW r \in Runners, FinishBatch(r) PROVE TypeOK'
  <2>1. jobs' \in [Jobs -> Row]
    BY <1>t, <1>8, <1>14, LeasedType DEF FinishBatch, Busy
  <2>2. NextBatch(runner[r].batch) \in 0..Batches
    BY <1>t, <1>14 DEF FinishBatch, Runner, NextBatch, ToReplay
  <2> DEFINE run == Replayed(runner[r], NextBatch(runner[r].batch))
  <2>3. /\ runner' = [runner EXCEPT ![r] = run]
        /\ run \in Runner /\ run.job \in Jobs
        /\ run.pc \in ToReplay => run.batch < Batches
    <3>1. runner[r] \in Runner /\ runner[r].job \in Jobs
      BY <1>t, <1>14 DEF FinishBatch, Busy
    <3>2. run \in Runner /\ run.job = runner[r].job /\ run.batch \in 0..Batches
      BY <2>2, <3>1, ReplayedType
    <3>3. run.pc = IF run.batch = Batches THEN "evaluating" ELSE "replaying"
      BY <2>2, <3>1, ReplayedType DEF AllDone
    <3>4. runner' = [runner EXCEPT ![r] = run]
      BY <1>14 DEF FinishBatch
    <3> HIDE DEF run
    <3> QED
      BY <3>1, <3>2, <3>3, <3>4
  <2> HIDE DEF run
  <2>4. RunnerTypeOK'
    BY <1>t, <2>3 DEF RunnerTypeOK, Busy
  <2> QED
    BY <1>t, <1>14, <2>1, <2>4, HandlerSame DEF FinishBatch
<1>15. ASSUME NEW r \in Runners, SaveReport(r) PROVE TypeOK'
  <2>1. RunnerTypeOK'
    BY <1>8, <1>15, GotoType, Constants DEF SaveReport, Busy, Running, AfterCharge
  <2>2. reports' \in [Jobs -> 0..2]
    BY <1>t, <1>15, CountType DEF SaveReport
  <2> QED
    BY <1>t, <1>15, <2>1, <2>2, HandlerSame DEF SaveReport
<1>16. ASSUME NEW r \in Runners, Finalize(r) PROVE TypeOK'
  <2>1. RunnerTypeOK'
    BY <1>8, <1>16, GotoType, ReturnType, Constants DEF Finalize, Busy
  <2>2. jobs' \in [Jobs -> Row]
    <3>1. Busy(r)
      BY <1>16 DEF Finalize, Busy
    <3>2. CASE MayFinalize(jobs[runner[r].job])
      BY <1>t, <1>8, <1>16, <3>1, <3>2, RowTypes DEF Finalize
    <3>3. CASE ~MayFinalize(jobs[runner[r].job])
      BY <1>t, <1>16, <3>3 DEF Finalize
    <3> QED
      BY <3>2, <3>3
  <2> QED
    BY <1>t, <1>16, <2>1, <2>2, HandlerSame DEF Finalize
<1>17. ASSUME NEW r \in Runners, Settle(r) PROVE TypeOK'
  <2>1. RunnerTypeOK'
    BY <1>8, <1>17, GotoType, ReturnType, Constants DEF Settle, Busy
  <2> QED
    BY <1>t, <1>17, <2>1, HandlerSame DEF Settle
<1>18. ASSUME NEW r \in Runners, HonorCancel(r) PROVE TypeOK'
  <2>1. Busy(r)
    BY <1>18 DEF HonorCancel, Busy
  <2>2. jobs' \in [Jobs -> Row]
    BY <1>t, <1>8, <1>18, <2>1, RowTypes DEF HonorCancel
  <2> QED
    BY <1>t, <1>18, <2>2, ReturnType, HandlerSame DEF HonorCancel
<1>19. ASSUME NEW r \in Runners, AckCancel(r) PROVE TypeOK'
  <2>1. jobs' \in [Jobs -> Row]
    BY <1>t, <1>19, RowTypes DEF AckCancel
  <2> QED
    BY <1>t, <1>19, <2>1, ReturnType, HandlerSame DEF AckCancel
<1>20. ASSUME NEW r \in Runners, RecordFailure(r) PROVE TypeOK'
  <2>1. Busy(r)
    BY <1>20 DEF RecordFailure, Busy
  <2>2. jobs' \in [Jobs -> Row]
    BY <1>t, <1>8, <1>20, <2>1, RowTypes DEF RecordFailure
  <2> QED
    BY <1>t, <1>20, <2>2, ReturnType, HandlerSame DEF RecordFailure
<1>21. ASSUME NEW r \in Runners, Raise(r) PROVE TypeOK'
  <2>1. Busy(r)
    BY <1>21 DEF Raise, Busy, Running, BeforeCharge, AfterCharge
  <2>2. RunnerTypeOK'
    BY <1>8, <1>21, <2>1, GotoType, Constants DEF Raise
  <2>3. faults' \in 0..MaxFaults
    BY <1>t, <1>21 DEF Raise
  <2> QED
    BY <1>t, <1>21, <2>2, <2>3, HandlerSame DEF Raise
<1>22. ASSUME NEW r \in Runners, Crash(r) PROVE TypeOK'
  <2>0. RunOf("down", 0) \in Runner
    BY Constants DEF Runner, RunOf, RunnerPcs
  <2>1. RunnerTypeOK'
    BY <1>t, <1>22, <2>0 DEF Crash, RunnerTypeOK, Busy, RunOf
  <2>2. faults' \in 0..MaxFaults
    BY <1>t, <1>22 DEF Crash
  <2> QED
    BY <1>t, <1>22, <2>1, <2>2, HandlerSame DEF Crash
<1>23. ASSUME NEW r \in Runners, Restart(r) PROVE TypeOK'
  BY <1>t, <1>23, ReturnType, HandlerSame DEF Restart
<1>24. CASE UNCHANGED vars
  BY <1>t, <1>24, RunnerSame, HandlerSame DEF vars
<1> QED
  BY <1>1, <1>2, <1>3, <1>4, <1>5, <1>6, <1>7, <1>9, <1>10, <1>11, <1>12, <1>13,
     <1>14, <1>15, <1>16, <1>17, <1>18, <1>19, <1>20, <1>21, <1>22, <1>23, <1>24
     DEF Next, RunnerStep, HandlerStep

\* Every variable keeps its type: rows, sessions, ghost counters and bounds.
THEOREM TypeCorrect == Spec => []TypeOK
<1>1. Init => TypeOK
  BY DEF Init, TypeOK, Row, AbsentRow, Statuses, Runner, IdleRunner, RunOf, RunnerPcs,
         Seen, Unseen, HandlerState, IdleHandler, Busy
<1>2. TypeOK /\ [Next]_vars => TypeOK'
  BY TypeStep
<1>3. QED
  BY <1>1, <1>2, PTL DEF Spec

-----------------------------------------------------------------------------
(***************************************************************************)
(* What the row operations and the moves of a runner do to the fields that *)
(* the invariant speaks of.                                                *)
(***************************************************************************)

LEMMA GotoEffect ==
    ASSUME TypeOK, NEW r \in Runners, NEW pc, NEW seen, Goto(r, pc, seen)
    PROVE  /\ runner'[r].pc = pc
           /\ runner'[r].job = runner[r].job
           /\ \A s \in Runners : s # r => runner'[s] = runner[s]
  BY DEF TypeOK, Goto, Moved, Runner

LEMMA ReturnEffect ==
    ASSUME TypeOK, NEW r \in Runners, Return(r)
    PROVE  /\ runner'[r].pc = "idle"
           /\ \A s \in Runners : s # r => runner'[s] = runner[s]
  BY DEF TypeOK, Return, IdleRunner, RunOf

LEMMA RowEffects ==
    ASSUME NEW row \in Row
    PROVE  /\ ClaimedRow(row).status = "running" /\ ClaimedRow(row).cancel = row.cancel
           /\ ClaimedRow(row).result = row.result /\ ClaimedRow(row).lease = "valid"
           /\ SucceededRow(row).status = "succeeded"
           /\ SucceededRow(row).cancel = row.cancel
           /\ SucceededRow(row).result = TRUE /\ SucceededRow(row).lease = "none"
           /\ AcknowledgedRow(row).status = "canceled"
           /\ AcknowledgedRow(row).cancel = row.cancel
           /\ AcknowledgedRow(row).result = row.result
           /\ AcknowledgedRow(row).lease = "none"
  BY DEF Row, ClaimedRow, SucceededRow, AcknowledgedRow

LEMMA SessionRowEffects ==
    ASSUME NEW row \in Row, NEW seen \in Seen
    PROVE  /\ HonoredRow(row, seen).status \in {row.status, "canceled"}
           /\ HonoredRow(row, seen).cancel = row.cancel
           /\ ~HonoredRow(row, seen).result
           /\ HonoredRow(row, seen).lease = "none"
           /\ FailedRow(row, seen).status \in {row.status, "failed"}
           /\ FailedRow(row, seen).cancel = row.cancel
           /\ FailedRow(row, seen).result = row.result
           /\ FailedRow(row, seen).lease = "none"
           /\ CanceledRow(row, seen).status \in {row.status, "canceled"}
           /\ CanceledRow(row, seen).cancel
           /\ CanceledRow(row, seen).result = row.result
           /\ CanceledRow(row, seen).lease = row.lease
  BY DEF Row, HonoredRow, FailedRow, CanceledRow, PutStatus

\* The rows differ at most in leases that are valid now.
SameRows ==
    \A j \in Jobs : /\ jobs'[j].status = jobs[j].status
                    /\ jobs'[j].cancel = jobs[j].cancel
                    /\ jobs'[j].result = jobs[j].result
                    /\ jobs'[j].lease \in {jobs[j].lease, "valid"}

\* A step that moves one run, extends at most its lease, and adds to no counter
\* keeps the invariant, if the place it moves to is justified.
LEMMA MoveKeepsInvariant ==
    ASSUME IInv, TypeOK', NEW r \in Runners, Busy(r),
           \A s \in Runners : s # r => runner'[s] = runner[s],
           Busy(r)' => runner'[r].job = runner[r].job,
           runner'[r].pc \in AfterCharge => runner[r].pc \in AfterCharge,
           runner'[r].pc # "finalizing",
           runner'[r].pc \in NotYetCharged => runner[r].pc \in NotYetCharged,
           runner'[r].pc \in NotYetReported => runner[r].pc \in NotYetReported,
           runner'[r].pc \in {"acknowledging", "honoring"} => jobs[runner[r].job].cancel,
           SameRows,
           UNCHANGED <<nextJob, handler, charges, reports, lapsed>>
    PROVE  IInv'
<1> USE DEF IInv
<1>0. \A s \in Runners, j \in Jobs : Working(s, j)' => Working(s, j)
  BY DEF Working, Busy
<1>1. FreshRows'
  BY <1>0 DEF FreshRows, SameRows
<1>2. LapsesRecorded' /\ ResultPaidAndReported' /\ CanceledOnlyOnRequest'
  BY DEF LapsesRecorded, ResultPaidAndReported, CanceledOnlyOnRequest, SameRows
<1>3. SessionsJustified'
  <2>1. ASSUME NEW h \in Handlers, handler'[h].pc = "canceling"
        PROVE  jobs'[handler'[h].job].status # "absent"
    <3>1. handler'[h] = handler[h] /\ handler[h].job \in Jobs
      BY <2>1 DEF TypeOK
    <3>2. jobs[handler[h].job].status # "absent"
      BY <2>1, <3>1 DEF SessionsJustified
    <3> QED
      BY <3>1, <3>2 DEF SameRows
  <2>2. ASSUME NEW s \in Runners, runner'[s].pc \in {"acknowledging", "honoring"}
        PROVE  jobs'[runner'[s].job].cancel
    <3>1. Busy(s)' /\ runner'[s].job \in Jobs
      BY <2>2 DEF Busy, TypeOK
    <3>2. jobs[runner'[s].job].cancel
      BY <2>2, <3>1 DEF SessionsJustified
    <3> QED
      BY <3>1, <3>2 DEF SameRows
  <2> QED
    BY <2>1, <2>2 DEF SessionsJustified
<1>4. WorkInOrder'
  BY DEF WorkInOrder, Busy, AfterCharge
<1>5. FirstRun'
  BY <1>0 DEF FirstRun, Working, SameRows
<1>6. OnceUnlessLapsed'
  BY <1>0 DEF OnceUnlessLapsed
<1> QED
  BY <1>1, <1>2, <1>3, <1>4, <1>5, <1>6

\* A step that ends a run by writing the row of its job keeps the invariant, if
\* what it writes is justified.
LEMMA EndKeepsInvariant ==
    ASSUME IInv, TypeOK', NEW r \in Runners, Busy(r),
           runner'[r].pc = "idle",
           \A s \in Runners : s # r => runner'[s] = runner[s],
           NEW row \in Row,
           jobs' = [jobs EXCEPT ![runner[r].job] = row],
           row.status \notin {"absent", "queued"},
           row.cancel = jobs[runner[r].job].cancel,
           row.lease # "lapsed",
           row.status = "canceled" => row.cancel,
           row.result => charges[runner[r].job] > 0 /\ reports[runner[r].job] > 0,
           UNCHANGED <<nextJob, handler, charges, reports, lapsed>>
    PROVE  IInv'
<1> DEFINE j == runner[r].job
<1> USE DEF IInv
<1>0. /\ j \in Jobs /\ Working(r, j)
      /\ jobs' = [jobs EXCEPT ![j] = row]
      /\ jobs \in [Jobs -> Row] /\ nextJob \in Nat
  BY DEF TypeOK, Working
<1>1. /\ jobs'[j] = row
      /\ \A k \in Jobs : k # j => jobs'[k] = jobs[k]
  BY <1>0
<1>2. \A s \in Runners, k \in Jobs : Working(s, k)' => Working(s, k) /\ s # r
  BY DEF Working, Busy
<1>3. jobs[j].status \notin {"absent", "queued"}
  BY <1>0 DEF FreshRows
<1> HIDE DEF j
<1>4. FreshRows'
  BY <1>0, <1>1, <1>2, <1>3 DEF FreshRows
<1>5. LapsesRecorded'
  BY <1>0, <1>1 DEF LapsesRecorded
<1>6. SessionsJustified'
  <2>1. ASSUME NEW h \in Handlers, handler[h].pc = "canceling"
        PROVE  jobs'[handler[h].job].status # "absent"
    BY <2>1, <1>0, <1>1 DEF SessionsJustified, TypeOK
  <2>2. ASSUME NEW s \in Runners, runner'[s].pc \in {"acknowledging", "honoring"}
        PROVE  jobs'[runner'[s].job].cancel
    <3>1. s # r /\ runner'[s] = runner[s] /\ Busy(s)
      BY <2>2 DEF Busy
    <3>2. jobs[runner[s].job].cancel /\ runner[s].job \in Jobs
      BY <2>2, <3>1 DEF SessionsJustified, TypeOK
    <3> QED
      BY <1>1, <3>1, <3>2 DEF j
  <2> QED
    BY <2>1, <2>2 DEF SessionsJustified
<1>7. WorkInOrder'
  <2>1. "idle" \notin AfterCharge
    BY DEF AfterCharge
  <2> QED
    BY <2>1 DEF WorkInOrder
<1>8. FirstRun'
  <2> SUFFICES ASSUME NEW k \in Jobs, NEW s \in Runners, ~lapsed[k], Working(s, k)'
               PROVE  /\ runner'[s].pc \in NotYetCharged => charges[k] = 0
                      /\ runner'[s].pc \in NotYetReported => reports[k] = 0
                      /\ jobs'[k].status # "succeeded"
    BY DEF FirstRun
  <2>1. Working(s, k) /\ s # r /\ runner'[s] = runner[s]
    BY <1>2
  <2>2. k # j
    BY <2>1, <1>0 DEF OnceUnlessLapsed
  <2> QED
    BY <1>1, <2>1, <2>2 DEF FirstRun
<1>9. OnceUnlessLapsed'
  BY <1>2 DEF OnceUnlessLapsed
<1>10. ResultPaidAndReported' /\ CanceledOnlyOnRequest'
  BY <1>0, <1>1 DEF ResultPaidAndReported, CanceledOnlyOnRequest, j
<1> QED
  BY <1>4, <1>5, <1>6, <1>7, <1>8, <1>9, <1>10

\* A runner that stops or comes back, and a step that writes no row, no run and
\* no counter, keep the invariant.
LEMMA IdleKeepsInvariant ==
    ASSUME IInv, TypeOK',
           \/ UNCHANGED runner
           \/ \E r \in Runners : /\ runner'[r].pc \in {"idle", "down"}
                               /\ \A s \in Runners : s # r => runner'[s] = runner[s],
           \A h \in Handlers : handler'[h].pc = "canceling" =>
               jobs[handler'[h].job].status # "absent",
           UNCHANGED <<jobs, nextJob, charges, reports, lapsed>>
    PROVE  IInv'
<1> USE DEF IInv
<1>0. /\ "idle" \notin AfterCharge /\ "down" \notin AfterCharge
  BY DEF AfterCharge
<1>1. \A s \in Runners : runner'[s].pc \in {"idle", "down"} \/ runner'[s] = runner[s]
  OBVIOUS
<1>2. \A s \in Runners, k \in Jobs : Working(s, k)' => Working(s, k) /\ runner'[s] = runner[s]
  BY <1>1 DEF Working, Busy
<1>3. FreshRows' /\ OnceUnlessLapsed'
  BY <1>2 DEF FreshRows, OnceUnlessLapsed
<1>4. LapsesRecorded' /\ ResultPaidAndReported' /\ CanceledOnlyOnRequest'
  BY DEF LapsesRecorded, ResultPaidAndReported, CanceledOnlyOnRequest
<1>5. SessionsJustified'
  BY <1>1 DEF SessionsJustified
<1>6. WorkInOrder'
  BY <1>0, <1>1 DEF WorkInOrder
<1>7. FirstRun'
  BY <1>2 DEF FirstRun
<1> QED
  BY <1>3, <1>4, <1>5, <1>6, <1>7

-----------------------------------------------------------------------------
(***************************************************************************)
(* The invariant.                                                          *)
(***************************************************************************)

LEMMA InitInvariant == Init => IInv
<1> SUFFICES ASSUME Init PROVE IInv
  OBVIOUS
<1>1. TypeOK
  BY DEF Init, TypeOK, Row, AbsentRow, Statuses, Runner, IdleRunner, RunOf, RunnerPcs,
         Seen, Unseen, HandlerState, IdleHandler, Busy
<1>2. /\ \A j \in Jobs : jobs[j] = AbsentRow /\ charges[j] = 0 /\ reports[j] = 0
      /\ \A r \in Runners : runner[r].pc = "idle"
      /\ \A h \in Handlers : handler[h].pc = "idle"
  BY DEF Init, IdleRunner, RunOf, IdleHandler
<1>3. FreshRows /\ LapsesRecorded /\ ResultPaidAndReported /\ CanceledOnlyOnRequest
  BY <1>2 DEF FreshRows, LapsesRecorded, ResultPaidAndReported, CanceledOnlyOnRequest,
              AbsentRow, Working, Busy
<1>4. SessionsJustified /\ WorkInOrder
  BY <1>2 DEF SessionsJustified, WorkInOrder, AfterCharge
<1>5. FirstRun /\ OnceUnlessLapsed
  BY <1>2 DEF FirstRun, OnceUnlessLapsed, Working, Busy
<1> QED
  BY <1>1, <1>3, <1>4, <1>5 DEF IInv

LEMMA InvariantStep == IInv /\ [Next]_vars => IInv'
<1> SUFFICES ASSUME IInv, [Next]_vars PROVE IInv'
  OBVIOUS
<1>t. TypeOK /\ TypeOK'
  BY TypeStep DEF IInv
<1>r. ASSUME NEW r \in Runners, Busy(r)
      PROVE  /\ runner[r].job \in Jobs
             /\ jobs[runner[r].job] \in Row
             /\ runner[r].seen \in Seen
             /\ Working(r, runner[r].job)
             /\ jobs[runner[r].job].status \notin {"absent", "queued"}
  BY <1>t, <1>r DEF TypeOK, Runner, Working, IInv, FreshRows
<1>h. ASSUME NEW h \in Handlers, handler[h].pc = "canceling"
      PROVE  handler[h].job \in Jobs /\ jobs[handler[h].job].status # "absent"
  BY <1>t, <1>h DEF TypeOK, IInv, SessionsJustified
<1>1. ASSUME NEW h \in Handlers, NEW s \in Scopes, BeginEnqueue(h, s) PROVE IInv'
  BY <1>t, <1>1, IdleKeepsInvariant
     DEF BeginEnqueue, Enqueuing, TypeOK, IInv, SessionsJustified
<1>2. ASSUME NEW h \in Handlers, RejectEnqueue(h) PROVE IInv'
  BY <1>t, <1>2, IdleKeepsInvariant
     DEF RejectEnqueue, IdleHandler, TypeOK, IInv, SessionsJustified
<1>3. ASSUME NEW h \in Handlers, NEW j \in Jobs, BeginCancel(h, j) PROVE IInv'
  BY <1>t, <1>3, IdleKeepsInvariant
     DEF BeginCancel, Canceling, Active, TypeOK, IInv, SessionsJustified
<1>4. ASSUME NEW r \in Runners, Crash(r) PROVE IInv'
  <2>1. runner'[r].pc = "down" /\ \A s \in Runners : s # r => runner'[s] = runner[s]
    BY <1>t, <1>4 DEF Crash, RunOf, TypeOK
  <2> QED
    BY <1>t, <1>4, <2>1, IdleKeepsInvariant DEF Crash, IInv, SessionsJustified
<1>5. ASSUME NEW r \in Runners, Restart(r) PROVE IInv'
  BY <1>t, <1>5, ReturnEffect, IdleKeepsInvariant DEF Restart, IInv, SessionsJustified
<1> USE DEF NotYetCharged, NotYetReported, BeforeCharge, AfterCharge
<1>6. ASSUME NEW r \in Runners, LoadJob(r) PROVE IInv'
  <2>1. Busy(r)
    BY <1>6 DEF LoadJob, Busy
  <2> QED
    BY <1>t, <1>6, <2>1, GotoEffect, ReturnEffect, MoveKeepsInvariant DEF SameRows, LoadJob, Busy
<1>7. ASSUME NEW r \in Runners, RejectInputs(r) PROVE IInv'
  <2>1. Busy(r)
    BY <1>7 DEF RejectInputs, Busy
  <2> QED
    BY <1>t, <1>7, <2>1, GotoEffect, MoveKeepsInvariant DEF SameRows, RejectInputs
<1>8. ASSUME NEW r \in Runners, StartBatch(r) \/ Evaluate(r) PROVE IInv'
  <2>1. Busy(r)
    BY <1>8 DEF StartBatch, Evaluate, StopIfCanceled, Busy
  <2>2. CancelCheck(jobs[runner[r].job]) => jobs[runner[r].job].cancel
    BY <1>r, <2>1 DEF CancelCheck, IInv, CanceledOnlyOnRequest
  <2> QED
    BY <1>t, <1>8, <2>1, <2>2, GotoEffect, MoveKeepsInvariant
       DEF SameRows, StartBatch, Evaluate, StopIfCanceled
<1>9. ASSUME NEW r \in Runners, Settle(r) PROVE IInv'
  <2>1. Busy(r)
    BY <1>9 DEF Settle, Busy
  <2>2. CancelCheck(jobs[runner[r].job]) => jobs[runner[r].job].cancel
    BY <1>r, <2>1 DEF CancelCheck, IInv, CanceledOnlyOnRequest
  <2> QED
    BY <1>t, <1>9, <2>1, <2>2, GotoEffect, ReturnEffect, MoveKeepsInvariant DEF SameRows, Settle, Busy
<1>10. ASSUME NEW r \in Runners, Raise(r) PROVE IInv'
  <2>1. Busy(r)
    BY <1>10 DEF Raise, Running, Busy
  <2> QED
    BY <1>t, <1>10, <2>1, GotoEffect, MoveKeepsInvariant DEF SameRows, Raise
<1>11. ASSUME NEW r \in Runners, Finalize(r) PROVE IInv'
  <2>1. Busy(r) /\ runner[r].pc = "finalizing"
    BY <1>11 DEF Finalize, Busy
  <2>2. CASE MayFinalize(jobs[runner[r].job])
    <3>1. charges[runner[r].job] > 0 /\ reports[runner[r].job] > 0
      BY <2>1 DEF IInv, WorkInOrder
    <3> DEFINE old == jobs[runner[r].job]
               row == SucceededRow(old)
    <3>2. Return(r) /\ jobs' = [jobs EXCEPT ![runner[r].job] = row]
      BY <1>11, <2>2 DEF Finalize
    <3>3. old \in Row
      BY <1>r, <2>1
    <3> HIDE DEF old
    <3>4. /\ row \in Row /\ row.status = "succeeded" /\ row.lease = "none"
          /\ row.cancel = old.cancel
      BY <3>3, RowTypes, RowEffects
    <3> USE DEF old
    <3> HIDE DEF row
    <3> QED
      BY <1>t, <1>r, <1>11, <2>1, <3>1, <3>2, <3>4, ReturnEffect, EndKeepsInvariant
         DEF Finalize
  <2>3. CASE ~MayFinalize(jobs[runner[r].job])
    BY <1>t, <1>11, <2>1, <2>3, GotoEffect, MoveKeepsInvariant DEF SameRows, Finalize
  <2> QED
    BY <2>2, <2>3
<1>12. ASSUME NEW r \in Runners, HonorCancel(r) PROVE IInv'
  <2>1. Busy(r) /\ jobs[runner[r].job].cancel
    BY <1>12 DEF HonorCancel, Busy, IInv, SessionsJustified
  <2> DEFINE old == jobs[runner[r].job]
             row == HonoredRow(old, runner[r].seen)
  <2>0. old \in Row /\ runner[r].seen \in Seen
    BY <1>r, <2>1
  <2> HIDE DEF old
  <2>2. /\ row \in Row /\ row.status \in {old.status, "canceled"}
        /\ row.cancel = old.cancel /\ ~row.result /\ row.lease = "none"
    BY <2>0, RowTypes, SessionRowEffects
  <2> USE DEF old
  <2>3. jobs' = [jobs EXCEPT ![runner[r].job] = row]
    BY <1>12 DEF HonorCancel
  <2> HIDE DEF row
  <2> QED
    BY <1>t, <1>r, <1>12, <2>1, <2>2, <2>3, ReturnEffect, EndKeepsInvariant DEF HonorCancel
<1>13. ASSUME NEW r \in Runners, AckCancel(r) PROVE IInv'
  <2>1. Busy(r) /\ jobs[runner[r].job].cancel
    BY <1>13 DEF AckCancel, Busy, IInv, SessionsJustified
  <2> DEFINE row == AcknowledgedRow(jobs[runner[r].job])
  <2>2. /\ row \in Row /\ row.status = "canceled" /\ row.lease = "none"
        /\ row.cancel = jobs[runner[r].job].cancel
        /\ row.result = jobs[runner[r].job].result
    BY <1>r, <2>1, RowTypes, RowEffects
  <2>3. jobs' = [jobs EXCEPT ![runner[r].job] = row]
    BY <1>13 DEF AckCancel
  <2>4. row.result => charges[runner[r].job] > 0 /\ reports[runner[r].job] > 0
    BY <1>r, <2>1, <2>2 DEF IInv, ResultPaidAndReported
  <2> HIDE DEF row
  <2> QED
    BY <1>t, <1>r, <1>13, <2>1, <2>2, <2>3, <2>4, ReturnEffect, EndKeepsInvariant
       DEF AckCancel
<1>14. ASSUME NEW r \in Runners, RecordFailure(r) PROVE IInv'
  <2>1. Busy(r)
    BY <1>14 DEF RecordFailure, Busy
  <2> DEFINE old == jobs[runner[r].job]
             row == FailedRow(old, runner[r].seen)
  <2>2. CASE MayFail(runner[r].seen)
    <3>0. old \in Row /\ runner[r].seen \in Seen
      BY <1>r, <2>1
    <3> HIDE DEF old
    <3>1. /\ row \in Row /\ row.status \in {old.status, "failed"} /\ row.lease = "none"
          /\ row.cancel = old.cancel /\ row.result = old.result
      BY <3>0, RowTypes, SessionRowEffects
    <3> USE DEF old
    <3>2. jobs' = [jobs EXCEPT ![runner[r].job] = row]
      BY <1>14, <2>2 DEF RecordFailure
    <3>3. /\ row.result => charges[runner[r].job] > 0 /\ reports[runner[r].job] > 0
          /\ row.status = "canceled" => row.cancel
      BY <1>r, <2>1, <3>1 DEF IInv, ResultPaidAndReported, CanceledOnlyOnRequest
    <3> HIDE DEF row
    <3> QED
      BY <1>t, <1>r, <1>14, <2>1, <3>1, <3>2, <3>3, ReturnEffect, EndKeepsInvariant
         DEF RecordFailure
  <2>3. CASE ~MayFail(runner[r].seen)
    BY <1>t, <1>14, <2>1, <2>3, ReturnEffect, IdleKeepsInvariant
       DEF RecordFailure, IInv, SessionsJustified
  <2> QED
    BY <2>2, <2>3
<1>15. ASSUME NEW h \in Handlers, InsertJob(h) PROVE IInv'
  <2> DEFINE row == QueuedRow(handler[h].scope)
  <2>0. /\ row.status = "queued" /\ row.cancel = FALSE /\ row.result = FALSE
        /\ row.lease = "none"
    BY DEF QueuedRow, AbsentRow
  <2>1. /\ nextJob \in Jobs /\ nextJob' = nextJob + 1
        /\ jobs'[nextJob] = row
        /\ \A k \in Jobs : k # nextJob => jobs'[k] = jobs[k]
        /\ handler'[h].pc = "idle" /\ \A g \in Handlers : g # h => handler'[g] = handler[g]
        /\ UNCHANGED <<runner, charges, reports, lapsed>>
    BY <1>t, <1>15 DEF InsertJob, TypeOK, IdleHandler
  <2>2. jobs[nextJob].status = "absent" /\ ~jobs[nextJob].cancel
    BY <1>t, <2>1 DEF IInv, FreshRows, TypeOK
  <2>3. \A s \in Runners : ~Working(s, nextJob)
    BY <2>1, <2>2 DEF IInv, FreshRows
  <2>4. charges[nextJob] = 0 /\ reports[nextJob] = 0
    BY <2>1, <2>2 DEF IInv, FreshRows
  <2> HIDE DEF row
  <2>w. \A s \in Runners, k \in Jobs : Working(s, k)' <=> Working(s, k)
    BY <2>1 DEF Working, Busy
  <2>5. FreshRows'
    BY <1>t, <2>0, <2>1, <2>2, <2>3, <2>4, <2>w DEF FreshRows, IInv, TypeOK
  <2>6. LapsesRecorded' /\ ResultPaidAndReported' /\ CanceledOnlyOnRequest'
    BY <2>0, <2>1 DEF LapsesRecorded, ResultPaidAndReported, CanceledOnlyOnRequest, IInv
  <2>7. SessionsJustified'
    <3>1. ASSUME NEW g \in Handlers, handler'[g].pc = "canceling"
          PROVE  jobs'[handler'[g].job].status # "absent"
      <4>1. handler'[g] = handler[g]
        BY <2>1, <3>1
      <4>2. handler[g].job \in Jobs /\ jobs[handler[g].job].status # "absent"
        BY <1>h, <3>1, <4>1
      <4> QED
        BY <2>1, <2>2, <4>1, <4>2
    <3>2. ASSUME NEW s \in Runners, runner'[s].pc \in {"acknowledging", "honoring"}
          PROVE  jobs'[runner'[s].job].cancel
      BY <1>r, <2>1, <2>2, <3>2 DEF IInv, SessionsJustified, Busy
    <3> QED
      BY <3>1, <3>2 DEF SessionsJustified
  <2>8. WorkInOrder'
    BY <2>1 DEF IInv, WorkInOrder
  <2>9. FirstRun' /\ OnceUnlessLapsed'
    BY <2>0, <2>1, <2>w DEF IInv, FirstRun, OnceUnlessLapsed
  <2> QED
    BY <1>t, <2>5, <2>6, <2>7, <2>8, <2>9 DEF IInv
<1>16. ASSUME NEW h \in Handlers, CommitCancel(h) PROVE IInv'
  <2> DEFINE j   == handler[h].job
             old == jobs[j]
             row == CanceledRow(old, handler[h].seen)
  <2>0. /\ j \in Jobs /\ old \in Row /\ handler[h].seen \in Seen
        /\ old.status # "absent"
    BY <1>t, <1>16 DEF CommitCancel, TypeOK, HandlerState, IInv, SessionsJustified
  <2> HIDE DEF old
  <2>1. /\ row.status \in {old.status, "canceled"} /\ row.cancel
        /\ row.result = old.result /\ row.lease = old.lease
    BY <2>0, SessionRowEffects
  <2> USE DEF old
  <2>2. /\ jobs'[j] = row /\ \A k \in Jobs : k # j => jobs'[k] = jobs[k]
        /\ handler'[h].pc = "idle" /\ \A g \in Handlers : g # h => handler'[g] = handler[g]
        /\ UNCHANGED <<nextJob, runner, charges, reports, lapsed>>
    BY <1>t, <1>16, <2>0 DEF CommitCancel, TypeOK, IdleHandler
  <2> HIDE DEF row, j
  <2>w. \A s \in Runners, k \in Jobs : Working(s, k)' <=> Working(s, k)
    BY <2>2 DEF Working, Busy
  <2>3. FreshRows'
    <3>1. j < nextJob
      BY <1>t, <2>0 DEF FreshRows, IInv, TypeOK
    <3> QED
      BY <2>0, <2>1, <2>2, <2>w, <3>1 DEF FreshRows, IInv
  <2>4. LapsesRecorded' /\ ResultPaidAndReported' /\ CanceledOnlyOnRequest'
    BY <2>0, <2>1, <2>2 DEF LapsesRecorded, ResultPaidAndReported, CanceledOnlyOnRequest, IInv
  <2>5. SessionsJustified'
    <3>1. ASSUME NEW g \in Handlers, handler'[g].pc = "canceling"
          PROVE  jobs'[handler'[g].job].status # "absent"
      <4>1. handler'[g] = handler[g]
        BY <2>2, <3>1
      <4>2. handler[g].job \in Jobs /\ jobs[handler[g].job].status # "absent"
        BY <1>h, <3>1, <4>1
      <4> QED
        BY <2>0, <2>1, <2>2, <4>1, <4>2
    <3>2. ASSUME NEW s \in Runners, runner'[s].pc \in {"acknowledging", "honoring"}
          PROVE  jobs'[runner'[s].job].cancel
      BY <1>r, <2>1, <2>2, <3>2 DEF IInv, SessionsJustified, Busy
    <3> QED
      BY <3>1, <3>2 DEF SessionsJustified
  <2>6. WorkInOrder'
    BY <2>2 DEF IInv, WorkInOrder
  <2>7. FirstRun' /\ OnceUnlessLapsed'
    BY <2>0, <2>1, <2>2, <2>w DEF IInv, FirstRun, OnceUnlessLapsed
  <2> QED
    BY <1>t, <2>3, <2>4, <2>5, <2>6, <2>7 DEF IInv
<1>17. ASSUME NEW r \in Runners, Claim(r) PROVE IInv'
  <2>1. PICK j \in Jobs : /\ Claimable(jobs[j])
                          /\ jobs' = [jobs EXCEPT ![j] = ClaimedRow(@)]
                          /\ runner' = [runner EXCEPT ![r] = RunOf("claimed", j)]
    BY <1>17 DEF Claim
  <2>2. UNCHANGED <<nextJob, handler, charges, reports, lapsed>>
    BY <1>17 DEF Claim
  <2>3. /\ jobs'[j].status = "running" /\ jobs'[j].lease = "valid"
        /\ jobs'[j].cancel = jobs[j].cancel /\ jobs'[j].result = jobs[j].result
        /\ \A k \in Jobs : k # j => jobs'[k] = jobs[k]
    BY <1>t, <2>1 DEF TypeOK, Row, ClaimedRow
  <2>4. /\ runner'[r].pc = "claimed" /\ runner'[r].job = j
        /\ \A s \in Runners : s # r => runner'[s] = runner[s]
    BY <1>t, <2>1 DEF TypeOK, RunOf
  <2>5. jobs[j].status \in {"queued", "running"} /\ jobs[j].status # "absent"
    BY <2>1 DEF Claimable
  \* The job claimed is fresh, or one of its leases has lapsed.
  <2>6. ~lapsed[j] => /\ charges[j] = 0 /\ reports[j] = 0
                      /\ \A s \in Runners : ~Working(s, j)
    BY <2>1 DEF Claimable, IInv, LapsesRecorded, FreshRows
  <2>w. \A s \in Runners, k \in Jobs :
            Working(s, k)' => Working(s, k) \/ (s = r /\ k = j)
    BY <2>4 DEF Working, Busy
  <2>7. FreshRows'
    BY <1>t, <2>2, <2>3, <2>5, <2>w DEF FreshRows, IInv, TypeOK
  <2>8. LapsesRecorded' /\ ResultPaidAndReported' /\ CanceledOnlyOnRequest'
    BY <2>2, <2>3 DEF LapsesRecorded, ResultPaidAndReported, CanceledOnlyOnRequest, IInv
  <2>9. SessionsJustified'
    <3>1. ASSUME NEW g \in Handlers, handler'[g].pc = "canceling"
          PROVE  jobs'[handler'[g].job].status # "absent"
      <4>1. handler'[g] = handler[g]
        BY <2>2, <3>1
      <4>2. handler[g].job \in Jobs /\ jobs[handler[g].job].status # "absent"
        BY <1>h, <3>1, <4>1
      <4> QED
        BY <2>2, <2>3, <2>5, <4>1, <4>2
    <3>2. ASSUME NEW s \in Runners, runner'[s].pc \in {"acknowledging", "honoring"}
          PROVE  jobs'[runner'[s].job].cancel
      <4>1. s # r /\ runner'[s] = runner[s] /\ Busy(s)
        BY <2>4, <3>2 DEF Busy
      <4>2. runner[s].job \in Jobs /\ jobs[runner[s].job].cancel
        BY <1>r, <3>2, <4>1 DEF IInv, SessionsJustified
      <4> QED
        BY <2>3, <4>1, <4>2
    <3> QED
      BY <3>1, <3>2 DEF SessionsJustified
  <2>10. WorkInOrder'
    BY <2>2, <2>4 DEF IInv, WorkInOrder
  <2>11. OnceUnlessLapsed'
    BY <2>2, <2>6, <2>w DEF IInv, OnceUnlessLapsed
  <2>12. FirstRun'
    <3> SUFFICES ASSUME NEW k \in Jobs, NEW s \in Runners, ~lapsed[k], Working(s, k)'
                 PROVE  /\ runner'[s].pc \in NotYetCharged => charges[k] = 0
                        /\ runner'[s].pc \in NotYetReported => reports[k] = 0
                        /\ jobs'[k].status # "succeeded"
      BY <2>2 DEF FirstRun
    <3>1. CASE k = j
      BY <2>3, <2>6, <3>1
    <3>2. CASE k # j
      <4>1. s # r /\ Working(s, k) /\ runner'[s] = runner[s]
        BY <2>4, <2>w, <3>2 DEF Working
      <4> QED
        BY <2>3, <3>2, <4>1 DEF IInv, FirstRun
    <3> QED
      BY <3>1, <3>2
  <2> QED
    BY <1>t, <2>7, <2>8, <2>9, <2>10, <2>11, <2>12 DEF IInv
<1>18. ASSUME NEW j \in Jobs, Lapse(j) PROVE IInv'
  <2>1. UNCHANGED <<nextJob, runner, handler, charges, reports>>
    BY <1>18 DEF Lapse
  <2>2. /\ \A k \in Jobs : /\ jobs'[k].status = jobs[k].status
                           /\ jobs'[k].cancel = jobs[k].cancel
                           /\ jobs'[k].result = jobs[k].result
        /\ \A k \in Jobs : k # j => jobs'[k] = jobs[k]
    BY <1>t, <1>18, LeasedType DEF Lapse, TypeOK
  <2>3. lapsed'[j] /\ \A k \in Jobs : lapsed[k] => lapsed'[k]
    BY <1>t, <1>18 DEF Lapse, TypeOK
  <2>4. \A k \in Jobs : k # j => lapsed'[k] = lapsed[k]
    BY <1>t, <1>18 DEF Lapse, TypeOK
  <2>w. \A s \in Runners, k \in Jobs : Working(s, k)' <=> Working(s, k)
    BY <2>1 DEF Working, Busy
  <2>5. FreshRows'
    BY <2>1, <2>2, <2>w DEF FreshRows, IInv
  <2>6. LapsesRecorded'
    BY <2>2, <2>3, <2>4 DEF LapsesRecorded, IInv
  <2>7. ResultPaidAndReported' /\ CanceledOnlyOnRequest'
    BY <2>1, <2>2 DEF ResultPaidAndReported, CanceledOnlyOnRequest, IInv
  <2>8. SessionsJustified'
    <3>1. ASSUME NEW g \in Handlers, handler'[g].pc = "canceling"
          PROVE  jobs'[handler'[g].job].status # "absent"
      <4>1. handler'[g] = handler[g]
        BY <2>1, <3>1
      <4>2. handler[g].job \in Jobs /\ jobs[handler[g].job].status # "absent"
        BY <1>h, <3>1, <4>1
      <4> QED
        BY <2>2, <4>1, <4>2
    <3>2. ASSUME NEW s \in Runners, runner'[s].pc \in {"acknowledging", "honoring"}
          PROVE  jobs'[runner'[s].job].cancel
      <4>1. Busy(s) /\ runner'[s] = runner[s]
        BY <2>1, <3>2 DEF Busy
      <4>2. runner[s].job \in Jobs /\ jobs[runner[s].job].cancel
        BY <1>r, <3>2, <4>1 DEF IInv, SessionsJustified
      <4> QED
        BY <2>2, <4>1, <4>2
    <3> QED
      BY <3>1, <3>2 DEF SessionsJustified
  <2>9. WorkInOrder'
    BY <2>1 DEF IInv, WorkInOrder
  <2>10. FirstRun' /\ OnceUnlessLapsed'
    BY <2>1, <2>2, <2>3, <2>w DEF IInv, FirstRun, OnceUnlessLapsed
  <2> QED
    BY <1>t, <2>5, <2>6, <2>7, <2>8, <2>9, <2>10 DEF IInv
<1>19. ASSUME NEW r \in Runners, RefreshLease(r) PROVE IInv'
  <2>1. Busy(r)
    BY <1>19 DEF RefreshLease, Busy
  <2>2. SameRows
    BY <1>t, <1>r, <1>19, <2>1, LeasedType DEF RefreshLease, SameRows, TypeOK
  <2> QED
    BY <1>t, <1>19, <2>1, <2>2, GotoEffect, MoveKeepsInvariant DEF RefreshLease
<1>20. ASSUME NEW r \in Runners, FinishBatch(r) PROVE IInv'
  <2>1. Busy(r) /\ runner[r].pc = "batch"
    BY <1>20 DEF FinishBatch, Busy
  <2>2. SameRows
    BY <1>t, <1>r, <1>20, <2>1, LeasedType DEF FinishBatch, SameRows, TypeOK
  <2>3. /\ runner'[r].pc \in {"evaluating", "replaying"}
        /\ runner'[r].job = runner[r].job
        /\ \A s \in Runners : s # r => runner'[s] = runner[s]
    <3>1. runner[r] \in Runner /\ NextBatch(runner[r].batch) \in 0..Batches
      BY <1>t, <2>1 DEF TypeOK, Runner, NextBatch, ToReplay
    <3>2. runner' = [runner EXCEPT ![r] = Replayed(@, NextBatch(runner[r].batch))]
      BY <1>20 DEF FinishBatch
    <3> QED
      BY <1>t, <3>1, <3>2, ReplayedType DEF TypeOK
  <2>4. UNCHANGED <<nextJob, handler, charges, reports, lapsed>>
    BY <1>20 DEF FinishBatch
  <2> QED
    BY <1>t, <2>1, <2>2, <2>3, <2>4, MoveKeepsInvariant
<1>21. ASSUME NEW r \in Runners, ChargeAttempts(r) PROVE IInv'
  <2> DEFINE j == runner[r].job
  <2>1. /\ Busy(r) /\ runner[r].pc = "resolving" /\ j \in Jobs /\ Working(r, j)
        /\ UNCHANGED <<jobs, nextJob, handler, reports, lapsed>>
    BY <1>r, <1>21 DEF ChargeAttempts, Busy
  <2>2. charges' = [charges EXCEPT ![j] = Count(@)]
    BY <1>21 DEF ChargeAttempts
  <2>3. /\ charges'[j] > 0
        /\ charges[j] = 0 => charges'[j] = 1
        /\ \A k \in Jobs : k # j => charges'[k] = charges[k]
        /\ \A k \in Jobs : charges[k] > 0 => charges'[k] > 0
    BY <1>t, <2>1, <2>2, CountType DEF TypeOK
  <2>4. /\ runner'[r].pc = "replaying" /\ runner'[r].job = j
        /\ \A s \in Runners : s # r => runner'[s] = runner[s]
    BY <1>t, <1>21, GotoEffect DEF ChargeAttempts
  <2>w. \A s \in Runners, k \in Jobs : Working(s, k)' <=> Working(s, k)
    BY <2>1, <2>4 DEF Working, Busy
  <2>5. jobs[j].status \notin {"absent", "queued"}
    BY <1>r, <2>1
  <2>6. ~lapsed[j] => charges[j] = 0 /\ \A s \in Runners : Working(s, j) => s = r
    BY <2>1 DEF IInv, FirstRun, OnceUnlessLapsed
  <2> HIDE DEF j
  <2>7. FreshRows'
    BY <2>1, <2>3, <2>5, <2>w DEF FreshRows, IInv
  <2>8. LapsesRecorded' /\ ResultPaidAndReported' /\ CanceledOnlyOnRequest'
    BY <2>1, <2>3 DEF LapsesRecorded, ResultPaidAndReported, CanceledOnlyOnRequest, IInv
  <2>9. SessionsJustified'
    BY <2>1, <2>4 DEF SessionsJustified, IInv
  <2>10. WorkInOrder'
    <3> SUFFICES ASSUME NEW s \in Runners
                 PROVE  /\ runner'[s].pc \in AfterCharge => charges'[runner'[s].job] > 0
                        /\ runner'[s].pc = "finalizing" => reports[runner'[s].job] > 0
      BY <2>1 DEF WorkInOrder
    <3>1. CASE s = r
      BY <2>3, <2>4, <3>1
    <3>2. CASE s # r
      <4>1. runner'[s] = runner[s] /\ (runner[s].pc \in AfterCharge => Busy(s))
        BY <2>4, <3>2 DEF Busy
      <4> QED
        BY <1>r, <2>3, <4>1 DEF IInv, WorkInOrder
    <3> QED
      BY <3>1, <3>2
  <2>11. FirstRun'
    <3> SUFFICES ASSUME NEW k \in Jobs, NEW s \in Runners, ~lapsed[k], Working(s, k)'
                 PROVE  /\ runner'[s].pc \in NotYetCharged => charges'[k] = 0
                        /\ runner'[s].pc \in NotYetReported => reports[k] = 0
                        /\ jobs[k].status # "succeeded"
      BY <2>1 DEF FirstRun
    <3>1. Working(s, k)
      BY <2>w
    <3>2. CASE k = j
      <4>1. s = r
        BY <2>6, <3>1, <3>2
      <4> QED
        BY <2>1, <2>4, <3>1, <3>2, <4>1 DEF IInv, FirstRun
    <3>3. CASE k # j
      <4>1. s # r
        BY <2>1, <3>1, <3>3 DEF Working, j
      <4> QED
        BY <2>3, <2>4, <3>1, <3>3, <4>1 DEF IInv, FirstRun
    <3> QED
      BY <3>2, <3>3
  <2>12. OnceUnlessLapsed'
    BY <2>1, <2>3, <2>6, <2>w DEF IInv, OnceUnlessLapsed
  <2> QED
    BY <1>t, <2>7, <2>8, <2>9, <2>10, <2>11, <2>12 DEF IInv
<1>22. ASSUME NEW r \in Runners, SaveReport(r) PROVE IInv'
  <2> DEFINE j == runner[r].job
  <2>1. /\ Busy(r) /\ runner[r].pc = "reporting" /\ j \in Jobs /\ Working(r, j)
        /\ UNCHANGED <<jobs, nextJob, handler, charges, lapsed>>
    BY <1>r, <1>22 DEF SaveReport, Busy
  <2>2. reports' = [reports EXCEPT ![j] = Count(@)]
    BY <1>22 DEF SaveReport
  <2>3. /\ reports'[j] > 0
        /\ reports[j] = 0 => reports'[j] = 1
        /\ \A k \in Jobs : k # j => reports'[k] = reports[k]
        /\ \A k \in Jobs : reports[k] > 0 => reports'[k] > 0
    BY <1>t, <2>1, <2>2, CountType DEF TypeOK
  <2>4. /\ runner'[r].pc = "finalizing" /\ runner'[r].job = j
        /\ \A s \in Runners : s # r => runner'[s] = runner[s]
    BY <1>t, <1>22, GotoEffect DEF SaveReport
  <2>w. \A s \in Runners, k \in Jobs : Working(s, k)' <=> Working(s, k)
    BY <2>1, <2>4 DEF Working, Busy
  <2>5. jobs[j].status \notin {"absent", "queued"} /\ charges[j] > 0
    BY <1>r, <2>1 DEF IInv, WorkInOrder
  <2>6. ~lapsed[j] => reports[j] = 0 /\ \A s \in Runners : Working(s, j) => s = r
    BY <2>1 DEF IInv, FirstRun, OnceUnlessLapsed
  <2> HIDE DEF j
  <2>7. FreshRows'
    BY <2>1, <2>3, <2>5, <2>w DEF FreshRows, IInv
  <2>8. LapsesRecorded' /\ ResultPaidAndReported' /\ CanceledOnlyOnRequest'
    BY <2>1, <2>3 DEF LapsesRecorded, ResultPaidAndReported, CanceledOnlyOnRequest, IInv
  <2>9. SessionsJustified'
    BY <2>1, <2>4 DEF SessionsJustified, IInv
  <2>10. WorkInOrder'
    <3> SUFFICES ASSUME NEW s \in Runners
                 PROVE  /\ runner'[s].pc \in AfterCharge => charges[runner'[s].job] > 0
                        /\ runner'[s].pc = "finalizing" => reports'[runner'[s].job] > 0
      BY <2>1 DEF WorkInOrder
    <3>1. CASE s = r
      BY <2>3, <2>4, <2>5, <3>1
    <3>2. CASE s # r
      <4>1. runner'[s] = runner[s] /\ (runner[s].pc \in AfterCharge => Busy(s))
        BY <2>4, <3>2 DEF Busy
      <4> QED
        BY <1>r, <2>3, <4>1 DEF IInv, WorkInOrder
    <3> QED
      BY <3>1, <3>2
  <2>11. FirstRun'
    <3> SUFFICES ASSUME NEW k \in Jobs, NEW s \in Runners, ~lapsed[k], Working(s, k)'
                 PROVE  /\ runner'[s].pc \in NotYetCharged => charges[k] = 0
                        /\ runner'[s].pc \in NotYetReported => reports'[k] = 0
                        /\ jobs[k].status # "succeeded"
      BY <2>1 DEF FirstRun
    <3>1. Working(s, k)
      BY <2>w
    <3>2. CASE k = j
      <4>1. s = r
        BY <2>6, <3>1, <3>2
      <4> QED
        BY <2>1, <2>4, <3>1, <3>2, <4>1 DEF IInv, FirstRun
    <3>3. CASE k # j
      <4>1. s # r
        BY <2>1, <3>1, <3>3 DEF Working, j
      <4> QED
        BY <2>3, <2>4, <3>1, <3>3, <4>1 DEF IInv, FirstRun
    <3> QED
      BY <3>2, <3>3
  <2>12. OnceUnlessLapsed'
    BY <2>1, <2>3, <2>6, <2>w DEF IInv, OnceUnlessLapsed
  <2> QED
    BY <1>t, <2>7, <2>8, <2>9, <2>10, <2>11, <2>12 DEF IInv
<1>23. CASE UNCHANGED vars
  BY <1>t, <1>23, IdleKeepsInvariant DEF vars, IInv, SessionsJustified
<1> QED
  BY <1>1, <1>2, <1>3, <1>4, <1>5, <1>6, <1>7, <1>8, <1>9, <1>10, <1>11, <1>12, <1>13,
     <1>14, <1>15, <1>16, <1>17, <1>18, <1>19, <1>20, <1>21, <1>22, <1>23
     DEF Next, RunnerStep, HandlerStep

\* The inductive invariant holds in every reachable state.
THEOREM Invariant == Spec => []IInv
  BY InitInvariant, InvariantStep, PTL DEF Spec

\* While no lease of a job has run out, the job is charged at most once, its
\* report is saved at most once and no two runners work on it, whatever
\* requests, exceptions and crashes come in between.
THEOREM WorkDoneOnce == Spec => []OnceUnlessLapsed
<1>1. IInv => OnceUnlessLapsed
  BY DEF IInv
<1> QED
  BY <1>1, Invariant, PTL

\* Whichever of several runs of a job writes the result, the usage was charged
\* and the report saved before.
THEOREM ResultsArePaid == Spec => []ResultPaidAndReported
<1>1. IInv => ResultPaidAndReported
  BY DEF IInv
<1> QED
  BY <1>1, Invariant, PTL

\* No runner and no request cancels a job nobody asked to cancel.
THEOREM CancelsAreRequested == Spec => []CanceledOnlyOnRequest
<1>1. IInv => CanceledOnlyOnRequest
  BY DEF IInv
<1> QED
  BY <1>1, Invariant, PTL

-----------------------------------------------------------------------------
(***************************************************************************)
(* What a step may do to a job, and the properties that follow.            *)
(***************************************************************************)

\* No job changes its status, and no request to cancel one is made.
NoJobMoves == \A k \in Jobs : /\ jobs'[k].status = jobs[k].status
                              /\ jobs'[k].cancel = jobs[k].cancel

\* A job is submitted, started or ended; a failure is written by its runner.
Advances(j) ==
    /\ jobs'[j].cancel = jobs[j].cancel
    /\ \/ jobs[j].status = "absent" /\ jobs'[j].status = "queued"
       \/ jobs[j].status = "queued" /\ jobs'[j].status = "running"
       \/ jobs[j].status = "running" /\ ~jobs[j].cancel /\ jobs'[j].status = "succeeded"
       \/ /\ jobs[j].status \notin {"absent", "queued"} /\ jobs'[j].status = "failed"
          /\ \E r \in Runners : Working(r, j)

\* A job has been asked to be canceled, and may be canceled in this step.
Cancels(j) ==
    /\ jobs[j].status # "absent"
    /\ jobs'[j].cancel
    /\ jobs'[j].status \in {jobs[j].status, "canceled"}

OnlyJobMoves(j) ==
    /\ \A k \in Jobs : k # j => jobs'[k] = jobs[k]
    /\ Advances(j) \/ Cancels(j)

LEMMA JobStep ==
    ASSUME IInv, [Next]_vars
    PROVE  NoJobMoves \/ \E j \in Jobs : OnlyJobMoves(j)
<1>t. /\ jobs \in [Jobs -> Row]
      /\ \A r \in Runners : Busy(r) => runner[r].job \in Jobs /\ runner[r].seen \in Seen
      /\ \A h \in Handlers :
            /\ handler[h].seen \in Seen
            /\ handler[h].pc = "canceling" =>
                  handler[h].job \in Jobs /\ jobs[handler[h].job].status # "absent"
      /\ \A r \in Runners, j \in Jobs : Working(r, j) =>
            jobs[j].status \notin {"absent", "queued"}
  BY DEF IInv, TypeOK, Runner, HandlerState, FreshRows, SessionsJustified
<1>1. ASSUME UNCHANGED jobs PROVE NoJobMoves
  BY <1>1 DEF NoJobMoves
<1>2. ASSUME NEW h \in Handlers, InsertJob(h) PROVE OnlyJobMoves(nextJob) /\ nextJob \in Jobs
  <2>1. nextJob \in Jobs /\ jobs[nextJob].status = "absent" /\ ~jobs[nextJob].cancel
    BY <1>2 DEF InsertJob, IInv, FreshRows, TypeOK
  <2>2. jobs[nextJob].cancel = FALSE
    BY <1>t, <2>1 DEF Row
  <2> QED
    BY <1>t, <1>2, <2>1, <2>2
       DEF InsertJob, QueuedRow, AbsentRow, OnlyJobMoves, Advances
<1>3. ASSUME NEW h \in Handlers, CommitCancel(h) PROVE \E j \in Jobs : OnlyJobMoves(j)
  <2> DEFINE j == handler[h].job
  <2>1. j \in Jobs /\ jobs[j] \in Row /\ handler[h].seen \in Seen /\ jobs[j].status # "absent"
    BY <1>t, <1>3 DEF CommitCancel
  <2>2. jobs'[j].cancel /\ jobs'[j].status \in {jobs[j].status, "canceled"}
    BY <1>t, <1>3, <2>1 DEF CommitCancel, CanceledRow, Row
  <2>3. \A k \in Jobs : k # j => jobs'[k] = jobs[k]
    BY <1>t, <1>3 DEF CommitCancel
  <2> QED
    BY <2>1, <2>2, <2>3 DEF OnlyJobMoves, Cancels
<1>4. ASSUME NEW r \in Runners, Claim(r) PROVE NoJobMoves \/ \E j \in Jobs : OnlyJobMoves(j)
  <2>1. PICK j \in Jobs : Claimable(jobs[j]) /\ jobs' = [jobs EXCEPT ![j] = ClaimedRow(@)]
    BY <1>4 DEF Claim
  <2>2. /\ jobs'[j].status = "running" /\ jobs'[j].cancel = jobs[j].cancel
        /\ \A k \in Jobs : k # j => jobs'[k] = jobs[k]
    BY <1>t, <2>1 DEF ClaimedRow, Row
  <2> QED
    BY <2>1, <2>2 DEF Claimable, NoJobMoves, OnlyJobMoves, Advances
<1>5. ASSUME NEW j \in Jobs, Lapse(j) PROVE NoJobMoves
  BY <1>t, <1>5, LeasedType DEF Lapse, NoJobMoves
<1>6. ASSUME NEW r \in Runners, RefreshLease(r) \/ FinishBatch(r) PROVE NoJobMoves
  BY <1>t, <1>6, LeasedType DEF RefreshLease, FinishBatch, NoJobMoves
<1>7. ASSUME NEW r \in Runners, Finalize(r) PROVE NoJobMoves \/ \E j \in Jobs : OnlyJobMoves(j)
  <2>1. runner[r].job \in Jobs
    BY <1>t, <1>7 DEF Finalize, Busy
  <2>2. CASE MayFinalize(jobs[runner[r].job])
    <3>1. jobs' = [jobs EXCEPT ![runner[r].job] = SucceededRow(@)]
      BY <1>7, <2>2 DEF Finalize
    <3> QED
      BY <1>t, <2>1, <2>2, <3>1
         DEF SucceededRow, MayFinalize, Row, OnlyJobMoves, Advances
  <2>3. CASE ~MayFinalize(jobs[runner[r].job])
    BY <1>1, <1>7, <2>3 DEF Finalize
  <2> QED
    BY <2>2, <2>3
<1>8. ASSUME NEW r \in Runners, HonorCancel(r) \/ AckCancel(r)
      PROVE  \E j \in Jobs : OnlyJobMoves(j)
  <2> DEFINE j == runner[r].job
  <2>1. /\ j \in Jobs /\ runner[r].seen \in Seen /\ Working(r, j)
        /\ jobs[j].cancel /\ jobs[j] \in Row
    BY <1>t, <1>8 DEF HonorCancel, AckCancel, Busy, Working, IInv, SessionsJustified
  <2>2. jobs[j].status # "absent"
    BY <1>t, <2>1
  <2>3. jobs'[j].cancel /\ jobs'[j].status \in {jobs[j].status, "canceled"}
    <3>1. CASE HonorCancel(r)
      <4>1. jobs'[j] = HonoredRow(jobs[j], runner[r].seen)
        BY <1>t, <2>1, <3>1 DEF HonorCancel
      <4> QED
        BY <2>1, <4>1, SessionRowEffects
    <3>2. CASE AckCancel(r)
      BY <1>t, <2>1, <3>2 DEF AckCancel, AcknowledgedRow, Row
    <3> QED
      BY <1>8, <3>1, <3>2
  <2>4. \A k \in Jobs : k # j => jobs'[k] = jobs[k]
    BY <1>t, <1>8 DEF HonorCancel, AckCancel
  <2> QED
    BY <2>1, <2>2, <2>3, <2>4 DEF OnlyJobMoves, Cancels
<1>9. ASSUME NEW r \in Runners, RecordFailure(r)
      PROVE  NoJobMoves \/ \E j \in Jobs : OnlyJobMoves(j)
  <2> DEFINE j == runner[r].job
  <2>1. j \in Jobs /\ runner[r].seen \in Seen /\ Working(r, j) /\ jobs[j] \in Row
    BY <1>t, <1>9 DEF RecordFailure, Busy, Working
  <2>2. jobs[j].status \notin {"absent", "queued"}
    BY <1>t, <2>1
  <2>3. CASE MayFail(runner[r].seen)
    <3>1. jobs' = [jobs EXCEPT ![j] = FailedRow(@, runner[r].seen)]
      BY <1>9, <2>3 DEF RecordFailure
    <3>2. /\ jobs'[j].cancel = jobs[j].cancel
          /\ jobs'[j].status \in {jobs[j].status, "failed"}
          /\ \A k \in Jobs : k # j => jobs'[k] = jobs[k]
      BY <1>t, <2>1, <3>1 DEF FailedRow, PutStatus, Row
    <3> QED
      BY <2>1, <2>2, <3>2 DEF NoJobMoves, OnlyJobMoves, Advances
  <2>4. CASE ~MayFail(runner[r].seen)
    BY <1>1, <1>9, <2>4 DEF RecordFailure
  <2> QED
    BY <2>3, <2>4
<1>10. ASSUME NEW r \in Runners,
              \/ LoadJob(r) \/ RejectInputs(r) \/ ChargeAttempts(r) \/ StartBatch(r)
              \/ Evaluate(r) \/ SaveReport(r) \/ Settle(r) \/ Raise(r) \/ Crash(r)
              \/ Restart(r)
       PROVE  NoJobMoves
  BY <1>1, <1>10 DEF LoadJob, RejectInputs, ChargeAttempts, StartBatch, Evaluate,
     StopIfCanceled, SaveReport, Settle, Raise, Crash, Restart
<1>11. ASSUME NEW h \in Handlers, RejectEnqueue(h) PROVE NoJobMoves
  BY <1>1, <1>11 DEF RejectEnqueue
<1>12. ASSUME NEW h \in Handlers, NEW s \in Scopes, BeginEnqueue(h, s) PROVE NoJobMoves
  BY <1>1, <1>12 DEF BeginEnqueue
<1>13. ASSUME NEW h \in Handlers, NEW j \in Jobs, BeginCancel(h, j) PROVE NoJobMoves
  BY <1>1, <1>13 DEF BeginCancel
<1>14. CASE UNCHANGED vars
  BY <1>1, <1>14 DEF vars
<1> QED
  BY <1>2, <1>3, <1>4, <1>5, <1>6, <1>7, <1>8, <1>9, <1>10, <1>11, <1>12, <1>13, <1>14
     DEF Next, RunnerStep, HandlerStep

\* Only the run that owns a job writes "failed", and the run of a job that
\* succeeded is over unless a lease let a second one in.
THEOREM FailureAfterLapse == Spec => NoFailureOverSuccess
<1> DEFINE Excused(j) ==
             (jobs[j].status = "succeeded" /\ jobs'[j].status = "failed") => lapsed[j]
<1>1. IInv /\ [Next]_vars => \A j \in Jobs : Excused(j)
  <2> SUFFICES ASSUME IInv, [Next]_vars, NEW j \in Jobs,
                      jobs[j].status = "succeeded", jobs'[j].status = "failed"
               PROVE  lapsed[j]
    OBVIOUS
  <2>1. PICK r \in Runners : Working(r, j)
    BY JobStep DEF NoJobMoves, OnlyJobMoves, Advances, Cancels
  <2> QED
    BY <2>1 DEF IInv, FirstRun
<1> HIDE DEF Excused
<1> QED
  BY <1>1, Invariant, PTL DEF Spec, NoFailureOverSuccess, Excused

\* The table implements the contract of its jobs: every transaction of a
\* runner or of a request is a step of the contract, or leaves it unchanged.
THEOREM Refinement == Spec => ImplementsContract
<1> DEFINE phase == [j \in Jobs |-> jobs[j].status]
           asked == [j \in Jobs |-> jobs[j].cancel]
<1>1. Init => Contract!Init
  BY DEF Init, Contract!Init, AbsentRow
<1>2. IInv /\ [Next]_vars => [Contract!Next]_(Contract!vars)
  <2> SUFFICES ASSUME IInv, [Next]_vars PROVE [Contract!Next]_(Contract!vars)
    OBVIOUS
  <2>t. jobs \in [Jobs -> Row] /\ jobs' \in [Jobs -> Row]
    BY TypeStep DEF IInv, TypeOK
  <2>1. CASE NoJobMoves
    <3>1. phase' = phase /\ asked' = asked
      BY <2>1 DEF NoJobMoves
    <3> QED
      BY <3>1 DEF Contract!vars
  <2>2. ASSUME NEW j \in Jobs, OnlyJobMoves(j) PROVE Contract!Next
    <3>1. /\ phase' = [phase EXCEPT ![j] = jobs'[j].status]
          /\ asked' = [asked EXCEPT ![j] = jobs'[j].cancel]
          /\ phase[j] = jobs[j].status /\ asked[j] = jobs[j].cancel
      BY <2>2 DEF OnlyJobMoves
    <3> HIDE DEF phase, asked
    <3>2. CASE Advances(j)
      <4>1. UNCHANGED asked
        BY <3>1, <3>2 DEF Advances, asked
      <4> QED
        BY <3>1, <3>2, <4>1
           DEF Advances, Contract!Next, Contract!Submit, Contract!Start,
               Contract!Succeed, Contract!Fail, phase, asked
    <3>3. CASE Cancels(j)
      <4>1. asked' = [asked EXCEPT ![j] = TRUE]
        BY <2>t, <3>1, <3>3 DEF Cancels, Row
      <4>2. phase[j] # "absent"
        BY <3>1, <3>3 DEF Cancels
      <4>3. CASE jobs'[j].status = jobs[j].status
        <5>1. UNCHANGED phase
          BY <3>1, <4>3 DEF phase
        <5> QED
          BY <4>1, <4>2, <5>1 DEF Contract!Next, Contract!Ask, phase, asked
      <4>4. CASE jobs'[j].status = "canceled"
        BY <3>1, <4>1, <4>2, <4>4 DEF Contract!Next, Contract!Cancel, phase, asked
      <4> QED
        BY <3>3, <4>3, <4>4 DEF Cancels
    <3> QED
      BY <2>2, <3>2, <3>3 DEF OnlyJobMoves
  <2> QED
    BY <2>1, <2>2, JobStep
<1> QED
  BY <1>1, <1>2, Invariant, PTL DEF Spec, ImplementsContract, Contract!Spec
-----------------------------------------------------------------------------
(***************************************************************************)
(* One active job per scope, as long as no two requests look for it at the *)
(* same time: what the lookup of validate-async is worth.                  *)
(***************************************************************************)

\* No two requests for the same scope are between their lookup and their insert.
EnqueuesAlone ==
    \A g, h \in Handlers :
        (/\ handler[g].pc = "enqueuing" /\ handler[h].pc = "enqueuing"
         /\ handler[g].scope = handler[h].scope) => g = h

\* What the lookup saw still holds when the row is inserted.
LookupHolds ==
    \A h \in Handlers : handler[h].pc = "enqueuing" => ~HasActiveJob(handler[h].scope)

\* Row j stays in its scope, and is active only if it was.
NotRevived(j) ==
    /\ jobs'[j].scope = jobs[j].scope
    /\ jobs'[j].status \in Active => jobs[j].status \in Active

LEMMA Unrevived ==
    ASSUME NEW row \in Row
    PROVE  /\ ClaimedRow(row).scope = row.scope
           /\ SucceededRow(row).scope = row.scope /\ SucceededRow(row).status \notin Active
           /\ AcknowledgedRow(row).scope = row.scope /\ AcknowledgedRow(row).status \notin Active
           /\ \A lease \in {"valid", "lapsed"} :
                  LeasedRow(row, lease).scope = row.scope /\ LeasedRow(row, lease).status = row.status
           /\ \A seen \in Seen : \A new \in {CanceledRow(row, seen), HonoredRow(row, seen), FailedRow(row, seen)} :
                  new.scope = row.scope /\ (new.status \in Active => row.status \in Active)
<1> USE DEF Row, Active
<1>1. ClaimedRow(row).scope = row.scope
  BY DEF ClaimedRow
<1>2. SucceededRow(row).scope = row.scope /\ SucceededRow(row).status \notin Active
  BY DEF SucceededRow
<1>3. AcknowledgedRow(row).scope = row.scope /\ AcknowledgedRow(row).status \notin Active
  BY DEF AcknowledgedRow
<1>4. ASSUME NEW lease \in {"valid", "lapsed"}
      PROVE  LeasedRow(row, lease).scope = row.scope /\ LeasedRow(row, lease).status = row.status
  BY DEF LeasedRow
<1>5. ASSUME NEW seen \in Seen
      PROVE  \A new \in {CanceledRow(row, seen), HonoredRow(row, seen), FailedRow(row, seen)} :
                 new.scope = row.scope /\ (new.status \in Active => row.status \in Active)
  <2> DEFINE Kept(new) == new.scope = row.scope /\ (new.status \in Active => row.status \in Active)
  <2>1. Kept(CanceledRow(row, seen))
    BY DEF CanceledRow
  <2>2. Kept(HonoredRow(row, seen))
    BY DEF HonoredRow, PutStatus
  <2>3. Kept(FailedRow(row, seen))
    BY DEF FailedRow, PutStatus
  <2> QED
    BY <2>1, <2>2, <2>3
<1> QED
  BY <1>1, <1>2, <1>3, <1>4, <1>5

\* A step that writes row j, if any, and does not revive it.
LEMMA RowWritten ==
    ASSUME TypeOK, NEW j \in Jobs, NEW row,
           jobs' = [jobs EXCEPT ![j] = row], row.scope = jobs[j].scope,
           row.status \in Active => jobs[j].status \in Active
    PROVE  \A k \in Jobs : NotRevived(k)
  BY DEF TypeOK, NotRevived

\* Only an insert makes an active row of one that was not.
LEMMA OnlyInsertsActivate ==
    ASSUME IInv, [Next]_vars
    PROVE  \/ \E h \in Handlers : InsertJob(h)
           \/ \A k \in Jobs : NotRevived(k)
<1>t. /\ TypeOK /\ jobs \in [Jobs -> Row]
      /\ \A r \in Runners : Busy(r) => runner[r].job \in Jobs /\ runner[r].seen \in Seen
      /\ \A h \in Handlers : handler[h].seen \in Seen
      /\ \A h \in Handlers : handler[h].pc = "canceling" => handler[h].job \in Jobs
  BY DEF IInv, TypeOK, Runner, HandlerState
<1>1. ASSUME UNCHANGED jobs PROVE \A k \in Jobs : NotRevived(k)
  BY <1>1 DEF NotRevived
<1>2. ASSUME NEW h \in Handlers, CommitCancel(h) PROVE \A k \in Jobs : NotRevived(k)
  <2> DEFINE j == handler[h].job
             new == CanceledRow(jobs[j], handler[h].seen)
  <2>1. j \in Jobs /\ jobs[j] \in Row /\ handler[h].seen \in Seen
    BY <1>t, <1>2 DEF CommitCancel
  <2>2. new.scope = jobs[j].scope /\ (new.status \in Active => jobs[j].status \in Active)
    BY <2>1, Unrevived
  <2>3. jobs' = [jobs EXCEPT ![j] = new]
    BY <1>2 DEF CommitCancel
  <2> HIDE DEF j, new
  <2> QED
    BY <1>t, <2>1, <2>2, <2>3, RowWritten
<1>3. ASSUME NEW r \in Runners, Claim(r) PROVE \A k \in Jobs : NotRevived(k)
  <2>1. PICK j \in Jobs : Claimable(jobs[j]) /\ jobs' = [jobs EXCEPT ![j] = ClaimedRow(@)]
    BY <1>3 DEF Claim
  <2> DEFINE new == ClaimedRow(jobs[j])
  <2>2. jobs[j].status \in Active /\ jobs[j] \in Row /\ jobs' = [jobs EXCEPT ![j] = new]
    BY <1>t, <2>1 DEF Claimable, Active
  <2>3. new.scope = jobs[j].scope
    BY <2>2, Unrevived
  <2> HIDE DEF new
  <2> QED
    BY <1>t, <2>2, <2>3, RowWritten
<1>4. ASSUME NEW j \in Jobs, Lapse(j) PROVE \A k \in Jobs : NotRevived(k)
  <2> DEFINE new == LeasedRow(jobs[j], "lapsed")
  <2>1. new.scope = jobs[j].scope /\ new.status = jobs[j].status
    BY <1>t, Unrevived
  <2>2. jobs' = [jobs EXCEPT ![j] = new]
    BY <1>4 DEF Lapse
  <2> HIDE DEF new
  <2> QED
    BY <1>t, <2>1, <2>2, RowWritten
<1>5. ASSUME NEW r \in Runners, RefreshLease(r) \/ FinishBatch(r)
      PROVE  \A k \in Jobs : NotRevived(k)
  <2>1. runner[r].job \in Jobs
    BY <1>t, <1>5 DEF RefreshLease, FinishBatch, Busy
  <2>2. CASE jobs' = [jobs EXCEPT ![runner[r].job] = LeasedRow(@, "valid")]
    <3> DEFINE j == runner[r].job
               new == LeasedRow(jobs[j], "valid")
    <3>1. new.scope = jobs[j].scope /\ new.status = jobs[j].status
      BY <1>t, <2>1, Unrevived
    <3>2. jobs' = [jobs EXCEPT ![j] = new]
      BY <2>2
    <3> HIDE DEF j, new
    <3>3. j \in Jobs
      BY <2>1 DEF j
    <3> QED
      BY <1>t, <3>1, <3>2, <3>3, RowWritten
  <2> QED
    BY <1>1, <1>5, <2>2 DEF RefreshLease, FinishBatch
<1>6. ASSUME NEW r \in Runners, Finalize(r) \/ HonorCancel(r) \/ AckCancel(r) \/ RecordFailure(r)
      PROVE  \A k \in Jobs : NotRevived(k)
  <2> DEFINE j == runner[r].job
  <2>1. j \in Jobs /\ runner[r].seen \in Seen /\ jobs[j] \in Row
    BY <1>t, <1>6 DEF Finalize, HonorCancel, AckCancel, RecordFailure, Busy
  <2>2. \/ UNCHANGED jobs
        \/ \E row \in {SucceededRow(jobs[j]), AcknowledgedRow(jobs[j]),
                       HonoredRow(jobs[j], runner[r].seen), FailedRow(jobs[j], runner[r].seen)} :
               jobs' = [jobs EXCEPT ![j] = row]
    BY <1>6 DEF Finalize, HonorCancel, AckCancel, RecordFailure
  <2>3. \A row \in {SucceededRow(jobs[j]), AcknowledgedRow(jobs[j]),
                    HonoredRow(jobs[j], runner[r].seen), FailedRow(jobs[j], runner[r].seen)} :
            row.scope = jobs[j].scope /\ (row.status \in Active => jobs[j].status \in Active)
    BY <2>1, Unrevived
  <2> HIDE DEF j
  <2> QED
    BY <1>t, <1>1, <2>1, <2>2, <2>3, RowWritten
<1>7. ASSUME NEW r \in Runners,
             \/ LoadJob(r) \/ RejectInputs(r) \/ ChargeAttempts(r) \/ StartBatch(r)
             \/ Evaluate(r) \/ SaveReport(r) \/ Settle(r) \/ Raise(r) \/ Crash(r)
             \/ Restart(r)
      PROVE  \A k \in Jobs : NotRevived(k)
  BY <1>1, <1>7 DEF LoadJob, RejectInputs, ChargeAttempts, StartBatch, Evaluate,
     StopIfCanceled, SaveReport, Settle, Raise, Crash, Restart
<1>8. ASSUME NEW h \in Handlers, RejectEnqueue(h) PROVE \A k \in Jobs : NotRevived(k)
  BY <1>1, <1>8 DEF RejectEnqueue
<1>9. ASSUME NEW h \in Handlers, NEW s \in Scopes, BeginEnqueue(h, s)
      PROVE  \A k \in Jobs : NotRevived(k)
  BY <1>1, <1>9 DEF BeginEnqueue
<1>10. ASSUME NEW h \in Handlers, NEW j \in Jobs, BeginCancel(h, j)
       PROVE  \A k \in Jobs : NotRevived(k)
  BY <1>1, <1>10 DEF BeginCancel
<1>11. CASE UNCHANGED vars
  BY <1>1, <1>11 DEF vars
<1> QED
  BY <1>2, <1>3, <1>4, <1>5, <1>6, <1>7, <1>8, <1>9, <1>10, <1>11
     DEF Next, RunnerStep, HandlerStep

\* A request that is looking or has looked; the others leave it alone.
LEMMA RequestSteps ==
    ASSUME TypeOK, [Next]_vars, NEW h \in Handlers, handler'[h].pc = "enqueuing"
    PROVE  \/ handler'[h] = handler[h]
           \/ ~HasActiveJob(handler'[h].scope) /\ UNCHANGED jobs
<1>t. handler \in [Handlers -> HandlerState]
  BY DEF TypeOK
<1>1. ASSUME NEW g \in Handlers, HandlerStep(g) PROVE handler'[h] = handler[h]
  BY <1>t, <1>1 DEF HandlerStep, InsertJob, RejectEnqueue, CommitCancel, IdleHandler
<1>2. ASSUME NEW g \in Handlers, NEW s \in Scopes, BeginEnqueue(g, s)
      PROVE  handler'[h] = handler[h] \/ (~HasActiveJob(handler'[h].scope) /\ UNCHANGED jobs)
  BY <1>t, <1>2 DEF BeginEnqueue, Enqueuing
<1>3. ASSUME NEW g \in Handlers, NEW j \in Jobs, BeginCancel(g, j) PROVE handler'[h] = handler[h]
  BY <1>t, <1>3 DEF BeginCancel, Canceling
<1>4. ASSUME UNCHANGED handler PROVE handler'[h] = handler[h]
  BY <1>4
<1>5. ASSUME NEW r \in Runners, RunnerStep(r) \/ Raise(r) \/ Crash(r) \/ Restart(r)
      PROVE  UNCHANGED handler
  BY <1>5 DEF RunnerStep, Claim, LoadJob, RefreshLease, RejectInputs, ChargeAttempts, StartBatch,
     FinishBatch, Evaluate, StopIfCanceled, SaveReport, Finalize, Settle, HonorCancel, AckCancel,
     RecordFailure, Raise, Crash, Restart
<1>6. ASSUME NEW j \in Jobs, Lapse(j) PROVE UNCHANGED handler
  BY <1>6 DEF Lapse
<1> QED
  BY <1>1, <1>2, <1>3, <1>4, <1>5, <1>6 DEF Next, vars

LEMMA ScopeStep ==
    ASSUME IInv, EnqueuesAlone, LookupHolds, OneActivePerScope, [Next]_vars
    PROVE  LookupHolds' /\ OneActivePerScope'
<1>t. TypeOK /\ jobs \in [Jobs -> Row] /\ handler \in [Handlers -> HandlerState]
  BY DEF IInv, TypeOK
<1>1. CASE \A k \in Jobs : NotRevived(k)
  <2>1. OneActivePerScope'
    BY <1>1 DEF OneActivePerScope, NotRevived
  <2>2. ASSUME NEW h \in Handlers, handler'[h].pc = "enqueuing", NEW k \in Jobs,
               jobs'[k].scope = handler'[h].scope
        PROVE  jobs'[k].status \notin Active
    <3>1. /\ jobs'[k].scope = jobs[k].scope
          /\ jobs'[k].status \in Active => jobs[k].status \in Active
      BY <1>1 DEF NotRevived
    <3>2. CASE handler'[h] = handler[h]
      BY <2>2, <3>1, <3>2 DEF LookupHolds, HasActiveJob
    <3>3. CASE ~HasActiveJob(handler'[h].scope) /\ UNCHANGED jobs
      BY <2>2, <3>3 DEF HasActiveJob
    <3> QED
      BY <1>t, <2>2, <3>2, <3>3, RequestSteps
  <2> QED
    BY <2>1, <2>2 DEF LookupHolds, HasActiveJob
<1>2. ASSUME NEW h \in Handlers, InsertJob(h) PROVE LookupHolds' /\ OneActivePerScope'
  <2> DEFINE s == handler[h].scope
  <2>1. /\ nextJob \in Jobs /\ ~HasActiveJob(s) /\ handler[h].pc = "enqueuing"
        /\ jobs'[nextJob].scope = s
        /\ \A k \in Jobs \ {nextJob} : jobs'[k] = jobs[k]
    BY <1>t, <1>2 DEF InsertJob, LookupHolds, QueuedRow, AbsentRow
  <2>2. OneActivePerScope'
    BY <2>1 DEF OneActivePerScope, HasActiveJob
  <2>3. ASSUME NEW g \in Handlers, handler'[g].pc = "enqueuing"
        PROVE  handler'[g] = handler[g] /\ g # h
    BY <1>t, <1>2, <2>3 DEF InsertJob, IdleHandler
  <2>4. ASSUME NEW g \in Handlers, handler'[g].pc = "enqueuing"
        PROVE  handler[g].scope # s /\ ~HasActiveJob(handler[g].scope)
    BY <2>1, <2>3, <2>4 DEF EnqueuesAlone, LookupHolds
  <2>5. ASSUME NEW g \in Handlers, handler'[g].pc = "enqueuing", NEW k \in Jobs,
               jobs'[k].scope = handler'[g].scope
        PROVE  jobs'[k].status \notin Active
    BY <2>1, <2>3, <2>4, <2>5 DEF HasActiveJob
  <2> QED
    BY <2>2, <2>5 DEF LookupHolds, HasActiveJob
<1> QED
  BY <1>1, <1>2, OnlyInsertsActivate

\* However many runners, lapses, crashes and cancel requests there are, a user
\* has one active job in a project, unless two requests for one are in progress
\* at the same time.
THEOREM OneActiveWhenAlone == Spec /\ []EnqueuesAlone => []OneActivePerScope
<1> DEFINE Inv == IInv /\ EnqueuesAlone /\ LookupHolds /\ OneActivePerScope
<1>1. Init => LookupHolds /\ OneActivePerScope
  BY DEF Init, LookupHolds, OneActivePerScope, IdleHandler, AbsentRow, Active
<1>2. (IInv /\ EnqueuesAlone) /\ (LookupHolds /\ OneActivePerScope) /\ [Next]_vars
         => (LookupHolds /\ OneActivePerScope)'
  BY ScopeStep
<1> QED
  BY <1>1, <1>2, Invariant, PTL DEF Spec

\* A server that serves one request at a time keeps its promise.
THEOREM OneActiveServedSingly ==
    ASSUME \A g, h \in Handlers : g = h
    PROVE  Spec => []OneActivePerScope
<1>1. EnqueuesAlone
  BY DEF EnqueuesAlone
<1> QED
  BY <1>1, OneActiveWhenAlone, PTL
=============================================================================
