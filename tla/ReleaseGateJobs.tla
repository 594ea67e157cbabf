-------------------------- MODULE ReleaseGateJobs --------------------------
(***************************************************************************)
(* The Release Gate job queue: the release_gate_jobs table, the request    *)
(* handlers that enqueue and cancel jobs, and the runners that claim jobs, *)
(* run them under a lease and write their outcome.                         *)
(*                                                                         *)
(* A step is one database transaction, or one read whose result is used by *)
(* a later step.  A session keeps the row it read (SQLAlchemy's identity   *)
(* map): what a step decides from such a row is decided from runner[r].seen *)
(* or handler[h].seen, never from the table.  The lease is a timestamp in  *)
(* the code; here it is valid until Lapse, which may happen at any moment, *)
(* so that a batch longer than the lease, a stopped event loop and a dead  *)
(* process are all covered.                                                *)
(***************************************************************************)
EXTENDS Naturals

CONSTANTS
    Runners,    \* job-runner loops: one in each process that starts one
    Handlers,   \* request handlers, each serving one HTTP request at a time
    Scopes,     \* the (project, user) pairs that submit jobs
    NoScope,    \* scope of a row that does not exist yet
    MaxJobs,    \* bound: rows the table can hold
    Batches,    \* repeat_runs, the replay batches of a run
    MaxFaults,  \* bound: exceptions and crashes in a behavior
    Broken      \* jobs whose inputs can no longer be resolved

ASSUME ConstantsOK ==
    /\ MaxJobs \in Nat
    /\ Batches \in Nat \ {0}
    /\ MaxFaults \in Nat
    /\ NoScope \notin Scopes
    /\ Broken \subseteq 1..MaxJobs

VARIABLES
    jobs,      \* the table: jobs[j] is row j; ids follow created_at
    nextJob,   \* id of the next row inserted
    runner,    \* runner[r]: where the loop of r is, and what its session holds
    handler,   \* handler[h]: the request h is serving
    charges,   \* charges[j]: times the usage of job j was charged, 2 is "more"
    reports,   \* reports[j]: reports saved by runs of job j, 2 is "more"
    lapsed,    \* lapsed[j]: some lease on job j ran out while it was running
    faults     \* faults that have happened

vars == <<jobs, nextJob, runner, handler, charges, reports, lapsed, faults>>

Jobs     == 1..MaxJobs
Active   == {"queued", "running"}
Terminal == {"succeeded", "failed", "canceled"}
Statuses == Active \cup Terminal \cup {"absent"}

Row == [scope : Scopes \cup {NoScope}, status : Statuses, cancel : BOOLEAN,
        lease : {"none", "valid", "lapsed"}, result : BOOLEAN]
AbsentRow == [scope |-> NoScope, status |-> "absent", cancel |-> FALSE,
              lease |-> "none", result |-> FALSE]

\* The columns of a loaded row that later decisions of its session read.
Seen     == [status : Statuses, cancel : BOOLEAN]
Unseen   == [status |-> "absent", cancel |-> FALSE]
Loaded(j) == [status |-> jobs[j].status, cancel |-> jobs[j].cancel]

\* Where a run is.  Before the charge its session still holds the row it
\* loaded; the commit of the charge expires it, so that it is read again.
BeforeCharge == {"loaded", "resolving"}
AfterCharge  == {"replaying", "batch", "evaluating", "reporting", "finalizing"}
Running      == BeforeCharge \cup AfterCharge
ToReplay     == {"claimed", "replaying", "batch"} \cup BeforeCharge
RunnerPcs    == {"idle", "down", "claimed", "settling", "honoring",
                 "acknowledging", "erring"} \cup Running

Runner == [pc : RunnerPcs, job : 0..MaxJobs, seen : Seen, batch : 0..Batches]
RunOf(pc, j) == [pc |-> pc, job |-> j, seen |-> Unseen, batch |-> 0]
IdleRunner == RunOf("idle", 0)

HandlerState == [pc : {"idle", "enqueuing", "canceling"},
                 scope : Scopes \cup {NoScope}, job : 0..MaxJobs, seen : Seen]
Enqueuing(s) == [pc |-> "enqueuing", scope |-> s, job |-> 0, seen |-> Unseen]
Canceling(j) == [pc |-> "canceling", scope |-> NoScope, job |-> j, seen |-> Loaded(j)]
IdleHandler == [pc |-> "idle", scope |-> NoScope, job |-> 0, seen |-> Unseen]

\* The ghost counters tell 0, 1 and "more than once" apart.
Count(n) == IF n = 2 THEN 2 ELSE n + 1

Busy(r) == runner[r].pc \notin {"idle", "down"}
Working(r, j) == Busy(r) /\ runner[r].job = j

Init ==
    /\ jobs = [j \in Jobs |-> AbsentRow]
    /\ nextJob = 1
    /\ runner = [r \in Runners |-> IdleRunner]
    /\ handler = [h \in Handlers |-> IdleHandler]
    /\ charges = [j \in Jobs |-> 0]
    /\ reports = [j \in Jobs |-> 0]
    /\ lapsed = [j \in Jobs |-> FALSE]
    /\ faults = 0
-----------------------------------------------------------------------------
(***************************************************************************)
(* Request handlers.                                                       *)
(***************************************************************************)

\* Slip: a running job is not counted.
HasQueuedJob(s) == \E j \in Jobs : jobs[j].scope = s /\ jobs[j].status = "queued"

HasActiveJob(s) == \E j \in Jobs : jobs[j].scope = s /\ jobs[j].status \in Active

\* validate-async finds no active job of its user in the project and goes on
\* to resolve the inputs and the quota.  (When it finds one it returns that
\* job and changes nothing.)
BeginEnqueue(h, s) ==
    /\ handler[h].pc = "idle"
    /\ ~HasActiveJob(s)
    /\ handler' = [handler EXCEPT ![h] = Enqueuing(s)]
    /\ UNCHANGED <<jobs, nextJob, runner, charges, reports, lapsed, faults>>

QueuedRow(s) == [AbsentRow EXCEPT !.scope = s, !.status = "queued"]

InsertJob(h) ==
    /\ handler[h].pc = "enqueuing"
    /\ nextJob \in Jobs
    /\ jobs' = [jobs EXCEPT ![nextJob] = QueuedRow(handler[h].scope)]
    /\ nextJob' = nextJob + 1
    /\ handler' = [handler EXCEPT ![h] = IdleHandler]
    /\ UNCHANGED <<runner, charges, reports, lapsed, faults>>

\* The inputs do not resolve, or the attempts left do not cover the run.
RejectEnqueue(h) ==
    /\ handler[h].pc = "enqueuing"
    /\ handler' = [handler EXCEPT ![h] = IdleHandler]
    /\ UNCHANGED <<jobs, nextJob, runner, charges, reports, lapsed, faults>>

\* The cancel endpoint reads the row; it leaves a finished job alone.
BeginCancel(h, j) ==
    /\ handler[h].pc = "idle"
    /\ jobs[j].status \in Active
    /\ handler' = [handler EXCEPT ![h] = Canceling(j)]
    /\ UNCHANGED <<jobs, nextJob, runner, charges, reports, lapsed, faults>>

\* Slip: a queued job is canceled without recording the request.
CanceledRowWithoutRequest(row, seen) ==
    [row EXCEPT !.cancel = IF seen.status = "queued" THEN @ ELSE TRUE,
                !.status = IF seen.status = "queued" THEN "canceled" ELSE @]

\* It writes from what it read: the request always, the status only of a job
\* it saw queued.
CanceledRow(row, seen) ==
    [row EXCEPT !.cancel = TRUE,
                !.status = IF seen.status = "queued" THEN "canceled" ELSE @]

CommitCancel(h) ==
    /\ handler[h].pc = "canceling"
    /\ LET j == handler[h].job IN
       jobs' = [jobs EXCEPT ![j] = CanceledRow(@, handler[h].seen)]
    /\ handler' = [handler EXCEPT ![h] = IdleHandler]
    /\ UNCHANGED <<nextJob, runner, charges, reports, lapsed, faults>>
-----------------------------------------------------------------------------
(***************************************************************************)
(* Claiming.                                                               *)
(***************************************************************************)

\* Slip: the lease is not looked at.
ClaimableWhileLeased(row) == row.status \in Active

\* Slip: the expired jobs are left out of the query.
ClaimableIfQueued(row) == row.status = "queued"

Claimable(row) == \/ row.status = "queued"
                  \/ row.status = "running" /\ row.lease = "lapsed"

\* SKIP LOCKED passes over a row another transaction holds: the row a cancel
\* request is writing.  Concurrent claims take different rows.
RowLocked(j) == \E h \in Handlers : handler[h].pc = "canceling" /\ handler[h].job = j

ClaimedRow(row) == [row EXCEPT !.status = "running", !.lease = "valid"]

Claim(r) ==
    /\ runner[r].pc = "idle"
    /\ \E j \in Jobs :
        /\ Claimable(jobs[j])
        /\ \A k \in Jobs : k < j /\ Claimable(jobs[k]) => RowLocked(k)
        /\ jobs' = [jobs EXCEPT ![j] = ClaimedRow(@)]
        /\ runner' = [runner EXCEPT ![r] = RunOf("claimed", j)]
    /\ UNCHANGED <<nextJob, handler, charges, reports, lapsed, faults>>

LeasedRow(row, lease) == [row EXCEPT !.lease = lease]

\* Time passes: the lease of a running job runs out.  Nothing tells its runner.
Lapse(j) ==
    /\ jobs[j].status = "running"
    /\ jobs[j].lease = "valid"
    /\ jobs' = [jobs EXCEPT ![j] = LeasedRow(@, "lapsed")]
    /\ lapsed' = [lapsed EXCEPT ![j] = TRUE]
    /\ UNCHANGED <<nextJob, runner, handler, charges, reports, faults>>
-----------------------------------------------------------------------------
(***************************************************************************)
(* A run, from the load of the claimed row to the charge.                  *)
(***************************************************************************)

\* The run of r goes to pc, its session holding the row as seen.
Moved(run, pc, seen) == [run EXCEPT !.pc = pc, !.seen = seen]
Goto(r, pc, seen) == runner' = [runner EXCEPT ![r] = Moved(@, pc, seen)]

Return(r) == runner' = [runner EXCEPT ![r] = IdleRunner]

LoadJob(r) ==
    /\ runner[r].pc = "claimed"
    /\ LET j == runner[r].job IN
       IF jobs[j].status = "canceled" THEN Return(r) ELSE Goto(r, "loaded", Loaded(j))
    /\ UNCHANGED <<jobs, nextJob, handler, charges, reports, lapsed, faults>>

\* The lease is extended without asking whose it is, and the row read again.
RefreshLease(r) ==
    /\ runner[r].pc = "loaded"
    /\ LET j == runner[r].job IN
       /\ jobs' = [jobs EXCEPT ![j] = LeasedRow(@, "valid")]
       /\ Goto(r, "resolving", Loaded(j))
    /\ UNCHANGED <<nextJob, handler, charges, reports, lapsed, faults>>

\* The snapshots, the model or the user of a broken job are gone: every run
\* of it raises here.
RejectInputs(r) ==
    /\ runner[r].pc = "resolving"
    /\ runner[r].job \in Broken
    /\ Goto(r, "erring", runner[r].seen)
    /\ UNCHANGED <<jobs, nextJob, handler, charges, reports, lapsed, faults>>

\* Usage is charged once in each run; nothing remembers that an earlier run of
\* the job has paid.  The commit expires the row the session holds.
ChargeAttempts(r) ==
    /\ runner[r].pc = "resolving"
    /\ runner[r].job \notin Broken
    /\ charges' = [charges EXCEPT ![runner[r].job] = Count(@)]
    /\ Goto(r, "replaying", Unseen)
    /\ UNCHANGED <<jobs, nextJob, handler, reports, lapsed, faults>>
-----------------------------------------------------------------------------
(***************************************************************************)
(* A run, from the first replay batch to the report.                       *)
(***************************************************************************)

\* cancel_check, in a session of its own.
CancelCheck(row) == row.cancel \/ row.status = "canceled"

StopIfCanceled(r, here, next) ==
    /\ runner[r].pc = here
    /\ Goto(r, IF CancelCheck(jobs[runner[r].job]) THEN "acknowledging" ELSE next, Unseen)
    /\ UNCHANGED <<jobs, nextJob, handler, charges, reports, lapsed, faults>>

StartBatch(r) == StopIfCanceled(r, "replaying", "batch")

\* The loop over the batches: how many are done after one more, and whether
\* that is all of them.
NextBatch(n) == n + 1
AllDone(n)   == n = Batches

\* A batch ends with progress_hook, which extends the lease of any job that is
\* not canceled.
Replayed(run, done) ==
    [run EXCEPT !.batch = done, !.pc = IF AllDone(done) THEN "evaluating" ELSE "replaying"]

FinishBatch(r) ==
    /\ runner[r].pc = "batch"
    /\ LET j    == runner[r].job
           done == NextBatch(runner[r].batch) IN
       /\ jobs' = IF jobs[j].status = "canceled" THEN jobs
                  ELSE [jobs EXCEPT ![j] = LeasedRow(@, "valid")]
       /\ runner' = [runner EXCEPT ![r] = Replayed(@, done)]
    /\ UNCHANGED <<nextJob, handler, charges, reports, lapsed, faults>>

\* Slip: the report is not saved.
EvaluateUnreported(r) == StopIfCanceled(r, "evaluating", "finalizing")

Evaluate(r) == StopIfCanceled(r, "evaluating", "reporting")

SaveReport(r) ==
    /\ runner[r].pc = "reporting"
    /\ reports' = [reports EXCEPT ![runner[r].job] = Count(@)]
    /\ Goto(r, "finalizing", Unseen)
    /\ UNCHANGED <<jobs, nextJob, handler, charges, lapsed, faults>>
-----------------------------------------------------------------------------
(***************************************************************************)
(* The end of a run.                                                       *)
(***************************************************************************)

\* Slip: the update does not ask whether a cancel is pending.
MayFinalizeIgnoringCancel(row) == row.status = "running"

\* The WHERE clause of the update that records success.
MayFinalize(row) == row.status = "running" /\ ~row.cancel

\* SQLAlchemy writes the columns that differ from the row it loaded: a status
\* that was loaded already equal is not written again.
PutStatus(row, seen, status) == IF seen.status = status THEN row.status ELSE status

SucceededRow(row) ==
    [row EXCEPT !.status = "succeeded", !.lease = "none", !.result = TRUE]

Finalize(r) ==
    /\ runner[r].pc = "finalizing"
    /\ LET j == runner[r].job IN
       IF MayFinalize(jobs[j])
       THEN jobs' = [jobs EXCEPT ![j] = SucceededRow(@)] /\ Return(r)
       ELSE Goto(r, "settling", Unseen) /\ UNCHANGED jobs
    /\ UNCHANGED <<nextJob, handler, charges, reports, lapsed, faults>>

\* The update matched no row: read it, to see whether a cancel was the cause.
Settle(r) ==
    /\ runner[r].pc = "settling"
    /\ LET j == runner[r].job IN
       IF CancelCheck(jobs[j]) THEN Goto(r, "honoring", Loaded(j)) ELSE Return(r)
    /\ UNCHANGED <<jobs, nextJob, handler, charges, reports, lapsed, faults>>

HonoredRow(row, seen) ==
    [row EXCEPT !.status = PutStatus(row, seen, "canceled"), !.lease = "none",
                !.result = FALSE]

HonorCancel(r) ==
    /\ runner[r].pc = "honoring"
    /\ jobs' = [jobs EXCEPT ![runner[r].job] = HonoredRow(@, runner[r].seen)]
    /\ Return(r)
    /\ UNCHANGED <<nextJob, handler, charges, reports, lapsed, faults>>

\* The handler of ReleaseGateCancelled: it writes every column it names, over
\* whatever the row has become, and leaves the result columns alone.
AcknowledgedRow(row) == [row EXCEPT !.status = "canceled", !.lease = "none"]

AckCancel(r) ==
    /\ runner[r].pc = "acknowledging"
    /\ jobs' = [jobs EXCEPT ![runner[r].job] = AcknowledgedRow(@)]
    /\ Return(r)
    /\ UNCHANGED <<nextJob, handler, charges, reports, lapsed, faults>>

\* Any other exception.  The handler reads the row through the session of the
\* run: the row loaded before the charge, or the row as it is now.
Raise(r) ==
    /\ faults < MaxFaults
    /\ runner[r].pc \in Running
    /\ Goto(r, "erring", IF runner[r].pc \in BeforeCharge THEN runner[r].seen
                         ELSE Loaded(runner[r].job))
    /\ faults' = faults + 1
    /\ UNCHANGED <<jobs, nextJob, handler, charges, reports, lapsed>>

\* The failure is recorded unless the row as read was canceled or asked to be;
\* then nothing is written, and the job is left running under its lease.
MayFail(seen) == seen.status # "canceled" /\ ~seen.cancel

FailedRow(row, seen) ==
    [row EXCEPT !.status = PutStatus(row, seen, "failed"), !.lease = "none"]

RecordFailure(r) ==
    /\ runner[r].pc = "erring"
    /\ jobs' = IF MayFail(runner[r].seen)
               THEN [jobs EXCEPT ![runner[r].job] = FailedRow(@, runner[r].seen)]
               ELSE jobs
    /\ Return(r)
    /\ UNCHANGED <<nextJob, handler, charges, reports, lapsed, faults>>

\* The process stops, or the transaction that would end the run is lost: the
\* row keeps what was committed.
Crash(r) ==
    /\ faults < MaxFaults
    /\ runner[r].pc # "down"
    /\ runner' = [runner EXCEPT ![r] = RunOf("down", 0)]
    /\ faults' = faults + 1
    /\ UNCHANGED <<jobs, nextJob, handler, charges, reports, lapsed>>

Restart(r) ==
    /\ runner[r].pc = "down"
    /\ Return(r)
    /\ UNCHANGED <<jobs, nextJob, handler, charges, reports, lapsed, faults>>
-----------------------------------------------------------------------------
RunnerStep(r) ==
    \/ Claim(r) \/ LoadJob(r) \/ RefreshLease(r)
    \/ RejectInputs(r) \/ ChargeAttempts(r)
    \/ StartBatch(r) \/ FinishBatch(r) \/ Evaluate(r) \/ SaveReport(r)
    \/ Finalize(r) \/ Settle(r) \/ HonorCancel(r) \/ AckCancel(r)
    \/ RecordFailure(r)

HandlerStep(h) == InsertJob(h) \/ RejectEnqueue(h) \/ CommitCancel(h)

Next ==
    \/ \E r \in Runners : RunnerStep(r) \/ Raise(r) \/ Crash(r) \/ Restart(r)
    \/ \E h \in Handlers : HandlerStep(h)
    \/ \E h \in Handlers, s \in Scopes : BeginEnqueue(h, s)
    \/ \E h \in Handlers, j \in Jobs : BeginCancel(h, j)
    \/ \E j \in Jobs : Lapse(j)

Spec == Init /\ [][Next]_vars

\* Runner loops and request handlers keep running, a stopped process is
\* restarted, and time passes.  Requests, exceptions and crashes need not come.
Fairness ==
    /\ \A r \in Runners : WF_vars(RunnerStep(r)) /\ WF_vars(Restart(r))
    /\ \A h \in Handlers : WF_vars(HandlerStep(h))
    /\ \A j \in Jobs : WF_vars(Lapse(j))

FairSpec == Spec /\ Fairness
-----------------------------------------------------------------------------
(***************************************************************************)
(* Properties.                                                             *)
(***************************************************************************)

TypeOK ==
    /\ jobs \in [Jobs -> Row]
    /\ nextJob \in 1..(MaxJobs + 1)
    /\ runner \in [Runners -> Runner]
    /\ \A r \in Runners :
           /\ Busy(r) => runner[r].job \in Jobs
           /\ runner[r].pc \in ToReplay => runner[r].batch < Batches
    /\ handler \in [Handlers -> HandlerState]
    /\ \A h \in Handlers : handler[h].pc = "canceling" => handler[h].job \in Jobs
    /\ charges \in [Jobs -> 0..2]
    /\ reports \in [Jobs -> 0..2]
    /\ lapsed \in [Jobs -> BOOLEAN]
    /\ faults \in 0..MaxFaults

\* The claim query, the lease and the order of a run together make the work of
\* a job happen at most once as long as no lease of the job has run out: one
\* charge, one report, and never two runs at a time.
OnceUnlessLapsed ==
    \A j \in Jobs : ~lapsed[j] =>
        /\ charges[j] < 2
        /\ reports[j] < 2
        /\ \A r, s \in Runners : Working(r, j) /\ Working(s, j) => r = s

\* A result the table holds was paid for and its report is in the database,
\* whichever run wrote it and whatever happened to the other runs.
ResultPaidAndReported ==
    \A j \in Jobs : jobs[j].result => charges[j] > 0 /\ reports[j] > 0

\* A job is canceled only if somebody asked for it, although the runner that
\* writes "canceled" does so later than, and apart from, the check it made.
CanceledOnlyOnRequest ==
    \A j \in Jobs : jobs[j].status = "canceled" => jobs[j].cancel

\* The queue implements the contract of a job: no job returns to the queue, no
\* success is recorded over a cancel request, every cancellation was asked for.
Contract == INSTANCE ReleaseGateJobContract WITH
                phase <- [j \in Jobs |-> jobs[j].status],
                asked <- [j \in Jobs |-> jobs[j].cancel]
ImplementsContract == Contract!Spec

\* validate-async gives a user one active job per project: a second request
\* is answered with the job that is active.
OneActivePerScope ==
    \A i, j \in Jobs :
        (jobs[i].scope = jobs[j].scope /\ jobs[i].status \in Active
                                       /\ jobs[j].status \in Active) => i = j

\* Every job that is queued or running ends, through lapses, crashes, late
\* runners and cancel requests: but for a job whose inputs are gone, which once
\* it is to be canceled fails without a word and is claimed again for ever.
Endless(j) == j \in Broken /\ jobs[j].cancel

EveryJobEnds ==
    \A j \in Jobs :
        jobs[j].status \in Active ~> jobs[j].status \in Terminal \/ Endless(j)

\* While no lease of a job runs out, an exception is never recorded over a
\* success: the run that could fail the job is the one that succeeded.
NoFailureOverSuccess ==
    [][\A j \in Jobs :
          (jobs[j].status = "succeeded" /\ jobs'[j].status = "failed") =>
              lapsed[j]]_vars
-----------------------------------------------------------------------------
(***************************************************************************)
(* The inductive invariant behind the safety properties: what the table    *)
(* and the runs know of each other.                                        *)
(***************************************************************************)

NotYetCharged  == {"claimed"} \cup BeforeCharge
NotYetReported == NotYetCharged \cup (AfterCharge \ {"finalizing"})

\* Rows are inserted in order, and a row nobody has claimed has no history.
FreshRows ==
    \A j \in Jobs :
        /\ j >= nextJob => jobs[j].status = "absent"
        /\ jobs[j].status = "absent" => ~jobs[j].cancel
        /\ jobs[j].status \in {"absent", "queued"} =>
               /\ charges[j] = 0 /\ reports[j] = 0
               /\ \A r \in Runners : ~Working(r, j)

\* A lapsed lease is on record.
LapsesRecorded == \A j \in Jobs : jobs[j].lease = "lapsed" => lapsed[j]

\* What a session is about to write is justified by the table.
SessionsJustified ==
    /\ \A h \in Handlers : handler[h].pc = "canceling" =>
           jobs[handler[h].job].status # "absent"
    /\ \A r \in Runners : runner[r].pc \in {"acknowledging", "honoring"} =>
           jobs[runner[r].job].cancel

\* A run has done what comes before the place it is at.
WorkInOrder ==
    \A r \in Runners :
        /\ runner[r].pc \in AfterCharge => charges[runner[r].job] > 0
        /\ runner[r].pc = "finalizing" => reports[runner[r].job] > 0

\* Until a lease lapses, the only run of a job is its first.
FirstRun ==
    \A j \in Jobs, r \in Runners : ~lapsed[j] /\ Working(r, j) =>
        /\ runner[r].pc \in NotYetCharged => charges[j] = 0
        /\ runner[r].pc \in NotYetReported => reports[j] = 0
        /\ jobs[j].status # "succeeded"

IInv ==
    /\ TypeOK
    /\ FreshRows
    /\ LapsesRecorded
    /\ SessionsJustified
    /\ WorkInOrder
    /\ FirstRun
    /\ OnceUnlessLapsed
    /\ ResultPaidAndReported
    /\ CanceledOnlyOnRequest
=============================================================================
