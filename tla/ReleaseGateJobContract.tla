----------------------- MODULE ReleaseGateJobContract -----------------------
(***************************************************************************)
(* What a Release Gate job promises to the people who submit and cancel    *)
(* it, with no runners, leases or database sessions.  A job is submitted,  *)
(* is started once, and ends; a request to cancel it is never forgotten.   *)
(* The detailed specification ReleaseGateJobs implements this one.         *)
(*                                                                         *)
(* The contract is the strongest one the code keeps: it lets a finished    *)
(* job be finished again (Fail after Succeed, Cancel after Fail), because  *)
(* a runner that lost its lease may still write its own verdict.  What it  *)
(* rules out is a job that goes back into the queue, a success recorded    *)
(* over a cancel request, and a cancellation nobody asked for.             *)
(***************************************************************************)
EXTENDS Naturals

CONSTANT Jobs

VARIABLES phase,   \* phase[j]: the job's published status
          asked    \* asked[j]: somebody asked for job j to be canceled

vars == <<phase, asked>>

Phases == {"absent", "queued", "running", "succeeded", "failed", "canceled"}

Init == /\ phase = [j \in Jobs |-> "absent"]
        /\ asked = [j \in Jobs |-> FALSE]

Submit(j) == /\ phase[j] = "absent"
             /\ phase' = [phase EXCEPT ![j] = "queued"]
             /\ UNCHANGED asked

Start(j) == /\ phase[j] = "queued"
            /\ phase' = [phase EXCEPT ![j] = "running"]
            /\ UNCHANGED asked

Succeed(j) == /\ phase[j] = "running"
              /\ ~asked[j]
              /\ phase' = [phase EXCEPT ![j] = "succeeded"]
              /\ UNCHANGED asked

Fail(j) == /\ phase[j] \notin {"absent", "queued"}
           /\ phase' = [phase EXCEPT ![j] = "failed"]
           /\ UNCHANGED asked

Ask(j) == /\ phase[j] # "absent"
          /\ asked' = [asked EXCEPT ![j] = TRUE]
          /\ UNCHANGED phase

\* The request and the cancellation may be one step: a job canceled while it
\* is still queued.
Cancel(j) == /\ phase[j] # "absent"
             /\ asked' = [asked EXCEPT ![j] = TRUE]
             /\ phase' = [phase EXCEPT ![j] = "canceled"]

Next == \E j \in Jobs : \/ Submit(j) \/ Start(j) \/ Succeed(j)
                        \/ Fail(j) \/ Ask(j) \/ Cancel(j)

Spec == Init /\ [][Next]_vars
=============================================================================
