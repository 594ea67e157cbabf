------------------------------- MODULE GateRun -------------------------------
(***************************************************************************)
(* The Release Gate page of the console while it starts, follows, cancels  *)
(* and resumes a run: the hook useReleaseGateValidateRun in one browser    *)
(* tab, against the jobs of one user on the server.                        *)
(*                                                                         *)
(* The server's side of a job is ReleaseGateJobContract, which             *)
(* ReleaseGateJobs implements.  Here are the poll loop (one per active job *)
(* and page visibility, so that a loop replaced by another may still wait  *)
(* for an answer), the event stream, the lookup that finds a run again     *)
(* after a reload, the call that enqueues, and the calls that cancel.      *)
(*                                                                         *)
(* Every state change of the hook goes through Commit, which also runs the *)
(* effects whose dependencies changed, in the order the hook declares      *)
(* them.  An answer is read from the server when it arrives: flags of a    *)
(* job never go back, so an older answer changes less, and a verdict that  *)
(* was written over another meanwhile might as well be written later.      *)
(***************************************************************************)
EXTENDS Naturals, FiniteSets

CONSTANTS Agents, NoAgent,
          MaxJobs,     \* runs ever created, a bound of the model
          MaxOdd       \* failed calls, lost leases, reloads, changes of visibility
                       \* and acts of other tabs together, a bound of the model

ASSUME GateRunAssumption ==
  /\ Agents # {} /\ NoAgent \notin Agents
  /\ MaxJobs \in Nat /\ MaxOdd \in Nat

Jobs == 1..MaxJobs
NoJob == 0

VARIABLES
  phase, creq, started, agentOf,  \* the server: see ReleaseGateJobContract
  ui,        \* the hook's React state, and the agent and visibility given to it
  stored,    \* sessionStorage: the job under each agent's key
  loop,      \* the poll loop of ui.job
  late,      \* requests of poll loops that were replaced meanwhile
  lookup,    \* the lookup of an active run of the viewed agent
  enq,       \* the call to validate-async
  cancels,   \* calls to cancel on their way
  shown,     \* how often the end of a job was announced since the page loaded
  filed,     \* the completed results the page keeps for each agent
  faults, turns,
  reused,    \* ghost: jobs validate-async returned that it had not created
  unasked    \* ghost: jobs this tab canceled though nothing had told it to

server == <<phase, creq, started, agentOf>>
ghosts == <<reused, unasked>>
vars == <<server, ui, stored, loop, late, lookup, enq, cancels, shown, filed,
          faults, turns, ghosts>>

Server == INSTANCE ReleaseGateJobContract WITH asked <- creq

Active(j) == phase[j] \in {"queued", "running"}
Over(j) == phase[j] \in {"succeeded", "failed", "canceled"}

Fresh(a) == [view |-> a, visible |-> TRUE, validating |-> FALSE, job |-> NoJob,
             owner |-> NoAgent, cancelReq |-> FALSE, cancelLocked |-> FALSE,
             cooling |-> FALSE]

NoLookup == [agent |-> NoAgent, job |-> NoJob]
NoEnq == [agent |-> NoAgent, job |-> NoJob, asked |-> FALSE, misled |-> FALSE]
NoLoop == [pc |-> "off", hint |-> FALSE]
NewLoop == [pc |-> "idle", hint |-> FALSE]

RunLocked == ui.validating \/ ui.job # NoJob

(***************************************************************************)
(* Effects.                                                                *)
(***************************************************************************)

\* The id of the active job is kept under the key of the agent on view, which
\* is not always the agent that owns the run.
StoreEffect(new) ==
  IF <<new.view, new.job>> # <<ui.view, ui.job>>
  THEN [stored EXCEPT ![new.view] = new.job] ELSE stored

\* With nothing to follow, look for a run of the viewed agent: the stored id
\* first, then the server's active run of that agent.
LookupOf(new) == IF new.job = NoJob /\ ~new.validating
                 THEN [agent |-> new.view, job |-> StoreEffect(new)[new.view]]
                 ELSE NoLookup

\* Slip: a lookup is not given up when a run starts meanwhile.
LookupOutlives(new) == IF new.job = NoJob /\ ~new.validating THEN LookupOf(new) ELSE lookup

LookupEffect(new) ==
  IF <<new.view, new.job, new.validating>> # <<ui.view, ui.job, ui.validating>>
  THEN LookupOf(new) ELSE lookup

\* Slip: a page that is not visible has no loop.
LoopOnlyVisible(new, rest) == IF new.visible /\ new.job # NoJob
                              THEN IF rest = NoLoop THEN NewLoop ELSE rest
                              ELSE NoLoop

\* The loop is replaced when the job or the visibility changes.  rest is what
\* the step itself makes of the loop when it is not.
LoopEffect(new, rest) ==
  IF <<new.job, new.visible>> # <<ui.job, ui.visible>>
  THEN IF new.job = NoJob THEN NoLoop ELSE NewLoop
  ELSE rest

\* Requests that outlive their loop.  rest is the loop after the step.
LateEffect(new, rest) ==
  IF <<new.job, new.visible>> # <<ui.job, ui.visible>> /\ rest.pc \in {"poll", "final"}
  THEN late \cup {[job |-> ui.job, pc |-> rest.pc]} ELSE late

Commit(new, rest) ==
  /\ ui' = new
  /\ stored' = StoreEffect(new)
  /\ lookup' = LookupEffect(new)
  /\ loop' = LoopEffect(new, rest)
  /\ late' = LateEffect(new, rest)

\* What a reply or an event about a job does to the cancel button.
Flags(u, s, c) == [u EXCEPT !.cancelLocked = @ \/ s, !.cancelReq = @ \/ c]

(***************************************************************************)
(* The server.                                                             *)
(***************************************************************************)

Init ==
  /\ Server!Init
  /\ started = {}
  /\ agentOf = [j \in Jobs |-> NoAgent]
  /\ \E a \in Agents : /\ ui = Fresh(a)
                       /\ lookup = [agent |-> a, job |-> NoJob]
  /\ stored = [a \in Agents |-> NoJob]
  /\ loop = NoLoop
  /\ late = {}
  /\ enq = NoEnq
  /\ cancels = {}
  /\ shown = [j \in Jobs |-> 0]
  /\ filed = [a \in Agents |-> {}]
  /\ faults = 0 /\ turns = 0
  /\ reused = {} /\ unasked = {}

Fault == faults + turns < MaxOdd /\ faults' = faults + 1
Turn == faults + turns < MaxOdd /\ turns' = turns + 1

page == <<ui, stored, loop, late, lookup, enq, cancels, shown, filed>>

\* A runner takes the job, and ends it with one of the three verdicts.
Begin(j) == /\ Server!Start(j)
            /\ started' = started \cup {j}
            /\ UNCHANGED <<agentOf, page, faults, turns, ghosts>>

Finish(j) == /\ \/ Server!Succeed(j)
                \/ phase[j] = "running" /\ Server!Fail(j)
                \/ phase[j] = "running" /\ creq[j] /\ Server!Cancel(j)
             /\ UNCHANGED <<started, agentOf, page, faults, turns, ghosts>>

\* A runner that lost its lease writes its verdict over another's.
Overwrite(j) == /\ Fault
                /\ Over(j)
                /\ Server!Fail(j) \/ (creq[j] /\ Server!Cancel(j))
                /\ UNCHANGED <<started, agentOf, page, turns, ghosts>>

\* validate-async inserts a job for agent a.
Create(j, a) == /\ \A i \in Jobs : i < j => phase[i] # "absent"
                /\ Server!Submit(j)
                /\ agentOf' = [agentOf EXCEPT ![j] = a]
                /\ UNCHANGED started

\* Another tab of the same user enqueues a run, and may cancel it.
OtherTabRuns(a) == /\ Turn
                   /\ \E j \in Jobs : Create(j, a)
                   /\ UNCHANGED <<page, faults, ghosts>>

\* What the cancel endpoint does to a job.  Of one that ends between its read
\* and its write it still records the request.
CancelOnServer(j) == IF phase[j] = "queued" THEN Server!Cancel(j)
                     ELSE \/ Server!Ask(j)
                          \/ Over(j) /\ UNCHANGED <<phase, creq>>

OtherTabCancels(j) == /\ Turn
                      /\ Active(j) /\ ~creq[j]
                      /\ CancelOnServer(j)
                      /\ UNCHANGED <<started, agentOf, page, faults, ghosts>>

(***************************************************************************)
(* Looking at the page.                                                    *)
(***************************************************************************)

View(a) == /\ a # ui.view
           /\ Commit([ui EXCEPT !.view = a], loop)
           /\ UNCHANGED <<server, enq, cancels, shown, filed, faults, turns, ghosts>>

Toggle == /\ Turn
          /\ Commit([ui EXCEPT !.visible = ~@], loop)
          /\ UNCHANGED <<server, enq, cancels, shown, filed, faults, ghosts>>

\* All of the page's memory is gone but sessionStorage; mounting clears the
\* key of the viewed agent before the lookup reads it.
Reload(a) ==
  /\ Turn
  /\ ui' = Fresh(a)
  /\ stored' = [stored EXCEPT ![a] = NoJob]
  /\ lookup' = [agent |-> a, job |-> NoJob]
  /\ loop' = NoLoop /\ late' = {} /\ enq' = NoEnq
  /\ shown' = [j \in Jobs |-> 0]
  /\ filed' = [b \in Agents |-> {}]
  /\ UNCHANGED <<server, cancels, faults, ghosts>>

(***************************************************************************)
(* Resuming a run.                                                         *)
(***************************************************************************)

\* attach: follow run j for the agent the lookup was made for.
Attach(j) ==
  Commit([ui EXCEPT !.validating = TRUE, !.job = j, !.owner = lookup.agent,
                    !.cancelLocked = j \in started, !.cancelReq = creq[j]], loop)

Newest(runs) == {j \in runs : \A i \in runs : i <= j}

\* Slip: active-job answers with the newest run of the agent, active or not.
NewestOfAgent(a) == Newest({j \in Jobs : agentOf[j] = a})

\* active-job answers with the newest active run of the agent.
NewestActive(a) == Newest({j \in Jobs : Active(j) /\ agentOf[j] = a})

\* The stored run is resumed if it is active, and else the agent's active run.
\* An agent with neither has its key cleared; a failed call changes nothing.
LookUp ==
  /\ lookup # NoLookup
  /\ LET found == IF lookup.job # NoJob /\ Active(lookup.job)
                  THEN {lookup.job} ELSE NewestActive(lookup.agent) IN
     \/ (\E j \in found : Attach(j)) /\ UNCHANGED faults
     \/ /\ \/ /\ found = {}
              /\ stored' = [stored EXCEPT ![lookup.agent] = NoJob]
              /\ UNCHANGED faults
           \/ Fault /\ UNCHANGED stored
        /\ lookup' = NoLookup
        /\ UNCHANGED <<ui, loop, late>>
  /\ UNCHANGED <<server, enq, cancels, shown, filed, turns, ghosts>>

(***************************************************************************)
(* Starting a run.                                                         *)
(***************************************************************************)

\* Slip: a new run keeps the cancel flag of the one before it.
StartedKeepingCancel(u) == [u EXCEPT !.validating = TRUE, !.owner = u.view,
                                     !.cancelLocked = FALSE]

Started(u) == [u EXCEPT !.validating = TRUE, !.owner = u.view,
                        !.cancelReq = FALSE, !.cancelLocked = FALSE]

Stopped(u) == [u EXCEPT !.validating = FALSE, !.owner = NoAgent]

\* handleValidate up to the call.  What else blocks a run (keys, a model, the
\* form) returns before any of this.
Validate == /\ ~RunLocked /\ ~ui.cooling
            /\ Commit(Started(ui), loop)
            /\ enq' = [NoEnq EXCEPT !.agent = ui.view]
            /\ UNCHANGED <<server, cancels, shown, filed, faults, turns, ghosts>>

\* The form does not build a payload: the flags are reset and nothing is sent.
ValidateRefused == /\ ~RunLocked /\ ~ui.cooling
                   /\ Commit(Stopped(Started(ui)), loop)
                   /\ UNCHANGED <<server, enq, cancels, shown, filed, faults, turns, ghosts>>

Waiting == enq # NoEnq /\ enq.job = NoJob

\* The server's side of the call.  The user's active run is returned whatever
\* its agent; a run is inserted only if there is none.
ServeEnqueue ==
  /\ Waiting
  /\ \/ \E j \in Jobs :
          /\ Active(j) /\ \A i \in Jobs : Active(i) => i <= j
          /\ enq' = [enq EXCEPT !.job = j]
          /\ reused' = reused \cup {j}
          /\ UNCHANGED server
     \/ \E j \in Jobs :
          /\ \A i \in Jobs : ~Active(i)
          /\ Create(j, enq.agent)
          /\ enq' = [enq EXCEPT !.job = j]
          /\ UNCHANGED reused
  /\ UNCHANGED <<ui, stored, loop, late, lookup, cancels, shown, filed, faults, turns,
                 unasked>>

\* The call fails, or is refused because of a limit (which starts a cooldown).
EnqueueFails ==
  /\ Waiting
  /\ \/ Fault
     \/ (\A j \in Jobs : phase[j] # "absent") /\ UNCHANGED faults
  /\ \E limited \in BOOLEAN : Commit([Stopped(ui) EXCEPT !.cooling = limited], loop)
  /\ enq' = NoEnq
  /\ UNCHANGED <<server, cancels, shown, filed, turns, ghosts>>

CooldownEnds == /\ ui.cooling
                /\ Commit([ui EXCEPT !.cooling = FALSE], loop)
                /\ UNCHANGED <<server, enq, cancels, shown, filed, faults, turns, ghosts>>

\* The answer: follow the run, and send the cancel that could not be sent
\* while its id was not known.
EnqueueReply ==
  /\ enq.job # NoJob
  /\ \E s \in {FALSE, enq.job \in started} :
       Commit([ui EXCEPT !.job = enq.job, !.cancelLocked = s], loop)
  /\ cancels' = IF ui.cancelReq THEN cancels \cup {enq.job} ELSE cancels
  /\ unasked' = IF ui.cancelReq /\ ~enq.asked /\ ~enq.misled
                THEN unasked \cup {enq.job} ELSE unasked
  /\ enq' = NoEnq
  /\ UNCHANGED <<server, shown, filed, faults, turns, reused>>

(***************************************************************************)
(* Canceling a run.                                                        *)
(***************************************************************************)

\* What the page shows of the run belongs to the agent on view.
Visible == ui.owner = ui.view

\* Slip: the button does not remember that it was pressed.
RememberNothing == ui

Remember == [ui EXCEPT !.cancelReq = TRUE]

\* The run the button cancels at once.
CancelKnown == {ui.job} \ {NoJob}

ClickCancel ==
  /\ Visible /\ ui.validating /\ ~ui.cancelReq /\ ~ui.cancelLocked
  /\ Commit(Remember, loop)
  /\ cancels' = cancels \cup CancelKnown
  /\ enq' = IF enq = NoEnq THEN enq ELSE [enq EXCEPT !.asked = TRUE]
  /\ UNCHANGED <<server, shown, filed, faults, turns, ghosts>>

CancelArrives(j) == /\ j \in cancels
                    /\ cancels' = cancels \ {j}
                    /\ CancelOnServer(j)
                    /\ UNCHANGED <<started, agentOf, ui, stored, loop, late, lookup, enq,
                                   shown, filed, faults, turns, ghosts>>

\* The call fails: an error is shown, the button stays at "Canceling".
CancelFails(j) == /\ j \in cancels
                  /\ Fault
                  /\ cancels' = cancels \ {j}
                  /\ UNCHANGED <<server, ui, stored, loop, late, lookup, enq, shown, filed,
                                 turns, ghosts>>

(***************************************************************************)
(* Following a run.                                                        *)
(***************************************************************************)

\* One turn of the loop asks for the job: with its result if an event said
\* that it has ended, and without if not.
Poll == /\ loop.pc = "idle"
        /\ loop' = [loop EXCEPT !.pc = IF loop.hint THEN "final" ELSE "poll"]
        /\ UNCHANGED <<server, ui, stored, late, lookup, enq, cancels, shown, filed,
                       faults, turns, ghosts>>

\* Flags seen in an answer about the followed run.
Seen(u) == Flags(u, ui.job \in started, creq[ui.job])

PollAnswer ==
  /\ loop.pc = "poll"
  /\ Commit(Seen(ui), [loop EXCEPT !.pc = IF Over(ui.job) THEN "final" ELSE "idle"])
  /\ UNCHANGED <<server, enq, cancels, shown, filed, faults, turns, ghosts>>

\* The server is busy, or limits the polls: try again later.
PollBusy == /\ loop.pc \in {"poll", "final"}
            /\ Fault
            /\ loop' = [loop EXCEPT !.pc = "idle"]
            /\ UNCHANGED <<server, ui, stored, late, lookup, enq, cancels, shown, filed,
                           turns, ghosts>>

\* 401, 403 and 404: the run is given up; only 404 resets the cancel flag.
PollRefused == /\ loop.pc \in {"poll", "final"}
               /\ Fault
               /\ \E gone \in BOOLEAN :
                    Commit([Stopped(ui) EXCEPT !.job = NoJob,
                                               !.cancelReq = @ /\ ~gone], NoLoop)
               /\ UNCHANGED <<server, enq, cancels, shown, filed, turns, ghosts>>

\* Slip: the result is filed under the agent on view.
OwnerIsView == ui.view

\* The agent whose run this is, when it ends.
Owner == ui.owner

\* finalize: announce the end, keep a result, and let go of the run.
Finalize ==
  /\ loop.pc = "final"
  /\ Over(ui.job)
  /\ shown' = [shown EXCEPT ![ui.job] = @ + 1]
  /\ filed' = IF phase[ui.job] = "succeeded"
              THEN [filed EXCEPT ![Owner] = @ \cup {ui.job}] ELSE filed
  /\ Commit([Stopped(ui) EXCEPT !.job = NoJob, !.cancelReq = FALSE,
                                !.cancelLocked = FALSE], NoLoop)
  /\ UNCHANGED <<server, enq, cancels, faults, turns, ghosts>>

\* An event of the stream, which is open only while the page is visible.
Event ==
  /\ loop.pc # "off" /\ ui.visible
  /\ Seen(ui) # ui \/ (Over(ui.job) /\ ~loop.hint)
  /\ Commit(Seen(ui), [loop EXCEPT !.hint = @ \/ Over(ui.job)])
  /\ UNCHANGED <<server, enq, cancels, shown, filed, faults, turns, ghosts>>

\* The answer to a request of a replaced loop.  The flags are set before the
\* loop looks whether it was replaced, whatever run they are about; finalize
\* returns at once.
LateReply(r) ==
  /\ r \in late
  /\ \E s \in {FALSE, r.job \in started}, c \in {FALSE, creq[r.job]},
        again \in {FALSE, Over(r.job)} :
       LET asks == again /\ r.pc = "poll"
           cancel == c /\ r.pc = "poll"
       IN /\ ui' = Flags(ui, s, cancel)
          /\ late' = (late \ {r})
                       \cup (IF asks THEN {[r EXCEPT !.pc = "final"]} ELSE {})
          /\ enq' = IF enq # NoEnq /\ cancel /\ ~ui.cancelReq
                    THEN [enq EXCEPT !.misled = TRUE] ELSE enq
  /\ UNCHANGED <<server, stored, loop, lookup, cancels, shown, filed, faults, turns, ghosts>>

(***************************************************************************)
(* Specification.                                                          *)
(***************************************************************************)

ServerStep == \E j \in Jobs : Begin(j) \/ Finish(j) \/ Overwrite(j) \/ OtherTabCancels(j)
Enqueueing == ServeEnqueue \/ EnqueueFails \/ EnqueueReply
Following == Poll \/ PollAnswer \/ PollBusy \/ PollRefused \/ Finalize
User == \/ \E a \in Agents : View(a) \/ Reload(a) \/ OtherTabRuns(a)
        \/ Toggle \/ Validate \/ ValidateRefused \/ ClickCancel
Canceling == \E j \in Jobs : CancelArrives(j) \/ CancelFails(j)

Next == \/ ServerStep \/ User \/ Enqueueing \/ Following \/ Canceling
        \/ LookUp \/ CooldownEnds \/ Event
        \/ \E r \in late : LateReply(r)

Spec == Init /\ [][Next]_vars

\* Every run the server has ends (EveryJobEnds of ReleaseGateJobs); a call is
\* answered or times out; the loop goes on after every sleep.
Fairness == /\ \A j \in Jobs : WF_vars(Begin(j)) /\ WF_vars(Finish(j))
                               /\ WF_vars(CancelArrives(j) \/ CancelFails(j))
            /\ WF_vars(Enqueueing) /\ WF_vars(Following)

FairSpec == Spec /\ Fairness

(***************************************************************************)
(* Properties.                                                             *)
(***************************************************************************)

JobOrNone == Jobs \cup {NoJob}

UiType == [view : Agents, visible : BOOLEAN, validating : BOOLEAN, job : JobOrNone,
           owner : Agents \cup {NoAgent}, cancelReq : BOOLEAN, cancelLocked : BOOLEAN,
           cooling : BOOLEAN]

EnqType == [agent : Agents \cup {NoAgent}, job : JobOrNone, asked : BOOLEAN,
            misled : BOOLEAN]

\* The type invariant.
TypeOK ==
  /\ phase \in [Jobs -> Server!Phases] /\ creq \in [Jobs -> BOOLEAN]
  /\ started \in SUBSET Jobs
  /\ agentOf \in [Jobs -> Agents \cup {NoAgent}]
  /\ ui \in UiType
  /\ stored \in [Agents -> JobOrNone]
  /\ loop \in [pc : {"off", "idle", "poll", "final"}, hint : BOOLEAN]
  /\ late \in SUBSET [job : Jobs, pc : {"poll", "final"}]
  /\ lookup \in [agent : Agents \cup {NoAgent}, job : JobOrNone]
  /\ enq \in EnqType
  /\ cancels \in SUBSET Jobs
  /\ shown \in [Jobs -> Nat]
  /\ filed \in [Agents -> SUBSET Jobs]
  /\ faults \in Nat /\ turns \in Nat
  /\ reused \in SUBSET Jobs /\ unasked \in SUBSET Jobs

\* What the page is busy with is one thing: a run it follows, with a loop and
\* an owner, or a call that starts one, or nothing, and only then a lookup.
Busy ==
  /\ ui.job # NoJob => ui.validating
  /\ ui.validating => (ui.job # NoJob <=> enq = NoEnq) /\ ui.owner # NoAgent
  /\ ~ui.validating => enq = NoEnq /\ ui.owner = NoAgent
  /\ loop.pc = "off" <=> ui.job = NoJob
  /\ lookup # NoLookup => ~ui.validating /\ lookup.agent = ui.view /\ lookup.job = NoJob
  /\ enq # NoEnq => enq.agent = ui.owner
  /\ stored[ui.view] = ui.job

\* A run that was announced is over, so nothing that is still to be followed
\* was announced.
Announced ==
  /\ \A j \in Jobs : shown[j] > 0 => Over(j)
  /\ ui.job # NoJob => shown[ui.job] = 0
  /\ enq.job # NoJob => shown[enq.job] = 0

\* Whose runs the page follows, and who raised the flag that cancels a run whose
\* id is not known yet.
Origin ==
  /\ \A j \in Jobs : phase[j] = "absent" <=> agentOf[j] = NoAgent
  /\ ui.job # NoJob => agentOf[ui.job] = ui.owner \/ ui.job \in reused
  /\ enq.job # NoJob => agentOf[enq.job] = enq.agent \/ enq.job \in reused
  /\ enq # NoEnq => (ui.cancelReq => enq.asked \/ enq.misled)
  /\ enq.asked => ui.cancelReq

\* The end of a run is announced at most once while the page stays loaded,
\* however many loops, events, lookups and answers there are of it
\* (finalize, and the cancelled flag of every loop).
AnnouncedOnce == \A j \in Jobs : shown[j] <= 1

\* A result is kept for the agent it belongs to, unless the server answered a
\* new run with one the user already had (resume, sessionStorage, finalize).
FiledUnderAgent == \A a \in Agents : \A j \in filed[a] : agentOf[j] = a \/ j \in reused

\* The tab sends a cancel call only for a run its user asked to cancel, or for
\* one enqueued while a replaced loop had raised the flag (handleValidate).
CancelOnlyAsked == unasked = {}

\* The inductive invariant, of which the three above are proved.
IInv == /\ TypeOK /\ Busy /\ Announced /\ Origin
        /\ AnnouncedOnce /\ FiledUnderAgent /\ CancelOnlyAsked

\* The page lets go of a run only when it is over, a call was refused, or the
\* page was reloaded; never because another loop, run or lookup ended.
LetGoOnlyWhenOver ==
  [][(ui.job # NoJob /\ ui'.job # ui.job)
       => /\ ui'.job = NoJob
          /\ Over(ui.job) \/ faults' > faults \/ turns' > turns]_vars

\* Running the gate always ends: the page is not locked for ever (runLocked).
RunEnds == ui.validating ~> ~ui.validating

\* A cancel made before the run had an id is sent when the id is known
\* (handleCancelActiveJob and the end of handleValidate).
AskedIsSent ==
  [][(enq.asked /\ ui'.job # NoJob) => ui'.job \in cancels']_vars
=============================================================================
