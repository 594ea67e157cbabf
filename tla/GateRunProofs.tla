---------------------------- MODULE GateRunProofs ----------------------------
(***************************************************************************)
(* Theorems of GateRun, for any agents, any number of runs and of faults:  *)
(* the end of a run is announced once, its result is filed under its own   *)
(* agent, and no run is canceled that nobody asked to cancel.              *)
(***************************************************************************)
EXTENDS GateRun, TLAPS

USE GateRunAssumption

Loops == [pc : {"off", "idle", "poll", "final"}, hint : BOOLEAN]
Lates == [job : Jobs, pc : {"poll", "final"}]
Lookups == [agent : Agents \cup {NoAgent}, job : JobOrNone]

-----------------------------------------------------------------------------
(***************************************************************************)
(* What a commit does to what hangs on the state of the hook.              *)
(***************************************************************************)

(* The stored id is the one of the run followed; a loop runs exactly while *)
(* a run is followed; a lookup is made only when there is none.            *)
Hangs(new) ==
    /\ stored' \in [Agents -> JobOrNone] /\ stored'[new.view] = new.job
    /\ loop' \in Loops /\ (loop'.pc = "off" <=> new.job = NoJob)
    /\ late' \in SUBSET Lates
    /\ lookup' \in Lookups
    /\ lookup' # NoLookup => ~new.validating /\ lookup'.agent = new.view /\ lookup'.job = NoJob

LEMMA JobNumbers == NoJob \notin Jobs /\ NoJob \in JobOrNone /\ Jobs \subseteq JobOrNone
  BY DEF Jobs, NoJob, JobOrNone

LEMMA CommitHangs ==
    ASSUME TypeOK, Busy, NEW new \in UiType, NEW rest \in Loops, Commit(new, rest),
           rest.pc \in {"poll", "final"} => ui.job # NoJob,
           new.job = ui.job => (rest.pc = "off" <=> ui.job = NoJob)
    PROVE  ui' = new /\ Hangs(new)
<1>1. ui' = new
  BY DEF Commit
<1>2. stored' \in [Agents -> JobOrNone] /\ stored'[new.view] = new.job
  <2>1. StoreEffect(new) \in [Agents -> JobOrNone]
    BY DEF TypeOK, StoreEffect, UiType
  <2>2. StoreEffect(new)[new.view] = new.job
    BY DEF TypeOK, StoreEffect, UiType, Busy
  <2> QED BY <2>1, <2>2 DEF Commit
<1>3. loop' \in Loops /\ (loop'.pc = "off" <=> new.job = NoJob)
  BY DEF Commit, LoopEffect, Loops, NoLoop, NewLoop
<1>4. late' \in SUBSET Lates
  <2>1. late \in SUBSET Lates
    BY DEF TypeOK, Lates
  <2>2. CASE rest.pc \in {"poll", "final"}
    <3>1. ui.job \in Jobs
      BY <2>2 DEF TypeOK, UiType, JobOrNone
    <3>2. [job |-> ui.job, pc |-> rest.pc] \in Lates
      BY <2>2, <3>1 DEF Lates
    <3> QED BY <2>1, <3>2 DEF Commit, LateEffect
  <2>3. CASE rest.pc \notin {"poll", "final"}
    BY <2>1, <2>3 DEF Commit, LateEffect
  <2> QED BY <2>2, <2>3
<1>5. /\ lookup' \in Lookups
      /\ lookup' # NoLookup => ~new.validating /\ lookup'.agent = new.view /\ lookup'.job = NoJob
  <2>1. CASE <<new.view, new.job, new.validating>> = <<ui.view, ui.job, ui.validating>>
    BY <2>1 DEF Commit, LookupEffect, TypeOK, Busy, Lookups
  <2>2. CASE <<new.view, new.job, new.validating>> # <<ui.view, ui.job, ui.validating>>
    <3>1. lookup' = LookupOf(new)
      BY <2>2 DEF Commit, LookupEffect
    <3>2. CASE new.job = NoJob /\ ~new.validating
      <4>1. lookup' = [agent |-> new.view, job |-> NoJob]
        BY <1>2, <3>1, <3>2 DEF LookupOf, Commit
      <4> QED BY <4>1, <3>2, JobNumbers DEF Lookups, UiType
    <3>3. CASE ~(new.job = NoJob /\ ~new.validating)
      BY <3>1, <3>3, JobNumbers DEF LookupOf, NoLookup, Lookups
    <3> QED BY <3>2, <3>3
  <2> QED BY <2>1, <2>2
<1> QED
  BY <1>1, <1>2, <1>3, <1>4, <1>5 DEF Hangs

-----------------------------------------------------------------------------
(***************************************************************************)
(* Steps of the page, and steps of the server.                             *)
(***************************************************************************)

(* What the invariant says of a state of the hook and of its call.         *)
Good(new, e) ==
    /\ new.job # NoJob => new.validating
    /\ new.validating => (new.job # NoJob <=> e = NoEnq) /\ new.owner # NoAgent
    /\ ~new.validating => e = NoEnq /\ new.owner = NoAgent
    /\ e # NoEnq => e.agent = new.owner
    /\ new.job # NoJob =>
         shown[new.job] = 0 /\ (agentOf[new.job] = new.owner \/ new.job \in reused)
    /\ e.job # NoJob =>
         shown[e.job] = 0 /\ (agentOf[e.job] = e.agent \/ e.job \in reused)
    /\ e # NoEnq => (new.cancelReq => e.asked \/ e.misled)
    /\ e.asked => new.cancelReq

Counts == faults' \in Nat /\ turns' \in Nat

LEMMA NowGood ==
    ASSUME IInv
    PROVE  Good(ui, enq)
  BY DEF IInv, Busy, Announced, Origin, Good

LEMMA PageStep ==
    ASSUME IInv, UNCHANGED <<server, shown, filed, reused>>, unasked' = {}, Counts,
           cancels' \in SUBSET Jobs, ui' \in UiType, enq' \in EnqType,
           Hangs(ui'), Good(ui', enq')
    PROVE  IInv'
<1>1. TypeOK'
  BY DEF IInv, TypeOK, Hangs, Counts, server, Loops, Lates, Lookups
<1>2. Busy'
  BY DEF Busy, Hangs, Good
<1>3. Announced' /\ AnnouncedOnce' /\ FiledUnderAgent' /\ CancelOnlyAsked'
  BY DEF IInv, Announced, AnnouncedOnce, FiledUnderAgent, CancelOnlyAsked, Over, server, Good
<1>4. Origin'
  BY DEF IInv, Origin, server, Good
<1> QED
  BY <1>1, <1>2, <1>3, <1>4 DEF IInv

(* A step of the server ends no job twice, and unmakes none.               *)
LEMMA ServerSideStep ==
    ASSUME IInv, phase' \in [Jobs -> Server!Phases], creq' \in [Jobs -> BOOLEAN],
           started' \in SUBSET Jobs, Counts, cancels' \in SUBSET Jobs,
           UNCHANGED <<agentOf, ui, stored, loop, late, lookup, enq, shown, filed, ghosts>>,
           \A j \in Jobs : Over(j) => Over(j)',
           \A j \in Jobs : phase[j] = "absent" <=> phase'[j] = "absent"
    PROVE  IInv'
<1>1. TypeOK'
  BY DEF IInv, TypeOK, Counts, ghosts
<1>2. Busy'
  BY DEF IInv, Busy
<1>3. Announced' /\ AnnouncedOnce' /\ FiledUnderAgent' /\ CancelOnlyAsked'
  BY DEF IInv, Announced, AnnouncedOnce, FiledUnderAgent, CancelOnlyAsked, ghosts
<1>4. Origin'
  BY DEF IInv, Origin, ghosts
<1> QED
  BY <1>1, <1>2, <1>3, <1>4 DEF IInv

LEMMA BeginKeeps ==
    ASSUME IInv, NEW j \in Jobs, Begin(j)
    PROVE  IInv'
<1>1. phase' \in [Jobs -> Server!Phases] /\ UNCHANGED creq /\ started' \in SUBSET Jobs
  BY DEF IInv, TypeOK, Begin, Server!Start, Server!Phases
<1>2. \A i \in Jobs : /\ Over(i) => Over(i)'
                      /\ phase[i] = "absent" <=> phase'[i] = "absent"
  BY DEF IInv, TypeOK, Begin, Server!Start, Server!Phases, Over
<1> QED
  BY <1>1, <1>2, ServerSideStep DEF IInv, TypeOK, Begin, page, Counts

LEMMA FinishKeeps ==
    ASSUME IInv, NEW j \in Jobs, Finish(j)
    PROVE  IInv'
<1>1. phase' \in [Jobs -> Server!Phases] /\ creq' \in [Jobs -> BOOLEAN]
  BY DEF IInv, TypeOK, Finish, Server!Succeed, Server!Fail, Server!Cancel, Server!Phases
<1>2. \A i \in Jobs : /\ Over(i) => Over(i)'
                      /\ phase[i] = "absent" <=> phase'[i] = "absent"
  BY DEF IInv, TypeOK, Finish, Server!Succeed, Server!Fail, Server!Cancel, Server!Phases, Over
<1> QED
  BY <1>1, <1>2, ServerSideStep DEF IInv, TypeOK, Finish, page, Counts

LEMMA OverwriteKeeps ==
    ASSUME IInv, NEW j \in Jobs, Overwrite(j)
    PROVE  IInv'
<1>1. phase' \in [Jobs -> Server!Phases] /\ creq' \in [Jobs -> BOOLEAN]
  BY DEF IInv, TypeOK, Overwrite, Server!Fail, Server!Cancel, Server!Phases
<1>2. \A i \in Jobs : /\ Over(i) => Over(i)'
                      /\ phase[i] = "absent" <=> phase'[i] = "absent"
  BY DEF IInv, TypeOK, Overwrite, Server!Fail, Server!Cancel, Server!Phases, Over
<1> QED
  BY <1>1, <1>2, ServerSideStep DEF IInv, TypeOK, Overwrite, Fault, page, Counts

LEMMA CancelOnServerKeeps ==
    ASSUME IInv, NEW j \in Jobs, CancelOnServer(j)
    PROVE  /\ phase' \in [Jobs -> Server!Phases] /\ creq' \in [Jobs -> BOOLEAN]
           /\ \A i \in Jobs : /\ Over(i) => Over(i)'
                              /\ phase[i] = "absent" <=> phase'[i] = "absent"
  BY DEF IInv, TypeOK, CancelOnServer, Server!Cancel, Server!Ask, Server!Phases, Over

LEMMA OtherTabCancelsKeeps ==
    ASSUME IInv, NEW j \in Jobs, OtherTabCancels(j)
    PROVE  IInv'
  BY CancelOnServerKeeps, ServerSideStep DEF OtherTabCancels, Turn, page, Counts, IInv, TypeOK

LEMMA CancelArrivesKeeps ==
    ASSUME IInv, NEW j \in Jobs, CancelArrives(j)
    PROVE  IInv'
  BY CancelOnServerKeeps, ServerSideStep DEF CancelArrives, Counts, IInv, TypeOK

LEMMA CreateFacts ==
    ASSUME IInv, NEW j \in Jobs, NEW a \in Agents, Create(j, a)
    PROVE  /\ phase' \in [Jobs -> Server!Phases] /\ UNCHANGED <<creq, started>>
           /\ agentOf' \in [Jobs -> Agents \cup {NoAgent}]
           /\ \A i \in Jobs : Over(i) => Over(i)'
           /\ \A i \in Jobs : phase'[i] = "absent" <=> agentOf'[i] = NoAgent
           /\ \A i \in Jobs : agentOf[i] # NoAgent => agentOf'[i] = agentOf[i]
           /\ agentOf'[j] = a /\ shown[j] = 0
  BY DEF IInv, TypeOK, Origin, Announced, Create, Server!Submit, Server!Phases, Over

(* A run the server creates is none of those the page knows.               *)
LEMMA CreationStep ==
    ASSUME IInv, NEW j \in Jobs, NEW a \in Agents, Create(j, a), Counts,
           UNCHANGED <<ui, stored, loop, late, lookup, cancels, shown, filed, ghosts>>,
           enq' \in EnqType,
           \/ UNCHANGED enq
           \/ enq # NoEnq /\ enq.agent = a /\ enq.job = NoJob /\ enq' = [enq EXCEPT !.job = j]
    PROVE  IInv'
<1>1. TypeOK'
  BY CreateFacts DEF IInv, TypeOK, Counts, ghosts
<1>2. Busy'
  <2>1. enq' = NoEnq <=> enq = NoEnq
    BY JobNumbers DEF NoEnq, IInv, TypeOK, EnqType
  <2> QED BY <2>1 DEF IInv, Busy, TypeOK, EnqType
<1>3. Announced'
  BY CreateFacts DEF IInv, Announced, TypeOK, EnqType
<1>4. Origin'
  <2>1. enq # NoEnq => enq.agent # NoAgent
    BY DEF IInv, Busy
  <2>2. enq.job # NoJob => enq # NoEnq
    BY DEF NoEnq
  <2>3. \A i \in Jobs : phase'[i] = "absent" <=> agentOf'[i] = NoAgent
    BY CreateFacts
  <2>4. ui'.job # NoJob => agentOf'[ui'.job] = ui'.owner \/ ui'.job \in reused'
    <3> SUFFICES ASSUME ui.job # NoJob PROVE agentOf'[ui.job] = ui.owner \/ ui.job \in reused
      BY DEF ghosts
    <3>1. ui.job \in Jobs /\ ui.owner # NoAgent
      BY DEF IInv, Busy, TypeOK, UiType, JobOrNone
    <3> QED BY <3>1, CreateFacts DEF IInv, Origin
  <2>5. enq'.job # NoJob => agentOf'[enq'.job] = enq'.agent \/ enq'.job \in reused'
    <3>1. CASE UNCHANGED enq
      <4>1. enq.job # NoJob => enq.job \in Jobs
        BY DEF IInv, TypeOK, EnqType, JobOrNone
      <4> QED BY <3>1, <4>1, <2>1, <2>2, CreateFacts DEF IInv, Origin, ghosts
    <3>2. CASE enq.agent = a /\ enq' = [enq EXCEPT !.job = j]
      BY <3>2, CreateFacts DEF IInv, TypeOK, EnqType
    <3> QED BY <3>1, <3>2
  <2>6. /\ enq' # NoEnq => (ui'.cancelReq => enq'.asked \/ enq'.misled)
        /\ enq'.asked => ui'.cancelReq
    BY DEF IInv, Origin, TypeOK, EnqType
  <2> QED BY <2>3, <2>4, <2>5, <2>6 DEF Origin
<1>5. AnnouncedOnce' /\ CancelOnlyAsked'
  BY DEF IInv, AnnouncedOnce, CancelOnlyAsked, ghosts
<1>6. FiledUnderAgent'
  <2> SUFFICES ASSUME NEW b \in Agents, NEW i \in filed[b]
               PROVE  agentOf'[i] = b \/ i \in reused
    BY DEF FiledUnderAgent, ghosts
  <2>1. i \in Jobs
    BY DEF IInv, TypeOK
  <2> QED BY <2>1, CreateFacts DEF IInv, FiledUnderAgent
<1> QED
  BY <1>1, <1>2, <1>3, <1>4, <1>5, <1>6 DEF IInv

LEMMA OtherTabRunsKeeps ==
    ASSUME IInv, NEW a \in Agents, OtherTabRuns(a)
    PROVE  IInv'
<1>1. PICK j \in Jobs : Create(j, a)
  BY DEF OtherTabRuns
<1> QED
  BY <1>1, CreationStep DEF OtherTabRuns, Turn, page, Counts, IInv, TypeOK

LEMMA ServeEnqueueKeeps ==
    ASSUME IInv, ServeEnqueue
    PROVE  IInv'
<1>1. enq.agent \in Agents /\ enq # NoEnq /\ enq.job = NoJob
  BY DEF IInv, Busy, TypeOK, EnqType, ServeEnqueue, Waiting
<1>2. CASE \E j \in Jobs : /\ Active(j)
                          /\ enq' = [enq EXCEPT !.job = j]
                          /\ reused' = reused \cup {j}
                          /\ UNCHANGED server
  <2>1. PICK j \in Jobs : /\ Active(j)
                         /\ enq' = [enq EXCEPT !.job = j]
                         /\ reused' = reused \cup {j}
                         /\ UNCHANGED server
    BY <1>2
  <2>2. shown[j] = 0
    BY <2>1 DEF IInv, Announced, TypeOK, Active, Over
  <2>3. enq' \in EnqType /\ enq'.job = j /\ enq'.agent = enq.agent
          /\ enq'.asked = enq.asked /\ enq'.misled = enq.misled /\ enq' # NoEnq
    BY <2>1, JobNumbers DEF IInv, TypeOK, EnqType, NoEnq, JobOrNone
  <2>4. TypeOK'
    BY <2>1, <2>3 DEF IInv, TypeOK, server, ServeEnqueue
  <2>5. Busy'
    BY <1>1, <2>3 DEF IInv, Busy, ServeEnqueue
  <2>6. Announced' /\ AnnouncedOnce' /\ FiledUnderAgent' /\ CancelOnlyAsked'
    BY <2>1, <2>2, <2>3 DEF IInv, Announced, AnnouncedOnce, FiledUnderAgent, CancelOnlyAsked,
         ServeEnqueue, Over, server
  <2>7. Origin'
    BY <1>1, <2>1, <2>3 DEF IInv, Origin, ServeEnqueue, server
  <2> QED BY <2>4, <2>5, <2>6, <2>7 DEF IInv
<1>3. CASE \E j \in Jobs : /\ Create(j, enq.agent)
                          /\ enq' = [enq EXCEPT !.job = j]
                          /\ UNCHANGED reused
  <2>1. PICK j \in Jobs : /\ Create(j, enq.agent)
                         /\ enq' = [enq EXCEPT !.job = j]
                         /\ UNCHANGED reused
    BY <1>3
  <2>2. enq' \in EnqType
    BY <2>1, JobNumbers DEF IInv, TypeOK, EnqType
  <2> QED
    BY <1>1, <2>1, <2>2, CreationStep DEF ServeEnqueue, Counts, IInv, TypeOK, ghosts
<1> QED
  BY <1>2, <1>3 DEF ServeEnqueue

-----------------------------------------------------------------------------
(***************************************************************************)
(* The page.                                                               *)
(***************************************************************************)

(* A commit that leaves the call and the loop, or turns the loop off when  *)
(* it lets go of the run, keeps the invariant if its state is good.        *)
LEMMA CommitStep ==
    ASSUME IInv, NEW new \in UiType, NEW rest \in Loops, Commit(new, rest),
           rest.pc \in {"poll", "final"} => ui.job # NoJob,
           new.job = ui.job => (rest.pc = "off" <=> ui.job = NoJob),
           UNCHANGED <<server, shown, filed, reused>>, unasked' = {}, Counts,
           cancels' \in SUBSET Jobs, enq' \in EnqType, Good(new, enq')
    PROVE  IInv'
<1>1. ui' = new /\ Hangs(new)
  BY CommitHangs DEF IInv
<1> QED
  BY <1>1, PageStep

LEMMA LoopKept ==
    ASSUME IInv
    PROVE  /\ loop \in Loops
           /\ loop.pc \in {"poll", "final"} => ui.job # NoJob
           /\ loop.pc = "off" <=> ui.job = NoJob
  BY DEF IInv, TypeOK, Busy, Loops

LEMMA ViewKeeps ==
    ASSUME IInv, NEW a \in Agents, View(a)
    PROVE  IInv'
<1>1. [ui EXCEPT !.view = a] \in UiType
  BY DEF IInv, TypeOK, UiType
<1>2. Good([ui EXCEPT !.view = a], enq) /\ [ui EXCEPT !.view = a].job = ui.job
  BY NowGood DEF Good, IInv, TypeOK, UiType
<1> QED
  BY <1>1, <1>2, LoopKept, CommitStep
     DEF View, IInv, TypeOK, CancelOnlyAsked, ghosts, Counts

LEMMA ToggleKeeps ==
    ASSUME IInv, Toggle
    PROVE  IInv'
<1>1. [ui EXCEPT !.visible = ~@] \in UiType
  BY DEF IInv, TypeOK, UiType
<1>2. Good([ui EXCEPT !.visible = ~@], enq) /\ [ui EXCEPT !.visible = ~@].job = ui.job
  BY NowGood DEF Good, IInv, TypeOK, UiType
<1> QED
  BY <1>1, <1>2, LoopKept, CommitStep
     DEF Toggle, Turn, IInv, TypeOK, CancelOnlyAsked, ghosts, Counts

LEMMA ReloadKeeps ==
    ASSUME IInv, NEW a \in Agents, Reload(a)
    PROVE  IInv'
<1>1. TypeOK'
  BY JobNumbers DEF IInv, TypeOK, Reload, Turn, Fresh, UiType, NoLoop, NoEnq, EnqType,
       server, ghosts
<1>2. Busy'
  BY DEF IInv, TypeOK, Busy, Reload, Fresh, NoLoop, NoEnq
<1>3. Announced' /\ AnnouncedOnce' /\ FiledUnderAgent' /\ CancelOnlyAsked'
  BY DEF IInv, Announced, AnnouncedOnce, FiledUnderAgent, CancelOnlyAsked, Reload, Fresh, NoEnq,
       ghosts
<1>4. Origin'
  BY DEF IInv, Origin, Reload, Fresh, NoEnq, server, ghosts
<1> QED
  BY <1>1, <1>2, <1>3, <1>4 DEF IInv

LEMMA AttachKeeps ==
    ASSUME IInv, lookup # NoLookup, NEW j \in Jobs, Active(j), agentOf[j] = lookup.agent, Attach(j),
           UNCHANGED <<server, enq, cancels, shown, filed, faults, turns, ghosts>>
    PROVE  IInv'
<1> DEFINE new == [ui EXCEPT !.validating = TRUE, !.job = j, !.owner = lookup.agent,
                             !.cancelLocked = j \in started, !.cancelReq = creq[j]]
<1>1. ui.job = NoJob /\ ~ui.validating /\ enq = NoEnq /\ lookup.agent = ui.view
  BY DEF IInv, Busy
<1>2. new \in UiType /\ new.job = j /\ new.owner = ui.view /\ new.validating
  <2>1. \E locked \in BOOLEAN :
          new = [ui EXCEPT !.validating = TRUE, !.job = j, !.owner = lookup.agent,
                           !.cancelLocked = locked, !.cancelReq = creq[j]]
    <3>1. (j \in started) = TRUE \/ (j \in started) = FALSE
      OBVIOUS
    <3> QED BY <3>1
  <2>2. creq[j] \in BOOLEAN
    BY DEF IInv, TypeOK
  <2>3. PICK locked \in BOOLEAN :
          new = [ui EXCEPT !.validating = TRUE, !.job = j, !.owner = lookup.agent,
                           !.cancelLocked = locked, !.cancelReq = creq[j]]
    BY <2>1
  <2>4. ui \in UiType /\ j \in JobOrNone /\ lookup.agent \in Agents \cup {NoAgent}
    BY JobNumbers DEF IInv, TypeOK
  <2> HIDE DEF new
  <2> QED BY <1>1, <2>2, <2>3, <2>4 DEF UiType
<1>3. shown[j] = 0
  BY DEF IInv, Announced, TypeOK, Active, Over
<1>4. Good(new, enq)
  BY <1>1, <1>2, <1>3, JobNumbers DEF Good, NoEnq, IInv, TypeOK, UiType
<1> HIDE DEF new
<1> QED
  BY <1>1, <1>2, <1>4, LoopKept, JobNumbers, CommitStep
     DEF Attach, new, IInv, TypeOK, CancelOnlyAsked, ghosts, Counts

LEMMA LookUpKeeps ==
    ASSUME IInv, LookUp
    PROVE  IInv'
<1>1. lookup # NoLookup /\ lookup.job = NoJob /\ lookup.agent = ui.view /\ ui.job = NoJob
  BY DEF LookUp, IInv, Busy
<1>2. CASE (\E j \in NewestActive(lookup.agent) : Attach(j)) /\ UNCHANGED faults
  <2>1. PICK j \in NewestActive(lookup.agent) : Attach(j)
    BY <1>2
  <2>2. j \in Jobs /\ Active(j) /\ agentOf[j] = lookup.agent
    BY DEF NewestActive, Newest
  <2> QED
    BY <1>1, <1>2, <2>1, <2>2, AttachKeeps DEF LookUp
<1>3. CASE /\ stored' \in {stored, [stored EXCEPT ![lookup.agent] = NoJob]}
           /\ faults' \in Nat /\ lookup' = NoLookup
           /\ UNCHANGED <<ui, loop, late>>
  <2>1. Hangs(ui')
    BY <1>1, <1>3, JobNumbers DEF Hangs, IInv, TypeOK, Busy, UiType, NoLookup, Loops, Lates, Lookups
  <2> QED
    BY <1>3, <2>1, NowGood, PageStep
       DEF LookUp, IInv, TypeOK, CancelOnlyAsked, ghosts, Counts, Good, server
<1> QED
  BY <1>1, <1>2, <1>3 DEF LookUp, Fault, IInv, TypeOK

LEMMA ValidateKeeps ==
    ASSUME IInv, Validate
    PROVE  IInv'
<1> DEFINE new == Started(ui)
           call == [NoEnq EXCEPT !.agent = ui.view]
<1>1. /\ new \in UiType /\ new.job = NoJob /\ new.validating /\ ~new.cancelReq
      /\ new.owner = ui.view /\ ui.view \in Agents /\ ui.job = NoJob
  BY DEF IInv, TypeOK, UiType, Started, Validate, RunLocked
<1>2. /\ call \in EnqType /\ ~call.asked /\ call # NoEnq /\ call.agent = ui.view /\ call.job = NoJob
  BY <1>1, JobNumbers DEF NoEnq, EnqType
<1>3. Good(new, call)
  BY <1>1, <1>2 DEF Good
<1> HIDE DEF new, call
<1> QED
  BY <1>1, <1>2, <1>3, LoopKept, CommitStep
     DEF Validate, new, call, IInv, TypeOK, CancelOnlyAsked, ghosts, Counts

LEMMA StoppedFacts ==
    ASSUME NEW u \in UiType
    PROVE  /\ Stopped(u) \in UiType /\ ~Stopped(u).validating /\ Stopped(u).owner = NoAgent
           /\ Stopped(u).job = u.job
  BY DEF UiType, Stopped

LEMMA ValidateRefusedKeeps ==
    ASSUME IInv, ValidateRefused
    PROVE  IInv'
<1> DEFINE new == Stopped(Started(ui))
<1>1. Started(ui) \in UiType /\ Started(ui).job = ui.job /\ ui.job = NoJob /\ enq = NoEnq
  BY DEF IInv, TypeOK, Busy, UiType, Started, ValidateRefused, RunLocked
<1>2. Good(new, enq)
  BY <1>1, StoppedFacts DEF Good, NoEnq
<1> QED
  BY <1>1, <1>2, StoppedFacts, LoopKept, CommitStep
     DEF ValidateRefused, IInv, TypeOK, CancelOnlyAsked, ghosts, Counts

LEMMA EnqueueFailsKeeps ==
    ASSUME IInv, EnqueueFails
    PROVE  IInv'
<1>1. PICK limited \in BOOLEAN : Commit([Stopped(ui) EXCEPT !.cooling = limited], loop)
  BY DEF EnqueueFails
<1> DEFINE new == [Stopped(ui) EXCEPT !.cooling = limited]
<1>2. ui \in UiType /\ ui.job = NoJob
  BY DEF IInv, TypeOK, Busy, EnqueueFails, Waiting
<1>3. new \in UiType /\ ~new.validating /\ new.owner = NoAgent /\ new.job = ui.job
  BY <1>2, StoppedFacts DEF UiType
<1>4. NoEnq \in EnqType /\ Good(new, NoEnq)
  BY <1>2, <1>3, JobNumbers DEF Good, NoEnq, EnqType
<1> QED
  BY <1>1, <1>3, <1>4, LoopKept, CommitStep
     DEF EnqueueFails, Fault, IInv, TypeOK, CancelOnlyAsked, ghosts, Counts

LEMMA CooldownEndsKeeps ==
    ASSUME IInv, CooldownEnds
    PROVE  IInv'
<1> DEFINE new == [ui EXCEPT !.cooling = FALSE]
<1>1. new \in UiType
  BY DEF IInv, TypeOK, UiType
<1>2. Good(new, enq) /\ new.job = ui.job
  BY NowGood DEF Good, IInv, TypeOK, UiType
<1> QED
  BY <1>1, <1>2, LoopKept, CommitStep
     DEF CooldownEnds, IInv, TypeOK, CancelOnlyAsked, ghosts, Counts

LEMMA EnqueueReplyKeeps ==
    ASSUME IInv, EnqueueReply
    PROVE  IInv'
<1>1. PICK s \in {FALSE, enq.job \in started} :
         Commit([ui EXCEPT !.job = enq.job, !.cancelLocked = s], loop)
  BY DEF EnqueueReply
<1>2. \E locked \in BOOLEAN : Commit([ui EXCEPT !.job = enq.job, !.cancelLocked = locked], loop)
  <2>1. (enq.job \in started) = TRUE \/ (enq.job \in started) = FALSE
    OBVIOUS
  <2> QED BY <1>1, <2>1
<1>3. PICK locked \in BOOLEAN :
         Commit([ui EXCEPT !.job = enq.job, !.cancelLocked = locked], loop)
  BY <1>2
<1> DEFINE new == [ui EXCEPT !.job = enq.job, !.cancelLocked = locked]
<1>4. enq # NoEnq /\ enq.job \in Jobs /\ ui.validating /\ ui.job = NoJob /\ enq.agent = ui.owner
         /\ ui.owner # NoAgent
  BY DEF EnqueueReply, NoEnq, IInv, Busy, TypeOK, EnqType, JobOrNone
<1>5. new \in UiType /\ new.job = enq.job /\ new.owner = ui.owner /\ new.validating
  BY <1>4, JobNumbers DEF IInv, TypeOK, UiType
<1>6. NoEnq \in EnqType /\ Good(new, NoEnq)
  BY <1>4, <1>5, JobNumbers DEF Good, NoEnq, EnqType, IInv, Announced, Origin
<1>7. unasked' = {}
  BY <1>4 DEF EnqueueReply, IInv, Origin, CancelOnlyAsked
<1>8. cancels' \in SUBSET Jobs
  BY <1>4 DEF EnqueueReply, IInv, TypeOK
<1> HIDE DEF new
<1> QED
  BY <1>3, <1>4, <1>5, <1>6, <1>7, <1>8, LoopKept, JobNumbers, CommitStep
     DEF EnqueueReply, new, IInv, TypeOK, Counts

LEMMA ClickCancelKeeps ==
    ASSUME IInv, ClickCancel
    PROVE  IInv'
<1>1. Remember \in UiType /\ Remember.cancelReq /\ Remember.job = ui.job /\ Remember.owner = ui.owner
        /\ Remember.validating = ui.validating
  BY DEF Remember, IInv, TypeOK, UiType
<1>2. enq' \in EnqType /\ enq'.agent = enq.agent /\ enq'.job = enq.job
        /\ (enq' = NoEnq <=> enq = NoEnq) /\ (enq' # NoEnq => enq'.asked)
  <2>1. enq # NoEnq => enq' \in EnqType /\ enq'.asked /\ enq'.agent = enq.agent /\ enq'.job = enq.job
    BY DEF ClickCancel, IInv, TypeOK, EnqType
  <2>2. enq = NoEnq => enq' = NoEnq
    BY DEF ClickCancel
  <2>3. ~NoEnq.asked /\ enq \in EnqType
    BY DEF NoEnq, IInv, TypeOK
  <2>4. CASE enq = NoEnq
    BY <2>2, <2>3, <2>4
  <2>5. CASE enq # NoEnq
    BY <2>1, <2>3, <2>5
  <2> QED BY <2>4, <2>5
<1>3. Good(Remember, enq')
  BY <1>1, <1>2, NowGood DEF Good
<1>4. cancels' \in SUBSET Jobs
  BY JobNumbers DEF ClickCancel, CancelKnown, IInv, TypeOK, UiType, JobOrNone
<1> QED
  BY <1>1, <1>2, <1>3, <1>4, LoopKept, CommitStep
     DEF ClickCancel, IInv, TypeOK, CancelOnlyAsked, ghosts, Counts

LEMMA CancelFailsKeeps ==
    ASSUME IInv, NEW j \in Jobs, CancelFails(j)
    PROVE  IInv'
<1>1. Hangs(ui')
  BY DEF CancelFails, Hangs, IInv, TypeOK, Busy, Loops, Lates, Lookups, UiType
<1> QED
  BY <1>1, NowGood, PageStep
     DEF CancelFails, Fault, IInv, TypeOK, CancelOnlyAsked, ghosts, Counts, Good, server

-----------------------------------------------------------------------------
(***************************************************************************)
(* Following a run.                                                        *)
(***************************************************************************)

(* A loop that sleeps or asks is a loop.                                   *)
LEMMA LoopStep ==
    ASSUME IInv, loop.pc # "off", NEW pc \in {"idle", "poll", "final"},
           loop' = [loop EXCEPT !.pc = pc], Counts,
           UNCHANGED <<server, ui, stored, late, lookup, enq, cancels, shown, filed, ghosts>>
    PROVE  IInv'
<1>1. Hangs(ui')
  BY DEF Hangs, IInv, TypeOK, Busy, Loops, Lates, Lookups, UiType
<1> QED
  BY <1>1, NowGood, PageStep
     DEF IInv, TypeOK, CancelOnlyAsked, ghosts, Good, server

LEMMA FlagsFacts ==
    ASSUME NEW u \in UiType, NEW s, NEW c
    PROVE  /\ Flags(u, s, c) \in UiType
           /\ Flags(u, s, c).job = u.job /\ Flags(u, s, c).owner = u.owner
           /\ Flags(u, s, c).validating = u.validating /\ Flags(u, s, c).view = u.view
           /\ Flags(u, s, c).visible = u.visible
           /\ ~c => Flags(u, s, c).cancelReq = u.cancelReq
           /\ u.cancelReq => Flags(u, s, c).cancelReq
<1>1. /\ (u.cancelLocked \/ s) = TRUE \/ (u.cancelLocked \/ s) = FALSE
      /\ (u.cancelReq \/ c) = TRUE \/ (u.cancelReq \/ c) = FALSE
  OBVIOUS
<1>2. /\ u.cancelReq \in BOOLEAN /\ (~c => (u.cancelReq \/ c) = u.cancelReq)
      /\ u.cancelReq => (u.cancelReq \/ c) = TRUE
  BY DEF UiType
<1>3. PICK locked \in BOOLEAN, req \in BOOLEAN :
         /\ Flags(u, s, c) = [u EXCEPT !.cancelLocked = locked, !.cancelReq = req]
         /\ ~c => req = u.cancelReq
         /\ u.cancelReq => req
  BY <1>1, <1>2 DEF Flags
<1> QED
  BY <1>3 DEF UiType

LEMMA SeenGood ==
    ASSUME IInv, ui.job # NoJob
    PROVE  Seen(ui) \in UiType /\ Seen(ui).job = ui.job /\ Good(Seen(ui), enq) /\ enq = NoEnq
<1>1. ui \in UiType /\ enq = NoEnq
  BY DEF IInv, TypeOK, Busy
<1> QED
  BY <1>1, NowGood, FlagsFacts DEF Seen, Good

LEMMA PollAnswerKeeps ==
    ASSUME IInv, PollAnswer
    PROVE  IInv'
<1> DEFINE rest == [loop EXCEPT !.pc = IF Over(ui.job) THEN "final" ELSE "idle"]
<1>1. ui.job # NoJob
  BY DEF PollAnswer, IInv, Busy
<1>2. rest \in Loops /\ rest.pc # "off"
  BY DEF IInv, TypeOK, Loops
<1> HIDE DEF rest
<1> QED
  BY <1>1, <1>2, SeenGood, CommitStep
     DEF PollAnswer, rest, IInv, TypeOK, CancelOnlyAsked, ghosts, Counts

LEMMA EventKeeps ==
    ASSUME IInv, Event
    PROVE  IInv'
<1>1. ui.job # NoJob
  BY DEF Event, IInv, Busy
<1>2. PICK hint \in BOOLEAN : [loop EXCEPT !.hint = @ \/ Over(ui.job)] = [loop EXCEPT !.hint = hint]
  <2>1. (loop.hint \/ Over(ui.job)) = TRUE \/ (loop.hint \/ Over(ui.job)) = FALSE
    OBVIOUS
  <2> QED BY <2>1
<1>3. [loop EXCEPT !.hint = hint] \in Loops /\ [loop EXCEPT !.hint = hint].pc # "off"
  BY DEF Event, IInv, TypeOK, Loops
<1> QED
  BY <1>1, <1>2, <1>3, SeenGood, CommitStep
     DEF Event, IInv, TypeOK, CancelOnlyAsked, ghosts, Counts

LEMMA PollRefusedKeeps ==
    ASSUME IInv, PollRefused
    PROVE  IInv'
<1>1. PICK gone \in BOOLEAN :
         Commit([Stopped(ui) EXCEPT !.job = NoJob, !.cancelReq = @ /\ ~gone], NoLoop)
  BY DEF PollRefused
<1>2. PICK req \in BOOLEAN : Commit([Stopped(ui) EXCEPT !.job = NoJob, !.cancelReq = req], NoLoop)
  <2>1. (Stopped(ui).cancelReq /\ ~gone) = TRUE \/ (Stopped(ui).cancelReq /\ ~gone) = FALSE
    OBVIOUS
  <2>2. \E req \in BOOLEAN : [Stopped(ui) EXCEPT !.job = NoJob, !.cancelReq = @ /\ ~gone]
                               = [Stopped(ui) EXCEPT !.job = NoJob, !.cancelReq = req]
    BY <2>1
  <2> QED BY <1>1, <2>2
<1> DEFINE new == [Stopped(ui) EXCEPT !.job = NoJob, !.cancelReq = req]
<1>3. ui.job # NoJob /\ enq = NoEnq /\ ui \in UiType
  BY DEF PollRefused, IInv, Busy, TypeOK
<1>4. new \in UiType /\ new.job = NoJob /\ ~new.validating /\ new.owner = NoAgent
  BY <1>3, StoppedFacts, JobNumbers DEF UiType
<1>5. Good(new, enq) /\ NoLoop \in Loops /\ NoLoop.pc = "off"
  BY <1>3, <1>4 DEF Good, NoEnq, NoLoop, Loops
<1>6. Commit(new, NoLoop)
  BY <1>2
<1> HIDE DEF new
<1> QED
  BY <1>3, <1>4, <1>5, <1>6, CommitStep
     DEF PollRefused, Fault, IInv, TypeOK, CancelOnlyAsked, ghosts, Counts

LEMMA FinalizeKeeps ==
    ASSUME IInv, Finalize
    PROVE  IInv'
<1> DEFINE new == [Stopped(ui) EXCEPT !.job = NoJob, !.cancelReq = FALSE, !.cancelLocked = FALSE]
<1>1. /\ ui.job # NoJob /\ ui.job \in Jobs /\ enq = NoEnq /\ ui \in UiType
      /\ ui.owner \in Agents /\ shown[ui.job] = 0
      /\ agentOf[ui.job] = ui.owner \/ ui.job \in reused
  BY DEF Finalize, IInv, Busy, Announced, Origin, TypeOK, UiType, JobOrNone
<1>2. new \in UiType /\ new.job = NoJob /\ ~new.validating /\ new.owner = NoAgent
  BY <1>1, StoppedFacts, JobNumbers DEF UiType
<1>3. ui' = new /\ Hangs(new)
  BY <1>1, <1>2, CommitHangs DEF Finalize, IInv, NoLoop, Loops
<1> HIDE DEF new
<1>4. TypeOK'
  <2>1. shown' \in [Jobs -> Nat] /\ filed' \in [Agents -> SUBSET Jobs]
    BY <1>1 DEF Finalize, IInv, TypeOK, Owner
  <2> QED BY <1>2, <1>3, <2>1 DEF Finalize, IInv, TypeOK, Hangs, Loops, Lates, Lookups, server, ghosts
<1>5. Busy'
  BY <1>1, <1>2, <1>3 DEF Busy, Hangs, Finalize
<1>6. Announced' /\ AnnouncedOnce'
  BY <1>1, <1>2, <1>3 DEF Finalize, IInv, Announced, AnnouncedOnce, TypeOK, NoEnq, server, Over
<1>7. Origin'
  BY <1>1, <1>2, <1>3 DEF Finalize, IInv, Origin, NoEnq, server, ghosts
<1>8. FiledUnderAgent' /\ CancelOnlyAsked'
  <2>1. \A a \in Agents : \A j \in filed'[a] : j \in filed[a] \/ (j = ui.job /\ a = ui.owner)
    BY <1>1 DEF Finalize, IInv, TypeOK, Owner
  <2> QED BY <1>1, <2>1 DEF Finalize, IInv, FiledUnderAgent, CancelOnlyAsked, server, ghosts
<1> QED
  BY <1>4, <1>5, <1>6, <1>7, <1>8 DEF IInv

LEMMA LateReplyKeeps ==
    ASSUME IInv, NEW r \in late, LateReply(r)
    PROVE  IInv'
<1>1. PICK s, c, again :
         LET asks == again /\ r.pc = "poll"
             cancel == c /\ r.pc = "poll"
         IN /\ ui' = Flags(ui, s, cancel)
            /\ late' = (late \ {r}) \cup (IF asks THEN {[r EXCEPT !.pc = "final"]} ELSE {})
            /\ enq' = IF enq # NoEnq /\ cancel /\ ~ui.cancelReq
                      THEN [enq EXCEPT !.misled = TRUE] ELSE enq
  BY DEF LateReply
<1>2. ui \in UiType /\ r \in Lates /\ enq \in EnqType
  BY DEF IInv, TypeOK, Lates
<1>3. /\ ui' \in UiType /\ ui'.job = ui.job /\ ui'.owner = ui.owner
      /\ ui'.validating = ui.validating /\ ui'.view = ui.view
      /\ ~(c /\ r.pc = "poll") => ui'.cancelReq = ui.cancelReq
      /\ ui.cancelReq => ui'.cancelReq
  <2> DEFINE cancel == c /\ r.pc = "poll"
  <2>1. ui' = Flags(ui, s, cancel)
    BY <1>1
  <2> HIDE DEF cancel
  <2>2. /\ ui' \in UiType /\ ui'.job = ui.job /\ ui'.owner = ui.owner
        /\ ui'.validating = ui.validating /\ ui'.view = ui.view
        /\ ~cancel => ui'.cancelReq = ui.cancelReq
        /\ ui.cancelReq => ui'.cancelReq
    BY <1>2, <2>1, FlagsFacts
  <2> QED BY <2>2 DEF cancel
<1>4. late' \in SUBSET Lates
  <2>1. [r EXCEPT !.pc = "final"] \in Lates
    BY <1>2 DEF Lates
  <2> QED BY <1>1, <2>1 DEF IInv, TypeOK, Lates
<1>5. /\ enq' \in EnqType /\ enq'.agent = enq.agent /\ enq'.job = enq.job
      /\ enq'.asked = enq.asked /\ (enq.misled => enq'.misled)
      /\ enq = NoEnq => enq' = NoEnq
  BY <1>1, <1>2 DEF EnqType
<1>6. enq' = NoEnq => enq = NoEnq
  <2> SUFFICES ASSUME enq # NoEnq PROVE enq' # NoEnq
    OBVIOUS
  <2>1. enq.agent # NoAgent
    BY DEF IInv, Busy
  <2> QED BY <1>5, <2>1 DEF NoEnq
<1>7. enq' # NoEnq => (ui'.cancelReq => enq'.asked \/ enq'.misled)
  <2> SUFFICES ASSUME enq # NoEnq, ui'.cancelReq PROVE enq'.asked \/ enq'.misled
    BY <1>5
  <2>1. CASE ui.cancelReq
    BY <1>5, <2>1 DEF IInv, Origin
  <2>2. CASE ~ui.cancelReq
    <3>1. c /\ r.pc = "poll"
      BY <1>3, <2>2
    <3> QED BY <1>1, <1>2, <2>2, <3>1 DEF EnqType
  <2> QED BY <2>1, <2>2
<1>8. Good(ui', enq')
  BY <1>3, <1>5, <1>6, <1>7, NowGood DEF Good
<1>9. Hangs(ui')
  BY <1>3, <1>4 DEF LateReply, Hangs, IInv, TypeOK, Busy, Loops, Lookups, UiType
<1> QED
  BY <1>3, <1>5, <1>8, <1>9, PageStep
     DEF LateReply, IInv, TypeOK, CancelOnlyAsked, ghosts, Counts

-----------------------------------------------------------------------------
(***************************************************************************)
(* The theorems.                                                           *)
(***************************************************************************)

LEMMA InitIInv == Init => IInv
<1> SUFFICES ASSUME Init PROVE IInv
  OBVIOUS
<1>1. PICK a \in Agents : ui = Fresh(a) /\ lookup = [agent |-> a, job |-> NoJob]
  BY DEF Init
<1>2. TypeOK
  BY <1>1, JobNumbers
     DEF Init, TypeOK, Server!Init, Server!Phases, Fresh, UiType, NoLoop, NoEnq, EnqType
<1>3. Busy
  BY <1>1 DEF Init, Busy, Fresh, NoLoop, NoEnq, NoLookup
<1>4. Announced /\ AnnouncedOnce /\ FiledUnderAgent /\ CancelOnlyAsked
  BY <1>1 DEF Init, Announced, AnnouncedOnce, FiledUnderAgent, CancelOnlyAsked, Fresh, NoEnq
<1>5. Origin
  BY <1>1 DEF Init, Origin, Server!Init, Fresh, NoEnq
<1> QED
  BY <1>2, <1>3, <1>4, <1>5 DEF IInv

LEMMA NextIInv == IInv /\ [Next]_vars => IInv'
<1> SUFFICES ASSUME IInv, [Next]_vars PROVE IInv'
  OBVIOUS
<1>1. CASE ServerStep
  BY <1>1, BeginKeeps, FinishKeeps, OverwriteKeeps, OtherTabCancelsKeeps DEF ServerStep
<1>2. CASE User
  BY <1>2, ViewKeeps, ReloadKeeps, OtherTabRunsKeeps, ToggleKeeps, ValidateKeeps,
     ValidateRefusedKeeps, ClickCancelKeeps DEF User
<1>3. CASE Enqueueing
  BY <1>3, ServeEnqueueKeeps, EnqueueFailsKeeps, EnqueueReplyKeeps DEF Enqueueing
<1>4. CASE Following
  <2>1. CASE Poll
    BY <2>1, LoopStep DEF Poll, Counts, IInv, TypeOK
  <2>2. CASE PollBusy
    BY <2>2, LoopStep DEF PollBusy, Fault, Counts, IInv, TypeOK
  <2> QED
    BY <1>4, <2>1, <2>2, PollAnswerKeeps, PollRefusedKeeps, FinalizeKeeps DEF Following
<1>5. CASE Canceling
  BY <1>5, CancelArrivesKeeps, CancelFailsKeeps DEF Canceling
<1>6. CASE LookUp \/ CooldownEnds \/ Event \/ \E r \in late : LateReply(r)
  BY <1>6, LookUpKeeps, CooldownEndsKeeps, EventKeeps, LateReplyKeeps
<1>7. CASE UNCHANGED vars
  <2>1. TypeOK'
    BY <1>7 DEF vars, server, ghosts, IInv, TypeOK
  <2>2. Busy' /\ Announced' /\ Origin'
    BY <1>7 DEF vars, server, ghosts, IInv, Busy, Announced, Origin, Over
  <2>3. AnnouncedOnce' /\ FiledUnderAgent' /\ CancelOnlyAsked'
    BY <1>7 DEF vars, server, ghosts, IInv, AnnouncedOnce, FiledUnderAgent, CancelOnlyAsked
  <2> QED BY <2>1, <2>2, <2>3 DEF IInv
<1> QED
  BY <1>1, <1>2, <1>3, <1>4, <1>5, <1>6, <1>7 DEF Next

(* The invariant is inductive: the page is busy with one thing, a run that *)
(* is still followed was not announced, and the run followed is the one of *)
(* its owner or one validate-async returned although another had it.       *)
THEOREM Invariant == Spec => []IInv
<1> QED
  BY InitIInv, NextIInv, PTL DEF Spec

(* The end of a run is announced once, whatever loops, events, lookups and *)
(* late answers there are of it (finalize in useReleaseGateValidateRun).   *)
THEOREM AnnouncesOnce == Spec => []AnnouncedOnce
<1>1. IInv => AnnouncedOnce
  BY DEF IInv
<1> QED
  BY <1>1, Invariant, PTL

(* A result is filed under the agent whose run it is, unless the server    *)
(* answered a new run with one that was already active.                    *)
THEOREM FilesUnderAgent == Spec => []FiledUnderAgent
<1>1. IInv => FiledUnderAgent
  BY DEF IInv
<1> QED
  BY <1>1, Invariant, PTL

(* The page cancels only what its user asked to cancel, or a run enqueued  *)
(* while the answer to a replaced loop had raised the flag.                *)
THEOREM CancelsOnlyAsked == Spec => []CancelOnlyAsked
<1>1. IInv => CancelOnlyAsked
  BY DEF IInv
<1> QED
  BY <1>1, Invariant, PTL

(* The page lets go of a run only when it is over, a call was refused, or  *)
(* the page was reloaded: the end of another loop, run or lookup does not  *)
(* touch it.                                                               *)
THEOREM LetsGoOnlyWhenOver == Spec => LetGoOnlyWhenOver
<1> DEFINE Kept == (ui.job # NoJob /\ ui'.job # ui.job)
                     => ui'.job = NoJob /\ (Over(ui.job) \/ faults' > faults \/ turns' > turns)
<1>1. IInv /\ [Next]_vars => [Kept]_vars
  <2> SUFFICES ASSUME IInv, Next, ui.job # NoJob, ui'.job # ui.job
               PROVE  ui'.job = NoJob /\ (Over(ui.job) \/ faults' > faults \/ turns' > turns)
    BY DEF vars
  <2>1. /\ ui \in UiType /\ ui.validating /\ enq = NoEnq /\ lookup = NoLookup
        /\ faults \in Nat /\ turns \in Nat
    BY DEF IInv, TypeOK, Busy
  <2>2. ~ServerStep /\ ~Canceling
    BY DEF ServerStep, Begin, Finish, Overwrite, OtherTabCancels, Canceling, CancelArrives,
       CancelFails, page
  <2>3. CASE User
    <3>1. PICK a \in Agents : Reload(a)
      BY <2>1, <2>3 DEF User, View, OtherTabRuns, Toggle, Validate, ValidateRefused, RunLocked,
         ClickCancel, Remember, Commit, UiType, page
    <3> QED BY <2>1, <3>1 DEF Reload, Turn, Fresh
  <2>4. ~Enqueueing
    BY <2>1 DEF Enqueueing, ServeEnqueue, EnqueueFails, EnqueueReply, Waiting, NoEnq
  <2>5. CASE Following
    <3>1. CASE PollRefused
      <4>1. ui'.job = NoJob
        BY <2>1, <3>1, StoppedFacts, JobNumbers DEF PollRefused, Commit, UiType
      <4> QED BY <2>1, <3>1, <4>1 DEF PollRefused, Fault
    <3>2. CASE Finalize
      BY <2>1, <3>2, StoppedFacts, JobNumbers DEF Finalize, Commit, UiType
    <3> QED
      BY <2>1, <2>5, <3>1, <3>2, SeenGood DEF Following, Poll, PollAnswer, PollBusy, Commit
  <2>6. ~LookUp /\ ~CooldownEnds /\ ~Event
    BY <2>1, SeenGood DEF LookUp, CooldownEnds, Event, Commit, UiType
  <2>7. ~\E r \in late : LateReply(r)
    <3> SUFFICES ASSUME NEW r \in late, LateReply(r) PROVE FALSE
      OBVIOUS
    <3>1. PICK s, c, again : ui' = Flags(ui, s, c /\ r.pc = "poll")
      BY DEF LateReply
    <3> DEFINE cancel == c /\ r.pc = "poll"
    <3>2. ui' = Flags(ui, s, cancel)
      BY <3>1
    <3> HIDE DEF cancel
    <3> QED BY <2>1, <3>2, FlagsFacts
  <2> QED
    BY <2>2, <2>3, <2>4, <2>5, <2>6, <2>7 DEF Next
<1> QED
  BY <1>1, Invariant, PTL DEF Spec, LetGoOnlyWhenOver

(* A cancel made before the run had an id is sent as soon as the page knows*)
(* which run it follows (the end of handleValidate).                       *)
THEOREM SendsAsked == Spec => AskedIsSent
<1> DEFINE Sent == (enq.asked /\ ui'.job # NoJob) => ui'.job \in cancels'
<1>1. IInv /\ [Next]_vars => [Sent]_vars
  <2> SUFFICES ASSUME IInv, Next, enq.asked, ui'.job # NoJob
               PROVE  ui'.job \in cancels'
    BY DEF vars
  <2>1. enq # NoEnq
    BY DEF NoEnq
  <2>2. /\ ui \in UiType /\ ui.validating /\ ui.job = NoJob /\ lookup = NoLookup /\ loop.pc = "off"
        /\ ui.cancelReq
    BY <2>1 DEF IInv, TypeOK, Busy, Origin
  <2>3. ~ServerStep /\ ~Canceling
    BY <2>2 DEF ServerStep, Begin, Finish, Overwrite, OtherTabCancels, Canceling, CancelArrives,
       CancelFails, page
  <2>4. ~User
    <3>1. \A a \in Agents : ~View(a) /\ ~OtherTabRuns(a) /\ ~Reload(a)
      BY <2>2 DEF View, OtherTabRuns, Reload, Fresh, Commit, UiType, page
    <3>2. ~Toggle
      BY <2>2 DEF Toggle, Commit, UiType
    <3>3. ~Validate /\ ~ValidateRefused /\ ~ClickCancel
      BY <2>2 DEF Validate, ValidateRefused, RunLocked, ClickCancel
    <3> QED BY <3>1, <3>2, <3>3 DEF User
  <2>5. CASE Enqueueing
    <3>1. ~EnqueueFails /\ ~ServeEnqueue
      <4>1. ~ServeEnqueue
        BY <2>2 DEF ServeEnqueue
      <4>2. ASSUME EnqueueFails PROVE FALSE
        <5>1. PICK limited \in BOOLEAN : ui' = [Stopped(ui) EXCEPT !.cooling = limited]
          BY <4>2 DEF EnqueueFails, Commit
        <5> QED BY <2>2, <5>1, StoppedFacts DEF UiType
      <4> QED BY <4>1, <4>2
    <3>2. EnqueueReply
      BY <2>5, <3>1 DEF Enqueueing
    <3>3. PICK s : ui' = [ui EXCEPT !.job = enq.job, !.cancelLocked = s]
      BY <3>2 DEF EnqueueReply, Commit
    <3> QED BY <2>2, <3>2, <3>3 DEF EnqueueReply, UiType
  <2>6. ~Following
    BY <2>2 DEF Following, Poll, PollAnswer, PollBusy, PollRefused, Finalize
  <2>7. ~LookUp /\ ~CooldownEnds /\ ~Event
    BY <2>2 DEF LookUp, CooldownEnds, Event, Commit, UiType
  <2>8. ASSUME NEW r \in late, LateReply(r) PROVE FALSE
    <3>1. PICK s, c, again : ui' = Flags(ui, s, c /\ r.pc = "poll")
      BY <2>8 DEF LateReply
    <3> DEFINE cancel == c /\ r.pc = "poll"
    <3>2. ui' = Flags(ui, s, cancel)
      BY <3>1
    <3> HIDE DEF cancel
    <3> QED BY <2>2, <3>2, FlagsFacts
  <2> QED
    BY <2>3, <2>4, <2>5, <2>6, <2>7, <2>8 DEF Next
<1> QED
  BY <1>1, Invariant, PTL DEF Spec, AskedIsSent

-----------------------------------------------------------------------------
(***************************************************************************)
(* The server the page talks to.                                           *)
(***************************************************************************)

(* Every other step is the page's own.                                     *)
LEMMA ServerAlone ==
    ASSUME Next PROVE ServerStep \/ (\E a \in Agents : OtherTabRuns(a)) \/ ServeEnqueue
                      \/ (\E j \in Jobs : CancelArrives(j)) \/ UNCHANGED server
<1>1. CASE User
  BY <1>1 DEF User, View, Toggle, Reload, Validate, ValidateRefused, ClickCancel
<1>2. CASE Enqueueing
  BY <1>2 DEF Enqueueing, EnqueueFails, EnqueueReply
<1>3. CASE Following
  BY <1>3 DEF Following, Poll, PollAnswer, PollBusy, PollRefused, Finalize
<1>4. CASE Canceling
  BY <1>4 DEF Canceling, CancelFails
<1>5. CASE LookUp \/ CooldownEnds \/ Event \/ \E r \in late : LateReply(r)
  BY <1>5 DEF LookUp, CooldownEnds, Event, LateReply
<1> QED
  BY <1>1, <1>2, <1>3, <1>4, <1>5 DEF Next

(* What a step does to the jobs: a step of the contract, under which no    *)
(* flag of a job goes back.                                                *)
Onward == \A j \in Jobs : /\ Over(j) => Over(j)'
                          /\ creq[j] => creq'[j]
                          /\ j \in started => j \in started'

LEMMA CreatesOnward ==
    ASSUME TypeOK, NEW j \in Jobs, NEW a, Create(j, a)
    PROVE  Server!Next /\ Onward
<1>1. Server!Submit(j) /\ started' = started
  BY DEF Create
<1> QED
  BY <1>1 DEF Server!Next, Server!Submit, TypeOK, Onward, Over

LEMMA CancelsOnward ==
    ASSUME TypeOK, NEW j \in Jobs, CancelOnServer(j), started' = started
    PROVE  [Server!Next]_(Server!vars) /\ Onward
<1>1. CASE phase[j] = "queued"
  BY <1>1 DEF CancelOnServer, Server!Next, Server!Cancel, TypeOK, Onward, Over
<1>2. CASE Server!Ask(j)
  BY <1>2 DEF Server!Next, Server!Ask, TypeOK, Onward, Over
<1>3. CASE UNCHANGED <<phase, creq>>
  BY <1>3 DEF Server!vars, Onward, Over
<1> QED
  BY <1>1, <1>2, <1>3 DEF CancelOnServer

LEMMA ServesOnward ==
    ASSUME TypeOK, [Next]_vars PROVE [Server!Next]_(Server!vars) /\ Onward
<1>1. CASE UNCHANGED server
  BY <1>1 DEF server, Server!vars, Onward, Over
<1>2. ASSUME NEW j \in Jobs, Begin(j)
      PROVE  [Server!Next]_(Server!vars) /\ Onward
  BY <1>2 DEF Begin, Server!Next, Server!Start, TypeOK, Onward, Over
<1>3. ASSUME NEW j \in Jobs, Finish(j)
      PROVE  [Server!Next]_(Server!vars) /\ Onward
  <2>1. CASE Server!Succeed(j)
    BY <1>3, <2>1 DEF Finish, Server!Next, Server!Succeed, TypeOK, Onward, Over
  <2>2. CASE phase[j] = "running" /\ Server!Fail(j)
    BY <1>3, <2>2 DEF Finish, Server!Next, Server!Fail, TypeOK, Onward, Over
  <2>3. CASE phase[j] = "running" /\ creq[j] /\ Server!Cancel(j)
    BY <1>3, <2>3 DEF Finish, Server!Next, Server!Cancel, TypeOK, Onward, Over
  <2> QED
    BY <1>3, <2>1, <2>2, <2>3 DEF Finish
<1>4. ASSUME NEW j \in Jobs, Overwrite(j)
      PROVE  [Server!Next]_(Server!vars) /\ Onward
  <2>1. CASE Server!Fail(j)
    BY <1>4, <2>1 DEF Overwrite, Server!Next, Server!Fail, TypeOK, Onward, Over
  <2>2. CASE creq[j] /\ Server!Cancel(j)
    BY <1>4, <2>2 DEF Overwrite, Server!Next, Server!Cancel, TypeOK, Onward, Over
  <2> QED
    BY <1>4, <2>1, <2>2 DEF Overwrite
<1>5. ASSUME NEW j \in Jobs, OtherTabCancels(j) \/ CancelArrives(j)
      PROVE  [Server!Next]_(Server!vars) /\ Onward
  BY <1>5, CancelsOnward DEF OtherTabCancels, CancelArrives
<1>6. ASSUME NEW a \in Agents, OtherTabRuns(a)
      PROVE  [Server!Next]_(Server!vars) /\ Onward
  BY <1>6, CreatesOnward DEF OtherTabRuns
<1>7. CASE ServeEnqueue
  <2>1. UNCHANGED server \/ \E j \in Jobs : Create(j, enq.agent)
    BY <1>7 DEF ServeEnqueue
  <2>2. ASSUME NEW j \in Jobs, Create(j, enq.agent) PROVE Server!Next /\ Onward
    BY <2>2, CreatesOnward
  <2> QED
    BY <1>1, <2>1, <2>2
<1> QED
  <2>1. CASE UNCHANGED vars
    BY <1>1, <2>1 DEF vars
  <2>2. CASE Next
    BY <1>1, <1>2, <1>3, <1>5, <1>6, <1>7, <1>4, <2>2, ServerAlone DEF ServerStep
  <2> QED BY <2>1, <2>2

(* The jobs the page starts, follows and cancels, with those of other tabs *)
(* and the runners among them, are the jobs ReleaseGateJobs implements:    *)
(* whatever the page does, the server's side is a behaviour of the         *)
(* contract (validate-async, the cancel endpoint and the runner).          *)
THEOREM ServerKeepsContract == Spec => Server!Spec
<1>1. Init => Server!Init
  BY DEF Init
<1>2. IInv => TypeOK
  BY DEF IInv
<1> QED
  BY <1>1, <1>2, ServesOnward, Invariant, PTL DEF Spec, Server!Spec

(* What an answer says of a run stays true while the answer is on its way: *)
(* a run that is over stays over, a cancel that was asked for stays asked, *)
(* a run that started has started.  So an answer that comes late says less *)
(* than the newest one, and never something else (the poll loop and the    *)
(* event stream of useReleaseGateValidateRun).                             *)
THEOREM FlagsNeverGoBack == Spec => [][Onward]_vars
<1>1. IInv => TypeOK
  BY DEF IInv
<1> QED
  BY <1>1, ServesOnward, Invariant, PTL DEF Spec
=============================================================================
