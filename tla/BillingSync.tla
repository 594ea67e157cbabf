---------------------------- MODULE BillingSync ----------------------------
(***************************************************************************)
(* How the subscription of a user follows the payment provider: the        *)
(* webhook handler with its event log, idempotency cache and dead letters, *)
(* the operator's retry, the reconciliation, the change of plan, and the   *)
(* entitlement snapshot computed from the subscription row.                *)
(*                                                                         *)
(* One user, one provider subscription.  The provider's changes are        *)
(* numbered; change number e is announced by event e, whose date is e.     *)
(* The provider delivers an event again until it is answered, in any       *)
(* order, and may deliver it again after that.  A database session keeps   *)
(* the row it loaded, decides from it, and writes the columns that differ  *)
(* from it: session[x].seen is that row.                                   *)
(***************************************************************************)
EXTENDS Naturals

CONSTANTS
    Sessions,       \* requests and scheduled jobs that can be in progress
    Plans,          \* paid plans
    Free,           \* the free plan
    Unmapped,       \* plans whose price id the settings do not know at first
    MaxEvents,      \* bound: changes of the subscription at the provider
    MaxFaults       \* bound: exceptions, crashes and lost dead letters

ASSUME ConstantsOK ==
    /\ Free \notin Plans
    /\ Unmapped \subseteq Plans
    /\ MaxEvents \in Nat
    /\ MaxFaults \in Nat

VARIABLES
    issued,       \* changes made at the provider so far
    event,        \* event[e]: what change e made the subscription, from event[0]
    sub,          \* the row of the subscriptions table
    entitlement,  \* the latest entitlement snapshot
    record,       \* record[e]: processing_status of event e in billing_events
    cached,       \* events the idempotency cache holds
    dead,         \* events the dead-letter store holds
    answered,     \* events whose delivery has been answered
    settled,      \* events that were applied or found older than the row
    priced,       \* plans whose price id the settings know
    session,      \* session[x]: the request or job x is serving
    faults        \* faults that have happened

vars == <<issued, event, sub, entitlement, record, cached, dead, answered,
          settled, priced, session, faults>>

Events   == 1..MaxEvents
Statuses == {"active", "past_due", "cancelled"}
State    == [plan : Plans \cup {Free}, status : Statuses]
Event    == [kind : {"none", "completed", "updated", "canceled"},
             plan : Plans \cup {Free}, status : Statuses]
NoEvent  == [kind |-> "none", plan |-> Free, status |-> "active"]

\* last is last_provider_event_at: the date of the event the row was written
\* from, 0 for none, as in the row a user is created with.
Row     == [plan : Plans \cup {Free}, status : Statuses, last : 0..MaxEvents]
NewUser == [plan |-> Free, status |-> "active", last |-> 0]

\* A row with a provider subscription id was written from some event.
Linked(row) == row.last > 0

Done    == {"success", "ignored"}
Records == {"none", "received", "error"} \cup Done

\* What the provider returns of a subscription is dated by the creation of the
\* subscription, which comes before every event.
LookupDate == 0

EventPcs == {"recording", "loading", "caching", "marking", "storing", "finishing"}
Pcs == EventPcs \cup {"idle", "applying", "refreshing", "granting", "asking", "patching"}

Session == [pc : Pcs, event : 0..MaxEvents, retry : BOOLEAN, loaded : Records,
            result : Done \cup {"error"}, seen : Row, data : State,
            date : 0..MaxEvents]
Idle == [pc |-> "idle", event |-> 0, retry |-> FALSE, loaded |-> "none",
         result |-> "success", seen |-> NewUser,
         data |-> [plan |-> Free, status |-> "active"], date |-> 0]

\* What a row entitles its user to, but for the end of the period.
Effective(row) == [plan |-> row.plan, class |-> row.status]
Entitlement == [plan : Plans \cup {Free}, class : Statuses]

Init ==
    /\ issued = 0
    /\ event = [e \in 0..MaxEvents |-> NoEvent]
    /\ sub = NewUser
    /\ entitlement = Effective(NewUser)
    /\ record = [e \in Events |-> "none"]
    /\ cached = {} /\ dead = {} /\ answered = {} /\ settled = {}
    /\ priced = Plans \ Unmapped
    /\ session = [x \in Sessions |-> Idle]
    /\ faults = 0
-----------------------------------------------------------------------------
(***************************************************************************)
(* The provider.                                                           *)
(***************************************************************************)

Issue(kind, plan, status) ==
    /\ issued < MaxEvents
    /\ issued' = issued + 1
    /\ event' = [event EXCEPT ![issued + 1] =
                    [kind |-> kind, plan |-> plan, status |-> status]]

Tables == <<sub, entitlement, record, cached, dead, answered, settled>>

Truth == [plan |-> event[issued].plan, status |-> event[issued].status]
Alive == issued > 0 /\ event[issued].status # "cancelled"

Subscribe ==
    /\ issued = 0
    /\ \E p \in Plans : Issue("completed", p, "active")
    /\ UNCHANGED <<Tables, priced, faults, session>>

\* A charge fails or is made good, the plan is changed in the provider's portal.
ProviderUpdates ==
    /\ Alive
    /\ \E p \in Plans, status \in {"active", "past_due"} :
          /\ Truth # [plan |-> p, status |-> status]
          /\ Issue("updated", p, status)
    /\ UNCHANGED <<Tables, priced, faults, session>>

ProviderCancels ==
    /\ Alive
    /\ Issue("canceled", Truth.plan, "cancelled")
    /\ UNCHANGED <<Tables, priced, faults, session>>

\* The settings are completed with the price ids that were missing.
Configure ==
    /\ priced # Plans
    /\ priced' = Plans
    /\ UNCHANGED <<issued, event, Tables, session, faults>>
-----------------------------------------------------------------------------
(***************************************************************************)
(* A webhook delivery, up to the decision whether the event is stale.      *)
(***************************************************************************)

Provider == <<issued, event, priced>>

Put(x, s) == session' = [session EXCEPT ![x] = s]
At(x, pc) == session[x].pc = pc
Goto(x, pc) == Put(x, [session[x] EXCEPT !.pc = pc])

\* A record with one of these statuses makes a delivery a duplicate.
AlreadyDone(status) == status \in Done

\* The handler looks in the cache first.
FirstPc(e) == IF e \in cached THEN "finishing" ELSE "recording"
Handling(pc, e, retry) == [Idle EXCEPT !.pc = pc, !.event = e, !.retry = retry]

Begin(x, e, retry) ==
    /\ At(x, "idle")
    /\ Put(x, Handling(FirstPc(e), e, retry))
    /\ UNCHANGED <<Provider, Tables, faults>>

\* The provider delivers an event.
Receive(x, e) == e <= issued /\ Begin(x, e, FALSE)

\* An operator retries a dead letter.
RetryFailed(x, e) == e \in dead /\ Begin(x, e, TRUE)

\* A session that has inserted the record of e and not committed it holds the
\* unique key of e.
HoldsKey(x, e) ==
    /\ session[x].event = e
    /\ session[x].loaded = "none"
    /\ session[x].pc \in {"loading", "applying", "caching", "marking"}

CreateRecord(x) ==
    /\ At(x, "recording")
    /\ LET e == session[x].event IN
       /\ \A y \in Sessions : ~HoldsKey(y, e)
       /\ Put(x, [session[x] EXCEPT !.loaded = record[e],
                     !.pc = IF AlreadyDone(record[e]) THEN "finishing" ELSE "loading"])
    /\ UNCHANGED <<Provider, Tables, faults>>

\* The insert meets the key another session has inserted, and raises.
LoseInsert(x) ==
    /\ At(x, "recording")
    /\ \E y \in Sessions : HoldsKey(y, session[x].event)
    /\ Put(x, Idle)
    /\ UNCHANGED <<Provider, Tables, faults>>

\* The event names a plan by a price id that the settings do not know.
Unresolved(e) == event[e].kind = "updated" /\ event[e].plan \notin priced

\* Slip: an event is never found stale.
NeverStale(date, seen) == FALSE

Stale(date, seen) == Linked(seen) /\ date < seen.last

\* A cancellation carries no plan: the plan of the row as it was read is kept.
DataOf(e, seen) ==
    [plan |-> IF event[e].kind = "canceled" THEN seen.plan ELSE event[e].plan,
     status |-> event[e].status]

\* Slip: an error is cached like a result.
RejectIntoCache(x) ==
    /\ At(x, "loading")
    /\ Unresolved(session[x].event)
    /\ Put(x, [session[x] EXCEPT !.pc = "caching", !.result = "error"])
    /\ UNCHANGED <<Provider, Tables, faults>>

\* Slip: an event that cannot be handled is answered and left at that.
RejectUnrecorded(x) ==
    /\ At(x, "loading")
    /\ Unresolved(session[x].event)
    /\ Put(x, [session[x] EXCEPT !.pc = "finishing", !.result = "error"])
    /\ UNCHANGED <<Provider, Tables, faults>>

RejectEvent(x) ==
    /\ At(x, "loading")
    /\ Unresolved(session[x].event)
    /\ Put(x, [session[x] EXCEPT !.pc = "marking", !.result = "error"])
    /\ UNCHANGED <<Provider, Tables, faults>>

IgnoreStale(x) ==
    /\ At(x, "loading")
    /\ ~Unresolved(session[x].event)
    /\ Stale(session[x].event, sub)
    /\ Put(x, [session[x] EXCEPT !.pc = "caching", !.result = "ignored"])
    /\ settled' = settled \cup {session[x].event}
    /\ UNCHANGED <<Provider, sub, entitlement, record, cached, dead, answered, faults>>

LoadRow(x) ==
    /\ At(x, "loading")
    /\ ~Unresolved(session[x].event)
    /\ ~Stale(session[x].event, sub)
    /\ Put(x, [session[x] EXCEPT !.pc = "applying", !.seen = sub,
                  !.data = DataOf(session[x].event, sub), !.date = session[x].event])
    /\ UNCHANGED <<Provider, Tables, faults>>
-----------------------------------------------------------------------------
(***************************************************************************)
(* The write of the row and of the entitlement, shared by all writers.     *)
(***************************************************************************)

\* A column is written only where the new value differs from the one loaded.
Column(now, seen, new) == IF new = seen THEN now ELSE new

Written(row, s) ==
    [plan   |-> Column(row.plan, s.seen.plan, s.data.plan),
     status |-> Column(row.status, s.seen.status, s.data.status),
     last   |-> Column(row.last, s.seen.last, s.date)]

\* The commit of the row commits the inserted record too.
Received(e, loaded) ==
    IF e # 0 /\ loaded = "none" THEN [record EXCEPT ![e] = "received"] ELSE record

Apply(x) ==
    /\ At(x, "applying")
    /\ LET e == session[x].event IN
       /\ sub' = Written(sub, session[x])
       /\ record' = Received(e, session[x].loaded)
       /\ settled' = IF e = 0 THEN settled ELSE settled \cup {e}
    /\ Put(x, [session[x] EXCEPT !.pc = "refreshing",
                  !.loaded = IF @ = "none" THEN "received" ELSE @])
    /\ UNCHANGED <<Provider, entitlement, cached, dead, answered, faults>>

\* Slip: the entitlement is computed from the row as it was loaded.
KeepLoaded(x) ==
    /\ At(x, "refreshing")
    /\ Goto(x, "granting")
    /\ UNCHANGED <<Provider, Tables, faults>>

Refresh(x) ==
    /\ At(x, "refreshing")
    /\ Put(x, [session[x] EXCEPT !.pc = "granting", !.seen = sub])
    /\ UNCHANGED <<Provider, Tables, faults>>

\* A snapshot is appended when the latest one differs.
Grant(x) ==
    /\ At(x, "granting")
    /\ entitlement' = Effective(session[x].seen)
    /\ IF session[x].event = 0 THEN Put(x, Idle) ELSE Goto(x, "caching")
    /\ UNCHANGED <<Provider, sub, record, cached, dead, answered, settled, faults>>
-----------------------------------------------------------------------------
(***************************************************************************)
(* The end of a delivery.                                                  *)
(***************************************************************************)

CacheResult(x) ==
    /\ At(x, "caching")
    /\ cached' = cached \cup {session[x].event}
    /\ Goto(x, "marking")
    /\ UNCHANGED <<Provider, sub, entitlement, record, dead, answered, settled, faults>>

\* After a commit the record is expired, and its status is written whatever it
\* was; before, only if it differs from the one loaded.
MarkProcessed(x) ==
    /\ At(x, "marking")
    /\ LET e == session[x].event
           s == session[x]
       IN record' = [record EXCEPT ![e] =
                        IF s.result = "success" THEN "success"
                        ELSE Column(@, s.loaded, s.result)]
    /\ Goto(x, IF session[x].result = "error" THEN "storing" ELSE "finishing")
    /\ UNCHANGED <<Provider, sub, entitlement, cached, dead, answered, settled, faults>>

\* The failed event becomes a dead letter.
StoreFailed(x) ==
    /\ At(x, "storing")
    /\ dead' = dead \cup {session[x].event}
    /\ Goto(x, "finishing")
    /\ UNCHANGED <<Provider, sub, entitlement, record, cached, answered, settled, faults>>

\* The store raises; that is logged and no more.
LoseFailed(x) ==
    /\ At(x, "storing")
    /\ faults < MaxFaults
    /\ faults' = faults + 1
    /\ Goto(x, "finishing")
    /\ UNCHANGED <<Provider, Tables>>

\* The delivery is answered, an error too: the provider takes an error inside
\* a 200 for a delivery.  A retry that went well deletes the dead letter.
Finish(x) ==
    /\ At(x, "finishing")
    /\ LET e == session[x].event IN
       /\ answered' = answered \cup {e}
       /\ dead' = IF session[x].retry /\ session[x].result # "error"
                  THEN dead \ {e} ELSE dead
    /\ Put(x, Idle)
    /\ UNCHANGED <<Provider, sub, entitlement, record, cached, settled, faults>>

\* The cache keeps a result for five minutes.
Expire(e) ==
    /\ e \in cached
    /\ cached' = cached \ {e}
    /\ UNCHANGED <<Provider, sub, entitlement, record, dead, answered, settled,
                   session, faults>>
-----------------------------------------------------------------------------
(***************************************************************************)
(* Reconciliation, change of plan, reading the plan.                       *)
(***************************************************************************)

\* The scheduler or an operator reconciles: the row is loaded first.
Reconcile(x) ==
    /\ At(x, "idle")
    /\ Linked(sub)
    /\ Put(x, [Idle EXCEPT !.pc = "asking", !.seen = sub])
    /\ UNCHANGED <<Provider, Tables, faults>>

Differs(seen) == seen.plan # Truth.plan \/ seen.status # Truth.status

\* What the provider returned is written, unless it looks older than the row,
\* which a row written from an event makes it.
PutEntity(x, data) ==
    Put(x, IF Stale(LookupDate, session[x].seen) THEN Idle
           ELSE [session[x] EXCEPT !.pc = "applying", !.data = data, !.date = LookupDate])

\* Slip: the job computes nothing where nothing differs.
LookUpAndLeave(x) ==
    /\ At(x, "asking")
    /\ \/ Truth.plan \notin priced /\ Put(x, Idle)
       \/ ~Differs(session[x].seen) /\ Put(x, Idle)
       \/ Truth.plan \in priced /\ PutEntity(x, Truth)
    /\ UNCHANGED <<Provider, Tables, faults>>

\* The provider is asked.  The scheduled job compares: where nothing differs it
\* computes the entitlement again.  An operator's request writes in any case.
LookUp(x) ==
    /\ At(x, "asking")
    /\ \/ Truth.plan \notin priced /\ Put(x, Idle)
       \/ Truth.plan \in priced /\ ~Differs(session[x].seen) /\ Goto(x, "refreshing")
       \/ Truth.plan \in priced /\ PutEntity(x, Truth)
    /\ UNCHANGED <<Provider, Tables, faults>>

\* The user asks for another plan.
ChangePlan(x, p) ==
    /\ At(x, "idle")
    /\ Linked(sub)
    /\ sub.plan \in Plans \ {p}
    /\ sub.status # "cancelled"
    /\ p \in priced
    /\ Put(x, [Idle EXCEPT !.pc = "patching", !.seen = sub,
                           !.data = [plan |-> p, status |-> "active"]])
    /\ UNCHANGED <<Provider, Tables, faults>>

\* The provider changes the plan of an active subscription and returns it; it
\* is written like the result of a lookup.
Patch(x) ==
    /\ At(x, "patching")
    /\ Truth.status = "active"
    /\ Issue("updated", session[x].data.plan, "active")
    /\ PutEntity(x, session[x].data)
    /\ UNCHANGED <<Tables, priced, faults>>

RefusePatch(x) ==
    /\ At(x, "patching")
    /\ Truth.status # "active" \/ issued = MaxEvents
    /\ Put(x, Idle)
    /\ UNCHANGED <<Provider, Tables, faults>>

\* A read of the user's plan computes the entitlement too.
ReadPlan(x) ==
    /\ At(x, "idle")
    /\ Put(x, [Idle EXCEPT !.pc = "granting", !.seen = sub])
    /\ UNCHANGED <<Provider, Tables, faults>>

\* An exception, a request to the provider that fails, or the end of the process:
\* what was not committed is gone, and the delivery is not answered.
Abort(x) ==
    /\ ~At(x, "idle")
    /\ faults < MaxFaults
    /\ faults' = faults + 1
    /\ Put(x, Idle)
    /\ UNCHANGED <<Provider, Tables>>
-----------------------------------------------------------------------------
Step(x) ==
    \/ CreateRecord(x) \/ LoseInsert(x)
    \/ RejectEvent(x) \/ IgnoreStale(x) \/ LoadRow(x)
    \/ Apply(x) \/ Refresh(x) \/ Grant(x)
    \/ CacheResult(x) \/ MarkProcessed(x) \/ StoreFailed(x) \/ Finish(x)
    \/ LookUp(x) \/ Patch(x) \/ RefusePatch(x)

Deliver(e) == e \notin answered /\ \E x \in Sessions : Receive(x, e)

Next ==
    \/ Subscribe \/ ProviderUpdates \/ ProviderCancels \/ Configure
    \/ \E e \in Events : Expire(e)
    \/ \E x \in Sessions :
          \/ Step(x) \/ LoseFailed(x) \/ Abort(x) \/ Reconcile(x) \/ ReadPlan(x)
          \/ \E e \in Events : Receive(x, e) \/ RetryFailed(x, e)
          \/ \E p \in Plans : ChangePlan(x, p)

Spec == Init /\ [][Next]_vars

\* The scheduled reconciliation finds nothing to repair.
Confirm(x) == LookUp(x) /\ session'[x].pc = "refreshing"

\* Requests are served to their end, an event that was not answered is
\* delivered again, the reconciliation runs every hour, and an operator
\* completes the settings.
Fairness ==
    /\ \A x \in Sessions : WF_vars(Step(x))
    /\ \A e \in Events : SF_vars(Deliver(e))
    /\ SF_vars(\E x \in Sessions : Reconcile(x))
    /\ SF_vars(\E x \in Sessions : Confirm(x))
    /\ WF_vars(Configure)

FairSpec == Spec /\ Fairness
-----------------------------------------------------------------------------
(***************************************************************************)
(* Properties.                                                             *)
(***************************************************************************)

TypeOK ==
    /\ issued \in 0..MaxEvents
    /\ event \in [0..MaxEvents -> Event]
    /\ sub \in Row
    /\ entitlement \in Entitlement
    /\ record \in [Events -> Records]
    /\ cached \subseteq Events
    /\ dead \subseteq Events
    /\ answered \subseteq Events
    /\ settled \subseteq Events
    /\ priced \subseteq Plans
    /\ session \in [Sessions -> Session]
    /\ \A x \in Sessions : session[x].pc \in EventPcs => session[x].event \in Events
    /\ faults \in 0..MaxFaults

\* A delivery is answered as a duplicate only when an earlier delivery of the
\* event took effect, whatever crashed or ran beside it: the cache and the
\* event log never get ahead of the subscription row.
DuplicateOnlyIfSettled ==
    \A e \in Events : e \in cached \/ record[e] \in Done => e \in settled

\* An event whose delivery was answered took effect, or the event log says
\* that it failed, even when the dead letter was lost.
NothingForgotten ==
    \A e \in answered : e \in settled \/ record[e] = "error"

\* With requests served one at a time the row is that of the newest event that
\* was handled, in whatever order and however often events arrive.
RowIsNewestEvent ==
    /\ \A e \in settled : e <= sub.last
    /\ Linked(sub) =>
          /\ sub.last \in settled
          /\ sub.status = event[sub.last].status
          /\ event[sub.last].kind # "canceled" => sub.plan = event[sub.last].plan

\* With requests served one at a time the latest entitlement snapshot is that
\* of the row, unless the request that wrote the row is about to compute it
\* or was lost and its event is still not recorded as done.
EntitlementFollowsRow ==
    \/ entitlement = Effective(sub)
    \/ \E x \in Sessions : session[x].pc \in {"refreshing", "granting"}
    \/ \E e \in settled : record[e] \notin Done

\* Every change of the provider takes effect or is on record as failed, after
\* whatever faults, repetitions and price ids that are missing at first.
EventsLand ==
    \A e \in Events : e <= issued ~> e \in settled \/ record[e] = "error"

\* The row says what the provider says; of a subscription that was cancelled,
\* that it was.
Agrees ==
    issued > 0 => /\ sub.status = Truth.status
                  /\ Alive => sub.plan = Truth.plan

\* Where the row comes to agree with the provider, the entitlement comes to be
\* that of the row, even if the process ended between the two and the event
\* is not delivered again: reconciliation computes it once more.
EntitlementSettles == <>[]Agrees => <>[](entitlement = Effective(sub))

\* The row comes to agree with the provider and stays so once the provider's
\* changes end: reconciliation repairs what webhooks missed, as the readiness
\* plan and the runbook say.  It does not: what it looked up is dated by the
\* creation of the subscription, and is refused as older than the row.
ReconcileRepairs == <>[]Agrees
-----------------------------------------------------------------------------
(***************************************************************************)
(* The inductive invariant behind the safety properties.                   *)
(***************************************************************************)

\* A session that holds the key of an event is alone, and the event is not on
\* record.
KeysHeld ==
    \A x \in Sessions, e \in Events : HoldsKey(x, e) =>
        /\ record[e] = "none"
        /\ \A y \in Sessions : HoldsKey(y, e) => y = x

\* What a delivery has left behind at the place it is at.
Delivery(x) ==
    LET e    == session[x].event
        s    == session[x]
        Kept == e \in settled \/ record[e] = "error"
    IN /\ s.pc \in {"refreshing", "granting"} =>
              e = 0 \/ (e \in settled /\ s.loaded # "none")
       /\ s.pc = "caching" => e \in settled
       /\ s.pc = "marking" => e \in settled \/ s.result = "error"
       /\ s.pc \in {"storing", "finishing"} => Kept
       /\ s.pc \in EventPcs /\ s.loaded = "error" => Kept
       /\ s.pc = "applying" /\ e # 0 /\ s.loaded = "error" => Kept
       /\ e # 0 /\ s.loaded # "none" => record[e] # "none"
       /\ s.pc \in {"asking", "patching"} => e = 0 /\ s.loaded = "none"

DeliveriesInOrder == \A x \in Sessions : Delivery(x)

IInv ==
    /\ TypeOK
    /\ KeysHeld
    /\ DeliveriesInOrder
    /\ DuplicateOnlyIfSettled
    /\ NothingForgotten
=============================================================================
