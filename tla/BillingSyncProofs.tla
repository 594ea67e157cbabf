------------------------- MODULE BillingSyncProofs -------------------------
(***************************************************************************)
(* Theorems of BillingSync, for any number of sessions, plans, events and  *)
(* faults.                                                                 *)
(***************************************************************************)
EXTENDS BillingSync, TLAPS

USE ConstantsOK DEF Events

-----------------------------------------------------------------------------
(***************************************************************************)
(* What a step of one session leaves alone.                                *)
(***************************************************************************)

\* TypeOK but for the sessions.
TablesType ==
    /\ issued \in 0..MaxEvents
    /\ event \in [0..MaxEvents -> Event]
    /\ sub \in Row
    /\ entitlement \in Entitlement
    /\ record \in [Events -> Records]
    /\ cached \subseteq Events
    /\ dead \subseteq Events
    /\ answered \subseteq Events
    /\ settled \subseteq Events
    /\ priced \subseteq Plans
    /\ faults \in 0..MaxFaults

\* The session of x has changed, the others have not.
Moved(x) ==
    /\ session' \in [Sessions -> Session]
    /\ session'[x].pc \in EventPcs => session'[x].event \in Events
    /\ \A y \in Sessions : y # x => session'[y] = session[y]

LEMMA PutMoves ==
    ASSUME TypeOK, NEW x \in Sessions, NEW s \in Session,
           s.pc \in EventPcs => s.event \in Events, Put(x, s)
    PROVE  Moved(x) /\ session'[x] = s
  BY DEF TypeOK, Put, Moved

LEMMA MovedType ==
    ASSUME TypeOK, NEW x \in Sessions, Moved(x), TablesType'
    PROVE  TypeOK'
  BY DEF TypeOK, TablesType, Moved

LEMMA SameTables ==
    ASSUME TypeOK, UNCHANGED <<Provider, Tables, faults>>
    PROVE  TablesType'
  BY DEF TypeOK, TablesType, Provider, Tables

LEMMA OtherDeliveries ==
    ASSUME IInv, NEW x \in Sessions, Moved(x), Delivery(x)', settled \subseteq settled',
           \A e \in Events : record[e] = "error" => record'[e] = "error" \/ e \in settled',
           \A e \in Events : record[e] # "none" => record'[e] # "none"
    PROVE  DeliveriesInOrder'
<1> SUFFICES ASSUME NEW y \in Sessions, y # x PROVE Delivery(y)'
  BY DEF DeliveriesInOrder
<1>1. Delivery(y) /\ session'[y] = session[y]
  BY DEF IInv, DeliveriesInOrder, Moved
<1>2. session[y] \in Session /\ (session[y].pc \in EventPcs => session[y].event \in Events)
  BY DEF IInv, TypeOK
<1>3. session[y].event # 0 => session[y].event \in Events
  BY <1>2 DEF Session
<1> QED
  BY <1>1, <1>2, <1>3 DEF Delivery, EventPcs

LEMMA KeysKept ==
    ASSUME IInv, NEW x \in Sessions, Moved(x),
           \A e \in Events : HoldsKey(x, e)' => HoldsKey(x, e) /\ record'[e] = record[e],
           \A e \in Events, y \in Sessions :
               y # x /\ HoldsKey(y, e) => record'[e] = record[e]
    PROVE  KeysHeld'
<1>1. \A y \in Sessions, e \in Events : y # x => (HoldsKey(y, e)' <=> HoldsKey(y, e))
  BY DEF Moved, HoldsKey
<1> QED
  BY <1>1 DEF IInv, KeysHeld

\* A step that neither changes the event log nor answers nor caches.
LEMMA Quiet ==
    ASSUME IInv, NEW x \in Sessions, Moved(x), TablesType',
           UNCHANGED <<record, cached, answered>>, settled \subseteq settled',
           \A e \in Events : HoldsKey(x, e)' => HoldsKey(x, e),
           Delivery(x)'
    PROVE  IInv'
<1>1. TypeOK'
  BY MovedType DEF IInv
<1>2. KeysHeld'
  BY KeysKept
<1>3. DeliveriesInOrder'
  BY OtherDeliveries
<1>4. DuplicateOnlyIfSettled' /\ NothingForgotten'
  BY DEF IInv, DuplicateOnlyIfSettled, NothingForgotten
<1> QED
  BY <1>1, <1>2, <1>3, <1>4 DEF IInv
-----------------------------------------------------------------------------
(***************************************************************************)
(* Steps that change a session and nothing the invariant speaks of.        *)
(***************************************************************************)

LEMMA IdleType == Idle \in Session /\ Idle.pc = "idle" /\ Idle.loaded = "none"
  BY DEF Idle, Session, Pcs, EventPcs, Records, Done, State, Statuses, Row, NewUser

LEMMA HandlingType ==
    ASSUME NEW pc \in Pcs, NEW e \in Events, NEW retry \in BOOLEAN
    PROVE  /\ Handling(pc, e, retry) \in Session
           /\ Handling(pc, e, retry).pc = pc
           /\ Handling(pc, e, retry).event = e
           /\ Handling(pc, e, retry).loaded = "none"
<1>1. e \in 0..MaxEvents
  OBVIOUS
<1> QED
  BY <1>1, IdleType DEF Handling, Session

LEMMA BeginStep ==
    ASSUME IInv, NEW x \in Sessions, NEW e \in Events, NEW retry \in BOOLEAN,
           Begin(x, e, retry)
    PROVE  IInv'
<1>1. FirstPc(e) \in Pcs
  BY DEF FirstPc, Pcs, EventPcs
<1>2. /\ Moved(x)
      /\ session'[x].pc = FirstPc(e)
      /\ session'[x].event = e
      /\ session'[x].loaded = "none"
  BY <1>1, HandlingType, PutMoves DEF IInv, Begin
<1>3. TablesType' /\ UNCHANGED <<record, cached, answered, settled>>
  BY SameTables DEF IInv, Begin, Tables
<1>4. Delivery(x)' /\ \A d \in Events : ~HoldsKey(x, d)'
  BY <1>2, <1>3 DEF Delivery, HoldsKey, FirstPc, IInv, DuplicateOnlyIfSettled, EventPcs
<1> QED
  BY <1>2, <1>3, <1>4, Quiet

\* A session that gives up.
LEMMA IdleStep ==
    ASSUME IInv, NEW x \in Sessions, Put(x, Idle), TablesType',
           UNCHANGED <<record, cached, answered, settled>>
    PROVE  IInv'
<1>1. Moved(x) /\ session'[x] = Idle
  BY IdleType, PutMoves DEF IInv, EventPcs
<1>2. Delivery(x)' /\ \A e \in Events : ~HoldsKey(x, e)'
  BY <1>1 DEF Delivery, HoldsKey, Idle, EventPcs
<1> QED
  BY <1>1, <1>2, Quiet

\* Steps after which the session is at another place, with some fields set.
LEMMA SessionAt ==
    ASSUME TypeOK, NEW x \in Sessions
    PROVE  /\ session[x] \in Session
           /\ session[x].pc \in EventPcs => session[x].event \in Events
  BY DEF TypeOK

LEMMA GotoMoves ==
    ASSUME TypeOK, NEW x \in Sessions, NEW pc \in Pcs, Goto(x, pc),
           pc \in EventPcs => session[x].event \in Events
    PROVE  /\ Moved(x)
           /\ session'[x].pc = pc
           /\ session'[x].event = session[x].event
           /\ session'[x].loaded = session[x].loaded
           /\ session'[x].result = session[x].result
<1> DEFINE s == [session[x] EXCEPT !.pc = pc]
<1>1. /\ s \in Session /\ s.pc = pc /\ s.event = session[x].event
      /\ s.loaded = session[x].loaded /\ s.result = session[x].result
  BY SessionAt DEF Session
<1>2. Put(x, s)
  BY DEF Goto
<1> HIDE DEF s
<1> QED
  BY <1>1, <1>2, PutMoves

LEMMA RejectEventStep ==
    ASSUME IInv, NEW x \in Sessions, RejectEvent(x)
    PROVE  IInv'
<1> DEFINE s == [session[x] EXCEPT !.pc = "marking", !.result = "error"]
<1>1. /\ session[x].pc = "loading" /\ session[x].event \in Events
      /\ UNCHANGED <<record, cached, answered, settled>> /\ TablesType'
  BY SessionAt, SameTables DEF IInv, RejectEvent, At, EventPcs, Tables
<1>2. /\ s \in Session /\ s.pc = "marking" /\ s.result = "error"
      /\ s.event = session[x].event /\ s.loaded = session[x].loaded
  BY SessionAt DEF IInv, Session, Pcs, EventPcs
<1>3. Put(x, s)
  BY DEF RejectEvent
<1> HIDE DEF s
<1>4. Moved(x) /\ session'[x] = s
  BY <1>1, <1>2, <1>3, PutMoves DEF IInv
<1>5. Delivery(x)' /\ \A e \in Events : HoldsKey(x, e)' => HoldsKey(x, e)
  BY <1>1, <1>2, <1>4 DEF IInv, DeliveriesInOrder, Delivery, HoldsKey, EventPcs
<1> QED
  BY <1>1, <1>4, <1>5, Quiet

LEMMA DataType ==
    ASSUME TypeOK, NEW e \in Events, NEW seen \in Row
    PROVE  DataOf(e, seen) \in State
  BY DEF TypeOK, DataOf, State, Row, Event

LEMMA LoadRowStep ==
    ASSUME IInv, NEW x \in Sessions, LoadRow(x)
    PROVE  IInv'
<1> DEFINE e == session[x].event
           s == [session[x] EXCEPT !.pc = "applying", !.seen = sub,
                                   !.data = DataOf(e, sub), !.date = e]
<1>1. /\ session[x].pc = "loading" /\ session[x].event \in Events
      /\ UNCHANGED <<record, cached, answered, settled>> /\ TablesType'
  BY SessionAt, SameTables DEF IInv, LoadRow, At, EventPcs, Tables
<1>2. sub \in Row /\ DataOf(e, sub) \in State /\ e \in 0..(MaxEvents + 1)
  BY <1>1, DataType DEF IInv, TypeOK
<1>3. /\ s \in Session /\ s.pc = "applying" /\ s.event = session[x].event
      /\ s.loaded = session[x].loaded
  BY <1>2, SessionAt DEF IInv, Session, Pcs
<1>4. Put(x, s)
  BY DEF LoadRow
<1> HIDE DEF s
<1>5. Moved(x) /\ session'[x] = s
  BY <1>1, <1>3, <1>4, PutMoves DEF IInv, EventPcs
<1>6. Delivery(x)' /\ \A d \in Events : HoldsKey(x, d)' => HoldsKey(x, d)
  BY <1>1, <1>3, <1>5 DEF IInv, DeliveriesInOrder, Delivery, HoldsKey, EventPcs
<1> QED
  BY <1>1, <1>5, <1>6, Quiet

LEMMA IgnoreStaleStep ==
    ASSUME IInv, NEW x \in Sessions, IgnoreStale(x)
    PROVE  IInv'
<1> DEFINE s == [session[x] EXCEPT !.pc = "caching", !.result = "ignored"]
<1>1. /\ session[x].pc = "loading" /\ session[x].event \in Events
      /\ UNCHANGED <<record, cached, answered>>
      /\ settled' = settled \cup {session[x].event}
  BY SessionAt DEF IInv, IgnoreStale, At, EventPcs
<1>2. TablesType'
  BY <1>1 DEF IInv, TypeOK, TablesType, IgnoreStale, Provider
<1>3. /\ s \in Session /\ s.pc = "caching"
      /\ s.event = session[x].event /\ s.loaded = session[x].loaded
  BY SessionAt DEF IInv, Session, Pcs, EventPcs, Records, Done
<1>4. Put(x, s)
  BY DEF IgnoreStale
<1> HIDE DEF s
<1>5. Moved(x) /\ session'[x] = s
  BY <1>1, <1>3, <1>4, PutMoves DEF IInv
<1>6. Delivery(x)' /\ \A e \in Events : HoldsKey(x, e)' => HoldsKey(x, e)
  BY <1>1, <1>3, <1>5 DEF IInv, DeliveriesInOrder, Delivery, HoldsKey, EventPcs
<1> QED
  BY <1>1, <1>2, <1>5, <1>6, Quiet

LEMMA RefreshStep ==
    ASSUME IInv, NEW x \in Sessions, Refresh(x)
    PROVE  IInv'
<1> DEFINE s == [session[x] EXCEPT !.pc = "granting", !.seen = sub]
<1>1. /\ session[x].pc = "refreshing" /\ session[x].event \in 0..MaxEvents
      /\ UNCHANGED <<record, cached, answered, settled>> /\ TablesType'
  BY SessionAt, SameTables DEF IInv, Refresh, At, Session, Tables
<1>2. /\ s \in Session /\ s.pc = "granting"
      /\ s.event = session[x].event /\ s.loaded = session[x].loaded
  <2>1. session[x] \in Session /\ sub \in Row
    BY SessionAt DEF IInv, TypeOK
  <2> QED
    BY <2>1 DEF Session, Pcs
<1>3. Put(x, s)
  BY DEF Refresh
<1> HIDE DEF s
<1>4. Moved(x) /\ session'[x] = s
  BY <1>1, <1>2, <1>3, PutMoves DEF IInv, EventPcs
<1>5. Delivery(x)' /\ \A e \in Events : HoldsKey(x, e)' => HoldsKey(x, e)
  BY <1>1, <1>2, <1>4 DEF IInv, DeliveriesInOrder, Delivery, HoldsKey, EventPcs
<1> QED
  BY <1>1, <1>4, <1>5, Quiet

LEMMA GrantStep ==
    ASSUME IInv, NEW x \in Sessions, Grant(x)
    PROVE  IInv'
<1>1. /\ session[x].pc = "granting" /\ session[x] \in Session
      /\ UNCHANGED <<record, cached, answered, settled>>
      /\ entitlement' = Effective(session[x].seen)
  BY SessionAt DEF IInv, Grant, At
<1>2. TablesType'
  BY <1>1 DEF IInv, TypeOK, TablesType, Grant, Provider, Effective, Entitlement, Session, Row
<1>3. CASE session[x].event = 0
  BY <1>1, <1>2, <1>3, IdleStep DEF Grant
<1>4. CASE session[x].event # 0
  <2>1. session[x].event \in Events
    BY <1>1, <1>4 DEF Session
  <2>2. Goto(x, "caching")
    BY <1>4 DEF Grant
  <2>3. /\ Moved(x) /\ session'[x].pc = "caching"
        /\ session'[x].event = session[x].event
        /\ session'[x].loaded = session[x].loaded
    BY <2>1, <2>2, GotoMoves DEF IInv, Pcs, EventPcs
  <2>4. Delivery(x)'
    BY <1>1, <2>1, <2>3, <1>4 DEF IInv, DeliveriesInOrder, Delivery, EventPcs
  <2>5. \A e \in Events : ~HoldsKey(x, e)'
    BY <1>1, <1>4, <2>3 DEF IInv, DeliveriesInOrder, Delivery, HoldsKey
  <2> QED
    BY <1>1, <1>2, <2>3, <2>4, <2>5, Quiet
<1> QED
  BY <1>3, <1>4

LEMMA StoreStep ==
    ASSUME IInv, NEW x \in Sessions, StoreFailed(x) \/ LoseFailed(x)
    PROVE  IInv'
<1>1. /\ session[x].pc = "storing" /\ session[x].event \in Events
      /\ UNCHANGED <<record, cached, answered, settled>>
      /\ Goto(x, "finishing") /\ UNCHANGED <<Provider, sub, entitlement>>
  <2>1. /\ At(x, "storing") /\ Goto(x, "finishing")
        /\ UNCHANGED <<Provider, sub, entitlement, record, cached, answered, settled>>
    BY DEF StoreFailed, LoseFailed, Tables
  <2> QED
    BY <2>1, SessionAt DEF IInv, StoreFailed, LoseFailed, At, EventPcs, Tables
<1>2. TablesType'
  <2>1. faults' \in 0..MaxFaults /\ dead' \subseteq Events
    <3>1. CASE StoreFailed(x)
      BY <1>1, <3>1 DEF IInv, TypeOK, StoreFailed
    <3>2. CASE LoseFailed(x)
      BY <3>2 DEF IInv, TypeOK, LoseFailed, Tables
    <3> QED
      BY <3>1, <3>2
  <2>2. answered' = answered
    BY DEF StoreFailed, LoseFailed, Tables
  <2> QED
    BY <1>1, <2>1, <2>2 DEF IInv, TypeOK, TablesType, Provider
<1>3. /\ Moved(x) /\ session'[x].pc = "finishing"
      /\ session'[x].event = session[x].event
      /\ session'[x].loaded = session[x].loaded
  BY <1>1, GotoMoves DEF IInv, Pcs, EventPcs
<1>4. Delivery(x)' /\ \A e \in Events : HoldsKey(x, e)' => HoldsKey(x, e)
  BY <1>1, <1>3 DEF IInv, DeliveriesInOrder, Delivery, HoldsKey, EventPcs
<1> QED
  BY <1>1, <1>2, <1>3, <1>4, Quiet

LEMMA GiveUpStep ==
    ASSUME IInv, NEW x \in Sessions, LoseInsert(x) \/ RefusePatch(x) \/ Abort(x)
    PROVE  IInv'
<1>1. Put(x, Idle) /\ UNCHANGED <<record, cached, answered, settled>>
  BY DEF LoseInsert, RefusePatch, Abort, Tables
<1>2. TablesType'
  <2>1. faults' \in 0..MaxFaults /\ UNCHANGED <<Provider, Tables>>
    BY DEF IInv, TypeOK, LoseInsert, RefusePatch, Abort
  <2> QED
    BY <2>1 DEF IInv, TypeOK, TablesType, Provider, Tables
<1> QED
  BY <1>1, <1>2, IdleStep

-----------------------------------------------------------------------------
(***************************************************************************)
(* Steps that write the event log, the cache or the answer.                *)
(***************************************************************************)

LEMMA CreateRecordStep ==
    ASSUME IInv, NEW x \in Sessions, CreateRecord(x)
    PROVE  IInv'
<1> DEFINE e == session[x].event
           pc == IF AlreadyDone(record[e]) THEN "finishing" ELSE "loading"
           s == [session[x] EXCEPT !.loaded = record[e], !.pc = pc]
<1>1. /\ session[x].pc = "recording" /\ e \in Events /\ record[e] \in Records
      /\ UNCHANGED <<record, cached, answered, settled>> /\ TablesType'
  BY SessionAt, SameTables DEF IInv, TypeOK, CreateRecord, At, EventPcs, Tables
<1>2. pc \in {"finishing", "loading"} /\ pc \in Pcs
  BY DEF Pcs, EventPcs
<1>3. Put(x, s) /\ \A y \in Sessions : ~HoldsKey(y, e)
  BY DEF CreateRecord
<1>4. pc = "finishing" <=> record[e] \in Done
  BY DEF AlreadyDone
<1> HIDE DEF pc
<1>5. s \in Session /\ s.pc = pc /\ s.event = e /\ s.loaded = record[e]
  BY <1>1, <1>2, SessionAt DEF IInv, Session
<1> HIDE DEF s
<1>6. Moved(x) /\ session'[x] = s
  BY <1>1, <1>3, <1>5, PutMoves DEF IInv
<1>7. TypeOK'
  BY <1>1, <1>6, MovedType DEF IInv
<1>8. Delivery(x)'
  BY <1>1, <1>2, <1>4, <1>5, <1>6 DEF IInv, DuplicateOnlyIfSettled, Delivery, EventPcs
<1>9. DeliveriesInOrder'
  BY <1>1, <1>6, <1>8, OtherDeliveries
<1>10. KeysHeld'
  <2>1. \A y \in Sessions, d \in Events : y # x => (HoldsKey(y, d)' <=> HoldsKey(y, d))
    BY <1>6 DEF Moved, HoldsKey
  <2>2. \A d \in Events : HoldsKey(x, d)' => d = e /\ record[e] = "none"
    BY <1>5, <1>6 DEF HoldsKey
  <2> QED
    BY <1>1, <1>3, <2>1, <2>2 DEF IInv, KeysHeld
<1>11. DuplicateOnlyIfSettled' /\ NothingForgotten'
  BY <1>1 DEF IInv, DuplicateOnlyIfSettled, NothingForgotten
<1> QED
  BY <1>7, <1>9, <1>10, <1>11 DEF IInv

LEMMA CacheResultStep ==
    ASSUME IInv, NEW x \in Sessions, CacheResult(x)
    PROVE  IInv'
<1>1. /\ session[x].pc = "caching" /\ session[x].event \in Events
      /\ session[x].event \in settled
      /\ cached' = cached \cup {session[x].event}
      /\ UNCHANGED <<record, answered, settled>> /\ Goto(x, "marking")
  BY SessionAt DEF IInv, DeliveriesInOrder, Delivery, CacheResult, At, EventPcs
<1>2. TablesType'
  BY <1>1 DEF IInv, TypeOK, TablesType, CacheResult, Provider
<1>3. /\ Moved(x) /\ session'[x].pc = "marking"
      /\ session'[x].event = session[x].event
      /\ session'[x].loaded = session[x].loaded
  BY <1>1, GotoMoves DEF IInv, Pcs, EventPcs
<1>4. TypeOK'
  BY <1>2, <1>3, MovedType DEF IInv
<1>5. Delivery(x)' /\ \A e \in Events : HoldsKey(x, e)' => HoldsKey(x, e)
  BY <1>1, <1>3 DEF IInv, DeliveriesInOrder, Delivery, HoldsKey, EventPcs
<1>6. KeysHeld' /\ DeliveriesInOrder'
  BY <1>1, <1>3, <1>5, KeysKept, OtherDeliveries
<1>7. DuplicateOnlyIfSettled' /\ NothingForgotten'
  BY <1>1 DEF IInv, DuplicateOnlyIfSettled, NothingForgotten
<1> QED
  BY <1>4, <1>6, <1>7 DEF IInv

LEMMA FinishStep ==
    ASSUME IInv, NEW x \in Sessions, Finish(x)
    PROVE  IInv'
<1>1. /\ session[x].pc = "finishing" /\ session[x].event \in Events
      /\ answered' = answered \cup {session[x].event}
      /\ UNCHANGED <<record, cached, settled>> /\ Put(x, Idle)
      /\ session[x].event \in settled \/ record[session[x].event] = "error"
  BY SessionAt DEF IInv, DeliveriesInOrder, Delivery, Finish, At, EventPcs
<1>2. TablesType'
  BY <1>1 DEF IInv, TypeOK, TablesType, Finish, Provider
<1>3. Moved(x) /\ session'[x] = Idle
  BY <1>1, IdleType, PutMoves DEF IInv, EventPcs
<1>4. TypeOK'
  BY <1>2, <1>3, MovedType DEF IInv
<1>5. Delivery(x)' /\ \A e \in Events : ~HoldsKey(x, e)'
  BY <1>3 DEF Delivery, HoldsKey, Idle, EventPcs
<1>6. KeysHeld' /\ DeliveriesInOrder'
  BY <1>1, <1>3, <1>5, KeysKept, OtherDeliveries
<1>7. DuplicateOnlyIfSettled' /\ NothingForgotten'
  BY <1>1 DEF IInv, DuplicateOnlyIfSettled, NothingForgotten
<1> QED
  BY <1>4, <1>6, <1>7 DEF IInv

LEMMA MarkProcessedStep ==
    ASSUME IInv, NEW x \in Sessions, MarkProcessed(x)
    PROVE  IInv'
<1> DEFINE e  == session[x].event
           r  == session[x].result
           to == IF r = "success" THEN "success" ELSE Column(record[e], session[x].loaded, r)
<1>1. /\ session[x].pc = "marking" /\ e \in Events /\ record[e] \in Records
      /\ r \in Done \cup {"error"}
      /\ UNCHANGED <<cached, answered, settled>>
      /\ record' = [record EXCEPT ![e] = to]
      /\ Goto(x, IF r = "error" THEN "storing" ELSE "finishing")
  BY SessionAt DEF IInv, TypeOK, MarkProcessed, At, EventPcs, Session
<1>2. /\ e \in settled \/ r = "error"
      /\ session[x].loaded = "error" => e \in settled \/ record[e] = "error"
      /\ session[x].loaded # "none" => record[e] # "none"
  BY <1>1 DEF IInv, DeliveriesInOrder, Delivery, EventPcs
<1>3. /\ to \in Records \ {"none"}
      /\ to \in Done => e \in settled
      /\ record[e] = "error" => to = "error" \/ e \in settled
      /\ e \in settled \/ to = "error"
  BY <1>1, <1>2 DEF Column, Records, Done, IInv, DuplicateOnlyIfSettled
<1> HIDE DEF to
<1>4. record'[e] = to /\ \A d \in Events : d # e => record'[d] = record[d]
  BY <1>1 DEF IInv, TypeOK
<1>5. TablesType'
  BY <1>1, <1>3 DEF IInv, TypeOK, TablesType, MarkProcessed, Provider
<1>6. /\ Moved(x) /\ session'[x].pc \in {"storing", "finishing"}
      /\ session'[x].event = e
      /\ session'[x].loaded = session[x].loaded
  BY <1>1, GotoMoves DEF IInv, Pcs, EventPcs
<1>7. TypeOK'
  BY <1>5, <1>6, MovedType DEF IInv
<1>8. Delivery(x)'
  BY <1>1, <1>3, <1>4, <1>6 DEF Delivery, EventPcs
<1>9. DeliveriesInOrder'
  BY <1>1, <1>3, <1>4, <1>6, <1>8, OtherDeliveries
<1>10. KeysHeld'
  <2>1. \A d \in Events : ~HoldsKey(x, d)'
    BY <1>6 DEF HoldsKey
  <2>2. \A y \in Sessions : y # x => ~HoldsKey(y, e)
    <3>1. session[x].loaded = "none" => HoldsKey(x, e)
      BY <1>1 DEF HoldsKey
    <3> QED
      BY <1>1, <1>2, <3>1 DEF IInv, KeysHeld
  <2> QED
    BY <1>1, <1>4, <1>6, <2>1, <2>2, KeysKept
<1>11. DuplicateOnlyIfSettled' /\ NothingForgotten'
  BY <1>1, <1>3, <1>4 DEF IInv, DuplicateOnlyIfSettled, NothingForgotten
<1> QED
  BY <1>7, <1>9, <1>10, <1>11 DEF IInv

LEMMA WrittenType ==
    ASSUME NEW row \in Row, NEW s \in Session
    PROVE  Written(row, s) \in Row
  BY DEF Written, Column, Row, Session, State

LEMMA ApplyStep ==
    ASSUME IInv, NEW x \in Sessions, Apply(x)
    PROVE  IInv'
<1> DEFINE e == session[x].event
           l == session[x].loaded
           to == IF l = "none" THEN "received" ELSE l
           s == [session[x] EXCEPT !.pc = "refreshing", !.loaded = to]
<1>1. /\ session[x].pc = "applying" /\ session[x] \in Session
      /\ UNCHANGED <<cached, answered>>
      /\ record' = Received(e, l)
      /\ settled' = IF e = 0 THEN settled ELSE settled \cup {e}
      /\ sub' = Written(sub, session[x])
  BY SessionAt DEF IInv, Apply, At
<1>2. e # 0 => e \in Events
  BY <1>1 DEF Session
<1>3. Put(x, s)
  BY DEF Apply
<1>4. to \in Records \ {"none"} /\ l \in Records
  BY <1>1 DEF Session, Records
<1> HIDE DEF to
<1>5. s \in Session /\ s.pc = "refreshing" /\ s.event = e /\ s.loaded = to
  BY <1>1, <1>4 DEF Session, Pcs
<1> HIDE DEF s
<1>6. Moved(x) /\ session'[x] = s
  BY <1>1, <1>3, <1>5, PutMoves DEF IInv, EventPcs
<1>7. /\ record' \in [Events -> Records]
      /\ \A d \in Events : record'[d] = record[d]
                           \/ (d = e /\ l = "none" /\ record'[d] = "received")
      /\ e # 0 /\ l = "none" => record'[e] = "received"
  BY <1>1, <1>2 DEF IInv, TypeOK, Received, Records
<1>8. TablesType'
  BY <1>1, <1>2, <1>7, WrittenType DEF IInv, TypeOK, TablesType, Apply, Provider
<1>9. TypeOK'
  BY <1>6, <1>8, MovedType DEF IInv
<1>10. e # 0 /\ l # "none" => record[e] # "none"
  BY <1>1, <1>2 DEF IInv, DeliveriesInOrder, Delivery
<1>11. e # 0 /\ l = "none" =>
           record[e] = "none" /\ \A y \in Sessions : HoldsKey(y, e) => y = x
  BY <1>1, <1>2 DEF IInv, KeysHeld, HoldsKey
<1>12. Delivery(x)'
  BY <1>1, <1>2, <1>4, <1>5, <1>6, <1>7, <1>10 DEF Delivery, EventPcs
<1>13. DeliveriesInOrder'
  BY <1>1, <1>2, <1>6, <1>7, <1>11, <1>12, OtherDeliveries
<1>14. KeysHeld'
  <2>1. \A d \in Events : ~HoldsKey(x, d)'
    BY <1>4, <1>5, <1>6 DEF HoldsKey
  <2>2. \A d \in Events, y \in Sessions :
            y # x /\ HoldsKey(y, d) => record'[d] = record[d]
    BY <1>2, <1>7, <1>11
  <2> QED
    BY <1>6, <2>1, <2>2, KeysKept
<1>15. DuplicateOnlyIfSettled' /\ NothingForgotten'
  <2>1. settled \subseteq settled' /\ answered \subseteq Events
    BY <1>1 DEF IInv, TypeOK
  <2>2. \A d \in Events : record'[d] = record[d]
                           \/ (d \in settled' /\ record'[d] = "received")
    BY <1>1, <1>2, <1>7
  <2>3. "received" \notin Done
    BY DEF Done
  <2>4. DuplicateOnlyIfSettled'
    BY <1>1, <2>1, <2>2, <2>3 DEF IInv, DuplicateOnlyIfSettled
  <2>5. NothingForgotten'
    BY <1>1, <2>1, <2>2 DEF IInv, NothingForgotten
  <2> QED
    BY <2>4, <2>5
<1> QED
  BY <1>9, <1>13, <1>14, <1>15 DEF IInv

-----------------------------------------------------------------------------
(***************************************************************************)
(* The other requests and jobs, and the environment.                       *)
(***************************************************************************)

\* A session that begins something that is not a delivery.
LEMMA OtherRequest ==
    ASSUME IInv, NEW x \in Sessions, NEW s \in Session, Put(x, s),
           s.pc \in {"asking", "patching", "granting", "refreshing", "applying"},
           s.event = 0, s.loaded = "none", TablesType',
           UNCHANGED <<record, cached, answered, settled>>
    PROVE  IInv'
<1>1. Moved(x) /\ session'[x] = s
  BY PutMoves DEF IInv, EventPcs
<1>2. Delivery(x)' /\ \A e \in Events : ~HoldsKey(x, e)'
  BY <1>1 DEF Delivery, HoldsKey, EventPcs
<1> QED
  BY <1>1, <1>2, Quiet

LEMMA ReconcileStep ==
    ASSUME IInv, NEW x \in Sessions, Reconcile(x)
    PROVE  IInv'
<1> DEFINE s == [Idle EXCEPT !.pc = "asking", !.seen = sub]
<1>1. s \in Session /\ s.pc = "asking" /\ s.event = 0 /\ s.loaded = "none"
  BY IdleType DEF IInv, TypeOK, Session, Pcs, Idle
<1>2. Put(x, s)
  BY DEF Reconcile
<1>3. TablesType' /\ UNCHANGED <<record, cached, answered, settled>>
  BY SameTables DEF IInv, Reconcile, Tables
<1> HIDE DEF s
<1> QED
  BY <1>1, <1>2, <1>3, OtherRequest

LEMMA ReadPlanStep ==
    ASSUME IInv, NEW x \in Sessions, ReadPlan(x)
    PROVE  IInv'
<1> DEFINE s == [Idle EXCEPT !.pc = "granting", !.seen = sub]
<1>1. s \in Session /\ s.pc = "granting" /\ s.event = 0 /\ s.loaded = "none"
  BY IdleType DEF IInv, TypeOK, Session, Pcs, Idle
<1>2. Put(x, s)
  BY DEF ReadPlan
<1>3. TablesType' /\ UNCHANGED <<record, cached, answered, settled>>
  BY SameTables DEF IInv, ReadPlan, Tables
<1> HIDE DEF s
<1> QED
  BY <1>1, <1>2, <1>3, OtherRequest

LEMMA ChangePlanStep ==
    ASSUME IInv, NEW x \in Sessions, NEW p \in Plans, ChangePlan(x, p)
    PROVE  IInv'
<1> DEFINE d == [plan |-> p, status |-> "active"]
           s == [Idle EXCEPT !.pc = "patching", !.seen = sub, !.data = d]
<1>1. d \in State
  BY DEF State, Statuses
<1>2. Put(x, s)
  BY DEF ChangePlan
<1> HIDE DEF d
<1>3. s \in Session /\ s.pc = "patching" /\ s.event = 0 /\ s.loaded = "none"
  BY <1>1, IdleType DEF IInv, TypeOK, Session, Pcs, Idle
<1>4. TablesType' /\ UNCHANGED <<record, cached, answered, settled>>
  BY SameTables DEF IInv, ChangePlan, Tables
<1> HIDE DEF s
<1> QED
  BY <1>2, <1>3, <1>4, OtherRequest

LEMMA TruthType ==
    ASSUME TypeOK
    PROVE  Truth \in State
  BY DEF TypeOK, Truth, State, Event

LEMMA LookupDateType == LookupDate \in 0..MaxEvents
  BY ConstantsOK DEF LookupDate

LEMMA LookUpStep ==
    ASSUME IInv, NEW x \in Sessions, LookUp(x)
    PROVE  IInv'
<1> DEFINE s == [session[x] EXCEPT !.pc = "refreshing"]
           t == [session[x] EXCEPT !.pc = "applying", !.data = Truth, !.date = LookupDate]
<1>1. /\ session[x] \in Session /\ session[x].event = 0 /\ session[x].loaded = "none"
      /\ UNCHANGED <<record, cached, answered, settled>> /\ TablesType'
  BY SessionAt, SameTables DEF IInv, DeliveriesInOrder, Delivery, LookUp, At, Tables
<1>2. s \in Session /\ s.pc = "refreshing" /\ s.event = 0 /\ s.loaded = "none"
  BY <1>1 DEF Session, Pcs
<1>3. t \in Session /\ t.pc = "applying" /\ t.event = 0 /\ t.loaded = "none"
  BY <1>1, LookupDateType, TruthType DEF IInv, Session, Pcs
<1>4. Put(x, Idle) \/ Put(x, s) \/ Put(x, t)
  BY DEF LookUp, Goto, PutEntity
<1> HIDE DEF s, t
<1> QED
  BY <1>1, <1>2, <1>3, <1>4, IdleStep, OtherRequest

LEMMA IssueType ==
    ASSUME TypeOK, NEW kind \in {"completed", "updated", "canceled"},
           NEW plan \in Plans \cup {Free}, NEW status \in Statuses,
           Issue(kind, plan, status)
    PROVE  issued' \in 0..MaxEvents /\ event' \in [0..MaxEvents -> Event]
  BY DEF TypeOK, Issue, Event

LEMMA PatchStep ==
    ASSUME IInv, NEW x \in Sessions, Patch(x)
    PROVE  IInv'
<1> DEFINE d == session[x].data
           t == [session[x] EXCEPT !.pc = "applying", !.data = d, !.date = LookupDate]
<1>1. /\ session[x] \in Session /\ session[x].event = 0 /\ session[x].loaded = "none"
      /\ UNCHANGED <<record, cached, answered, settled>>
      /\ Issue("updated", session[x].data.plan, "active")
  BY SessionAt DEF IInv, DeliveriesInOrder, Delivery, Patch, At, Tables
<1>2. session[x].data.plan \in Plans \cup {Free} /\ "active" \in Statuses
  BY <1>1 DEF Session, State, Statuses
<1>3. TablesType'
  <2>1. issued' \in 0..MaxEvents /\ event' \in [0..MaxEvents -> Event]
    BY <1>1, <1>2, IssueType DEF IInv
  <2> QED
    BY <2>1 DEF IInv, TypeOK, TablesType, Patch, Tables
<1>4. t \in Session /\ t.pc = "applying" /\ t.event = 0 /\ t.loaded = "none"
  BY <1>1, LookupDateType DEF Session, Pcs
<1>5. Put(x, Idle) \/ Put(x, t)
  BY DEF Patch, PutEntity
<1> HIDE DEF t
<1> QED
  BY <1>1, <1>3, <1>4, <1>5, IdleStep, OtherRequest

\* A step of the provider or of time: no session moves.
LEMMA Environment ==
    ASSUME IInv, TablesType', UNCHANGED <<session, record, answered, settled>>,
           cached' \subseteq cached
    PROVE  IInv'
<1>1. TypeOK'
  BY DEF IInv, TypeOK, TablesType
<1>2. KeysHeld'
  BY DEF IInv, KeysHeld, HoldsKey
<1>3. DeliveriesInOrder'
  BY DEF IInv, DeliveriesInOrder, Delivery
<1>4. DuplicateOnlyIfSettled' /\ NothingForgotten'
  BY DEF IInv, DuplicateOnlyIfSettled, NothingForgotten
<1> QED
  BY <1>1, <1>2, <1>3, <1>4 DEF IInv

LEMMA ProviderStep ==
    ASSUME IInv, Subscribe \/ ProviderUpdates \/ ProviderCancels
    PROVE  IInv'
<1>1. \E kind \in {"completed", "updated", "canceled"},
         plan \in Plans \cup {Free}, status \in Statuses : Issue(kind, plan, status)
  <2>1. CASE Subscribe
    BY <2>1 DEF Subscribe, Statuses
  <2>2. CASE ProviderUpdates
    BY <2>2 DEF ProviderUpdates, Statuses
  <2>3. CASE ProviderCancels
    BY <2>3, TruthType DEF IInv, ProviderCancels, State, Statuses
  <2> QED
    BY <2>1, <2>2, <2>3
<1>2. issued' \in 0..MaxEvents /\ event' \in [0..MaxEvents -> Event]
  BY <1>1, IssueType DEF IInv
<1>3. UNCHANGED <<Tables, priced, faults, session>>
  BY DEF Subscribe, ProviderUpdates, ProviderCancels
<1>4. TablesType'
  BY <1>2, <1>3 DEF IInv, TypeOK, TablesType, Tables
<1> QED
  BY <1>3, <1>4, Environment DEF Tables

LEMMA ConfigureStep ==
    ASSUME IInv, Configure
    PROVE  IInv'
<1>1. TablesType' /\ UNCHANGED <<Tables, session>>
  BY DEF IInv, TypeOK, TablesType, Configure, Tables
<1> QED
  BY <1>1, Environment DEF Tables

LEMMA ExpireStep ==
    ASSUME IInv, NEW e \in Events, Expire(e)
    PROVE  IInv'
<1>1. TablesType'
  BY DEF IInv, TypeOK, TablesType, Expire, Provider
<1> QED
  BY <1>1, Environment DEF Expire

-----------------------------------------------------------------------------
(***************************************************************************)
(* The theorems.                                                           *)
(***************************************************************************)

LEMMA InitIInv == Init => IInv
<1> SUFFICES ASSUME Init PROVE IInv
  OBVIOUS
<1>1. TypeOK
  <2>1. NoEvent \in Event /\ NewUser \in Row /\ Effective(NewUser) \in Entitlement
    BY DEF NoEvent, Event, NewUser, Row, Effective, Entitlement, Statuses
  <2>2. session \in [Sessions -> Session]
        /\ \A x \in Sessions : session[x].pc = "idle"
    BY IdleType DEF Init
  <2> QED
    BY <2>1, <2>2 DEF Init, TypeOK, Records, EventPcs
<1>2. \A x \in Sessions : session[x] = Idle
  BY DEF Init
<1>3. KeysHeld
  BY <1>2 DEF KeysHeld, HoldsKey, Idle
<1>4. DeliveriesInOrder
  BY <1>2, IdleType DEF DeliveriesInOrder, Delivery, EventPcs
<1>5. DuplicateOnlyIfSettled /\ NothingForgotten
  BY DEF Init, DuplicateOnlyIfSettled, NothingForgotten, Done
<1> QED
  BY <1>1, <1>3, <1>4, <1>5 DEF IInv

LEMMA NextIInv == IInv /\ [Next]_vars => IInv'
<1> SUFFICES ASSUME IInv, [Next]_vars PROVE IInv'
  OBVIOUS
<1>1. CASE UNCHANGED vars
  <2>1. TablesType' /\ UNCHANGED <<session, record, answered, settled, cached>>
    BY <1>1 DEF vars, IInv, TypeOK, TablesType
  <2> QED
    BY <2>1, Environment
<1>2. CASE Subscribe \/ ProviderUpdates \/ ProviderCancels
  BY <1>2, ProviderStep
<1>3. CASE Configure
  BY <1>3, ConfigureStep
<1>4. ASSUME NEW e \in Events, Expire(e) PROVE IInv'
  BY <1>4, ExpireStep
<1>5. ASSUME NEW x \in Sessions, Step(x) PROVE IInv'
  <2>1. CASE CreateRecord(x)
    BY <2>1, CreateRecordStep
  <2>2. CASE LoseInsert(x) \/ RefusePatch(x)
    BY <2>2, GiveUpStep
  <2>3. CASE RejectEvent(x)
    BY <2>3, RejectEventStep
  <2>4. CASE IgnoreStale(x)
    BY <2>4, IgnoreStaleStep
  <2>5. CASE LoadRow(x)
    BY <2>5, LoadRowStep
  <2>6. CASE Apply(x)
    BY <2>6, ApplyStep
  <2>7. CASE Refresh(x)
    BY <2>7, RefreshStep
  <2>8. CASE Grant(x)
    BY <2>8, GrantStep
  <2>9. CASE CacheResult(x)
    BY <2>9, CacheResultStep
  <2>10. CASE MarkProcessed(x)
    BY <2>10, MarkProcessedStep
  <2>11. CASE StoreFailed(x)
    BY <2>11, StoreStep
  <2>12. CASE Finish(x)
    BY <2>12, FinishStep
  <2>13. CASE LookUp(x)
    BY <2>13, LookUpStep
  <2>14. CASE Patch(x)
    BY <2>14, PatchStep
  <2> QED
    BY <1>5, <2>1, <2>2, <2>3, <2>4, <2>5, <2>6, <2>7, <2>8, <2>9, <2>10,
       <2>11, <2>12, <2>13, <2>14 DEF Step
<1>6. ASSUME NEW x \in Sessions, LoseFailed(x) PROVE IInv'
  BY <1>6, StoreStep
<1>7. ASSUME NEW x \in Sessions, Abort(x) PROVE IInv'
  BY <1>7, GiveUpStep
<1>8. ASSUME NEW x \in Sessions, Reconcile(x) PROVE IInv'
  BY <1>8, ReconcileStep
<1>9. ASSUME NEW x \in Sessions, ReadPlan(x) PROVE IInv'
  BY <1>9, ReadPlanStep
<1>10. ASSUME NEW x \in Sessions, NEW e \in Events, Receive(x, e) PROVE IInv'
  BY <1>10, BeginStep DEF Receive
<1>11. ASSUME NEW x \in Sessions, NEW e \in Events, RetryFailed(x, e) PROVE IInv'
  BY <1>11, BeginStep DEF RetryFailed
<1>12. ASSUME NEW x \in Sessions, NEW p \in Plans, ChangePlan(x, p) PROVE IInv'
  BY <1>12, ChangePlanStep
<1> QED
  BY <1>1, <1>2, <1>3, <1>4, <1>5, <1>6, <1>7, <1>8, <1>9, <1>10, <1>11, <1>12
     DEF Next

\* The invariant is kept: the keys of the event log, the place of every
\* delivery and what the log and the cache say agree, for any number of
\* requests, events, crashes and lost dead letters.
THEOREM Invariant == Spec => []IInv
  BY InitIInv, NextIInv, PTL DEF Spec

\* Every variable keeps to its type: dates, plans and statuses a row can carry,
\* and a delivery always has an event.
THEOREM TypeCorrect == Spec => []TypeOK
<1>1. IInv => TypeOK
  BY DEF IInv
<1> QED
  BY <1>1, Invariant, PTL

\* The cache and the event log call an event done only when a delivery of it
\* took effect or found it older than the row (the duplicate answers of the
\* webhook handler).
THEOREM DuplicatesTookEffect == Spec => []DuplicateOnlyIfSettled
<1>1. IInv => DuplicateOnlyIfSettled
  BY DEF IInv
<1> QED
  BY <1>1, Invariant, PTL

\* No event is answered and forgotten: it took effect or it is on record as
\* failed, though the dead letter may be lost and the answer is always 200.
THEOREM NothingIsForgotten == Spec => []NothingForgotten
<1>1. IInv => NothingForgotten
  BY DEF IInv
<1> QED
  BY <1>1, Invariant, PTL
-----------------------------------------------------------------------------
(***************************************************************************)
(* Requests served one at a time, with lookups dated as the code dates     *)
(* them: the row is that of the newest event, and the entitlement is that  *)
(* of the row.                                                             *)
(***************************************************************************)

\* No two sessions are in progress.
ServedAlone == \A x, y \in Sessions : At(x, "idle") \/ At(y, "idle") \/ x = y

\* What was handled, or is to be retried, has been issued.
OnlyIssued ==
    /\ \A e \in settled \cup dead : e <= issued
    /\ sub.last <= issued

\* The session of x knows the row as it is, and writes only what is newer.  A
\* lookup is made for a row that an event has written, which its date precedes.
UpToDate(x) ==
    LET s == session[x]
        e == s.event
    IN /\ s.pc # "idle" => e <= issued
       /\ s.pc \in {"recording", "loading", "applying", "refreshing", "granting", "asking"} =>
             s.result = "success"
       /\ s.pc \in {"loading", "applying"} /\ e # 0 => record[e] \notin Done
       /\ s.pc = "applying" =>
             /\ e # 0 /\ s.seen = sub /\ s.date = e
             /\ s.data = DataOf(e, sub) /\ ~Stale(e, sub)
       /\ s.pc = "granting" => s.seen = sub
       /\ s.pc \in {"caching", "marking"} =>
             /\ s.result = "success" => entitlement = Effective(sub)
             /\ s.result = "ignored" => e < sub.last
       /\ s.pc \in {"asking", "patching"} => Linked(s.seen)

\* The entitlement is that of the row, or the event the row was written from
\* is not recorded as done, and will be delivered again.
Follows == entitlement = Effective(sub) \/ (Linked(sub) /\ record[sub.last] \notin Done)

SerialInv ==
    /\ OnlyIssued
    /\ \A x \in Sessions : UpToDate(x)
    /\ RowIsNewestEvent
    /\ Follows

LEMMA PutSession ==
    ASSUME TypeOK, NEW x \in Sessions, NEW s, Put(x, s)
    PROVE  session'[x] = s /\ \A y \in Sessions : y # x => session'[y] = session[y]
  BY DEF TypeOK, Put

\* While x is in progress, before or after the step, the others are idle.
LEMMA OthersWait ==
    ASSUME ServedAlone, ServedAlone', NEW x \in Sessions,
           session[x].pc # "idle" \/ session'[x].pc # "idle",
           \A y \in Sessions : y # x => session'[y] = session[y]
    PROVE  \A y \in Sessions : y # x => UpToDate(y)'
<1> SUFFICES ASSUME NEW y \in Sessions, y # x PROVE UpToDate(y)'
  OBVIOUS
<1>1. session'[y].pc = "idle"
  BY DEF ServedAlone, At
<1> QED
  BY <1>1 DEF UpToDate

\* The columns the serial invariant speaks of.
Columns == <<issued, event, sub, entitlement, record, settled, dead>>

LEMMA SameColumns ==
    ASSUME SerialInv, UNCHANGED Columns
    PROVE  OnlyIssued' /\ RowIsNewestEvent' /\ Follows'
  BY DEF SerialInv, Columns, OnlyIssued, RowIsNewestEvent, Follows, Linked, Effective

\* A step of x that changes its session and no column.
LEMMA SerialTurn ==
    ASSUME IInv, SerialInv, ServedAlone, ServedAlone', NEW x \in Sessions, NEW s, Put(x, s),
           session[x].pc # "idle" \/ s.pc # "idle", UNCHANGED Columns,
           UpToDate(x)'
    PROVE  SerialInv'
<1>1. session'[x] = s /\ \A y \in Sessions : y # x => session'[y] = session[y]
  BY PutSession DEF IInv
<1>2. \A y \in Sessions : UpToDate(y)'
  BY <1>1, OthersWait
<1> QED
  BY <1>2, SameColumns DEF SerialInv

LEMMA SerialGivesUp ==
    ASSUME IInv, SerialInv, ServedAlone, ServedAlone', NEW x \in Sessions, Put(x, Idle),
           session[x].pc # "idle", UNCHANGED Columns
    PROVE  SerialInv'
<1>1. session'[x].pc = "idle"
  BY PutSession, IdleType DEF IInv
<1>2. UpToDate(x)'
  BY <1>1 DEF UpToDate
<1> QED
  BY <1>2, SerialTurn

LEMMA SerialBegins ==
    ASSUME IInv, SerialInv, ServedAlone, ServedAlone', NEW x \in Sessions, NEW e \in Events,
           NEW retry \in BOOLEAN, Begin(x, e, retry), e <= issued
    PROVE  SerialInv'
<1> DEFINE s == Handling(FirstPc(e), e, retry)
<1>1. /\ s.pc \in {"finishing", "recording"} /\ s.event = e /\ s.result = "success"
  BY DEF Handling, FirstPc, Idle
<1>2. Put(x, s) /\ UNCHANGED Columns
  BY DEF Begin, Columns, Provider, Tables
<1> HIDE DEF s
<1>3. session'[x] = s
  BY <1>2, PutSession DEF IInv
<1>4. UpToDate(x)'
  BY <1>1, <1>2, <1>3 DEF UpToDate, Columns
<1> QED
  BY <1>1, <1>2, <1>4, SerialTurn

\* Steps from the record to the decision whether the event is stale.
LEMMA SerialLoads ==
    ASSUME IInv, SerialInv, ServedAlone, ServedAlone', NEW x \in Sessions,
           CreateRecord(x) \/ RejectEvent(x) \/ LoadRow(x)
    PROVE  SerialInv'
<1>t. /\ session[x] \in Session /\ UpToDate(x) /\ UNCHANGED Columns
      /\ session[x].pc \in {"recording", "loading"} /\ session[x].event \in Events
  <2>1. session[x].pc \in {"recording", "loading"}
    BY DEF CreateRecord, RejectEvent, LoadRow, At
  <2>2. UNCHANGED Columns
    BY DEF CreateRecord, RejectEvent, LoadRow, Columns, Provider, Tables
  <2> QED
    BY <2>1, <2>2, SessionAt DEF IInv, SerialInv, EventPcs
<1> DEFINE e == session[x].event
<1>1. CASE CreateRecord(x)
  <2> DEFINE s == [session[x] EXCEPT !.loaded = record[e],
                       !.pc = IF AlreadyDone(record[e]) THEN "finishing" ELSE "loading"]
  <2>1. /\ s.pc = (IF record[e] \in Done THEN "finishing" ELSE "loading")
        /\ s.event = e /\ s.result = session[x].result
    BY <1>t DEF Session, AlreadyDone
  <2>2. Put(x, s)
    BY <1>1 DEF CreateRecord
  <2>3. session[x].result = "success" /\ e <= issued
    BY <1>t, <1>1 DEF CreateRecord, At, UpToDate
  <2> HIDE DEF s
  <2>4. session'[x] = s
    BY <2>2, PutSession DEF IInv
  <2>5. UpToDate(x)'
    BY <1>t, <2>1, <2>3, <2>4 DEF UpToDate, Columns
  <2> QED
    BY <1>t, <2>2, <2>5, SerialTurn
<1>2. CASE RejectEvent(x)
  <2> DEFINE s == [session[x] EXCEPT !.pc = "marking", !.result = "error"]
  <2>1. s.pc = "marking" /\ s.event = e /\ s.result = "error"
    BY <1>t DEF Session
  <2>2. Put(x, s)
    BY <1>2 DEF RejectEvent
  <2> HIDE DEF s
  <2>3. session'[x] = s
    BY <2>2, PutSession DEF IInv
  <2>4. UpToDate(x)'
    BY <1>t, <2>1, <2>3 DEF UpToDate, Columns
  <2> QED
    BY <1>t, <2>2, <2>4, SerialTurn
<1>3. CASE LoadRow(x)
  <2> DEFINE s == [session[x] EXCEPT !.pc = "applying", !.seen = sub,
                       !.data = DataOf(e, sub), !.date = e]
  <2>1. /\ s.pc = "applying" /\ s.event = e /\ s.result = session[x].result
        /\ s.seen = sub /\ s.data = DataOf(e, sub) /\ s.date = e
    BY <1>t DEF Session
  <2>2. Put(x, s) /\ ~Stale(e, sub)
    BY <1>3 DEF LoadRow
  <2>3. session[x].result = "success" /\ e <= issued /\ record[e] \notin Done /\ e # 0
    BY <1>t, <1>3 DEF LoadRow, At, UpToDate
  <2> HIDE DEF s
  <2>4. session'[x] = s
    BY <2>2, PutSession DEF IInv
  <2>5. DataOf(e, sub)' = DataOf(e, sub)' /\ UNCHANGED <<event, sub, record, issued>>
    BY <1>t DEF Columns
  <2>6. UpToDate(x)'
    BY <2>1, <2>2, <2>3, <2>4, <2>5 DEF UpToDate, DataOf, Stale, Linked
  <2> QED
    BY <1>t, <2>2, <2>6, SerialTurn
<1> QED
  BY <1>1, <1>2, <1>3

\* The event is older than the row, so the row's date stays the newest.
LEMMA SerialIgnores ==
    ASSUME IInv, SerialInv, ServedAlone, ServedAlone', NEW x \in Sessions, IgnoreStale(x)
    PROVE  SerialInv'
<1> DEFINE e == session[x].event
           s == [session[x] EXCEPT !.pc = "caching", !.result = "ignored"]
<1>1. /\ session[x].pc = "loading" /\ session[x] \in Session /\ e \in Events /\ UpToDate(x)
      /\ settled' = settled \cup {e} /\ Put(x, s) /\ Stale(e, sub)
      /\ UNCHANGED <<issued, event, sub, entitlement, record, dead>>
  BY SessionAt DEF IInv, SerialInv, IgnoreStale, At, EventPcs, Provider
<1>2. s.pc = "caching" /\ s.event = e /\ s.result = "ignored"
  BY <1>1 DEF Session
<1>3. e <= issued /\ Linked(sub) /\ e < sub.last
  BY <1>1 DEF UpToDate, Stale
<1> HIDE DEF s
<1>4. session'[x] = s /\ \A y \in Sessions : y # x => session'[y] = session[y]
  BY <1>1, PutSession DEF IInv
<1>5. UpToDate(x)'
  BY <1>1, <1>2, <1>3, <1>4 DEF UpToDate
<1>6. \A y \in Sessions : UpToDate(y)'
  BY <1>1, <1>4, <1>5, OthersWait
<1>7. OnlyIssued'
  BY <1>1, <1>3 DEF SerialInv, OnlyIssued
<1>8. RowIsNewestEvent'
  <2>1. e <= sub.last
    BY <1>1, <1>3 DEF IInv, TypeOK, Row
  <2> QED
    BY <1>1, <2>1 DEF SerialInv, RowIsNewestEvent, Linked
<1>9. Follows'
  BY <1>1 DEF SerialInv, Follows, Linked, Effective
<1> QED
  BY <1>6, <1>7, <1>8, <1>9 DEF SerialInv

\* What is written is what the event says, over the row as it was read.
LEMMA SerialApplies ==
    ASSUME IInv, SerialInv, ServedAlone, ServedAlone', NEW x \in Sessions, Apply(x)
    PROVE  SerialInv'
<1> DEFINE e == session[x].event
           s == [session[x] EXCEPT !.pc = "refreshing",
                    !.loaded = IF @ = "none" THEN "received" ELSE @]
<1>1. /\ session[x].pc = "applying" /\ session[x] \in Session /\ UpToDate(x)
      /\ sub' = Written(sub, session[x]) /\ record' = Received(e, session[x].loaded)
      /\ settled' = (IF e = 0 THEN settled ELSE settled \cup {e})
      /\ Put(x, s) /\ UNCHANGED <<issued, event, entitlement, dead>>
  BY SessionAt DEF IInv, SerialInv, Apply, At, Provider
<1>2. /\ e # 0 /\ e \in Events /\ e <= issued /\ record[e] \notin Done
      /\ session[x].seen = sub /\ session[x].date = e /\ session[x].data = DataOf(e, sub)
      /\ ~Stale(e, sub) /\ session[x].result = "success"
  <2>1. e \in 0..MaxEvents
    BY <1>1 DEF Session
  <2> QED
    BY <1>1, <2>1 DEF UpToDate
<1>3. /\ sub'.plan = DataOf(e, sub).plan /\ sub'.status = event[e].status /\ sub'.last = e
  BY <1>1, <1>2 DEF Written, Column, DataOf
<1>4. s.pc = "refreshing" /\ s.event = e /\ s.result = "success"
  BY <1>1, <1>2 DEF Session
<1> HIDE DEF s
<1>5. session'[x] = s /\ \A y \in Sessions : y # x => session'[y] = session[y]
  BY <1>1, PutSession DEF IInv
<1>6. UpToDate(x)'
  BY <1>1, <1>2, <1>4, <1>5 DEF UpToDate
<1>7. \A y \in Sessions : UpToDate(y)'
  BY <1>1, <1>5, <1>6, OthersWait
<1>8. OnlyIssued'
  BY <1>1, <1>2, <1>3 DEF SerialInv, OnlyIssued
<1>9. RowIsNewestEvent'
  <2>1. sub.last \in Nat /\ settled \subseteq Events /\ \A d \in settled : d <= sub.last
    BY DEF IInv, TypeOK, Row, SerialInv, RowIsNewestEvent
  <2>2. \A d \in settled : d <= e
    <3>1. CASE Linked(sub)
      BY <1>2, <2>1, <3>1 DEF Stale
    <3>2. CASE ~Linked(sub)
      BY <2>1, <3>2 DEF Linked
    <3> QED
      BY <3>1, <3>2
  <2> QED
    BY <1>1, <1>2, <1>3, <2>2 DEF RowIsNewestEvent, DataOf
<1>10. Follows'
  <2>1. record'[e] \notin Done
    BY <1>1, <1>2 DEF IInv, TypeOK, Received, Done
  <2> QED
    BY <1>2, <1>3, <2>1 DEF Follows, Linked
<1> QED
  BY <1>7, <1>8, <1>9, <1>10 DEF SerialInv

LEMMA SerialRefreshes ==
    ASSUME IInv, SerialInv, ServedAlone, ServedAlone', NEW x \in Sessions, Refresh(x)
    PROVE  SerialInv'
<1> DEFINE s == [session[x] EXCEPT !.pc = "granting", !.seen = sub]
<1>1. /\ session[x].pc = "refreshing" /\ session[x] \in Session /\ UpToDate(x)
      /\ Put(x, s) /\ UNCHANGED Columns
  BY SessionAt DEF IInv, SerialInv, Refresh, At, Columns, Provider, Tables
<1>2. /\ s.pc = "granting" /\ s.event = session[x].event /\ s.result = session[x].result
      /\ s.seen = sub
  BY <1>1 DEF Session
<1> HIDE DEF s
<1>3. session'[x] = s
  BY <1>1, PutSession DEF IInv
<1>4. UpToDate(x)'
  BY <1>1, <1>2, <1>3 DEF UpToDate, Columns
<1> QED
  BY <1>1, <1>4, SerialTurn

\* The entitlement is computed from the row as it is.
LEMMA SerialGrants ==
    ASSUME IInv, SerialInv, ServedAlone, ServedAlone', NEW x \in Sessions, Grant(x)
    PROVE  SerialInv'
<1>1. /\ session[x].pc = "granting" /\ session[x] \in Session /\ UpToDate(x)
      /\ entitlement' = Effective(session[x].seen)
      /\ UNCHANGED <<issued, event, sub, record, settled, dead>>
  BY SessionAt DEF IInv, SerialInv, Grant, At, Provider
<1>2. session[x].seen = sub /\ entitlement' = Effective(sub)'
  BY <1>1 DEF UpToDate, Effective
<1>3. PICK s : /\ Put(x, s)
               /\ \/ s.pc = "idle"
                  \/ /\ s.pc = "caching" /\ s.event = session[x].event
                     /\ s.result = session[x].result
  <2>1. CASE session[x].event = 0
    BY <2>1, IdleType DEF Grant
  <2>2. CASE session[x].event # 0
    <3> DEFINE s == [session[x] EXCEPT !.pc = "caching"]
    <3>1. s.pc = "caching" /\ s.event = session[x].event /\ s.result = session[x].result
      BY <1>1 DEF Session
    <3>2. Put(x, s)
      BY <2>2 DEF Grant, Goto
    <3> QED
      BY <3>1, <3>2
  <2> QED
    BY <2>1, <2>2
<1>4. session'[x] = s /\ \A y \in Sessions : y # x => session'[y] = session[y]
  BY <1>3, PutSession DEF IInv
<1>5. UpToDate(x)'
  BY <1>1, <1>2, <1>3, <1>4 DEF UpToDate
<1>6. \A y \in Sessions : UpToDate(y)'
  BY <1>1, <1>4, <1>5, OthersWait
<1>7. OnlyIssued' /\ RowIsNewestEvent'
  BY <1>1 DEF SerialInv, OnlyIssued, RowIsNewestEvent, Linked
<1>8. Follows'
  BY <1>2 DEF Follows
<1> QED
  BY <1>6, <1>7, <1>8 DEF SerialInv

LEMMA SerialCaches ==
    ASSUME IInv, SerialInv, ServedAlone, ServedAlone', NEW x \in Sessions, CacheResult(x)
    PROVE  SerialInv'
<1> DEFINE s == [session[x] EXCEPT !.pc = "marking"]
<1>1. /\ session[x].pc = "caching" /\ session[x] \in Session /\ UpToDate(x)
      /\ Put(x, s) /\ UNCHANGED Columns
  BY SessionAt DEF IInv, SerialInv, CacheResult, Goto, At, Columns, Provider
<1>2. s.pc = "marking" /\ s.event = session[x].event /\ s.result = session[x].result
  BY <1>1 DEF Session
<1> HIDE DEF s
<1>3. session'[x] = s
  BY <1>1, PutSession DEF IInv
<1>4. UpToDate(x)'
  BY <1>1, <1>2, <1>3 DEF UpToDate, Columns, Effective
<1> QED
  BY <1>1, <1>4, SerialTurn

\* An event is recorded as done when the entitlement has followed it, or when
\* it is not the one the row was written from.
LEMMA SerialMarks ==
    ASSUME IInv, SerialInv, ServedAlone, ServedAlone', NEW x \in Sessions, MarkProcessed(x)
    PROVE  SerialInv'
<1> DEFINE e == session[x].event
           r == session[x].result
           to == IF r = "success" THEN "success" ELSE Column(record[e], session[x].loaded, r)
           s == [session[x] EXCEPT !.pc = IF r = "error" THEN "storing" ELSE "finishing"]
<1>1. /\ session[x].pc = "marking" /\ session[x] \in Session /\ UpToDate(x) /\ e \in Events
      /\ record' = [record EXCEPT ![e] = to] /\ Put(x, s)
      /\ UNCHANGED <<issued, event, sub, entitlement, settled, dead>>
  BY SessionAt DEF IInv, SerialInv, MarkProcessed, Goto, At, EventPcs, Provider
<1>2. s.pc \in {"storing", "finishing"} /\ s.event = e
  BY <1>1 DEF Session
<1> HIDE DEF s
<1>3. session'[x] = s /\ \A y \in Sessions : y # x => session'[y] = session[y]
  BY <1>1, PutSession DEF IInv
<1>4. UpToDate(x)'
  BY <1>1, <1>2, <1>3 DEF UpToDate
<1>5. \A y \in Sessions : UpToDate(y)'
  BY <1>1, <1>3, <1>4, OthersWait
<1>6. OnlyIssued' /\ RowIsNewestEvent'
  BY <1>1 DEF SerialInv, OnlyIssued, RowIsNewestEvent, Linked
<1>7. Follows'
  <2>1. record \in [Events -> Records] /\ sub.last \in 0..MaxEvents /\ Follows
    BY DEF IInv, TypeOK, Row, SerialInv
  <2>2. CASE entitlement = Effective(sub)
    BY <1>1, <2>2 DEF Follows, Effective
  <2>3. CASE Linked(sub) /\ record[sub.last] \notin Done /\ entitlement # Effective(sub)
    <3>1. sub.last \in Events /\ r # "success"
      BY <1>1, <2>1, <2>3 DEF Linked, UpToDate
    <3>2. r \in {"ignored", "error"}
      BY <1>1, <3>1 DEF Session, Done
    <3>3. CASE r = "ignored"
      <4>1. e # sub.last
        BY <1>1, <2>1, <3>3 DEF UpToDate
      <4> QED
        BY <1>1, <2>1, <2>3, <3>1, <4>1 DEF Follows, Linked
    <3>4. CASE r = "error"
      <4>1. to \in {record[e], "error"}
        BY <3>4 DEF Column
      <4>2. "error" \notin Done
        BY DEF Done
      <4> HIDE DEF to
      <4> QED
        BY <1>1, <2>1, <2>3, <3>1, <4>1, <4>2 DEF Follows, Linked
    <3> QED
      BY <3>2, <3>3, <3>4
  <2> QED
    BY <2>1, <2>2, <2>3 DEF Follows
<1> QED
  BY <1>5, <1>6, <1>7 DEF SerialInv

LEMMA SerialEnds ==
    ASSUME IInv, SerialInv, ServedAlone, ServedAlone', NEW x \in Sessions,
           StoreFailed(x) \/ LoseFailed(x) \/ Finish(x)
    PROVE  SerialInv'
<1> DEFINE e == session[x].event
<1>1. /\ session[x].pc \in {"storing", "finishing"} /\ session[x] \in Session /\ UpToDate(x)
      /\ e <= issued /\ UNCHANGED <<issued, event, sub, entitlement, record, settled>>
      /\ dead' \subseteq dead \cup {e}
  <2>1. CASE StoreFailed(x)
    BY <2>1, SessionAt DEF IInv, SerialInv, StoreFailed, At, Provider, UpToDate
  <2>2. CASE LoseFailed(x)
    BY <2>2, SessionAt DEF IInv, SerialInv, LoseFailed, At, Provider, Tables, UpToDate
  <2>3. CASE Finish(x)
    BY <2>3, SessionAt DEF IInv, SerialInv, Finish, At, Provider, UpToDate
  <2> QED
    BY <2>1, <2>2, <2>3
<1>2. PICK s : Put(x, s) /\ (s.pc = "idle" \/ (s.pc = "finishing" /\ s.event = e))
  <2>1. CASE Goto(x, "finishing")
    <3> DEFINE s == [session[x] EXCEPT !.pc = "finishing"]
    <3>1. s.pc = "finishing" /\ s.event = e
      BY <1>1 DEF Session
    <3>2. Put(x, s)
      BY <2>1 DEF Goto
    <3> QED
      BY <3>1, <3>2
  <2>2. CASE Put(x, Idle)
    BY <2>2, IdleType
  <2> QED
    BY <2>1, <2>2 DEF StoreFailed, LoseFailed, Finish
<1>3. session'[x] = s /\ \A y \in Sessions : y # x => session'[y] = session[y]
  BY <1>2, PutSession DEF IInv
<1>4. UpToDate(x)'
  BY <1>1, <1>2, <1>3 DEF UpToDate
<1>5. \A y \in Sessions : UpToDate(y)'
  BY <1>1, <1>3, <1>4, OthersWait
<1>6. OnlyIssued'
  BY <1>1 DEF SerialInv, OnlyIssued
<1>7. RowIsNewestEvent' /\ Follows'
  BY <1>1 DEF SerialInv, RowIsNewestEvent, Follows, Linked, Effective
<1> QED
  BY <1>5, <1>6, <1>7 DEF SerialInv

\* The other requests: each begins with the row as it is.
LEMMA SerialAsks ==
    ASSUME IInv, SerialInv, ServedAlone, ServedAlone', NEW x \in Sessions,
           \/ Reconcile(x) \/ ReadPlan(x) \/ \E p \in Plans : ChangePlan(x, p)
    PROVE  SerialInv'
<1>i. Idle \in Session /\ Idle.event = 0 /\ Idle.result = "success"
  BY IdleType DEF Idle
<1>1. PICK s : /\ Put(x, s) /\ s.event = 0 /\ s.result = "success" /\ s.seen = sub
               /\ s.pc = "granting" \/ (s.pc \in {"asking", "patching"} /\ Linked(sub))
  <2>1. CASE Reconcile(x)
    <3> DEFINE s == [Idle EXCEPT !.pc = "asking", !.seen = sub]
    <3>1. s.pc = "asking" /\ s.event = 0 /\ s.result = "success" /\ s.seen = sub
      BY <1>i DEF Session
    <3>2. Put(x, s) /\ Linked(sub)
      BY <2>1 DEF Reconcile
    <3> HIDE DEF s
    <3> QED
      BY <3>1, <3>2
  <2>2. CASE ReadPlan(x)
    <3> DEFINE s == [Idle EXCEPT !.pc = "granting", !.seen = sub]
    <3>1. s.pc = "granting" /\ s.event = 0 /\ s.result = "success" /\ s.seen = sub
      BY <1>i DEF Session
    <3>2. Put(x, s)
      BY <2>2 DEF ReadPlan
    <3> HIDE DEF s
    <3> QED
      BY <3>1, <3>2
  <2>3. CASE \E p \in Plans : ChangePlan(x, p)
    <3>1. PICK p \in Plans : ChangePlan(x, p)
      BY <2>3
    <3> DEFINE s == [Idle EXCEPT !.pc = "patching", !.seen = sub,
                                 !.data = [plan |-> p, status |-> "active"]]
    <3>2. s.pc = "patching" /\ s.event = 0 /\ s.result = "success" /\ s.seen = sub
      BY <1>i DEF Session
    <3>3. Put(x, s) /\ Linked(sub)
      BY <3>1 DEF ChangePlan
    <3> HIDE DEF s
    <3> QED
      BY <3>2, <3>3
  <2> QED
    BY <2>1, <2>2, <2>3
<1>2. UNCHANGED Columns
  BY DEF Reconcile, ReadPlan, ChangePlan, Columns, Provider, Tables
<1>3. session'[x] = s /\ issued \in Nat
  BY <1>1, PutSession DEF IInv, TypeOK
<1>4. UpToDate(x)'
  BY <1>1, <1>2, <1>3 DEF UpToDate, Columns, Linked
<1> QED
  BY <1>1, <1>2, <1>4, SerialTurn

\* What a lookup returns is dated before every event, so a linked row stays.
LEMMA SerialLooksUp ==
    ASSUME IInv, SerialInv, ServedAlone, ServedAlone', NEW x \in Sessions, LookUp(x)
    PROVE  SerialInv'
<1>1. /\ session[x].pc = "asking" /\ session[x] \in Session /\ UpToDate(x)
      /\ session[x].event = 0 /\ UNCHANGED Columns /\ Linked(session[x].seen)
  <2>1. session[x].pc = "asking" /\ UNCHANGED Columns
    BY DEF LookUp, At, Columns, Provider, Tables
  <2> QED
    BY <2>1, SessionAt DEF IInv, SerialInv, DeliveriesInOrder, Delivery, UpToDate
<1>2. Stale(LookupDate, session[x].seen)
  BY <1>1 DEF Stale, Linked, LookupDate
<1>3. CASE Put(x, Idle)
  BY <1>1, <1>3, SerialGivesUp
<1>4. CASE Goto(x, "refreshing") /\ ~Differs(session[x].seen)
  <2> DEFINE s == [session[x] EXCEPT !.pc = "refreshing"]
  <2>1. s.pc = "refreshing" /\ s.event = 0 /\ s.result = session[x].result
    BY <1>1 DEF Session
  <2>2. Put(x, s)
    BY <1>4 DEF Goto
  <2> HIDE DEF s
  <2>3. session'[x] = s
    BY <2>2, PutSession DEF IInv
  <2>4. UpToDate(x)'
    BY <1>1, <2>1, <2>3 DEF UpToDate, Columns
  <2> QED
    BY <1>1, <2>2, <2>4, SerialTurn
<1> QED
  BY <1>2, <1>3, <1>4 DEF LookUp, PutEntity

\* A change at the provider is a new event; those before it stay.
LEMMA SerialIssues ==
    ASSUME IInv, SerialInv, NEW kind, NEW plan, NEW status, Issue(kind, plan, status),
           UNCHANGED Tables
    PROVE  /\ OnlyIssued' /\ RowIsNewestEvent' /\ Follows'
           /\ \A x \in Sessions : session'[x] = session[x] => UpToDate(x)'
<1>1. /\ issued' = issued + 1 /\ issued \in Nat /\ sub.last \in Nat
      /\ settled \cup dead \subseteq Nat
      /\ UNCHANGED <<sub, entitlement, record, settled, dead>>
  BY DEF IInv, TypeOK, Row, Issue, Tables
<1>2. \A e \in 0..MaxEvents : e <= issued => event'[e] = event[e]
  BY <1>1 DEF IInv, TypeOK, Issue
<1>3. OnlyIssued'
  BY <1>1 DEF SerialInv, OnlyIssued
<1>4. sub.last \in 0..MaxEvents /\ sub.last <= issued
  BY DEF IInv, TypeOK, Row, SerialInv, OnlyIssued
<1>5. RowIsNewestEvent' /\ Follows'
  BY <1>1, <1>2, <1>4 DEF SerialInv, RowIsNewestEvent, Follows, Linked, Effective
<1>6. ASSUME NEW x \in Sessions, session'[x] = session[x] PROVE UpToDate(x)'
  <2>1. /\ UpToDate(x) /\ session[x].event \in 0..MaxEvents
    BY SessionAt DEF SerialInv, IInv, Session
  <2>2. session[x].pc # "idle" => session[x].event <= issued
    BY <2>1 DEF UpToDate
  <2>3. session[x].pc # "idle" =>
          /\ session[x].event <= issued'
          /\ DataOf(session[x].event, sub)' = DataOf(session[x].event, sub)
    BY <1>1, <1>2, <1>6, <2>1, <2>2 DEF DataOf
  <2> QED
    BY <1>1, <1>6, <2>1, <2>3 DEF UpToDate, Linked, Stale, Effective
<1> QED
  BY <1>3, <1>5, <1>6

LEMMA SerialPatches ==
    ASSUME IInv, SerialInv, ServedAlone, ServedAlone', NEW x \in Sessions, Patch(x)
    PROVE  SerialInv'
<1>1. /\ session[x].pc = "patching" /\ UpToDate(x) /\ UNCHANGED Tables
      /\ Issue("updated", session[x].data.plan, "active")
      /\ PutEntity(x, session[x].data)
  BY DEF SerialInv, Patch, At
<1>2. Put(x, Idle)
  BY <1>1 DEF UpToDate, PutEntity, Stale, Linked, LookupDate
<1>3. session'[x].pc = "idle" /\ \A y \in Sessions : y # x => session'[y] = session[y]
  BY <1>2, PutSession, IdleType DEF IInv
<1>4. UpToDate(x)'
  BY <1>3 DEF UpToDate
<1>5. \A y \in Sessions : UpToDate(y)'
  BY <1>1, <1>3, <1>4, OthersWait
<1> QED
  BY <1>1, <1>5, SerialIssues DEF SerialInv

\* The provider, the operator and time leave sessions alone.
LEMMA SerialWaits ==
    ASSUME IInv, SerialInv, UNCHANGED session,
           \/ UNCHANGED Columns
           \/ \E kind, plan, status : Issue(kind, plan, status) /\ UNCHANGED Tables
    PROVE  SerialInv'
<1>1. CASE UNCHANGED Columns
  <2>1. \A x \in Sessions : UpToDate(x)'
    BY <1>1 DEF SerialInv, UpToDate, Columns, DataOf, Stale, Linked, Effective
  <2> QED
    BY <1>1, <2>1, SameColumns DEF SerialInv
<1>2. ASSUME NEW kind, NEW plan, NEW status, Issue(kind, plan, status), UNCHANGED Tables
      PROVE  SerialInv'
  BY <1>2, SerialIssues DEF SerialInv
<1> QED
  BY <1>1, <1>2

LEMMA SerialStep ==
    ASSUME IInv, ServedAlone, ServedAlone', SerialInv, [Next]_vars
    PROVE  SerialInv'
<1>1. CASE UNCHANGED vars
  <2>1. UNCHANGED session /\ UNCHANGED Columns
    BY <1>1 DEF vars, Columns
  <2> QED
    BY <2>1, SerialWaits
<1>2. CASE Subscribe \/ ProviderUpdates \/ ProviderCancels
  <2>1. UNCHANGED session /\ UNCHANGED Tables
    BY <1>2 DEF Subscribe, ProviderUpdates, ProviderCancels
  <2>2. \E kind, plan, status : Issue(kind, plan, status)
    BY <1>2 DEF Subscribe, ProviderUpdates, ProviderCancels
  <2> QED
    BY <2>1, <2>2, SerialWaits
<1>3. ASSUME NEW e \in Events, Configure \/ Expire(e) PROVE SerialInv'
  <2>1. UNCHANGED session /\ UNCHANGED Columns
    BY <1>3 DEF Configure, Expire, Columns, Provider, Tables
  <2> QED
    BY <2>1, SerialWaits
<1>4. CASE Configure
  <2>1. UNCHANGED session /\ UNCHANGED Columns
    BY <1>4 DEF Configure, Columns, Tables
  <2> QED
    BY <2>1, SerialWaits
<1>5. ASSUME NEW x \in Sessions, LoseInsert(x) \/ RefusePatch(x) \/ Abort(x) PROVE SerialInv'
  <2>1. Put(x, Idle) /\ session[x].pc # "idle" /\ UNCHANGED Columns
    BY <1>5 DEF LoseInsert, RefusePatch, Abort, At, Columns, Provider, Tables
  <2> QED
    BY <2>1, SerialGivesUp
<1>6. ASSUME NEW x \in Sessions, Step(x) PROVE SerialInv'
  BY <1>5, <1>6, SerialLoads, SerialIgnores, SerialApplies, SerialRefreshes, SerialGrants,
     SerialCaches, SerialMarks, SerialEnds, SerialLooksUp, SerialPatches DEF Step
<1>7. ASSUME NEW x \in Sessions, LoseFailed(x) PROVE SerialInv'
  BY <1>7, SerialEnds
<1>8. ASSUME NEW x \in Sessions, Reconcile(x) \/ ReadPlan(x) \/ \E p \in Plans : ChangePlan(x, p)
      PROVE  SerialInv'
  BY <1>8, SerialAsks
<1>9. ASSUME NEW x \in Sessions, NEW e \in Events, Receive(x, e) \/ RetryFailed(x, e)
      PROVE  SerialInv'
  <2>1. e <= issued
    BY <1>9 DEF Receive, RetryFailed, SerialInv, OnlyIssued
  <2> QED
    BY <1>9, <2>1, SerialBegins DEF Receive, RetryFailed
<1> QED
  BY <1>1, <1>2, <1>3, <1>4, <1>5, <1>6, <1>7, <1>8, <1>9 DEF Next

LEMMA SerialInit == Init => SerialInv
<1> SUFFICES ASSUME Init PROVE SerialInv
  OBVIOUS
<1>1. \A x \in Sessions : session[x].pc = "idle"
  BY IdleType DEF Init
<1>2. \A x \in Sessions : UpToDate(x)
  BY <1>1 DEF UpToDate
<1>3. OnlyIssued /\ RowIsNewestEvent /\ Follows
  BY DEF Init, OnlyIssued, RowIsNewestEvent, Follows, NewUser, Linked
<1> QED
  BY <1>2, <1>3 DEF SerialInv

\* While no two requests are in progress at the same time, the invariant that
\* makes the row the newest event's holds in every reachable state.
THEOREM Serial == Spec /\ []ServedAlone => []SerialInv
<1>1. IInv /\ ServedAlone /\ ServedAlone' /\ SerialInv /\ [Next]_vars => SerialInv'
  BY SerialStep
<1> QED
  BY <1>1, SerialInit, Invariant, PTL DEF Spec

\* As long as no two requests are in progress at the same time, the row is that
\* of the newest event handled, for any number of events, in any order, with
\* retries, reconciliations, changes of plan, exceptions and crashes.
THEOREM NewestEventWins == Spec /\ []ServedAlone => []RowIsNewestEvent
<1>1. SerialInv => RowIsNewestEvent
  BY DEF SerialInv
<1> QED
  BY <1>1, Serial, PTL

\* Then the entitlement is that of the row, or will be computed.
THEOREM EntitlementCatchesUp == Spec /\ []ServedAlone => []EntitlementFollowsRow
<1>1. SerialInv => EntitlementFollowsRow
  BY DEF SerialInv, Follows, RowIsNewestEvent, EntitlementFollowsRow
<1> QED
  BY <1>1, Serial, PTL
=============================================================================
