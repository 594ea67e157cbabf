------------------------------ MODULE OpsAlerts ------------------------------
(***************************************************************************)
(* The operational alert of one condition in one process.  Threads measure *)
(* the condition when they serve a request; a bad measure sends an alert,  *)
(* a good one after an alert sends a recovery, neither of them twice in a  *)
(* cooldown.  The lock is let go between the two decisions of a recovery.  *)
(***************************************************************************)
EXTENDS Naturals, FiniteSets

CONSTANTS Threads, Cooldown,
          MaxTime,  \* how long the clock runs
          None

VARIABLES alerting,  \* active; last: when each kind was sent; at: what a thread
                     \* is about to send, and the time it read for it
          clock,
          sent       \* the messages on the channel, by their times

vars == <<alerting, clock, sent>>

Kinds == {"alert", "recovery"}

Init ==
    /\ alerting = [active |-> FALSE, last |-> [k \in Kinds |-> None],
                   at |-> [t \in Threads |-> None]]
    /\ clock = 0
    /\ sent = [k \in Kinds |-> {}]

Idle(t) == alerting.at[t] = None

Tick ==
    /\ clock < MaxTime /\ clock' = clock + 1
    /\ UNCHANGED <<alerting, sent>>

(* What a thread is about to send. *)
About(t, message) == [alerting.at EXCEPT ![t] = message]

Degraded(t) ==
    /\ Idle(t)
    /\ alerting' = [alerting EXCEPT !.at = About(t, [kind |-> "alert", now |-> None])]
    /\ UNCHANGED <<clock, sent>>

(* _emit_recovery_if_needed, under the lock for the first time *)
Recovered(t) ==
    /\ Idle(t) /\ alerting.active
    /\ alerting' = [alerting EXCEPT !.active = FALSE, !.at = About(t, [kind |-> "recovery", now |-> None])]
    /\ UNCHANGED <<clock, sent>>

ReadTime(t) ==
    /\ ~Idle(t) /\ alerting.at[t].now = None
    /\ alerting' = [alerting EXCEPT !.at = About(t, [kind |-> alerting.at[t].kind, now |-> clock])]
    /\ UNCHANGED <<clock, sent>>

Cooling(kind, now) == alerting.last[kind] # None /\ now < alerting.last[kind] + Cooldown

(* _emit_alert_if_needed, under the lock *)
Emit(t) ==
    /\ ~Idle(t) /\ alerting.at[t].now # None
    /\ LET k == alerting.at[t].kind
           now == alerting.at[t].now
       IN IF Cooling(k, now)
          THEN alerting' = [alerting EXCEPT !.at = About(t, None)] /\ UNCHANGED sent
          ELSE /\ alerting' = [active |-> alerting.active \/ k = "alert",
                               last |-> [alerting.last EXCEPT ![k] = now], at |-> About(t, None)]
               /\ sent' = [sent EXCEPT ![k] = @ \cup {now}]
    /\ UNCHANGED clock

Next == Tick \/ \E t \in Threads : Degraded(t) \/ Recovered(t) \/ ReadTime(t) \/ Emit(t)

Spec == Init /\ [][Next]_vars

-----------------------------------------------------------------------------
TypeOK ==
    /\ alerting.active \in BOOLEAN /\ clock \in 0..MaxTime
    /\ alerting.last \in [Kinds -> 0..MaxTime \cup {None}]
    /\ \A t \in Threads : Idle(t) \/ alerting.at[t] \in [kind : Kinds, now : 0..MaxTime \cup {None}]
    /\ sent \in [Kinds -> SUBSET (0..MaxTime)]

Recovering == {t \in Threads : ~Idle(t) /\ alerting.at[t].kind = "recovery"}

(* Nobody is told of a recovery who was not told of the trouble: every     *)
(* recovery that was sent, or is about to be, and the trouble that still   *)
(* is, have an alert of their own.                                         *)
Paired ==
    Cardinality(sent["recovery"]) + Cardinality(Recovering) + (IF alerting.active THEN 1 ELSE 0)
        <= Cardinality(sent["alert"])

(* Two alerts, and two recoveries, are a cooldown apart. *)
Spaced == \A k \in Kinds : \A s, t \in sent[k] : s < t => s + Cooldown <= t
==============================================================================
