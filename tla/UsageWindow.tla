----------------------------- MODULE UsageWindow -----------------------------
(***************************************************************************)
(* The window the usage of a plan is counted in.  Without a paid period it *)
(* is the month that starts at the anchor's day and time, or on the last   *)
(* day of a month too short to have that day.  With one, it is the period  *)
(* the provider last reported, moved forward by whole periods while its    *)
(* news are late.                                                          *)
(***************************************************************************)
EXTENDS Integers

CONSTANTS Days,        \* the numbers of days of the months, from some January on
          Times,       \* the times of a day
          Clock,       \* moments as one number, for paid periods
          MaxPeriods,  \* how many periods late the provider may be
          None

VARIABLES query,   \* the anchor or the paid period, and the present
          window   \* the answer

vars == <<query, window>>

-----------------------------------------------------------------------------
(* The anchor's day in another month. *)
Occurrence(anchor, m) ==
    [month |-> m, day |-> IF anchor.day < Days[m] THEN anchor.day ELSE Days[m], time |-> anchor.time]

Before(a, b) ==
    \/ a.month < b.month
    \/ a.month = b.month /\ a.day < b.day
    \/ a.month = b.month /\ a.day = b.day /\ a.time < b.time

StartMonth(anchor, now) == IF Before(now, Occurrence(anchor, now.month)) THEN now.month - 1 ELSE now.month

(* get_anniversary_monthly_bounds_utc; the end is the moment before next *)
Monthly(anchor, now) ==
    [start |-> Occurrence(anchor, StartMonth(anchor, now)),
     next |-> Occurrence(anchor, StartMonth(anchor, now) + 1)]

-----------------------------------------------------------------------------
(* _roll_forward_billing_window: the period k periods after the one known, *)
(* and the first of them that has not ended.                               *)
Later(start, end, k) ==
    [start |-> start + k * (end - start + 1), end |-> end + k * (end - start + 1)]

Open(start, end, now) == {k \in 0..(MaxPeriods - 1) : now <= Later(start, end, k).end}

Rolled(start, end, now) ==
    IF end <= start \/ Open(start, end, now) = {} THEN None
    ELSE Later(start, end, CHOOSE k \in Open(start, end, now) : \A j \in Open(start, end, now) : k <= j)

Paid(start, end, now) == IF now <= end THEN [start |-> start, end |-> end] ELSE Rolled(start, end, now)

-----------------------------------------------------------------------------
Months == DOMAIN Days
MomentsOf(m) == [month : {m}, day : 1..Days[m], time : Times]

Init ==
    /\ \/ \E a, n \in Months :
            /\ a < n /\ n + 1 \in Months
            /\ \E anchor \in MomentsOf(a), now \in MomentsOf(n) : query = [anchor |-> anchor, now |-> now]
       \/ \E start, end, now \in Clock : query = [start |-> start, end |-> end, now |-> now]
    /\ window = None

Free == "anchor" \in DOMAIN query

GetUsageWindow ==
    /\ window = None
    /\ window' = IF Free THEN Monthly(query.anchor, query.now) ELSE [paid |-> Paid(query.start, query.end, query.now)]
    /\ UNCHANGED query

Next == GetUsageWindow

Spec == Init /\ [][Next]_vars

-----------------------------------------------------------------------------
(* The window holds the moment it was asked for, and the next one starts   *)
(* where it ends: no usage is counted twice, or never.                     *)
HoldsNow ==
    window # None /\ Free =>
        /\ ~Before(query.now, window.start) /\ Before(query.now, window.next)
        /\ window.next.month + 1 \in Months => Monthly(query.anchor, window.next).start = window.next

(* So does a paid period, unless its successor is too late. *)
PaidHoldsNow ==
    window # None /\ ~Free /\ query.start < query.end /\ query.start <= query.now =>
        IF window.paid = None THEN Later(query.start, query.end, MaxPeriods).start <= query.now
        ELSE query.now \in window.paid.start..window.paid.end
==============================================================================
