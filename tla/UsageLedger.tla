----------------------------- MODULE UsageLedger -----------------------------
(***************************************************************************)
(* How many snapshots a user has stored in the current window: the sum of  *)
(* a ledger, to which every snapshot adds an event in the transaction that *)
(* stores it.  Snapshots from before the ledger have no event.  Whoever    *)
(* asks for the count reads the ledger, then the table, and adds what is   *)
(* missing as one event under the key of the window; the unique key gives  *)
(* one of those who try at once the event, and rolls the others back.      *)
(*                                                                         *)
(* A statement sees what was committed before it and what its own session  *)
(* wrote.  The limit that is checked against the count is SnapshotIngest's. *)
(***************************************************************************)
EXTENDS Naturals, FiniteSets

CONSTANTS Sessions,  \* the database sessions of requests, workers and batches
          Early,     \* how many snapshots there may be from before the ledger
          MaxStored  \* the snapshots of one transaction, and of all, a bound of the model

VARIABLES tx,   \* the transaction of each session
          db    \* what is committed

vars == <<tx, db>>

(* passed counts what others stored since the session read the ledger, and  *)
(* late is what had passed when it added its fill.                         *)
Fresh == [step |-> "idle", sum |-> 0, count |-> 0, passed |-> 0, fill |-> 0, late |-> 0, stored |-> 0]

Init ==
    /\ tx = [s \in Sessions |-> Fresh]
    /\ \E n \in Early : db = [early |-> n, rows |-> n, events |-> 0, fill |-> 0, late |-> 0]

Goes(s, x) == tx' = [tx EXCEPT ![s] = x]

(* What the session sees of the ledger.                                    *)
InLedger(s) == db.events + db.fill + tx[s].fill

-----------------------------------------------------------------------------
SumLedger(s) ==
    /\ tx[s].step \in {"idle", "checked"}
    /\ Goes(s, [tx[s] EXCEPT !.step = "summed", !.sum = InLedger(s), !.passed = 0])
    /\ UNCHANGED db

CountRows(s) ==
    /\ tx[s].step = "summed"
    /\ Goes(s, [tx[s] EXCEPT !.step = IF db.rows > tx[s].sum THEN "short" ELSE "checked", !.count = db.rows])
    /\ UNCHANGED db

FindsFill(s) ==
    /\ tx[s].step = "short"
    /\ Goes(s, [tx[s] EXCEPT !.step = IF db.fill + tx[s].fill > 0 THEN "checked" ELSE "adding"])
    /\ UNCHANGED db

(* The key is held by the session that has added the event until it ends.  *)
KeyIsFree(s) == \A t \in Sessions \ {s} : tx[t].fill = 0

AddsFill(s) ==
    /\ tx[s].step = "adding" /\ KeyIsFree(s) /\ db.fill = 0
    /\ Goes(s, [tx[s] EXCEPT !.step = "checked", !.fill = tx[s].count - tx[s].sum, !.late = tx[s].passed])
    /\ UNCHANGED db

LosesKey(s) ==
    /\ tx[s].step = "adding" /\ KeyIsFree(s) /\ db.fill > 0
    /\ Goes(s, [Fresh EXCEPT !.step = "checked"])
    /\ UNCHANGED db

-----------------------------------------------------------------------------
(* The snapshot and its event are written in one transaction, after what   *)
(* it has to check is checked.                                             *)
Store(s) ==
    /\ tx[s].step \in {"checked", "storing"}
    /\ db.events + tx[s].stored < MaxStored
    /\ Goes(s, [tx[s] EXCEPT !.step = "storing", !.stored = @ + 1])
    /\ UNCHANGED db

(* What others commit passes those who have read the ledger only.          *)
Passed(t, n) == IF tx[t].step = "summed" THEN [tx[t] EXCEPT !.passed = @ + n] ELSE tx[t]

Commit(s) ==
    /\ tx[s].step \in {"checked", "storing"}
    /\ db' = [db EXCEPT !.rows = @ + tx[s].stored, !.events = @ + tx[s].stored,
                        !.fill = @ + tx[s].fill, !.late = @ + tx[s].late]
    /\ tx' = [t \in Sessions |-> IF t = s THEN Fresh ELSE Passed(t, tx[s].stored)]

Abort(s) ==
    /\ tx[s].step # "idle"
    /\ Goes(s, Fresh)
    /\ UNCHANGED db

(* A snapshot is deleted for good, by hand or by its age; events stay.     *)
Purge ==
    /\ db.rows > 0
    /\ db' = [db EXCEPT !.rows = @ - 1]
    /\ UNCHANGED tx

Next ==
    \/ \E s \in Sessions :
         \/ SumLedger(s) \/ CountRows(s) \/ FindsFill(s) \/ AddsFill(s) \/ LosesKey(s)
         \/ Store(s) \/ Commit(s) \/ Abort(s)
    \/ Purge

Spec == Init /\ [][Next]_vars

-----------------------------------------------------------------------------
Transactions ==
    [step : {"idle", "summed", "short", "adding", "checked", "storing"}, sum : Nat, count : Nat,
     passed : Nat, fill : Nat, late : Nat, stored : Nat]

TypeOK ==
    /\ tx \in [Sessions -> Transactions]
    /\ db \in [early : Nat, rows : Nat, events : Nat, fill : Nat, late : Nat]

(* Once the window was filled up the ledger counts every snapshot there is, *)
(* whoever stored, purged or asked meanwhile.                              *)
CountsAll == db.fill > 0 => db.rows <= db.events + db.fill

(* What was filled up is no more than the snapshots from before the ledger, *)
(* and those stored between the two readings, which are counted twice.     *)
CountsOnce == db.fill <= db.early + db.late

-----------------------------------------------------------------------------
(* The strengthening the proof needs.  The fill has one holder.            *)
OneFill ==
    /\ \A s, t \in Sessions : tx[s].fill > 0 /\ tx[t].fill > 0 => s = t
    /\ \A s \in Sessions : tx[s].fill > 0 => db.fill = 0 /\ tx[s].step # "adding"

(* All but the early snapshots have their events.                          *)
Eventful == db.rows <= db.early + db.events

(* What a fill on its way adds is enough, and not more than it may be.     *)
Fills ==
    \A s \in Sessions : tx[s].fill > 0 => /\ db.rows <= db.events + tx[s].fill
                                          /\ tx[s].fill <= db.early + tx[s].late

(* So is what one who has read the ledger would add, while nobody did.     *)
Reads ==
    \A s \in Sessions : db.fill = 0 /\ tx[s].fill = 0 =>
        /\ tx[s].step = "summed" => db.events = tx[s].sum + tx[s].passed
        /\ tx[s].step \in {"short", "adding"} =>
             /\ tx[s].sum < tx[s].count /\ tx[s].count <= tx[s].sum + db.early + tx[s].passed
             /\ db.rows + tx[s].sum <= db.events + tx[s].count

IInv == TypeOK /\ OneFill /\ Eventful /\ Fills /\ Reads /\ CountsAll /\ CountsOnce
==============================================================================
