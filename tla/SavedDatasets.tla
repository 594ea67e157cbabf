---------------------------- MODULE SavedDatasets ----------------------------
(***************************************************************************)
(* The Saved tab of an agent in Live View: its datasets, the logs of those *)
(* that are expanded, the removal of one log (the list is changed before   *)
(* the call and read again when it fails), the deletion of ticked datasets *)
(* and the renaming of one.  The tab stays mounted when another agent is   *)
(* chosen; the list of each agent is a read of its own.                    *)
(***************************************************************************)
EXTENDS Naturals, FiniteSets

CONSTANTS DatasetAgent,  \* dataset |-> its agent
          Logs,          \* the logs a dataset may hold
          MaxCalls,      \* calls in flight at once
          None

VARIABLES ui, net, srv, odd

vars == <<ui, net, srv, odd>>

Datasets == DOMAIN DatasetAgent
Owners == {DatasetAgent[d] : d \in Datasets}
Gone == {d \in Datasets : srv[d] = None}
OfAgent(a) == {d \in Datasets : DatasetAgent[d] = a}
Listed(a) == OfAgent(a) \ Gone

(* carried: the ticks that were there when another agent was chosen. *)
Init ==
    /\ srv = [d \in Datasets |-> Logs]
    /\ \E a \in Owners, read \in BOOLEAN :
         ui = [agent |-> a, list |-> [b \in Owners |-> IF read /\ b = a THEN Listed(a) ELSE None],
               failed |-> {}, logs |-> [d \in Datasets |-> None],
               remove |-> FALSE, ticked |-> {}, carried |-> {}, confirm |-> FALSE,
               removing |-> None, editing |-> None, renaming |-> FALSE]
    /\ net = {} /\ odd = 1

(* The rows on screen: none while the list of this agent is first read, or *)
(* when its last read failed.                                              *)
Showing == ui.list[ui.agent] # None /\ ui.agent \notin ui.failed
Items == IF Showing THEN ui.list[ui.agent] ELSE {}
Folded == [d \in Datasets |-> None]
Room == Cardinality(net) < MaxCalls
Call(c) == net' = net \cup {c}

(* Another agent is chosen: the expanded rows are folded, the ticks and    *)
(* the dialog stay, and the list is the one last read for that agent.      *)
Switch(a) ==
    /\ a # ui.agent
    /\ ui' = [ui EXCEPT !.agent = a, !.logs = Folded, !.carried = @ \cup ui.ticked]
    /\ UNCHANGED <<net, srv, odd>>

(* The list of the agent on screen is read, first or again. *)
Read ==
    /\ ui' = [ui EXCEPT !.list[ui.agent] = Listed(ui.agent), !.failed = @ \ {ui.agent}]
    /\ UNCHANGED <<net, srv, odd>>

ReadFails ==
    /\ odd > 0 /\ odd' = odd - 1
    /\ ui' = [ui EXCEPT !.failed = @ \cup {ui.agent}]
    /\ UNCHANGED <<net, srv>>

(* A row is folded or unfolded; unfolding reads the logs of the dataset. *)
Expand(d) ==
    /\ d \in Items
    /\ ui' = [ui EXCEPT !.logs[d] = IF @ = None THEN srv[d] ELSE None]
    /\ UNCHANGED <<net, srv, odd>>

(* Delete, Cancel, the boxes and Select all of the header. *)
ToggleMode ==
    /\ ~ui.confirm /\ Items # {}
    /\ ui' = [ui EXCEPT !.remove = ~@, !.ticked = {}, !.carried = {}]
    /\ UNCHANGED <<net, srv, odd>>

Tick ==
    /\ ui.remove /\ ~ui.confirm /\ Items # {}
    /\ \/ \E d \in Items : ui' = [ui EXCEPT !.ticked = IF d \in @ THEN @ \ {d} ELSE @ \cup {d}]
       \/ ui' = [ui EXCEPT !.ticked = IF Cardinality(@) = Cardinality(Items) THEN {} ELSE Items]
    /\ UNCHANGED <<net, srv, odd>>

DeleteOffered == ui.remove /\ Items # {} /\ ui.ticked # {}

AskConfirm ==
    /\ DeleteOffered
    /\ ui' = [ui EXCEPT !.confirm = TRUE]
    /\ UNCHANGED <<net, srv, odd>>

CloseConfirm ==
    /\ ui.confirm /\ Showing
    /\ ui' = [ui EXCEPT !.confirm = FALSE]
    /\ UNCHANGED <<net, srv, odd>>

(* handleConfirmClearAll: the ticked datasets, or all of them when none is *)
(* ticked; the list on screen is emptied before the call.                  *)
ConfirmDelete ==
    /\ ui.confirm /\ Items # {} /\ Room
    /\ Call([kind |-> "batch", agent |-> ui.agent, ids |-> IF ui.ticked # {} THEN ui.ticked ELSE Items,
             asked |-> ui.ticked, carried |-> ui.carried])
    /\ ui' = [ui EXCEPT !.confirm = FALSE, !.logs = Folded, !.list[ui.agent] = {}]
    /\ UNCHANGED <<srv, odd>>

(* The call deletes them one by one, whoever they belong to; it may fail   *)
(* on the way, or its answer be lost.  Either way the list of the agent    *)
(* now on screen is read again.                                            *)
BatchEnds(c, done) ==
    /\ c.kind = "batch"
    /\ srv' = [d \in Datasets |-> IF d \in done THEN None ELSE srv[d]]
    /\ net' = net \ {c}
    /\ ui' = [ui EXCEPT !.list[ui.agent] = {d \in OfAgent(ui.agent) : srv'[d] # None},
                        !.failed = @ \ {ui.agent}]

BatchFails(c) ==
    /\ c.kind = "batch" /\ odd > 0 /\ odd' = odd - 1
    /\ \E done \in SUBSET c.ids : BatchEnds(c, done)

(* handleRemoveLogFromDataset: the last log takes the dataset with it. *)
Whole(d, l) == ui.logs[d] = {l}

RemoveLog(d, l) ==
    /\ d \in Items /\ ui.logs[d] # None /\ l \in ui.logs[d]
    /\ ui.removing # <<d, l>> /\ Room
    /\ Call([kind |-> "remove", of |-> d, log |-> l, whole |-> Whole(d, l), keep |-> ui.logs[d] \ {l}])
    /\ ui' = [ui EXCEPT !.removing = <<d, l>>, !.logs[d] = IF Whole(d, l) THEN None ELSE @ \ {l},
                        !.list[ui.agent] = IF Whole(d, l) THEN @ \ {d} ELSE @]
    /\ UNCHANGED <<srv, odd>>

Released(c) == IF ui.removing = <<c.of, c.log>> THEN None ELSE ui.removing

Removed(c) ==
    /\ c.kind = "remove" /\ srv[c.of] # None
    /\ srv' = [srv EXCEPT ![c.of] = IF c.whole THEN None ELSE c.keep]
    /\ ui' = [ui EXCEPT !.removing = Released(c)]
    /\ net' = net \ {c}
    /\ UNCHANGED odd

(* A failed removal reads the list again, and the datasets with it when    *)
(* the whole dataset was to go.                                            *)
Rollback(c) == IF c.whole THEN Listed(ui.agent) ELSE ui.list[ui.agent]

RemoveFails(c) ==
    /\ c.kind = "remove"
    /\ \/ srv[c.of] = None /\ odd' = odd
       \/ odd > 0 /\ odd' = odd - 1
    /\ ui' = [ui EXCEPT !.removing = Released(c), !.list[ui.agent] = Rollback(c),
                        !.failed = IF c.whole THEN @ \ {ui.agent} ELSE @,
                        !.logs[c.of] = IF @ = None THEN None ELSE srv[c.of]]
    /\ net' = net \ {c}
    /\ UNCHANGED srv

(* The name of a dataset: startRenameDataset, cancelRenameDataset and      *)
(* saveDatasetLabel (an unchanged name makes no call: it is a cancel).     *)
StartRename(d) ==
    /\ d \in Items \ {ui.editing}
    /\ ui' = [ui EXCEPT !.editing = d]
    /\ UNCHANGED <<net, srv, odd>>

CancelRename ==
    /\ ui.editing \in Items
    /\ ui' = [ui EXCEPT !.editing = None, !.renaming = FALSE]
    /\ UNCHANGED <<net, srv, odd>>

SaveLabel ==
    /\ ui.editing \in Items /\ Room
    /\ Call([kind |-> "rename", of |-> ui.editing])
    /\ ui' = [ui EXCEPT !.renaming = TRUE]
    /\ UNCHANGED <<srv, odd>>

Renamed(c) ==
    /\ c.kind = "rename" /\ srv[c.of] # None
    /\ ui' = [ui EXCEPT !.renaming = FALSE, !.editing = None,
                        !.list[ui.agent] = Listed(ui.agent), !.failed = @ \ {ui.agent}]
    /\ net' = net \ {c}
    /\ UNCHANGED <<srv, odd>>

RenameFails(c) ==
    /\ c.kind = "rename"
    /\ \/ srv[c.of] = None /\ odd' = odd
       \/ odd > 0 /\ odd' = odd - 1
    /\ ui' = [ui EXCEPT !.renaming = FALSE]
    /\ net' = net \ {c}
    /\ UNCHANGED srv

OtherDeletes ==
    /\ odd > 0 /\ odd' = odd - 1
    /\ \E d \in Datasets \ Gone : srv' = [srv EXCEPT ![d] = None]
    /\ UNCHANGED <<ui, net>>

Answer(c) ==
    \/ c.kind = "batch" /\ BatchEnds(c, c.ids) /\ UNCHANGED odd
    \/ Removed(c) \/ Renamed(c)

Fail(c) == BatchFails(c) \/ RemoveFails(c) \/ RenameFails(c)

Next ==
    \/ \E a \in Owners : Switch(a)
    \/ Read \/ ReadFails
    \/ ToggleMode \/ Tick \/ AskConfirm \/ CloseConfirm \/ ConfirmDelete
    \/ CancelRename \/ SaveLabel \/ OtherDeletes
    \/ \E d \in Datasets : StartRename(d) \/ Expand(d) \/ \E l \in Logs : RemoveLog(d, l)
    \/ \E c \in net : Answer(c) \/ Fail(c)

Spec == Init /\ [][Next]_vars

-----------------------------------------------------------------------------
TypeOK ==
    /\ ui.agent \in Owners /\ ui.failed \subseteq Owners
    /\ \A a \in Owners : ui.list[a] = None \/ ui.list[a] \subseteq Datasets
    /\ \A d \in Datasets : ui.logs[d] = None \/ ui.logs[d] \subseteq Logs
    /\ ui.ticked \cup ui.carried \subseteq Datasets /\ ui.editing \in Datasets \cup {None}
    /\ {ui.remove, ui.confirm, ui.renaming} \subseteq BOOLEAN

Stuck == \/ ui.removing # None /\ ~\E c \in net : c.kind = "remove" /\ <<c.of, c.log>> = ui.removing
         \/ ui.renaming /\ ~\E c \in net : c.kind = "rename"

(* The deletion sends exactly the datasets that were ticked, and "all of   *)
(* them" is never what an empty selection turns into.  Those ticked since  *)
(* the agent was last changed are of the agent on screen, whatever was     *)
(* read, refused or renamed in between.                                    *)
AsAsked ==
    \A c \in net : c.kind = "batch" =>
        c.ids = c.asked /\ c.ids \ c.carried \subseteq OfAgent(c.agent)

(* What the dialog says, "only the selected datasets for this agent": a    *)
(* deletion sends no dataset of another agent.                             *)
OwnOnly == \A c \in net : c.kind = "batch" => c.ids \subseteq OfAgent(c.agent)
=============================================================================
