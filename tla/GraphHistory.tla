---------------------------- MODULE GraphHistory ----------------------------
(***************************************************************************)
(* The map of agents as a drawing, on Live View and on the Release Gate:   *)
(* where each agent is shown, dragging it, the automatic layout, undo and  *)
(* redo over a bounded history, the places kept in local storage, and what *)
(* a new list of agents does to all of them.                               *)
(***************************************************************************)
EXTENDS Naturals, Sequences, FiniteSets

CONSTANTS Agents,
          HistoryCap,   \* layouts kept for undo
          None

VARIABLES ui, net, srv, odd

vars == <<ui, net, srv, odd>>

(* A place: the agent's slot of the grid, or the one it was dragged to. *)
Places == {"grid", "moved"}
Layouts == UNION {[A -> Places] : A \in SUBSET Agents}
Nothing == [a \in {} |-> "grid"]
Grid(A) == [a \in A |-> "grid"]

Init ==
    /\ srv \in SUBSET Agents
    /\ \E map \in {"live", "gate"} :
         ui = [map |-> map, agents |-> {}, nodes |-> Nothing, history |-> <<>>, index |-> 0,
               saved |-> Nothing, selected |-> None,
               drag |-> None, click |-> None, recent |-> FALSE, commit |-> FALSE]
    /\ net = {} /\ odd = 2

-----------------------------------------------------------------------------
(* useGraphHistory: index is the layout that is shown, 0 before any. *)
Cut(h) == IF Len(h) > HistoryCap THEN SubSeq(h, Len(h) - HistoryCap + 1, Len(h)) ELSE h

Committed(s) ==
    [s EXCEPT !.history = Cut(Append(SubSeq(s.history, 1, s.index), s.nodes)),
              !.index = IF @ + 1 > HistoryCap THEN HistoryCap ELSE @ + 1]

Reset(s) == [s EXCEPT !.history = <<>>, !.index = 0]

Begun(s) == IF s.history # <<>> \/ s.nodes = Nothing THEN s ELSE [s EXCEPT !.history = <<s.nodes>>, !.index = 1]

Kept(s) == [s EXCEPT !.saved = s.nodes]

-----------------------------------------------------------------------------
(* A list of agents arrives.  Agents that are shown stay where they are,   *)
(* others take the place that was kept for them.                           *)
PlaceOf(a) ==
    IF a \in DOMAIN ui.nodes THEN ui.nodes[a]
    ELSE IF a \in DOMAIN ui.saved THEN ui.saved[a] ELSE "grid"

Placed(s, A) == [s EXCEPT !.agents = A, !.nodes = [a \in A |-> PlaceOf(a)]]

Forgets(s, A) == IF s.agents # {} /\ s.agents # A THEN Reset(s) ELSE s

Sync ==
    /\ \/ srv = {} /\ ui' = Reset([ui EXCEPT !.agents = {}, !.nodes = Nothing])
       \/ srv # {} /\ ui' = Begun(Placed(Forgets(ui, srv), srv))
    /\ ui' # ui
    /\ UNCHANGED <<net, srv, odd>>

OthersAct ==
    /\ odd > 0 /\ odd' = odd - 1
    /\ \E a \in Agents : srv' = IF a \in srv THEN srv \ {a} ELSE srv \cup {a}
    /\ UNCHANGED <<ui, net>>

(* A purge from the tray of Live View drops the history. *)
PurgeDone ==
    /\ ui.map = "live" /\ odd > 0 /\ odd' = odd - 1
    /\ ui' = Reset(ui)
    /\ UNCHANGED <<net, srv>>

-----------------------------------------------------------------------------
(* Dragging.  The layout is committed and kept a moment after the drop;    *)
(* the click the browser adds to a drop is not one.                        *)
Draggable == ui.map = "live" \/ ui.selected = None

Drag(a, p) ==
    /\ Draggable /\ ui.drag \in {None, a} /\ ~ui.commit /\ ui.click = None
    /\ a \in DOMAIN ui.nodes /\ p # ui.nodes[a]
    /\ ui' = [ui EXCEPT !.drag = a, !.nodes[a] = p]
    /\ UNCHANGED <<net, srv, odd>>

Drop ==
    /\ ui.drag # None
    /\ ui' = [ui EXCEPT !.click = ui.drag, !.drag = None, !.recent = TRUE, !.commit = TRUE]
    /\ UNCHANGED <<net, srv, odd>>

CommitDrop ==
    /\ ui.commit
    /\ ui' = Kept(Committed([ui EXCEPT !.commit = FALSE]))
    /\ UNCHANGED <<net, srv, odd>>

(* The click that ends the drag comes at once, long before the window in   *)
(* which clicks are ignored is over.                                       *)
Select(a) == IF ui.recent THEN ui.selected ELSE a

ClickOfDrop ==
    /\ ui.click # None
    /\ ui' = [ui EXCEPT !.selected = Select(ui.click), !.click = None]
    /\ UNCHANGED <<net, srv, odd>>

WindowEnds ==
    /\ ui.recent /\ ui.click = None
    /\ ui' = [ui EXCEPT !.recent = FALSE]
    /\ UNCHANGED <<net, srv, odd>>

Click(a) ==
    /\ a \in DOMAIN ui.nodes /\ ui.drag = None /\ ui.click = None
    /\ ui' = [ui EXCEPT !.selected = Select(a)]
    /\ UNCHANGED <<net, srv, odd>>

Deselect ==
    /\ ui.selected # None
    /\ ui' = [ui EXCEPT !.selected = None]
    /\ UNCHANGED <<net, srv, odd>>

-----------------------------------------------------------------------------
(* The toolbar. *)
AutoLayout ==
    /\ ui.drag = None
    /\ ui' = Kept(Committed([ui EXCEPT !.nodes = Grid(DOMAIN @)]))
    /\ UNCHANGED <<net, srv, odd>>

Step(i) == [ui EXCEPT !.index = i, !.nodes = ui.history[i]]

Undo ==
    /\ ui.drag = None /\ ui.index > 1
    /\ ui' = Step(ui.index - 1)
    /\ UNCHANGED <<net, srv, odd>>

Redo ==
    /\ ui.drag = None /\ ui.index < Len(ui.history)
    /\ ui' = Step(ui.index + 1)
    /\ UNCHANGED <<net, srv, odd>>

Next ==
    \/ Sync \/ OthersAct \/ PurgeDone \/ Drop \/ CommitDrop \/ ClickOfDrop \/ WindowEnds
    \/ Deselect \/ AutoLayout \/ Undo \/ Redo
    \/ \E a \in Agents : Click(a) \/ \E p \in Places : Drag(a, p)

Spec == Init /\ [][Next]_vars

-----------------------------------------------------------------------------
TypeOK ==
    /\ ui.nodes \in Layouts /\ ui.saved \in Layouts /\ ui.agents \subseteq Agents
    /\ \A i \in DOMAIN ui.history : ui.history[i] \in Layouts
    /\ ui.index \in 0..HistoryCap /\ Len(ui.history) <= HistoryCap
    /\ {ui.selected, ui.drag, ui.click} \subseteq Agents \cup {None}
    /\ {ui.recent, ui.commit} \subseteq BOOLEAN

(* Undo and redo stay inside what is kept, and what they bring back shows  *)
(* the agents of the list: none that is gone, none left out.  (The layout  *)
(* of an empty map, committed by the automatic layout, is the exception.)  *)
Undoable ==
    /\ ui.index <= Len(ui.history)
    /\ \A i \in DOMAIN ui.history : DOMAIN ui.history[i] \in {ui.agents, {}}

(* Dropping an agent selects none. *)
DropSelectsNone == ui.click # None => ui'.selected \in {ui.selected, None}
=============================================================================
