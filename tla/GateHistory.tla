----------------------------- MODULE GateHistory -----------------------------
(***************************************************************************)
(* The history of the Release Gate: the list of an agent's validation      *)
(* sessions, kept per agent by the data cache, the deletion of one (shown  *)
(* before it is made, undone when it fails), and the session that is       *)
(* opened, whose report is read first.                                     *)
(***************************************************************************)
EXTENDS Naturals, FiniteSets

CONSTANTS Owner,     \* session |-> its agent
          Blank,     \* the sessions whose report has no attempt to show
          MaxCalls, None

VARIABLES ui, net, srv, odd

vars == <<ui, net, srv, odd>>

Sessions == DOMAIN Owner
Owners == {Owner[r] : r \in Sessions}
Retained(a) == {r \in srv : Owner[r] = a}

Init ==
    /\ srv \in {Sessions, Sessions \ {1}}
    /\ ui = [agent |-> None, tab |-> "results", key |-> None, locked |-> FALSE,
             cache |-> [a \in Owners |-> None], last |-> None,
             selected |-> None, pending |-> None, loaded |-> FALSE, detail |-> None,
             deleting |-> {}, clicked |-> None]
    /\ net = {} /\ odd = 1

Room == Cardinality(net) < MaxCalls

(* The overlay of a session covers the page. *)
Uncovered == ui.detail = None

(* The rows: those cached under the key, or, until there are any, those of *)
(* the key before.                                                         *)
Cached(a) == IF a = None \/ ui.cache[a] = None THEN {} ELSE ui.cache[a]
Known == ui.key # None /\ ui.cache[ui.key] # None
Rows == IF Known THEN ui.cache[ui.key] ELSE Cached(ui.last)
LastKey == IF Known THEN ui.key ELSE ui.last
Reading(a) == \E c \in net : c.kind = "list" /\ c.of = a
ReportReading == \E c \in net : c.kind = "report" /\ c.of = ui.selected
Loading == ui.key # None /\ ui.cache[ui.key] = None /\ Reading(ui.key)

(* The list is read when its key is new, unless a run has locked the page. *)
ListCall(s) ==
    IF s.key # None /\ ~s.locked /\ ~Reading(s.key) THEN {[kind |-> "list", of |-> s.key]} ELSE {}

(* Another agent, by a card of the map, by the address, or none by Back.   *)
GivenUp(s) == [s EXCEPT !.detail = None, !.pending = None, !.selected = None, !.loaded = FALSE, !.clicked = None]

Choose(a) ==
    /\ a # ui.agent
    /\ ui' = GivenUp([ui EXCEPT !.agent = a, !.tab = "results", !.key = None, !.last = LastKey])
    /\ UNCHANGED <<net, srv, odd>>

(* Leaving the tab forgets what was being opened. *)
OpenTab(t) ==
    /\ ui.agent # None /\ t # ui.tab /\ Uncovered
    /\ ui' = IF t = "history" THEN [ui EXCEPT !.tab = t, !.key = ui.agent]
                              ELSE [ui EXCEPT !.tab = t, !.pending = None]
    /\ net' = IF ui.key = None THEN net \cup ListCall(ui') ELSE net
    /\ UNCHANGED <<srv, odd>>

-----------------------------------------------------------------------------
(* A session is opened: its report is read, and shown if that session is   *)
(* still the one that is wanted and the tab is still open; a report that   *)
(* has no attempt only ends the selection.                                 *)
Wanted(s) ==
    /\ s.pending # None /\ s.pending = s.selected
    /\ s.loaded /\ s.tab = "history"

Opened(s) == IF s.selected \in Blank THEN s.detail ELSE s.selected

Shows(s) ==
    IF Wanted(s) THEN [s EXCEPT !.detail = Opened(s), !.pending = None, !.selected = None, !.loaded = FALSE]
                 ELSE s

ReportCall(r) ==
    IF ~ui.locked /\ ~\E c \in net : c.kind = "report" /\ c.of = r
    THEN {[kind |-> "report", of |-> r]} ELSE {}

Pick(r) == [ui EXCEPT !.selected = r, !.pending = r, !.clicked = r]

(* A report that was read before is at hand.  A second click on the row    *)
(* that is already selected changes nothing the screen would react to.     *)
ClickRow(r) ==
    /\ ui.tab = "history" /\ ~Loading /\ r \in Rows /\ Uncovered /\ Room
    /\ \/ r = ui.selected /\ ui' = Pick(r) /\ net' = net
       \/ r # ui.selected /\ ui' = [Pick(r) EXCEPT !.loaded = FALSE] /\ net' = net \cup ReportCall(r)
       \/ r # ui.selected /\ ui' = Shows([Pick(r) EXCEPT !.loaded = TRUE]) /\ net' = net
    /\ UNCHANGED <<srv, odd>>

ReportArrives(c) ==
    /\ c.kind = "report" /\ c.of \in srv
    /\ ui' = IF c.of = ui.selected THEN Shows([ui EXCEPT !.loaded = TRUE]) ELSE ui
    /\ net' = net \ {c}
    /\ UNCHANGED <<srv, odd>>

ReportFails(c) ==
    /\ c.kind = "report"
    /\ \/ c.of \notin srv /\ odd' = odd
       \/ odd > 0 /\ odd' = odd - 1
    /\ ui' = IF ui.pending # None /\ c.of = ui.selected
             THEN [ui EXCEPT !.pending = None, !.selected = None, !.loaded = FALSE] ELSE ui
    /\ net' = net \ {c}
    /\ UNCHANGED srv

(* The rows of logs are read again: what waits for its report is looked at *)
(* once more.                                                              *)
LogsRefreshed ==
    /\ Wanted(ui)
    /\ ui' = Shows(ui)
    /\ UNCHANGED <<net, srv, odd>>

(* The window gets the focus: the cache reads what is on screen again.     *)
Focus ==
    /\ ~ui.locked /\ Room
    /\ net' = net \cup ListCall(ui) \cup (IF ui.selected = None \/ ui.loaded THEN {} ELSE ReportCall(ui.selected))
    /\ net' # net
    /\ UNCHANGED <<ui, srv, odd>>

CloseDetail ==
    /\ ui.detail # None
    /\ ui' = [ui EXCEPT !.detail = None]
    /\ UNCHANGED <<net, srv, odd>>

ListArrives(c) ==
    /\ c.kind = "list"
    /\ ui' = [ui EXCEPT !.cache[c.of] = Retained(c.of)]
    /\ net' = net \ {c}
    /\ UNCHANGED <<srv, odd>>

-----------------------------------------------------------------------------
(* deleteHistorySession: the row goes at once, an older answer for the     *)
(* list is ignored.                                                        *)
Unread(a) == {c \in net : c.kind # "list" \/ c.of # a}

Forgotten(s, r) ==
    IF s.selected = r THEN [s EXCEPT !.pending = None, !.detail = None, !.selected = None, !.loaded = FALSE]
                      ELSE [s EXCEPT !.pending = None, !.detail = None]

Delete(r) ==
    /\ ui.tab = "history" /\ ~Loading /\ r \in Rows /\ Uncovered
    /\ ~ui.locked /\ r \notin ui.deleting
    /\ ui.selected = None \/ ~ReportReading
    /\ Room
    /\ ui' = [Forgotten(ui, r) EXCEPT !.deleting = @ \cup {r}, !.cache[ui.key] = Rows \ {r}]
    /\ net' = Unread(ui.key) \cup {[kind |-> "delete", of |-> r, rows |-> Rows]}
    /\ UNCHANGED <<srv, odd>>

Unmarked(s, r) == [s EXCEPT !.deleting = @ \ {r}]

(* The rows of the agent now on screen are read again. *)
DeleteDone(c) ==
    /\ c.kind = "delete"
    /\ srv' = srv \ {c.of}
    /\ ui' = Unmarked(IF ui.key = None THEN ui
                      ELSE [ui EXCEPT !.cache[ui.key] = {r \in srv' : Owner[r] = ui.key}], c.of)
    /\ net' = net \ {c}
    /\ UNCHANGED odd

(* The rows of the time of the click come back, under whatever key the     *)
(* screen has by now.                                                      *)
DeleteFails(c) ==
    /\ c.kind = "delete"
    /\ odd > 0 /\ odd' = odd - 1
    /\ ui' = Unmarked(IF ui.key = None THEN ui ELSE [ui EXCEPT !.cache[ui.key] = c.rows], c.of)
    /\ net' = (IF ui.key = None THEN net ELSE Unread(ui.key)) \ {c}
    /\ UNCHANGED srv

-----------------------------------------------------------------------------
(* A run starts, and ends with a new session, which closes the panels and  *)
(* has the list read again.                                                *)
RunStarts ==
    /\ ui.agent # None /\ ~ui.locked /\ Uncovered
    /\ odd > 0 /\ odd' = odd - 1
    /\ ui' = [ui EXCEPT !.locked = TRUE]
    /\ UNCHANGED <<net, srv>>

RunEnds ==
    /\ ui.locked
    /\ \/ srv' = srv /\ ui' = [ui EXCEPT !.locked = FALSE]
       \/ \E r \in Sessions \ srv : srv' = srv \cup {r} /\ ui' = [ui EXCEPT !.locked = FALSE, !.detail = None]
    /\ net' = net \cup ListCall(ui')
    /\ UNCHANGED odd

Next ==
    \/ \E a \in Owners \cup {None} : Choose(a)
    \/ \E t \in {"results", "history"} : OpenTab(t)
    \/ \E r \in Sessions : ClickRow(r) \/ Delete(r)
    \/ LogsRefreshed \/ Focus \/ CloseDetail \/ RunStarts \/ RunEnds
    \/ \E c \in net : \/ ReportArrives(c) \/ ReportFails(c) \/ ListArrives(c)
                      \/ DeleteDone(c) \/ DeleteFails(c)

Spec == Init /\ [][Next]_vars

-----------------------------------------------------------------------------
TypeOK ==
    /\ {ui.agent, ui.key} \subseteq Owners \cup {None} /\ ui.tab \in {"results", "history"}
    /\ \A a \in Owners : ui.cache[a] = None \/ ui.cache[a] \subseteq Sessions
    /\ {ui.selected, ui.pending, ui.detail, ui.clicked} \subseteq Sessions \cup {None}
    /\ ui.last \in Owners \cup {None} /\ ui.deleting \subseteq Sessions
    /\ {ui.loaded, ui.locked} \subseteq BOOLEAN

Stuck == \E r \in ui.deleting : ~\E c \in net : c.kind = "delete" /\ c.of = r

(* The session that opens is the one whose row was clicked last, since the *)
(* agent was chosen: a report that arrives late opens nothing.             *)
OpensClicked == ui.detail # None => ui.detail = ui.clicked
=============================================================================
