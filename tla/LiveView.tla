------------------------------- MODULE LiveView -------------------------------
(***************************************************************************)
(* The map of agents: the list and how it is kept fresh (a stream of       *)
(* changes, a poll while the stream is down, nothing while the tab is      *)
(* hidden), the agent whose panel is open, and the tray of deleted agents, *)
(* from which they are restored or purged.                                 *)
(***************************************************************************)
EXTENDS Naturals, FiniteSets

CONSTANTS Agents, MaxCalls, None

VARIABLES ui, net, srv, odd

vars == <<ui, net, srv, odd>>

Tabs == {"issues", "saved", "checks", "settings"}

Listed == [a \in Agents |-> IF srv[a] = "gone" THEN None ELSE srv[a]]
Those(list, state) == {a \in Agents : list # None /\ list[a] = state}
Nodes == Those(ui.list, "live")
Tray == IF ui.error THEN {} ELSE Those(ui.list, "deleted")

Init ==
    /\ srv \in [Agents -> {"live", "deleted"}]
    /\ ui = [list |-> None, error |-> FALSE, agent |-> None, tab |-> "issues",
             visible |-> TRUE, stream |-> "opening", connected |-> FALSE, timer |-> FALSE,
             mode |-> FALSE, ticked |-> {}, purging |-> FALSE, restoring |-> None]
    /\ net = {} /\ odd = 2

TicksOn(list) == ui.ticked \cap Those(list, "deleted")

(* A list arrives: the tray forgets ticks of agents that are no longer in  *)
(* it, and leaves its mode when it is empty.                               *)
Shows(s, list) ==
    [s EXCEPT !.list = list, !.error = FALSE, !.ticked = TicksOn(list),
              !.mode = @ /\ Those(list, "deleted") # {}]

(* The list is polled unless the tab is hidden or the stream is up. *)
Polls == ui.visible /\ ~ui.connected

Fetch ==
    /\ Polls \/ ui.timer
    /\ ui' = Shows([ui EXCEPT !.timer = FALSE], Listed)
    /\ UNCHANGED <<net, srv, odd>>

(* An error puts an overlay in place of the tray. *)
FetchFails ==
    /\ Polls \/ ui.timer
    /\ odd > 0 /\ odd' = odd - 1
    /\ ui' = [ui EXCEPT !.timer = FALSE, !.error = TRUE, !.mode = FALSE, !.ticked = {}]
    /\ UNCHANGED <<net, srv>>

Retry ==
    /\ ui.error
    /\ ui' = Shows(ui, Listed)
    /\ UNCHANGED <<net, srv, odd>>

-----------------------------------------------------------------------------
(* The stream: opened while the tab is visible, closed with its timer when *)
(* it is hidden, and opened again by the browser when it breaks.           *)
\* Slip: closing leaves the flag up
ClosedButUp(s) == [s EXCEPT !.stream = "closed", !.timer = FALSE]

Closed(s) == [s EXCEPT !.stream = "closed", !.timer = FALSE, !.connected = FALSE]

Hide ==
    /\ ui.visible
    /\ ui' = [Closed(ui) EXCEPT !.visible = FALSE]
    /\ UNCHANGED <<net, srv, odd>>

(* On return the list is read again unless it is less than 15 s old. *)
Show ==
    /\ ~ui.visible
    /\ LET back == [ui EXCEPT !.visible = TRUE, !.stream = "opening"]
       IN  ui' = back \/ ui' = Shows(back, Listed)
    /\ UNCHANGED <<net, srv, odd>>

StreamOpens ==
    /\ ui.stream \in {"opening", "broken"}
    /\ ui' = [ui EXCEPT !.stream = "open", !.connected = TRUE]
    /\ UNCHANGED <<net, srv, odd>>

StreamBreaks ==
    /\ ui.stream \in {"opening", "open"}
    /\ odd > 0 /\ odd' = odd - 1
    /\ ui' = [ui EXCEPT !.stream = "broken", !.connected = FALSE]
    /\ UNCHANGED <<net, srv>>

(* Traffic brings agents (back), and members remove them; the change is    *)
(* announced on the stream unless another one has just been.               *)
Turn(a, state) == srv' = [srv EXCEPT ![a] = state]

OthersAct ==
    /\ odd > 0 /\ odd' = odd - 1
    /\ \E a \in Agents : Turn(a, IF srv[a] = "live" THEN "deleted" ELSE "live")
    /\ \/ ui' = ui
       \/ ui.stream = "open" /\ ui' = [ui EXCEPT !.timer = TRUE]
    /\ UNCHANGED net

-----------------------------------------------------------------------------
(* The panel of an agent. *)
Select(a) ==
    /\ a \in Nodes
    /\ ui' = [ui EXCEPT !.agent = a]
    /\ UNCHANGED <<net, srv, odd>>

ClosePanel ==
    /\ ui.agent # None
    /\ ui' = [ui EXCEPT !.agent = None, !.tab = "issues"]
    /\ UNCHANGED <<net, srv, odd>>

OpenTab(t) ==
    /\ ui.agent # None /\ t # ui.tab
    /\ ui' = [ui EXCEPT !.tab = t]
    /\ UNCHANGED <<net, srv, odd>>

-----------------------------------------------------------------------------
(* The tray. *)
ToggleMode ==
    /\ Tray # {}
    /\ ui' = [ui EXCEPT !.mode = ~@, !.ticked = {}]
    /\ UNCHANGED <<net, srv, odd>>

Tick ==
    /\ ui.mode /\ Tray # {}
    /\ \/ \E a \in Tray : ui' = [ui EXCEPT !.ticked = IF a \in @ THEN @ \ {a} ELSE @ \cup {a}]
       \/ ui' = [ui EXCEPT !.ticked = IF Cardinality(@) = Cardinality(Tray) THEN {} ELSE Tray]
    /\ UNCHANGED <<net, srv, odd>>

Call(c) == Cardinality(net) < MaxCalls /\ net' = net \cup {c}

(* handleHardDeleteAgents, once the browser's question is answered. *)
Purge ==
    /\ ui.mode /\ Tray # {} /\ ui.ticked # {} /\ ~ui.purging
    /\ Call([kind |-> "purge", ids |-> ui.ticked, open |-> ui.agent, listed |-> Tray])
    /\ ui' = [ui EXCEPT !.purging = TRUE]
    /\ UNCHANGED <<srv, odd>>

(* The server looks up which of them are deleted, ...                     *)
PurgeReads(c) ==
    /\ c.kind = "purge"
    /\ net' = (net \ {c}) \cup {[kind |-> "purging", open |-> c.open, ids |-> c.ids,
                                 found |-> {a \in c.ids : srv[a] = "deleted"}]}
    /\ UNCHANGED <<ui, srv, odd>>

(* ... and deletes what belongs to those, whatever they have become by     *)
(* then: no lock is held on their rows.                                    *)
PurgeCommits(c) ==
    /\ c.kind = "purging"
    /\ srv' = [a \in Agents |-> IF a \in c.found THEN "gone" ELSE srv[a]]
    /\ net' = (net \ {c}) \cup {[kind |-> "purged", open |-> c.open, ids |-> c.ids]}
    /\ UNCHANGED <<ui, odd>>

AfterPurge(c) ==
    IF c.open \in c.ids THEN [ui EXCEPT !.purging = FALSE, !.agent = None, !.tab = "issues"]
                        ELSE [ui EXCEPT !.purging = FALSE]

PurgeDone(c) ==
    /\ c.kind = "purged"
    /\ ui' = Shows(AfterPurge(c), Listed)
    /\ net' = net \ {c}
    /\ UNCHANGED <<srv, odd>>

(* The call is lost, or its answer is, after the purge as well as before.  *)
Purging == {"purge", "purging", "purged"}

PurgeFails(c) ==
    /\ c.kind \in Purging /\ odd > 0 /\ odd' = odd - 1
    /\ ui' = [ui EXCEPT !.purging = FALSE]
    /\ net' = net \ {c}
    /\ UNCHANGED srv

(* handleRestoreAgent: the agent's panel opens when it is back. *)
Restore(a) ==
    /\ a \in Tray /\ ui.restoring # a
    /\ Call([kind |-> "restore", agent |-> a])
    /\ ui' = [ui EXCEPT !.restoring = a]
    /\ UNCHANGED <<srv, odd>>

(* An agent that was purged is not restored.                               *)
RestoreDone(c) ==
    /\ c.kind = "restore" /\ srv[c.agent] # "gone"
    /\ Turn(c.agent, "live")
    /\ ui' = Shows([ui EXCEPT !.agent = c.agent, !.tab = "issues", !.restoring = None], Listed')
    /\ net' = net \ {c}
    /\ UNCHANGED odd

RestoreFails(c) ==
    /\ c.kind = "restore"
    /\ \/ srv[c.agent] = "gone" /\ odd' = odd
       \/ odd > 0 /\ odd' = odd - 1
    /\ ui' = [ui EXCEPT !.restoring = None]
    /\ net' = net \ {c}
    /\ UNCHANGED srv

Next ==
    \/ Fetch \/ FetchFails \/ Retry \/ Hide \/ Show \/ StreamOpens \/ StreamBreaks \/ OthersAct
    \/ ClosePanel \/ ToggleMode \/ Tick \/ Purge
    \/ \E a \in Agents : Select(a) \/ Restore(a)
    \/ \E t \in Tabs : OpenTab(t)
    \/ \E c \in net : \/ PurgeReads(c) \/ PurgeCommits(c) \/ PurgeDone(c) \/ PurgeFails(c)
                      \/ RestoreDone(c) \/ RestoreFails(c)

Spec == Init /\ [][Next]_vars

-----------------------------------------------------------------------------
TypeOK ==
    /\ ui.list = None \/ ui.list \in [Agents -> {"live", "deleted", None}]
    /\ ui.agent \in Agents \cup {None} /\ ui.tab \in Tabs
    /\ ui.stream \in {"closed", "opening", "open", "broken"}
    /\ ui.ticked \subseteq Agents /\ ui.restoring \in Agents \cup {None}
    /\ {ui.error, ui.visible, ui.connected, ui.timer, ui.mode, ui.purging} \subseteq BOOLEAN

Stuck == \/ ui.purging /\ ~\E c \in net : c.kind \in Purging
         \/ ui.restoring # None /\ ~\E c \in net : c.kind = "restore" /\ c.agent = ui.restoring

(* Polling is off only while the tab is hidden or the stream is really up: *)
(* whatever the order of returns, breaks and reconnections, the page never *)
(* believes in a stream it does not have.                                  *)
NeverBlind == ui.connected => ui.stream = "open" /\ ui.visible

(* What is sent to be purged was listed as deleted when it was sent: ticks *)
(* of agents that came back with new traffic have been dropped.            *)
PurgesListed == \A c \in net : c.kind = "purge" => c.ids \subseteq c.listed
=============================================================================
