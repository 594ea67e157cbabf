----------------------------- MODULE ClinicalLog -----------------------------
(***************************************************************************)
(* The log of one agent in Live View: the newest page, polled; the older   *)
(* pages, loaded on request and kept beside it; rows ticked for saving or  *)
(* for deletion; the deletion itself.  The panel stays mounted when        *)
(* another agent is chosen, so calls of the agent that was left come back  *)
(* to a log that shows another one.  strays are the rows of other agents   *)
(* that the log shows, come in with a late page or kept from the last one. *)
(***************************************************************************)
EXTENDS Naturals, FiniteSets

CONSTANTS Owner,     \* snapshot |-> its agent; a larger number is newer
          PageSize,  \* recentTraceLimit
          MaxCalls,  \* calls in flight at once
          None

VARIABLES ui,   \* the state of the component
          net,  \* its calls in flight
          srv,  \* the snapshots that exist
          odd   \* how many more failed calls and acts of others may happen

vars == <<ui, net, srv, odd>>

Snaps == DOMAIN Owner
Owners == {Owner[s] : s \in Snaps}

(* The list call: the rows of a page, newest first, and how many there are. *)
OfAgent(S, a) == {s \in S : Owner[s] = a}
PageOf(S, a, offset) ==
    {s \in OfAgent(S, a) : Cardinality({t \in OfAgent(S, a) : t > s}) \in offset .. offset + PageSize - 1}
FirstPage(S, a) == [rows |-> PageOf(S, a, 0), total |-> Cardinality(OfAgent(S, a))]
Nothing == [rows |-> {}, total |-> 0]

(* useSWR with keepPreviousData: the page of this key, else the last one shown. *)
Latest == IF ui.page[ui.agent] # None THEN ui.page[ui.agent] ELSE ui.kept
FirstLoad == ui.page[ui.agent] = None /\ ~ui.failed
Loaded == Latest.rows \cup ui.older
HasMore == Cardinality(Loaded) < Latest.total

Init ==
    /\ srv \in {S \in SUBSET Snaps : Cardinality(Snaps \ S) = 1}
    /\ \E a \in Owners :
         ui = [agent |-> a, page |-> [b \in Owners |-> None], kept |-> Nothing, failed |-> FALSE,
               older |-> {}, strays |-> {}, loading |-> FALSE, select |-> FALSE, sel |-> {},
               remove |-> FALSE, rem |-> {}, asked |-> {}, deleting |-> FALSE]
    /\ net = {} /\ odd = 1

(* What the rows and the toolbar offer: nothing while the first page loads. *)
Offers(control) ==
    /\ ~FirstLoad
    /\ CASE control = "save" -> ui.select
         [] control = "delete" -> ui.remove /\ ui.rem # {} /\ ~ui.deleting
         [] control = "older" -> Latest.total > 0 /\ HasMore /\ ~ui.loading
         [] OTHER -> TRUE

(* Another agent is chosen on the map: ticks, modes and older rows are     *)
(* dropped, and the page shown is the one last read for the new key; the   *)
(* last one shown stays when there is none.                                *)
KeptFor(a) == IF ui.page[a] = None THEN Latest ELSE Nothing

Switch(a) ==
    /\ a # ui.agent
    /\ ui' = [ui EXCEPT !.agent = a, !.kept = KeptFor(a), !.strays = KeptFor(a).rows,
                        !.failed = FALSE, !.older = {}, !.loading = FALSE,
                        !.select = FALSE, !.sel = {}, !.remove = FALSE, !.rem = {}, !.asked = {}]
    /\ UNCHANGED <<net, srv, odd>>

(* The poll, the return to the tab and Retry bring the first page again. *)
Refresh ==
    /\ ui' = [ui EXCEPT !.page[ui.agent] = FirstPage(srv, ui.agent), !.failed = FALSE]
    /\ UNCHANGED <<net, srv, odd>>

RefreshFails ==
    /\ odd > 0 /\ odd' = odd - 1
    /\ ui' = [ui EXCEPT !.failed = TRUE]
    /\ UNCHANGED <<net, srv>>

(* New runs are captured, and another member deletes snapshots. *)
OthersAct ==
    /\ odd > 0 /\ odd' = odd - 1
    /\ \E s \in Snaps : srv' = IF s \in srv THEN srv \ {s} ELSE srv \cup {s}
    /\ UNCHANGED <<ui, net>>

(* loadOlderSnapshots *)
LoadOlder ==
    /\ Cardinality(net) < MaxCalls
    /\ Offers("older")
    /\ net' = net \cup {[kind |-> "older", agent |-> ui.agent, offset |-> Cardinality(Loaded), rows |-> None]}
    /\ ui' = [ui EXCEPT !.loading = TRUE]
    /\ UNCHANGED <<srv, odd>>

ServeOlder(c) ==
    /\ c.kind = "older" /\ c.rows = None
    /\ net' = (net \ {c}) \cup {[c EXCEPT !.rows = PageOf(srv, c.agent, c.offset)]}
    /\ UNCHANGED <<ui, srv, odd>>

(* The rows join the log whichever agent it shows by now. *)
OlderArrives(c) ==
    /\ c.kind = "older" /\ c.rows # None
    /\ ui' = [ui EXCEPT !.older = @ \cup c.rows, !.loading = FALSE,
                        !.strays = IF c.agent = ui.agent THEN @ ELSE @ \cup c.rows]
    /\ net' = net \ {c}
    /\ UNCHANGED <<srv, odd>>

OlderFails(c) ==
    /\ c.kind = "older" /\ c.rows = None /\ odd > 0 /\ odd' = odd - 1
    /\ ui' = [ui EXCEPT !.loading = FALSE]
    /\ net' = net \ {c}
    /\ UNCHANGED srv

(* The two modes of the toolbar; each leaves the other. *)
ToggleSelect ==
    /\ Offers("select")
    /\ ui' = [ui EXCEPT !.select = ~@, !.remove = FALSE, !.rem = {}, !.asked = {},
                        !.sel = IF ui.select THEN {} ELSE @]
    /\ UNCHANGED <<net, srv, odd>>

\* Slip: the ticks of an earlier visit to the mode are kept
KeepTicks == ui.rem

TicksOnToggle == IF ui.remove THEN ui.rem ELSE {}

ToggleRemove ==
    /\ Offers("remove")
    /\ ui' = [ui EXCEPT !.remove = ~@, !.select = FALSE, !.sel = {}, !.asked = {}, !.rem = TicksOnToggle]
    /\ UNCHANGED <<net, srv, odd>>

Flip(S, s) == IF s \in S THEN S \ {s} ELSE S \cup {s}

(* A click on a row ticks it in the mode that is on. *)
ClickRow(s) ==
    /\ Offers("row") /\ s \in Loaded
    /\ \/ ui.select /\ ui' = [ui EXCEPT !.sel = Flip(@, s)]
       \/ ~ui.select /\ ui.remove /\ ui' = [ui EXCEPT !.rem = Flip(@, s), !.asked = @ \cup {s}]
    /\ UNCHANGED <<net, srv, odd>>

AllTicked(S) == Cardinality(S) = Cardinality(Loaded)

(* selectAll and selectAllForRemove: a selection as large as the list is cleared. *)
TickAll ==
    /\ Offers("row")
    /\ \/ ui.select /\ ui' = [ui EXCEPT !.sel = IF AllTicked(ui.sel) THEN {} ELSE Loaded]
       \/ ui.remove /\ ui' = [ui EXCEPT !.rem = IF AllTicked(ui.rem) THEN {} ELSE Loaded,
                                        !.asked = @ \cup Loaded]
    /\ UNCHANGED <<net, srv, odd>>

(* deleteSelectedSnapshots: the call, the rows it deletes, its answer, and *)
(* the reading of the log then on screen, which it waits for.              *)
Delete ==
    /\ Cardinality(net) < MaxCalls
    /\ Offers("delete")
    /\ net' = net \cup {[kind |-> "delete", agent |-> ui.agent, ids |-> ui.rem,
                         asked |-> ui.asked, strays |-> ui.strays]}
    /\ ui' = [ui EXCEPT !.deleting = TRUE]
    /\ UNCHANGED <<srv, odd>>

ServerDeletes(c) ==
    /\ c.kind = "delete"
    /\ srv' = srv \ c.ids
    /\ net' = (net \ {c}) \cup {[c EXCEPT !.kind = "deleted"]}
    /\ UNCHANGED <<ui, odd>>

Deleted(c) ==
    /\ c.kind = "deleted"
    /\ ui' = [ui EXCEPT !.rem = {}, !.asked = {}, !.sel = @ \ c.ids, !.remove = FALSE, !.older = @ \ c.ids]
    /\ net' = (net \ {c}) \cup {[kind |-> "settle", agent |-> ui.agent]}
    /\ UNCHANGED <<srv, odd>>

Settled(c) ==
    /\ c.kind = "settle"
    /\ ui' = [ui EXCEPT !.page[c.agent] = FirstPage(srv, c.agent), !.failed = @ /\ c.agent # ui.agent,
                        !.deleting = FALSE]
    /\ net' = net \ {c}
    /\ UNCHANGED <<srv, odd>>

SettleFails(c) ==
    /\ c.kind = "settle" /\ odd > 0 /\ odd' = odd - 1
    /\ ui' = [ui EXCEPT !.failed = @ \/ c.agent = ui.agent, !.deleting = FALSE]
    /\ net' = net \ {c}
    /\ UNCHANGED srv

\* Slip: the flag comes down only when the call succeeds
StillDeleting == TRUE

AfterFailure == FALSE

(* The call is refused, or its answer is lost after the rows were deleted. *)
DeleteFails(c) ==
    /\ c.kind \in {"delete", "deleted"} /\ odd > 0 /\ odd' = odd - 1
    /\ net' = net \ {c}
    /\ ui' = [ui EXCEPT !.deleting = AfterFailure]
    /\ UNCHANGED srv

Next ==
    \/ \E a \in Owners : Switch(a)
    \/ Refresh \/ RefreshFails \/ OthersAct
    \/ LoadOlder \/ ToggleSelect \/ ToggleRemove \/ TickAll \/ Delete
    \/ \E s \in Snaps : ClickRow(s)
    \/ \E c \in net : ServeOlder(c) \/ OlderArrives(c) \/ OlderFails(c)
    \/ \E c \in net : ServerDeletes(c) \/ Deleted(c) \/ Settled(c) \/ SettleFails(c) \/ DeleteFails(c)

Spec == Init /\ [][Next]_vars

-----------------------------------------------------------------------------
TypeOK ==
    /\ ui.agent \in Owners /\ ui.kept.rows \subseteq Snaps /\ ui.older \cup ui.strays \subseteq Snaps
    /\ \A a \in Owners : ui.page[a] # None => ui.page[a].rows \subseteq Snaps /\ ui.page[a].total \in Nat
    /\ ui.sel \subseteq Snaps /\ ui.rem \subseteq ui.asked \cup Snaps
    /\ {ui.failed, ui.loading, ui.select, ui.remove, ui.deleting} \subseteq BOOLEAN
    /\ srv \subseteq Snaps /\ odd \in 0 .. 1

Stuck == \/ ui.loading /\ ~\E c \in net : c.kind = "older"
         \/ ui.deleting /\ ~\E c \in net : c.kind \in {"delete", "deleted", "settle"}

(* What is sent for deletion was ticked since the mode was last entered,   *)
(* and it is of the agent whose log is open, but for the rows that strayed *)
(* into that log: ticks of an earlier visit to the mode or made for        *)
(* another agent never ride along.                                         *)
OnlyTicked ==
    \A c \in net : c.kind = "delete" =>
        c.ids \subseteq c.asked /\ c.ids \ c.strays \subseteq OfAgent(Snaps, c.agent)

(* A selection for saving exists only while its mode is on, and the two    *)
(* modes are never on together, whatever answers come in between.          *)
OneMode == ~(ui.select /\ ui.remove) /\ (ui.sel # {} => ui.select)
=============================================================================
