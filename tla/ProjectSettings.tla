--------------------------- MODULE ProjectSettings ---------------------------
(***************************************************************************)
(* The settings of a project.  General: its details, its deletion, and the *)
(* logs deleted in Live View, which are ticked and then restored or purged *)
(* for good.  API Keys: the provider keys of the project, listed again     *)
(* after each change, with nothing that orders the answers.                *)
(***************************************************************************)
EXTENDS Naturals, FiniteSets

CONSTANTS Logs,      \* logs that were deleted lately
          Keys,      \* provider keys; the first is there
          MaxCalls,  \* calls in flight at once, a bound of the model
          None

VARIABLES ui, net, srv, odd

vars == <<ui, net, srv, odd>>

Busy == {"saving", "restoring", "purging", "deleting", "adding", "removing"}

General == [page |-> "general", list |-> Logs, ticked |-> {}, busy |-> {}, text |-> "old",
            told |-> FALSE, gone |-> FALSE]
KeyPage == [page |-> "keys", keys |-> {k \in Keys : k = 1}, busy |-> {}, asked |-> None,
            crossed |-> FALSE] \* ghost: the answer taken last is not the newest list

Init ==
    /\ ui \in {General, KeyPage}
    /\ srv = [log |-> [l \in Logs |-> "deleted"], text |-> "old", there |-> TRUE,
              keys |-> {k \in Keys : k = 1}]
    /\ net = {} /\ odd = 1

AtGeneral == ui.page = "general" /\ ~ui.gone
AtKeys == ui.page = "keys"
Room == Cardinality(net) < MaxCalls
Call(c) == net' = net \cup {c}
Ends(c) == c \in net /\ net' = net \ {c}
Fails(c) == Ends(c) /\ odd > 0 /\ odd' = odd - 1 /\ UNCHANGED srv

\* A button that is off while its call is under way.
Press(flag, c) ==
    /\ flag \notin ui.busy /\ Room /\ Call(c)
    /\ UNCHANGED <<srv, odd>>

-----------------------------------------------------------------------------
(* The details.  A text that was emptied is not sent, and stays.           *)
Type(t) ==
    /\ AtGeneral /\ ui.text # t
    /\ ui' = [ui EXCEPT !.text = t, !.told = FALSE]
    /\ UNCHANGED <<net, srv, odd>>

Save ==
    /\ AtGeneral /\ Press("saving", [kind |-> "save", text |-> ui.text])
    /\ ui' = [ui EXCEPT !.busy = @ \cup {"saving"}, !.told = FALSE]

Kept(t) == IF t = "" THEN srv.text ELSE t

Saved(c) ==
    /\ c.kind = "save" /\ srv.there /\ Ends(c)
    /\ srv' = [srv EXCEPT !.text = Kept(c.text)]
    /\ ui' = [ui EXCEPT !.busy = @ \ {"saving"}, !.told = (ui.text = c.text)]
    /\ UNCHANGED odd

-----------------------------------------------------------------------------
(* The deletion of the project, after a confirmation.                      *)
DeleteProject ==
    /\ AtGeneral /\ Press("deleting", [kind |-> "delete"])
    /\ ui' = [ui EXCEPT !.busy = @ \cup {"deleting"}]

\* The page is left for the list of projects.
ProjectDeleted(c) ==
    /\ c.kind = "delete" /\ srv.there /\ c \in net /\ net' = {}
    /\ srv' = [srv EXCEPT !.there = FALSE]
    /\ ui' = [ui EXCEPT !.gone = TRUE, !.busy = {}]
    /\ UNCHANGED odd

-----------------------------------------------------------------------------
(* The deleted logs.  Restoring and purging share the ticks, and a purge   *)
(* may be asked for while a restoration is under way.                      *)
Toggle(l) ==
    /\ AtGeneral /\ l \in ui.list
    /\ ui' = [ui EXCEPT !.ticked = IF l \in @ THEN @ \ {l} ELSE @ \cup {l}]
    /\ UNCHANGED <<net, srv, odd>>

Restore ==
    /\ AtGeneral /\ ui.ticked # {}
    /\ Press("restoring", [kind |-> "restore", ids |-> ui.ticked])
    /\ ui' = [ui EXCEPT !.busy = @ \cup {"restoring"}]

Purge ==
    /\ AtGeneral /\ ui.ticked # {}
    /\ Press("purging", [kind |-> "purge", ids |-> ui.ticked])
    /\ ui' = [ui EXCEPT !.busy = @ \cup {"purging"}]

FlagOf(kind) == CASE kind = "save" -> "saving" [] kind = "delete" -> "deleting"
                  [] kind = "restore" -> "restoring" [] kind = "purge" -> "purging"
                  [] kind = "add" -> "adding" [] kind = "remove" -> "removing"

\* A reading that another one overtakes is not shown, but still awaited.
Overtaken(calls) == {IF d.kind = "list" THEN [d EXCEPT !.last = FALSE] ELSE d : d \in calls}

\* The logs of the batch that are still deleted become live, or are gone;
\* the ticks are cleared and the list is read again.
BatchDone(c) ==
    /\ c.kind \in {"restore", "purge"} /\ srv.there /\ c \in net
    /\ srv' = [srv EXCEPT !.log = [l \in Logs |->
                 IF l \in c.ids /\ srv.log[l] = "deleted"
                 THEN IF c.kind = "restore" THEN "live" ELSE "purged" ELSE srv.log[l]]]
    /\ net' = Overtaken(net \ {c}) \cup {[kind |-> "list", flag |-> FlagOf(c.kind), last |-> TRUE]}
    /\ ui' = [ui EXCEPT !.ticked = {}]
    /\ UNCHANGED odd

Pruned(list) == ui.ticked \cap list

ListRead(c) ==
    /\ c.kind = "list" /\ Ends(c)
    /\ LET list == IF c.last THEN {l \in Logs : srv.log[l] = "deleted"} ELSE ui.list IN
       ui' = [ui EXCEPT !.list = list, !.ticked = Pruned(list), !.busy = @ \ {c.flag}]
    /\ UNCHANGED <<srv, odd>>

(* Somebody else deletes a log for good, or the project. *)
OthersAct ==
    /\ AtGeneral /\ odd > 0 /\ odd' = odd - 1
    /\ \/ \E l \in Logs : srv' = [srv EXCEPT !.log[l] = "purged"]
       \/ srv' = [srv EXCEPT !.there = FALSE]
    /\ UNCHANGED <<ui, net>>

-----------------------------------------------------------------------------
(* The provider keys.                                                      *)
Add ==
    /\ AtKeys /\ Press("adding", [kind |-> "add"])
    /\ ui' = [ui EXCEPT !.busy = @ \cup {"adding"}]

AskRemove(k) ==
    /\ AtKeys /\ k \in ui.keys /\ ui.asked = None
    /\ ui' = [ui EXCEPT !.asked = k]
    /\ UNCHANGED <<net, srv, odd>>

CloseAsk ==
    /\ AtKeys /\ ui.asked # None /\ "removing" \notin ui.busy
    /\ ui' = [ui EXCEPT !.asked = None]
    /\ UNCHANGED <<net, srv, odd>>

RemoveKey ==
    /\ AtKeys /\ ui.asked # None
    /\ Press("removing", [kind |-> "remove", key |-> ui.asked])
    /\ ui' = [ui EXCEPT !.busy = @ \cup {"removing"}]

Older(calls) == {IF d.kind = "keys" THEN [d EXCEPT !.newest = FALSE] ELSE d : d \in calls}

\* The list as the server has it after the change, which is read next.
KeysChange(c, keys) ==
    /\ srv' = [srv EXCEPT !.keys = keys]
    /\ net' = Older(net \ {c}) \cup {[kind |-> "keys", keys |-> keys, newest |-> TRUE]}
    /\ UNCHANGED odd

Added(c) ==
    /\ c.kind = "add" /\ c \in net
    /\ \E k \in Keys \ srv.keys : KeysChange(c, srv.keys \cup {k})
    /\ ui' = [ui EXCEPT !.busy = @ \ {"adding"}]

KeyRemoved(c) ==
    /\ c.kind = "remove" /\ c.key \in srv.keys /\ c \in net
    /\ KeysChange(c, srv.keys \ {c.key})
    /\ ui' = [ui EXCEPT !.busy = @ \ {"removing"}, !.asked = None]

KeysRead(c) ==
    /\ c.kind = "keys" /\ Ends(c)
    /\ ui' = [ui EXCEPT !.keys = c.keys, !.crossed = ~c.newest]
    /\ UNCHANGED <<srv, odd>>

\* A list that fails is shown as empty.
KeysUnread(c) ==
    /\ c.kind = "keys" /\ Fails(c)
    /\ ui' = [ui EXCEPT !.keys = {}, !.crossed = TRUE]

-----------------------------------------------------------------------------
(* Any call but a reading: refused, or lost.                               *)
Refused(c) == \/ c.kind \in {"save", "delete", "restore", "purge"} /\ ~srv.there
              \/ c.kind = "remove" /\ c.key \notin srv.keys
              \/ c.kind = "add" /\ srv.keys = Keys

ChangeFails(c) ==
    /\ c.kind \notin {"list", "keys"}
    /\ \/ Fails(c)
       \/ Refused(c) /\ Ends(c) /\ UNCHANGED <<srv, odd>>
    /\ ui' = [ui EXCEPT !.busy = @ \ {FlagOf(c.kind)}]

Answer(c) == \/ Saved(c) \/ ProjectDeleted(c) \/ BatchDone(c) \/ ListRead(c)
             \/ Added(c) \/ KeyRemoved(c) \/ KeysRead(c)

Next ==
    \/ \E t \in {"", "old", "new"} : Type(t)
    \/ \E l \in Logs : Toggle(l)
    \/ \E k \in Keys : AskRemove(k)
    \/ Save \/ DeleteProject \/ Restore \/ Purge \/ OthersAct
    \/ Add \/ CloseAsk \/ RemoveKey
    \/ \E c \in net : Answer(c) \/ ChangeFails(c) \/ KeysUnread(c)

Spec == Init /\ [][Next]_vars

-----------------------------------------------------------------------------
TypeOK ==
    /\ ui.busy \subseteq Busy
    /\ \/ /\ ui.page = "general" /\ ui.list \subseteq Logs /\ ui.ticked \subseteq Logs
          /\ ui.text \in {"", "old", "new"} /\ {ui.told, ui.gone} \subseteq BOOLEAN
       \/ /\ ui.page = "keys" /\ ui.keys \subseteq Keys /\ ui.asked \in Keys \cup {None}
          /\ ui.crossed \in BOOLEAN
    /\ srv.log \in [Logs -> {"deleted", "live", "purged"}] /\ srv.keys \subseteq Keys

Stuck == \E f \in ui.busy : ~\E c \in net : IF c.kind = "list" THEN c.flag = f
                                             ELSE c.kind # "keys" /\ FlagOf(c.kind) = f

(* A log that is ticked, and may be purged, is one that is listed.         *)
TicksListed == ui.page = "general" => ui.ticked \subseteq ui.list

(* A page that tells of a save shows what is kept, unless it was emptied;  *)
(* and when nothing is under way the keys listed are those there are,      *)
(* unless the newest list failed to come, or an older one came after it.   *)
ShowsKept ==
    /\ ui.page = "general" /\ ui.told /\ ui.text # "" => srv.text = ui.text
    /\ ui.page = "keys" /\ net = {} /\ ~ui.crossed => ui.keys = srv.keys
=============================================================================
