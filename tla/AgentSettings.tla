---------------------------- MODULE AgentSettings ----------------------------
(***************************************************************************)
(* The Settings tab of an agent in Live View: its name, its removal, and   *)
(* the provider keys, of the agent or of the whole project.  The tab is    *)
(* not built anew when another agent is chosen on the map.                 *)
(***************************************************************************)
EXTENDS Naturals, FiniteSets

CONSTANTS Agents, MaxCalls, None

VARIABLES ui, net, srv, odd

vars == <<ui, net, srv, odd>>

(* The keys of the provider in question: of an agent, or of the project. *)
Scopes == Agents \cup {None}

Fresh(a) ==
    [agent |-> a, name |-> [b \in Agents |-> None], keys |-> None,
     draft |-> a, typed |-> FALSE, saving |-> FALSE, confirm |-> FALSE, deleting |-> FALSE,
     key |-> None, savingKey |-> FALSE, removing |-> FALSE]

Init ==
    /\ srv \in [keys : {{}, {None}}, gone : {{}}]
    /\ \E a \in Agents : ui = Fresh(a)
    /\ net = {} /\ odd = 1

(* targetKey: the key of the agent before that of the project *)
HasKey(scope) == ui.keys # None /\ scope \in ui.keys
TargetKey == IF HasKey(ui.agent) THEN {ui.agent} ELSE IF HasKey(None) THEN {None} ELSE {}

(* The effects on the agent: the name starts from what is stored for it,   *)
(* and the key that was being typed is dropped.                            *)
DraftsOf(s, a) == [s EXCEPT !.draft = a, !.typed = FALSE, !.key = None]

Switch(a) ==
    /\ a # ui.agent /\ a \notin srv.gone
    /\ ui' = IF ui.agent = None THEN Fresh(a) ELSE [DraftsOf(ui, a) EXCEPT !.agent = a]
    /\ UNCHANGED <<net, srv, odd>>

Open == ui.agent # None

(* getAgentSettings: what arrives replaces the draft of the name. *)
LoadSettings ==
    /\ Open /\ ui.name[ui.agent] = None
    /\ ui' = [ui EXCEPT !.name[ui.agent] = "stored", !.draft = ui.agent, !.typed = FALSE]
    /\ UNCHANGED <<net, srv, odd>>

LoadKeys ==
    /\ Open /\ ui.keys = None
    /\ ui' = [ui EXCEPT !.keys = srv.keys]
    /\ UNCHANGED <<net, srv, odd>>

Room == Cardinality(net) < MaxCalls
Call(c) == Room /\ net' = net \cup {c}

(* What the panel offers. *)
Offers(control) ==
    /\ Open
    /\ CASE control = "save" -> ~ui.saving /\ ui.name[ui.agent] # None
         [] control = "remove" -> ui.confirm /\ ~ui.deleting
         [] control = "saveKey" -> ~ui.savingKey /\ ui.key # None
         [] control = "removeKey" -> TargetKey # {} /\ ~ui.removing
         [] OTHER -> TRUE

TypeName ==
    /\ Offers("name") /\ ~ui.typed
    /\ ui' = [ui EXCEPT !.draft = ui.agent, !.typed = TRUE]
    /\ UNCHANGED <<net, srv, odd>>

(* saveDisplayName *)
SaveName ==
    /\ Offers("save")
    /\ Call([kind |-> "name", agent |-> ui.agent, about |-> ui.draft])
    /\ ui' = [ui EXCEPT !.saving = TRUE]
    /\ UNCHANGED <<srv, odd>>

NameSaved(c) ==
    /\ c.kind = "name"
    /\ ui' = [ui EXCEPT !.saving = FALSE, !.draft = IF c.agent = ui.agent THEN c.agent ELSE @,
                        !.typed = @ /\ c.agent # ui.agent]
    /\ UNCHANGED <<srv, odd>>

(* deleteNode: asked for and confirmed in the panel *)
AskRemove ==
    /\ Offers("ask") /\ ~ui.confirm
    /\ ui' = [ui EXCEPT !.confirm = TRUE]
    /\ UNCHANGED <<net, srv, odd>>

CancelRemove ==
    /\ Offers("remove")
    /\ ui' = [ui EXCEPT !.confirm = FALSE]
    /\ UNCHANGED <<net, srv, odd>>

Remove ==
    /\ Offers("remove")
    /\ Call([kind |-> "remove", agent |-> ui.agent])
    /\ ui' = [ui EXCEPT !.deleting = TRUE]
    /\ UNCHANGED <<srv, odd>>

\* Slip: the name is emptied with the panel
ClosedBlank == [Fresh(None) EXCEPT !.agent = None]

Closed == [Fresh(ui.draft) EXCEPT !.agent = None]

(* The panel closes, whichever agent it shows by now. *)
Removed(c) ==
    /\ c.kind = "remove"
    /\ srv' = [srv EXCEPT !.gone = @ \cup {c.agent}]
    /\ ui' = Closed
    /\ UNCHANGED odd

(* The text of a key is known by the agent it was typed for. *)
TypeKey ==
    /\ Offers("key") /\ ui.key = None
    /\ ui' = [ui EXCEPT !.key = ui.agent]
    /\ UNCHANGED <<net, srv, odd>>

(* saveProviderKey *)
SaveKey ==
    /\ Offers("saveKey")
    /\ Call([kind |-> "key", agent |-> ui.agent, about |-> ui.key, key |-> {ui.agent}])
    /\ ui' = [ui EXCEPT !.savingKey = TRUE]
    /\ UNCHANGED <<srv, odd>>

KeySaved(c) ==
    /\ c.kind = "key"
    /\ srv' = [srv EXCEPT !.keys = @ \cup c.key]
    /\ ui' = [ui EXCEPT !.key = None, !.savingKey = FALSE, !.keys = srv'.keys]
    /\ UNCHANGED odd

(* deleteProviderKey: of the agent, or of the project when it has none *)
RemoveKey ==
    /\ Offers("removeKey")
    /\ Call([kind |-> "unkey", key |-> TargetKey, agent |-> ui.agent])
    /\ ui' = [ui EXCEPT !.removing = TRUE]
    /\ UNCHANGED <<srv, odd>>

KeyRemoved(c) ==
    /\ c.kind = "unkey" /\ c.key \subseteq srv.keys
    /\ srv' = [srv EXCEPT !.keys = @ \ c.key]
    /\ ui' = [ui EXCEPT !.removing = FALSE, !.keys = srv'.keys]
    /\ UNCHANGED odd

(* Another member removes or stores a key. *)
OthersAct ==
    /\ odd > 0 /\ odd' = odd - 1
    /\ \E k \in Scopes : srv' = [srv EXCEPT !.keys = IF k \in @ THEN @ \ {k} ELSE @ \cup {k}]
    /\ UNCHANGED <<ui, net>>

Fails(c) ==
    /\ \/ c.kind = "unkey" /\ ~(c.key \subseteq srv.keys) /\ UNCHANGED odd
       \/ odd > 0 /\ odd' = odd - 1
    /\ ui' = CASE c.kind = "name" -> [ui EXCEPT !.saving = FALSE]
               [] c.kind = "remove" -> [ui EXCEPT !.deleting = FALSE, !.confirm = FALSE]
               [] c.kind = "key" -> [ui EXCEPT !.savingKey = FALSE]
               [] c.kind = "unkey" -> [ui EXCEPT !.removing = FALSE]
    /\ UNCHANGED srv

(* An answer to a panel that has been closed changes nothing that is shown. *)
Late(c) ==
    /\ ~Open
    /\ srv' = CASE c.kind = "remove" -> [srv EXCEPT !.gone = @ \cup {c.agent}]
                [] c.kind = "key" -> [srv EXCEPT !.keys = @ \cup c.key]
                [] c.kind = "unkey" -> [srv EXCEPT !.keys = @ \ c.key]
                [] OTHER -> srv
    /\ UNCHANGED <<ui, odd>>

Answer(c) == Open /\ (NameSaved(c) \/ Removed(c) \/ KeySaved(c) \/ KeyRemoved(c) \/ Fails(c))

Next ==
    \/ \E a \in Agents : Switch(a) /\ (Open \/ net = {})
    \/ LoadSettings \/ LoadKeys \/ TypeName \/ SaveName
    \/ AskRemove \/ CancelRemove \/ Remove \/ TypeKey \/ SaveKey \/ RemoveKey \/ OthersAct
    \/ \E c \in net : (Answer(c) \/ Late(c)) /\ net' = net \ {c}

Spec == Init /\ [][Next]_vars

-----------------------------------------------------------------------------
TypeOK ==
    /\ ui.agent \in Agents \cup {None} /\ ui.draft \in Agents
    /\ ui.keys = None \/ ui.keys \subseteq Scopes
    /\ ui.key \in Agents \cup {None}
    /\ {ui.typed, ui.saving, ui.confirm, ui.deleting, ui.savingKey, ui.removing} \subseteq BOOLEAN
    /\ srv.keys \subseteq Scopes /\ srv.gone \subseteq Agents

Stuck == /\ Open
         /\ \/ ui.saving /\ ~\E c \in net : c.kind = "name"
            \/ ui.deleting /\ ~\E c \in net : c.kind = "remove"
            \/ ui.savingKey /\ ~\E c \in net : c.kind = "key"
            \/ ui.removing /\ ~\E c \in net : c.kind = "unkey"

(* A name or a key is stored for the agent in whose panel it was typed:    *)
(* what was typed for the agent that was left never goes to the next one.  *)
ForItsAgent == \A c \in net : c.kind \in {"name", "key"} => c.about = c.agent
=============================================================================
