----------------------------- MODULE AgentChecks -----------------------------
(***************************************************************************)
(* The Checks tab of an agent: a draft of its evaluation settings, made    *)
(* from what the server holds, changed and saved as a whole, and the form  *)
(* of a new tool policy rule, for the project or for the agent.  The tab   *)
(* stays when another agent is chosen on the map.                          *)
(***************************************************************************)
EXTENDS Naturals, FiniteSets

CONSTANTS Agents, MaxCalls, None

VARIABLES ui, net, srv, odd

vars == <<ui, net, srv, odd>>

(* Evaluation settings: 0 are the defaults, and 2 turns a check on that    *)
(* lacks the keywords or sections it needs.                                *)
Defaults == 0
Configs == 0 .. 2
Complete(config) == config # 2

Statuses == {"idle", "saving", "saved", "error"}

(* The effect on the settings and the agent: a draft is made when there is *)
(* none, or when the settings of another agent than the last one are here. *)
\* Slip: the draft follows the settings whenever they are read
AdoptAlways(s) == [s EXCEPT !.draft = s.seen[s.agent], !.last = s.agent]

Adopt(s) ==
    IF s.draft = None \/ s.last # s.agent
    THEN [s EXCEPT !.draft = s.seen[s.agent], !.last = s.agent, !.status = "idle"]
    ELSE s

Settled(s) == IF s.seen[s.agent] = None THEN s ELSE Adopt(s)

Init ==
    /\ srv \in [Agents -> {0, 1}]
    /\ \E a \in Agents :
         ui = [agent |-> a, seen |-> [b \in Agents |-> None], draft |-> None, last |-> None,
               status |-> "idle", timers |-> 0,
               scope |-> None, form |-> None, saving |-> FALSE]
    /\ net = {} /\ odd = 1

EvalConfig == IF ui.seen[ui.agent] = None THEN Defaults ELSE ui.seen[ui.agent]
IsDirty == ui.draft # None /\ ui.draft # EvalConfig

FormOf(form) == None

Switch(a) ==
    /\ a # ui.agent
    /\ ui' = Settled([ui EXCEPT !.agent = a, !.form = FormOf(@), !.saving = @ /\ ui.scope = None])
    /\ UNCHANGED <<net, srv, odd>>

(* The settings are read when the tab opens and on every return to it. *)
Read ==
    /\ ui.seen[ui.agent] # srv[ui.agent]
    /\ ui' = Settled([ui EXCEPT !.seen[ui.agent] = srv[ui.agent]])
    /\ UNCHANGED <<net, srv, odd>>

OthersSave ==
    /\ odd > 0 /\ odd' = odd - 1
    /\ \E a \in Agents, config \in {0, 1} : config # srv[a] /\ srv' = [srv EXCEPT ![a] = config]
    /\ UNCHANGED <<ui, net>>

(* updateConfig *)
Edit ==
    /\ ui.draft # None
    /\ \E config \in Configs \ {ui.draft} : ui' = [ui EXCEPT !.draft = config, !.status = "idle"]
    /\ UNCHANGED <<net, srv, odd>>

(* handleReset *)
Reset ==
    /\ IsDirty
    /\ ui' = [ui EXCEPT !.draft = EvalConfig, !.status = "idle"]
    /\ UNCHANGED <<net, srv, odd>>

Call(c) == Cardinality(net) < MaxCalls /\ net' = net \cup {c}

(* handleSave: an incomplete draft is refused before any call. *)
Save ==
    /\ IsDirty /\ ui.status # "saving"
    /\ \/ /\ ~Complete(ui.draft)
          /\ ui' = [ui EXCEPT !.status = "error"] /\ net' = net
       \/ /\ Complete(ui.draft) /\ ui.timers < 2
          /\ Call([kind |-> "checks", agent |-> ui.agent, config |-> ui.draft])
          /\ ui' = [ui EXCEPT !.status = "saving"]
    /\ UNCHANGED <<srv, odd>>

(* Its settings are read again for the agent that is shown by now, and two *)
(* seconds later the note is taken away.                                   *)
Saved(c) ==
    /\ c.kind = "checks"
    /\ srv' = [srv EXCEPT ![c.agent] = c.config]
    /\ ui' = [Settled([ui EXCEPT !.seen[ui.agent] = srv'[ui.agent]]) EXCEPT !.status = "saved", !.timers = @ + 1]
    /\ net' = net \ {c}
    /\ UNCHANGED odd

SaveFails(c) ==
    /\ c.kind = "checks" /\ odd > 0 /\ odd' = odd - 1
    /\ ui' = [ui EXCEPT !.status = "error"]
    /\ net' = net \ {c}
    /\ UNCHANGED srv

NoteFades ==
    /\ ui.timers > 0
    /\ ui' = [ui EXCEPT !.status = "idle", !.timers = @ - 1]
    /\ UNCHANGED <<net, srv, odd>>

-----------------------------------------------------------------------------
(* PolicyRuleModal: its fields start empty each time it opens, and when    *)
(* the agent changes; a filled form is known by the agent it was for.      *)
OpenForm(scope) ==
    /\ ui.scope = None /\ ui.draft # None
    /\ ui' = [ui EXCEPT !.scope = scope, !.form = None, !.saving = FALSE]
    /\ UNCHANGED <<net, srv, odd>>

CloseForm ==
    /\ ui.scope # None
    /\ ui' = [ui EXCEPT !.scope = None]
    /\ UNCHANGED <<net, srv, odd>>

Fill ==
    /\ ui.scope # None /\ ui.form = None
    /\ ui' = [ui EXCEPT !.form = ui.agent]
    /\ UNCHANGED <<net, srv, odd>>

(* handleSave of the form: without a valid rule there is no call. *)
SaveRule ==
    /\ ui.scope # None /\ ui.form # None /\ ~ui.saving
    /\ Call([kind |-> "rule", scope |-> ui.scope, agent |-> ui.agent, about |-> ui.form])
    /\ ui' = [ui EXCEPT !.saving = TRUE]
    /\ UNCHANGED <<srv, odd>>

RuleSaved(c) ==
    /\ c.kind = "rule"
    /\ ui' = [ui EXCEPT !.scope = None, !.saving = FALSE]
    /\ net' = net \ {c}
    /\ UNCHANGED <<srv, odd>>

RuleFails(c) ==
    /\ c.kind = "rule" /\ odd > 0 /\ odd' = odd - 1
    /\ ui' = [ui EXCEPT !.saving = FALSE]
    /\ net' = net \ {c}
    /\ UNCHANGED srv

Next ==
    \/ \E a \in Agents : Switch(a)
    \/ Read \/ OthersSave \/ Edit \/ Reset \/ Save \/ NoteFades
    \/ \E scope \in {"project", "agent"} : OpenForm(scope)
    \/ CloseForm \/ Fill \/ SaveRule
    \/ \E c \in net : Saved(c) \/ SaveFails(c) \/ RuleSaved(c) \/ RuleFails(c)

Spec == Init /\ [][Next]_vars

-----------------------------------------------------------------------------
TypeOK ==
    /\ ui.agent \in Agents /\ {ui.last, ui.form} \subseteq Agents \cup {None}
    /\ ui.draft \in Configs \cup {None} /\ \A a \in Agents : ui.seen[a] \in Configs \cup {None}
    /\ ui.status \in Statuses /\ ui.timers \in 0 .. 3
    /\ ui.scope \in {"project", "agent", None} /\ ui.saving \in BOOLEAN
    /\ srv \in [Agents -> {0, 1}]

Stuck == \/ ui.status = "saving" /\ ~\E c \in net : c.kind = "checks"
         \/ ui.saving /\ ~\E c \in net : c.kind = "rule"

(* A rule is stored for the agent for which the form was filled in. *)
RuleForItsAgent == \A c \in net : c.kind = "rule" /\ c.scope = "agent" => c.about = c.agent

(* What is being edited changes only by the hand of the user: settings     *)
(* that are read again, or saved by others, leave the draft alone.         *)
DraftKept ==
    ui.draft # None /\ ui.last = ui.agent /\ ui'.agent = ui.agent /\ ui'.draft # ui.draft => Edit \/ Reset
=============================================================================
