----------------------------- MODULE GateRequest -----------------------------
(***************************************************************************)
(* Which model and whose key the next run of the Release Gate uses: the    *)
(* model detected in the logs, one the platform hosts, or one of the       *)
(* user's own with a key that is pasted, saved from there, or chosen among *)
(* the saved ones.  The page decides from the list of keys as it has read  *)
(* it whether the run may start, shows what it would send, and sends it;   *)
(* the server decides again from its own.                                  *)
(***************************************************************************)
EXTENDS Naturals, Sequences, FiniteSets

CONSTANTS Providers,  \* the providers of models
          MaxKeys,    \* how many keys the project ever has
          None

VARIABLES ui,   \* the panel, and the list of keys as it was read
          net,  \* the calls in flight
          srv,  \* the keys of the project, and the data chosen for the run
          odd   \* the failures and acts of others to come

vars == <<ui, net, srv, odd>>

(* A model is on the platform's list, or its name tells a provider or none.*)
HostedModels == [hosted : {TRUE}, like : Providers]
Models == HostedModels \cup [hosted : {FALSE}, like : Providers \cup {None}]

Key(provider, scope, rg, mine) ==
    [provider |-> provider, scope |-> scope, rg |-> rg, mine |-> mine, active |-> TRUE]

Active == {k \in DOMAIN srv.keys : srv.keys[k].active}

(* Left to itself the page shows the provider of the agent, or its first.  *)
First == CHOOSE p \in Providers : TRUE

Default(latest) == IF latest # None THEN latest ELSE First

Left == Len(srv.keys) + Cardinality({c \in net : c.kind = "create"}) < MaxKeys

(* needs: the providers of the chosen rows, None for a row that does not   *)
(* tell.  latest: what the page takes for the provider of the agent, which *)
(* the rows tell when its latest call does not.                            *)
Init ==
    /\ \E first \in {<<>>} \cup {<<Key(First, "project", TRUE, mine)>> : mine \in BOOLEAN},
          needs \in {{None}, {None, First}, Providers} :
       LET latest == IF needs = {None} THEN None ELSE First
       IN
         /\ srv = [keys |-> first, needs |-> needs, latest |-> latest]
         /\ ui = [source |-> "detected", model |-> None, provider |-> Default(latest), key |-> None, pasted |-> FALSE,
                  saving |-> FALSE, deleting |-> None, keys |-> {}, loaded |-> FALSE, locked |-> FALSE, crossed |-> FALSE]
    /\ net = {} /\ odd = 1

-----------------------------------------------------------------------------
Listed(s) == [s EXCEPT !.keys = Active, !.loaded = TRUE]

(* The list of keys is read when the page opens and when it is looked at   *)
(* again, not while a run is on.                                           *)
ReadKeys ==
    /\ ~ui.locked /\ ui' = Listed(ui)
    /\ UNCHANGED <<net, srv, odd>>

(* A list that cannot be read is the one read before, or empty; either way *)
(* the page is no longer loading it.                                       *)
ReadFails ==
    /\ odd > 0 /\ odd' = odd - 1
    /\ ~ui.locked /\ ui' = [ui EXCEPT !.loaded = TRUE]
    /\ UNCHANGED <<net, srv>>

-----------------------------------------------------------------------------
Edit(next) == ~ui.locked /\ ui' = next /\ UNCHANGED <<net, srv, odd>>

(* No key and no paste, for another provider or source.  Whatever is being *)
(* saved was typed for the provider that was on screen.                    *)
Bare(provider) ==
    [ui EXCEPT !.provider = provider, !.key = None, !.pasted = FALSE,
               !.crossed = @ \/ (ui.saving /\ provider # ui.provider)]

HostedOf(p) == [hosted |-> TRUE, like |-> p]

IsHosted(p, m) == m # None /\ m.hosted /\ m.like = p

SelectDetected ==
    Edit([Bare(srv.latest) EXCEPT !.source = "detected", !.model = None])

SelectHosted ==
    Edit([Bare(ui.provider) EXCEPT !.source = "hosted",
              !.model = IF ui.provider = None THEN @ ELSE HostedOf(ui.provider)])

SelectCustom ==
    Edit([Bare(ui.provider) EXCEPT !.source = "custom", !.model = IF ui.source = "custom" THEN @ ELSE None])

(* One of the buttons below the provider. *)
PickHosted ==
    /\ ui.source = "hosted" /\ ui.provider # None
    /\ Edit([Bare(ui.provider) EXCEPT !.model = HostedOf(ui.provider)])

PickProvider(p) ==
    /\ ui.source # "detected"
    /\ Edit([Bare(p) EXCEPT !.model = IF ui.source = "hosted" /\ IsHosted(ui.provider, @) THEN HostedOf(p) ELSE @])

TypeModel(m) ==
    /\ ui.source = "custom"
    /\ Edit([ui EXCEPT !.model = m])

Paste(text) ==
    /\ ui.source = "custom"
    /\ Edit([ui EXCEPT !.pasted = text, !.key = IF text THEN None ELSE @])

(* A saved key of the provider is used, even one that is being replaced or *)
(* deleted.                                                                *)
SavedKeys == {k \in ui.keys : srv.keys[k].rg /\ srv.keys[k].provider = ui.provider}

UseKey(k) ==
    /\ ui.source = "custom" /\ k \in SavedKeys
    /\ Edit([ui EXCEPT !.pasted = FALSE, !.key = k,
                       !.crossed = @ \/ ui.saving \/ ui.deleting = k \/ k \notin Active])

-----------------------------------------------------------------------------
(* Refused: the deletion of another user's key, and a key of no provider.  *)
Refused(c) == IF c.kind = "delete" THEN ~srv.keys[c.key].mine ELSE c.provider = None

(* The pasted key is saved for the project, the list is read again, and    *)
(* the key is used in place of what is pasted by then.                     *)
Save ==
    /\ ui.source = "custom" /\ ui.pasted /\ ~ui.saving /\ ~ui.locked
    /\ Left
    /\ ui' = [ui EXCEPT !.saving = TRUE]
    /\ net' = net \cup {[kind |-> "create", provider |-> ui.provider]}
    /\ UNCHANGED <<srv, odd>>

(* A project has one key for a provider and scope: the one before it goes. *)
Create(p, scope, mine) ==
    LET Kept(key) == [key EXCEPT !.active = @ /\ <<key.provider, key.scope>> # <<p, scope>>]
    IN srv' = [srv EXCEPT !.keys = Append([k \in DOMAIN @ |-> Kept(@[k])],
                                          Key(p, scope, mine, mine))]

Created(c) ==
    /\ c.kind = "create" /\ ~Refused(c)
    /\ Create(c.provider, "project", TRUE)
    /\ net' = (net \ {c}) \cup {[kind |-> "saved", key |-> Len(srv.keys) + 1]}
    /\ UNCHANGED <<ui, odd>>

Refreshed == IF ui.locked THEN ui ELSE Listed(ui)

Saved(c) ==
    /\ c.kind = "saved" /\ net' = net \ {c}
    /\ ui' = [Refreshed EXCEPT !.saving = FALSE, !.pasted = FALSE, !.key = c.key,
                            !.crossed = @ \/ ui.deleting # None \/ c.key \notin Active]
    /\ UNCHANGED <<srv, odd>>

Delete(k) ==
    /\ ui.source = "custom" /\ k \in SavedKeys /\ ui.deleting = None /\ ~ui.locked
    /\ ui' = [ui EXCEPT !.deleting = k]
    /\ net' = net \cup {[kind |-> "delete", key |-> k, chosen |-> ui.key]}
    /\ UNCHANGED <<srv, odd>>

Removed(c) ==
    /\ c.kind = "delete" /\ ~Refused(c)
    /\ srv' = [srv EXCEPT !.keys[c.key].active = FALSE]
    /\ net' = (net \ {c}) \cup {[c EXCEPT !.kind = "deleted"]}
    /\ UNCHANGED <<ui, odd>>

Deleted(c) ==
    /\ c.kind = "deleted" /\ net' = net \ {c}
    /\ ui' = [Refreshed EXCEPT !.deleting = None, !.key = IF c.chosen = c.key THEN None ELSE @]
    /\ UNCHANGED <<srv, odd>>

(* A call is refused or lost. *)
Fails(c) ==
    /\ c.kind # "run" /\ net' = net \ {c}
    /\ \/ c.kind \in {"create", "delete"} /\ Refused(c) /\ UNCHANGED odd
       \/ odd > 0 /\ odd' = odd - 1
    /\ LET known == [ui EXCEPT !.crossed = @ \/ c.kind \in {"saved", "deleted"}]
       IN ui' = IF c.kind \in {"create", "saved"} THEN [known EXCEPT !.saving = FALSE]
                                                 ELSE [known EXCEPT !.deleting = None]
    /\ UNCHANGED srv

(* Somebody saves or deletes a key of the project elsewhere.               *)
OtherCreates(p, scope) ==
    /\ odd > 0 /\ odd' = odd - 1 /\ Left
    /\ Create(p, scope, FALSE)
    /\ ui' = [ui EXCEPT !.crossed = TRUE]
    /\ UNCHANGED net

OtherDeletes(k) ==
    /\ odd > 0 /\ odd' = odd - 1
    /\ k \in Active /\ srv' = [srv EXCEPT !.keys[k].active = FALSE]
    /\ ui' = [ui EXCEPT !.crossed = TRUE]
    /\ UNCHANGED net

-----------------------------------------------------------------------------
(* What keeps the run from starting: keyIssueBlocked and its parts.        *)
HasKey(p) == \E k \in ui.keys : srv.keys[k].provider = p

OfItsOwn == \/ ui.source = "hosted" /\ IsHosted(ui.provider, ui.model)
            \/ ui.source = "custom" /\ ui.provider # None

Required ==
    IF OfItsOwn THEN {ui.provider}
    ELSE IF srv.needs \subseteq {None} THEN {srv.latest} \ {None} ELSE srv.needs \ {None}

Unresolved == ~OfItsOwn /\ None \in srv.needs

Missing ==
    CASE ui.source = "hosted" /\ IsHosted(ui.provider, ui.model) -> FALSE
      [] ui.source = "custom" -> ~ui.pasted /\ ui.key = None /\ ~HasKey(ui.provider)
      [] OTHER -> \/ \E p \in srv.needs \ {None} : ~HasKey(p)
                  \/ Required # {} /\ srv.latest # None /\ ~HasKey(srv.latest)

KeyIssue == ~ui.loaded \/ Required = {} \/ Unresolved \/ Missing

(* The guards of a run, and the errors of building its payload. *)
Ready ==
    /\ ~KeyIssue
    /\ ui.source # "detected" => ui.model # None
    /\ ui.source = "custom" => ui.model.like \in {None, ui.provider}
    /\ ui.source = "hosted" => IsHosted(ui.provider, ui.model)

Payload ==
    IF ui.source = "detected" THEN [platform |-> FALSE, model |-> None, provider |-> None, pasted |-> FALSE, key |-> None]
    ELSE [platform |-> ui.source = "hosted", model |-> ui.model, provider |-> ui.provider,
          pasted |-> ui.source = "custom" /\ ui.pasted,
          key |-> IF ui.source = "custom" /\ ~ui.pasted THEN ui.key ELSE None]

(* What the panel shows of it before the run. *)
Preview ==
    IF ui.source = "detected" \/ ui.model = None
    THEN [platform |-> FALSE, model |-> None, provider |-> None, pasted |-> FALSE, key |-> None]
    ELSE [platform |-> ui.source = "hosted", model |-> ui.model,
          provider |-> IF ui.model.like # None THEN ui.model.like ELSE ui.provider,
          pasted |-> ui.source = "custom" /\ ui.pasted,
          key |-> IF ui.source = "custom" /\ ~ui.pasted THEN ui.key ELSE None]

(* The job is stored without its secrets. *)
Stored(payload) == [payload EXCEPT !.pasted = FALSE]

Run ==
    /\ Ready /\ ~ui.locked
    /\ ui' = [ui EXCEPT !.locked = TRUE]
    /\ net' = net \cup {[kind |-> "run", job |-> Stored(Payload)]}
    /\ UNCHANGED <<srv, odd>>

(* resolve_release_gate_provider_context *)
Served(job) ==
    LET Kept(p) == \E k \in Active : srv.keys[k].provider = p
    IN IF job.platform THEN IsHosted(job.provider, job.model)
       ELSE IF job.key # None
       THEN job.key \in Active /\ job.provider \in {None, srv.keys[job.key].provider}
       ELSE IF job.provider # None THEN Kept(job.provider)
       ELSE None \notin srv.needs /\ \A p \in srv.needs : Kept(p)

(* A run with a report clears the panel, one that was refused leaves it.   *)
RunEnds(c) ==
    /\ c.kind = "run" /\ net' = net \ {c}
    /\ ui' = IF Served(c.job)
             THEN [Bare(Default(srv.latest)) EXCEPT !.locked = FALSE, !.source = "detected", !.model = None]
             ELSE [ui EXCEPT !.locked = FALSE]
    /\ UNCHANGED <<srv, odd>>

-----------------------------------------------------------------------------
Next ==
    \/ ReadKeys \/ ReadFails \/ SelectDetected \/ SelectHosted \/ SelectCustom \/ PickHosted \/ Save \/ Run
    \/ \E p \in Providers :
         \/ PickProvider(p)
         \/ \E scope \in {"agent", "project"} : OtherCreates(p, scope)
    \/ \E like \in {None, First} : TypeModel([hosted |-> FALSE, like |-> like])
    \/ \E text \in BOOLEAN : Paste(text)
    \/ \E k \in DOMAIN srv.keys : UseKey(k) \/ Delete(k) \/ OtherDeletes(k)
    \/ \E c \in net : Created(c) \/ Saved(c) \/ Removed(c) \/ Deleted(c) \/ Fails(c) \/ RunEnds(c)

Spec == Init /\ [][Next]_vars

-----------------------------------------------------------------------------
TypeOK ==
    /\ ui.source \in {"detected", "hosted", "custom"} /\ ui.model \in Models \cup {None}
    /\ ui.provider \in Providers \cup {None} /\ ui.keys \subseteq DOMAIN srv.keys
    /\ {ui.key, ui.deleting} \subseteq DOMAIN srv.keys \cup {None}
    /\ {ui.pasted, ui.saving, ui.loaded, ui.locked, ui.crossed} \subseteq BOOLEAN
    /\ \A k \in DOMAIN srv.keys : srv.keys[k] \in [provider : Providers, scope : {"agent", "project"},
                                                   rg : BOOLEAN, mine : BOOLEAN, active : BOOLEAN]

Under(kinds) == \E c \in net : c.kind \in kinds

Stuck == \/ ui.saving /\ ~Under({"create", "saved"})
         \/ ui.deleting # None /\ ~Under({"delete", "deleted"})
         \/ ui.locked /\ ~Under({"run"})

(* A run that may start sends what the panel shows. *)
SentAsShown == Ready => Payload = Preview

(* The chosen key is being saved or deleted now, or was chosen meanwhile,  *)
(* or is another provider's since, or others changed the keys.             *)
Unsure == ui.crossed \/ ui.saving \/ ui.deleting = ui.key

(* The saved key chosen for a run is there, and of the provider on screen. *)
ChosenKeyFits ==
    ui.key # None /\ ~Unsure => ui.key \in Active /\ srv.keys[ui.key].provider = ui.provider

(* A run that the page lets start, with its list of keys read and no key   *)
(* pasted, is one that the server has the keys for.                        *)
Settled == ui.keys = Active /\ (ui.key # None => ~Unsure)

ReadyIsServed == Ready /\ Settled /\ ~ui.pasted => Served(Payload)

(* So is one with a pasted key: "Direct API key provided for this custom   *)
(* run. Ready to run."  The job is stored without that key, though, and    *)
(* what is stored is all that the server works from.                       *)
PastedIsServed == Ready /\ Settled /\ ui.pasted => Served(Stored(Payload))
=============================================================================
