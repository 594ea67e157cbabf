---------------------------- MODULE ServiceKeys ----------------------------
(***************************************************************************)
(* The profile page: the service keys of an account (created, listed,      *)
(* removed, renamed), its forms (name, email, password), and the deletion  *)
(* of the account.                                                         *)
(*                                                                         *)
(* The name of a key is who it was typed for: the key whose row was open,  *)
(* or First, the name it was created with.                                 *)
(***************************************************************************)
EXTENDS Naturals, FiniteSets

CONSTANTS OldKeys,   \* the keys there are at first
          NewKeys,   \* the keys that may be created
          MaxCalls,  \* calls in flight at once, a bound of the model
          None

VARIABLES ui, net, srv, odd

vars == <<ui, net, srv, odd>>

First == 0
Keys == OldKeys \cup NewKeys
Forms == {"name", "email", "password"}
Plans == {"none", "active"}

\* The page once its data is there, the usage of which may be missing.  A
\* visit works on the keys or on the account, a bound of the model.
Loaded(section, usage) ==
    [section |-> section, keys |-> OldKeys, form |-> "idle", creating |-> FALSE, removing |-> None,
     editing |-> None, text |-> First, renaming |-> None, confirmed |-> FALSE, leaving |-> FALSE,
     usage |-> usage, gone |-> FALSE,
     crossed |-> FALSE]   \* ghost: a list was lost, or was read before a removal

Init ==
    /\ \E p \in Plans :
         /\ srv = [name |-> [k \in Keys |-> IF k \in OldKeys THEN First ELSE None], plan |-> p]
         /\ \E u \in {p, "unknown"}, part \in {"keys", "account"} :
              (part = "keys" => u = "none") /\ ui = Loaded(part, u)
    /\ net = {} /\ odd = 1

Exists(k) == srv.name[k] # None
Room == ~ui.gone /\ Cardinality(net) < MaxCalls
Call(c) == net' = net \cup {c}
Ends(c) == c \in net /\ net' = net \ {c}
Fails(c) == Ends(c) /\ odd > 0 /\ odd' = odd - 1 /\ UNCHANGED srv

(* The window gets the focus: the usage is read again. *)
Focus ==
    /\ ~ui.gone /\ ui.section = "account" /\ ui' = [ui EXCEPT !.usage = srv.plan]
    /\ UNCHANGED <<net, srv, odd>>

-----------------------------------------------------------------------------
(* A form: its button is off while its call is under way; a success puts   *)
(* back what the server holds, a failure keeps what was typed.             *)
Type == /\ ~ui.gone /\ ui.section = "account" /\ ui.form = "idle"
        /\ ui' = [ui EXCEPT !.form = "typed"]
        /\ UNCHANGED <<net, srv, odd>>

Submit(f) ==
    /\ ui.form = "typed" /\ Room
    /\ Call([kind |-> f])
    /\ ui' = [ui EXCEPT !.form = "busy"]
    /\ UNCHANGED <<srv, odd>>

Submitted(c) ==
    /\ c.kind \in Forms /\ Ends(c)
    /\ ui' = [ui EXCEPT !.form = "idle"]
    /\ UNCHANGED <<srv, odd>>

SubmitFails(c) ==
    /\ c.kind \in Forms /\ Fails(c)
    /\ ui' = [ui EXCEPT !.form = "typed"]

-----------------------------------------------------------------------------
(* A new key: it is created, and then the keys are listed again.  The call *)
(* that fails on either is told as "Failed to create API key".             *)
Create ==
    /\ ~ui.creating /\ ui.section = "keys" /\ Room
    /\ Call([kind |-> "create"])
    /\ ui' = [ui EXCEPT !.creating = TRUE]
    /\ UNCHANGED <<srv, odd>>

Created(c) ==
    /\ c.kind = "create"
    /\ \E k \in NewKeys :
         /\ ~Exists(k)
         /\ srv' = [srv EXCEPT !.name[k] = First]
         /\ net' = (net \ {c}) \cup {[kind |-> "list", keys |-> {j \in Keys : srv'.name[j] # None}]}
    /\ UNCHANGED <<ui, odd>>

Listed(c) ==
    /\ c.kind = "list" /\ Ends(c)
    /\ ui' = [ui EXCEPT !.keys = c.keys, !.creating = FALSE]
    /\ UNCHANGED <<srv, odd>>

CreateFails(c) ==
    /\ c.kind \in {"create", "list"} /\ Fails(c)
    /\ ui' = [ui EXCEPT !.creating = FALSE, !.crossed = @ \/ c.kind = "list"]

-----------------------------------------------------------------------------
(* A key is removed: one slot names the row whose button is off, and the   *)
(* first removal that ends empties it.                                     *)
Remove(k) ==
    /\ k \in ui.keys /\ ui.section = "keys" /\ ui.removing # k /\ Room
    /\ Call([kind |-> "remove", key |-> k])
    /\ ui' = [ui EXCEPT !.removing = k]
    /\ UNCHANGED <<srv, odd>>

Without(k) == ui.keys \ {k}

Removed(c) ==
    /\ c.kind = "remove" /\ Exists(c.key) /\ Ends(c)
    /\ srv' = [srv EXCEPT !.name[c.key] = None]
    /\ ui' = [ui EXCEPT !.keys = Without(c.key), !.removing = None,
                        !.crossed = @ \/ \E l \in net : l.kind = "list" /\ c.key \in l.keys]
    /\ UNCHANGED odd

RemoveFails(c) ==
    /\ c.kind = "remove"
    /\ \/ Fails(c)
       \/ ~Exists(c.key) /\ Ends(c) /\ UNCHANGED <<srv, odd>>
    /\ ui' = [ui EXCEPT !.removing = None]

-----------------------------------------------------------------------------
(* A key is renamed in its row; another row may be opened meanwhile, which *)
(* the answer then closes.                                                 *)
StartRename(k) ==
    /\ ui.section = "keys" /\ k \in ui.keys /\ ui.editing # k /\ ui.renaming # k
    /\ \E t \in {First, srv.name[k]} \ {None} : ui' = [ui EXCEPT !.editing = k, !.text = t]
    /\ UNCHANGED <<net, srv, odd>>

TypeName ==
    /\ ui.editing # None
    /\ ui' = [ui EXCEPT !.text = ui.editing]
    /\ UNCHANGED <<net, srv, odd>>

CancelRename ==
    /\ ui.editing # None /\ ui.renaming # ui.editing
    /\ ui' = [ui EXCEPT !.editing = None, !.text = First]
    /\ UNCHANGED <<net, srv, odd>>

Rename(k) ==
    /\ ui.editing = k /\ k \in ui.keys /\ ui.renaming # k /\ Room
    /\ Call([kind |-> "rename", key |-> k, name |-> ui.text])
    /\ ui' = [ui EXCEPT !.renaming = k]
    /\ UNCHANGED <<srv, odd>>

Renamed(c) ==
    /\ c.kind = "rename" /\ Exists(c.key) /\ Ends(c)
    /\ srv' = [srv EXCEPT !.name[c.key] = c.name]
    /\ ui' = [ui EXCEPT !.editing = None, !.text = First, !.renaming = None]
    /\ UNCHANGED odd

RenameFails(c) ==
    /\ c.kind = "rename"
    /\ \/ Fails(c)
       \/ ~Exists(c.key) /\ Ends(c) /\ UNCHANGED <<srv, odd>>
    /\ ui' = [ui EXCEPT !.renaming = None]

-----------------------------------------------------------------------------
(* The account is deleted: not while the page knows of a subscription, and *)
(* only with DELETE typed and the password, or the check by Google.        *)
Confirm ==
    /\ ~ui.gone /\ ui.section = "account" /\ ~ui.confirmed
    /\ ui' = [ui EXCEPT !.confirmed = TRUE]
    /\ UNCHANGED <<net, srv, odd>>

Blocking == ui.usage = "active"

DeleteAccount ==
    /\ ~ui.leaving /\ ~Blocking /\ ui.confirmed /\ Room
    /\ Call([kind |-> "account"])
    /\ ui' = [ui EXCEPT !.leaving = TRUE]
    /\ UNCHANGED <<srv, odd>>

\* The account is gone, its session is cleared and the page is left.
AccountDeleted(c) ==
    /\ c.kind = "account" /\ c \in net /\ srv.plan = "none"
    /\ srv' = [srv EXCEPT !.name = [k \in Keys |-> None]]
    /\ ui' = [ui EXCEPT !.gone = TRUE, !.leaving = FALSE, !.keys = {}]
    /\ net' = {}
    /\ UNCHANGED odd

\* The server refuses while a subscription is active, whatever the page knew.
AccountStays(c) ==
    /\ c.kind = "account"
    /\ \/ Fails(c)
       \/ srv.plan = "active" /\ Ends(c) /\ UNCHANGED <<srv, odd>>
    /\ ui' = [ui EXCEPT !.leaving = FALSE]

(* The subscription begins or ends elsewhere. *)
PlanChanges ==
    /\ odd > 0 /\ odd' = odd - 1 /\ ~ui.gone /\ ui.section = "account"
    /\ \E p \in Plans \ {srv.plan} : srv' = [srv EXCEPT !.plan = p]
    /\ UNCHANGED <<ui, net>>

Answer(c) == \/ Submitted(c) \/ Created(c) \/ Listed(c) \/ Removed(c)
             \/ Renamed(c) \/ AccountDeleted(c)
Fail(c) == \/ SubmitFails(c) \/ CreateFails(c) \/ RemoveFails(c)
           \/ RenameFails(c) \/ AccountStays(c)

Next ==
    \/ Focus \/ Type \/ (\E f \in Forms : Submit(f))
    \/ Create \/ TypeName \/ CancelRename \/ Confirm \/ DeleteAccount \/ PlanChanges
    \/ \E k \in Keys : Remove(k) \/ StartRename(k) \/ Rename(k)
    \/ \E c \in net : Answer(c) \/ Fail(c)

Spec == Init /\ [][Next]_vars

-----------------------------------------------------------------------------
TypeOK ==
    /\ ui.keys \subseteq Keys /\ ui.form \in {"idle", "typed", "busy"}
    /\ {ui.removing, ui.editing, ui.renaming} \subseteq Keys \cup {None}
    /\ ui.text \in Keys \cup {First}
    /\ {ui.creating, ui.confirmed, ui.leaving, ui.gone, ui.crossed} \subseteq BOOLEAN
    /\ srv.name \in [Keys -> Keys \cup {First, None}] /\ srv.plan \in Plans
    /\ ui.usage \in Plans \cup {"unknown"}

Under(kinds) == \E c \in net : c.kind \in kinds

Stuck ==
    /\ ~ui.gone
    /\ \/ ui.creating /\ ~Under({"create", "list"})
       \/ ui.form = "busy" /\ ~Under(Forms)
       \/ ui.leaving /\ ~Under({"account"})
       \/ ui.removing # None /\ ~\E c \in net : c.kind = "remove" /\ c.key = ui.removing
       \/ ui.renaming # None /\ ~\E c \in net : c.kind = "rename" /\ c.key = ui.renaming

(* A key has the name that was typed in its own row, or its first one.     *)
NamedInItsRow == \A k \in Keys : srv.name[k] \in {First, k, None}

(* When nothing is under way the page lists the keys there are, unless a   *)
(* listing was lost, or was read before a removal that it undid.           *)
ListTells == net = {} /\ ~ui.crossed => ui.keys = {k \in Keys : Exists(k)}
=============================================================================
