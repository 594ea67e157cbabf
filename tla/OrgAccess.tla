------------------------------ MODULE OrgAccess ------------------------------
(***************************************************************************)
(* An organization and who belongs to it.  Settings: its name, which every *)
(* reading of the organization puts back in the field, and its deletion    *)
(* after its name is typed again.  Team: invitations and removals, each    *)
(* followed by a reading of the members.  New: an organization or a        *)
(* project is created, within a limit the page knows from a cached usage.  *)
(***************************************************************************)
EXTENDS Naturals, FiniteSets

CONSTANTS Members,   \* accounts; the first owns the organization
          MaxCalls,  \* calls in flight at once, a bound of the model
          None

VARIABLES ui, net, srv, odd

vars == <<ui, net, srv, odd>>

Names == {"old", "new", "other"}
Cap == 2             \* how many organizations or projects the plan allows
Founder == 1

NamePage == [page |-> "name", shown |-> "old", text |-> "old", saving |-> FALSE,
             asking |-> FALSE, phrase |-> None, gone |-> FALSE,
             typed |-> FALSE,    \* ghost: the field was typed in since it was last filled
             crossed |-> FALSE]  \* ghost: the field was last filled by an overtaken reading
TeamPage == [page |-> "team", list |-> {Founder}, email |-> None, inviting |-> FALSE,
             limit |-> FALSE, asked |-> None, removing |-> FALSE,
             missed |-> FALSE]   \* ghost: the newest reading of the members failed
NewPage(used) == [page |-> "new", used |-> used, named |-> FALSE, creating |-> FALSE,
                  limit |-> FALSE, error |-> FALSE]

Init ==
    /\ srv \in [name : {"old"}, there : {TRUE}, members : {{Founder}}, count : 0..Cap, others : {FALSE}]
    /\ \/ ui \in {NamePage, TeamPage} /\ srv.count = 0
       \/ \E used \in 0..Cap : ui = NewPage(used)
    /\ net = {} /\ odd = 1

At(page) == ui.page = page /\ (page = "name" => ~ui.gone)
Room == Cardinality(net) < MaxCalls
Call(c) == Room /\ net' = net \cup {c} /\ UNCHANGED <<srv, odd>>
Edit == UNCHANGED <<net, srv, odd>>
Ends(c) == c \in net /\ net' = net \ {c}
Fails(c) == Ends(c) /\ odd > 0 /\ odd' = odd - 1 /\ UNCHANGED srv

\* Readings that a new one overtakes are not shown.
Overtaken(calls) == {IF c.kind = "read" THEN [c EXCEPT !.last = FALSE] ELSE c : c \in calls}
Reading == [kind |-> "read", sees |-> None, last |-> TRUE]

\* The page gets the focus again, and what it shows is read again.
Focus ==
    /\ ui.page \in {"name", "team"} /\ Room /\ ~\E c \in net : c.kind = "read"
    /\ net' = net \cup {Reading}
    /\ UNCHANGED <<ui, srv, odd>>

\* The server answers with what it holds now.
Serve(c) ==
    /\ c.kind = "read" /\ c.sees = None /\ c \in net
    /\ net' = (net \ {c}) \cup
              {[c EXCEPT !.sees = IF ui.page = "name" THEN {srv.name} ELSE srv.members]}
    /\ UNCHANGED <<ui, srv, odd>>

-----------------------------------------------------------------------------
(* The name of the organization.                                           *)
TypeName(t) ==
    /\ At("name") /\ t # ui.text
    /\ ui' = [ui EXCEPT !.text = t, !.typed = TRUE]
    /\ Edit

HandleSave ==
    /\ At("name") /\ ~ui.saving /\ ui.text # ui.shown
    /\ Call([kind |-> "save", name |-> ui.text])
    /\ ui' = [ui EXCEPT !.saving = TRUE]

Renamed(c) ==
    /\ c.kind = "save" /\ srv.there /\ c \in net
    /\ srv' = [srv EXCEPT !.name = c.name]
    /\ net' = Overtaken(net \ {c}) \cup {Reading}
    /\ ui' = [ui EXCEPT !.saving = FALSE]
    /\ UNCHANGED odd

\* The field is filled where the answer arrives, before it is known to be
\* overtaken.
NameRead(c) ==
    /\ At("name") /\ c.kind = "read" /\ c.sees # None /\ Ends(c)
    /\ \E name \in c.sees :
         ui' = [ui EXCEPT !.text = name, !.typed = FALSE, !.crossed = ~c.last,
                          !.shown = IF c.last THEN name ELSE @]
    /\ UNCHANGED <<srv, odd>>

Ask == /\ At("name") /\ ~ui.asking /\ ui' = [ui EXCEPT !.asking = TRUE] /\ Edit
Abort == /\ At("name") /\ ui.asking /\ Edit
         /\ ui' = [ui EXCEPT !.asking = FALSE, !.phrase = None]
TypePhrase(t) == /\ At("name") /\ ui.asking /\ t # ui.phrase /\ Edit
                 /\ ui' = [ui EXCEPT !.phrase = t]

\* Nothing says that a deletion is under way: it may be asked for again.
HandleDelete ==
    /\ At("name") /\ ui.asking /\ ui.phrase = ui.shown
    /\ Call([kind |-> "delete"]) /\ UNCHANGED ui

Archived(c) ==
    /\ c.kind = "delete" /\ srv.there /\ c \in net /\ net' = {}
    /\ srv' = [srv EXCEPT !.there = FALSE] /\ ui' = [ui EXCEPT !.gone = TRUE]
    /\ UNCHANGED odd

-----------------------------------------------------------------------------
(* The members.                                                            *)
TypeEmail(m) ==
    /\ At("team") /\ m # ui.email
    /\ ui' = [ui EXCEPT !.email = m]
    /\ Edit

HandleInvite ==
    /\ At("team") /\ ui.email # None /\ ~ui.inviting
    /\ Call([kind |-> "invite", who |-> ui.email])
    /\ ui' = [ui EXCEPT !.inviting = TRUE, !.limit = FALSE]

MembersChange(c, members) ==
    /\ c \in net /\ srv' = [srv EXCEPT !.members = members]
    /\ net' = Overtaken(net \ {c}) \cup {Reading}
    /\ UNCHANGED odd

\* The field is cleared, whatever was typed in it meanwhile.
Invited(c) ==
    /\ c.kind = "invite" /\ c.who \notin srv.members
    /\ MembersChange(c, srv.members \cup {c.who})
    /\ ui' = [ui EXCEPT !.inviting = FALSE, !.email = None]

AskRemove(m) ==
    /\ At("team") /\ m \in ui.list \ {Founder} /\ ui.asked = None
    /\ ui' = [ui EXCEPT !.asked = m]
    /\ Edit

CloseAsk ==
    /\ At("team") /\ ui.asked # None /\ ~ui.removing
    /\ ui' = [ui EXCEPT !.asked = None]
    /\ Edit

ExecuteRemove ==
    /\ At("team") /\ ui.asked # None /\ ~ui.removing
    /\ Call([kind |-> "remove", who |-> ui.asked])
    /\ ui' = [ui EXCEPT !.removing = TRUE]

MemberRemoved(c) ==
    /\ c.kind = "remove" /\ c.who \in srv.members
    /\ MembersChange(c, srv.members \ {c.who})
    /\ ui' = [ui EXCEPT !.removing = FALSE, !.asked = None]

MembersRead(c) ==
    /\ At("team") /\ c.kind = "read" /\ c.sees # None /\ Ends(c)
    /\ ui' = IF c.last THEN [ui EXCEPT !.list = c.sees, !.missed = FALSE] ELSE ui
    /\ UNCHANGED <<srv, odd>>

-----------------------------------------------------------------------------
(* A new organization or project.                                          *)
Blocked == ui.used >= Cap

TypeNew == /\ At("new") /\ ~ui.named /\ ui' = [ui EXCEPT !.named = TRUE] /\ Edit

HandleSubmit ==
    /\ At("new") /\ ui.named /\ ~ui.creating /\ ~Blocked
    /\ Call([kind |-> "create"])
    /\ ui' = [ui EXCEPT !.creating = TRUE, !.limit = FALSE, !.error = FALSE]

\* The button is on again before the new page is shown.
Created(c) ==
    /\ c.kind = "create" /\ srv.count < Cap /\ Ends(c)
    /\ srv' = [srv EXCEPT !.count = @ + 1]
    /\ ui' = [ui EXCEPT !.creating = FALSE]
    /\ UNCHANGED odd

\* The usage comes from its cache, and is read again when that is old.
UsageRead == /\ At("new") /\ ui.used # srv.count /\ ui' = [ui EXCEPT !.used = srv.count] /\ Edit

-----------------------------------------------------------------------------
(* What fails, and what others do.                                         *)
Refused(c) == \/ c.kind \in {"save", "delete"} /\ ~srv.there
              \/ c.kind = "invite" /\ c.who \in srv.members
              \/ c.kind = "remove" /\ c.who \notin srv.members
              \/ c.kind = "create" /\ srv.count >= Cap

\* A plan limit is told in a banner of its own.
CallFails(c, limit) ==
    /\ c.kind # "read"
    /\ \/ Fails(c) /\ (limit => c.kind = "invite")
       \/ Refused(c) /\ Ends(c) /\ limit = (c.kind = "create") /\ UNCHANGED <<srv, odd>>
    /\ ui' = CASE c.kind = "save"   -> [ui EXCEPT !.saving = FALSE]
               [] c.kind = "delete" -> ui
               [] c.kind = "invite" -> [ui EXCEPT !.inviting = FALSE, !.limit = limit]
               [] c.kind = "remove" -> [ui EXCEPT !.removing = FALSE]
               [] c.kind = "create" -> [ui EXCEPT !.creating = FALSE, !.limit = limit, !.error = ~limit]

ReadFails(c) ==
    /\ c.kind = "read" /\ Fails(c)
    /\ ui' = IF ui.page = "team" /\ c.last THEN [ui EXCEPT !.missed = TRUE] ELSE ui

OthersAct ==
    /\ odd > 0 /\ odd' = odd - 1
    /\ \/ At("name") /\ srv' = [srv EXCEPT !.name = "other", !.others = TRUE]
       \/ At("name") /\ srv' = [srv EXCEPT !.there = FALSE, !.others = TRUE]
       \/ \E m \in Members \ {Founder} :
            At("team") /\ srv' = [srv EXCEPT !.members = @ \ {m}, !.others = TRUE]
    /\ UNCHANGED <<ui, net>>

\* The organization was deleted by somebody else: the page is left.
Gone(c) ==
    /\ At("name") /\ c.kind = "read" /\ ~srv.there /\ c \in net /\ net' = {}
    /\ ui' = [ui EXCEPT !.gone = TRUE]
    /\ UNCHANGED <<srv, odd>>

Answer(c) ==
    \/ Renamed(c) \/ NameRead(c) \/ Archived(c) \/ Gone(c)
    \/ Invited(c) \/ MemberRemoved(c) \/ MembersRead(c) \/ Created(c)

Next ==
    \/ Focus \/ OthersAct
    \/ \E t \in Names : TypeName(t) \/ TypePhrase(t)
    \/ HandleSave \/ Ask \/ Abort \/ HandleDelete
    \/ \E m \in Members : TypeEmail(m) \/ AskRemove(m)
    \/ HandleInvite \/ CloseAsk \/ ExecuteRemove
    \/ TypeNew \/ HandleSubmit \/ UsageRead
    \/ \E c \in net : Serve(c) \/ Answer(c) \/ ReadFails(c) \/ \E limit \in BOOLEAN : CallFails(c, limit)

Spec == Init /\ [][Next]_vars

-----------------------------------------------------------------------------
TypeOK ==
    /\ \/ /\ ui.page = "name" /\ {ui.shown, ui.text} \subseteq Names
          /\ ui.phrase \in Names \cup {None}
          /\ {ui.saving, ui.asking, ui.gone, ui.typed, ui.crossed} \subseteq BOOLEAN
       \/ /\ ui.page = "team" /\ ui.list \subseteq Members
          /\ {ui.email, ui.asked} \subseteq Members \cup {None}
          /\ {ui.inviting, ui.removing, ui.limit, ui.missed} \subseteq BOOLEAN
       \/ /\ ui.page = "new" /\ ui.used \in 0..Cap
          /\ {ui.named, ui.creating, ui.limit, ui.error} \subseteq BOOLEAN
    /\ srv.count \in 0..Cap /\ Cardinality(net) <= MaxCalls

InFlight(kind) == \E c \in net : c.kind = kind

Stuck ==
    \/ ui.page = "name" /\ ui.saving /\ ~InFlight("save") /\ ~ui.gone
    \/ ui.page = "team" /\ \/ ui.inviting /\ ~InFlight("invite")
                           \/ ui.removing /\ ~InFlight("remove")
    \/ ui.page = "new" /\ ui.creating /\ ~InFlight("create")

(* A field that nobody typed in shows the name of the organization, unless *)
(* an overtaken reading filled it; and when nothing is under way, the      *)
(* members listed are those there are, unless others changed them or the   *)
(* newest list did not come.                                               *)
FieldFollows ==
    /\ ui.page = "name" /\ ~ui.typed /\ ~ui.crossed => ui.text = ui.shown
    /\ ui.page = "team" /\ net = {} /\ ~ui.missed /\ ~srv.others => ui.list = srv.members
=============================================================================
