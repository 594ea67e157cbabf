------------------------------- MODULE Console -------------------------------
(***************************************************************************)
(* The web console: one visit to one of its screens.  Every screen keeps   *)
(* its own state and its own calls to the API, and nothing of them         *)
(* outlives it, so the console is the sum of its screens: each module      *)
(* models one, over the same four variables.                               *)
(***************************************************************************)
EXTENDS Naturals, FiniteSets

CONSTANTS Agents, Owner, Blank, PageSize, DatasetAgent, Contents, Logs, MaxCalls, HistoryCap,
          OldKeys, NewKeys, Paid, Members, MaxAttempts, Lines, MaxReply, MaxLines,
          Providers, MaxKeys, None

(* Logs are numbered in the order they were stored, and each has an agent; *)
(* a dataset holds logs; the founder of an organization is a member; the   *)
(* key that was there first is none of the others; None is no name, key or *)
(* number.                                                                 *)
ASSUME ConsoleAssumption ==
    /\ DOMAIN Owner \subseteq Nat /\ IsFiniteSet(DOMAIN Owner)
    /\ \A i \in DOMAIN Owner : Owner[i] # None
    /\ \A d \in DOMAIN Contents : Contents[d] \subseteq DOMAIN Owner
    /\ 1 \in Members /\ Providers # {} /\ 0 \notin OldKeys \cup NewKeys
    /\ None \notin Paid /\ None \notin Providers /\ None # "nowhere"
    /\ None \notin OldKeys \cup NewKeys /\ None \notin Nat
    /\ {"x", "y"} \subseteq Lines
    /\ {PageSize, MaxCalls, HistoryCap, MaxAttempts, MaxKeys, MaxReply, MaxLines} \subseteq Nat \ {0}

VARIABLES at,   \* the screen that is open
          ui,   \* its state
          net,  \* its calls in flight
          srv,  \* what the server holds
          odd   \* how many more failed calls and acts of others may happen

vars == <<at, ui, net, srv, odd>>

Log == INSTANCE ClinicalLog
Saved == INSTANCE SavedDatasets WITH MaxCalls <- 1
Map == INSTANCE LiveView
Settings == INSTANCE AgentSettings
Checks == INSTANCE AgentChecks WITH MaxCalls <- 1
History == INSTANCE GateHistory WITH MaxCalls <- 2
Graph == INSTANCE GraphHistory
Inputs == INSTANCE GateInputs WITH MaxEdits <- 1
Profile == INSTANCE ServiceKeys
Plan == INSTANCE PlanPage
Project == INSTANCE ProjectSettings WITH Keys <- OldKeys
Org == INSTANCE OrgAccess
Review == INSTANCE AttemptReview
Request == INSTANCE GateRequest

Init ==
    \/ at = "log" /\ Log!Init
    \/ at = "saved" /\ Saved!Init
    \/ at = "map" /\ Map!Init
    \/ at = "settings" /\ Settings!Init
    \/ at = "checks" /\ Checks!Init
    \/ at = "history" /\ History!Init
    \/ at = "graph" /\ Graph!Init
    \/ at = "inputs" /\ Inputs!Init
    \/ at = "profile" /\ Profile!Init
    \/ at = "plan" /\ Plan!Init
    \/ at = "project" /\ Project!Init
    \/ at = "org" /\ Org!Init
    \/ at = "review" /\ Review!Init
    \/ at = "request" /\ Request!Init

Next ==
    /\ UNCHANGED at
    /\ \/ at = "log" /\ Log!Next
       \/ at = "saved" /\ Saved!Next
       \/ at = "map" /\ Map!Next
       \/ at = "settings" /\ Settings!Next
       \/ at = "checks" /\ Checks!Next
       \/ at = "history" /\ History!Next
       \/ at = "graph" /\ Graph!Next
       \/ at = "inputs" /\ Inputs!Next
       \/ at = "profile" /\ Profile!Next
       \/ at = "plan" /\ Plan!Next
       \/ at = "project" /\ Project!Next
       \/ at = "org" /\ Org!Next
       \/ at = "review" /\ Review!Next
       \/ at = "request" /\ Request!Next

Spec == Init /\ [][Next]_vars

-----------------------------------------------------------------------------
(* The state of every screen has its type. *)
TypeOK ==
    /\ at = "log" => Log!TypeOK
    /\ at = "saved" => Saved!TypeOK
    /\ at = "map" => Map!TypeOK
    /\ at = "settings" => Settings!TypeOK
    /\ at = "checks" => Checks!TypeOK
    /\ at = "history" => History!TypeOK
    /\ at = "graph" => Graph!TypeOK
    /\ at = "inputs" => Inputs!TypeOK
    /\ at = "profile" => Profile!TypeOK
    /\ at = "plan" => Plan!TypeOK
    /\ at = "project" => Project!TypeOK
    /\ at = "org" => Org!TypeOK
    /\ at = "review" => Review!TypeOK
    /\ at = "request" => Request!TypeOK

(* A flag that says a call is under way, and turns its button off, is down *)
(* or has that call in flight: whatever is refused, lost or overtaken, no  *)
(* button stays dead.                                                      *)
NeverStuck ==
    /\ at = "log" => ~Log!Stuck
    /\ at = "saved" => ~Saved!Stuck
    /\ at = "map" => ~Map!Stuck
    /\ at = "settings" => ~Settings!Stuck
    /\ at = "checks" => ~Checks!Stuck
    /\ at = "history" => ~History!Stuck
    /\ at = "inputs" => ~Inputs!Stuck
    /\ at = "profile" => ~Profile!Stuck
    /\ at = "plan" => ~Plan!Stuck
    /\ at = "project" => ~Project!Stuck
    /\ at = "org" => ~Org!Stuck
    /\ at = "request" => ~Request!Stuck

(* What is destroyed is what was picked for it: the logs ticked since the  *)
(* mode was entered, the ticked datasets, the agents still in the tray.    *)
(* What a run is sent with is what the panel shows of it; what is stored   *)
(* for an agent was typed in the panel of that agent, and what the gate    *)
(* replays was chosen and typed for the agent on screen.                   *)
AsAsked ==
    /\ at = "log" => Log!OnlyTicked
    /\ at = "saved" => Saved!AsAsked
    /\ at = "map" => Map!PurgesListed
    /\ at = "settings" => Settings!ForItsAgent
    /\ at = "checks" => Checks!RuleForItsAgent
    /\ at = "inputs" => Inputs!OfItsAgent
    /\ at = "profile" => Profile!NamedInItsRow
    /\ at = "plan" => Plan!PricedFirst
    /\ at = "request" => Request!SentAsShown

(* What the dialog of the Saved tab says: a deletion from it sends only    *)
(* datasets of the agent on screen.                                        *)
OwnDatasets == at = "saved" => Saved!OwnOnly

(* What the screen shows of itself is coherent: the two modes of the log   *)
(* exclude each other and leave no hidden selection behind, and polling is *)
(* off only while the tab is hidden or the stream really is up.  A run the *)
(* page calls ready is one the server serves.                              *)
Coherent ==
    /\ at = "log" => Log!OneMode
    /\ at = "map" => Map!NeverBlind
    /\ at = "history" => History!OpensClicked
    /\ at = "graph" => Graph!Undoable
    /\ at = "inputs" => Inputs!OneKind
    /\ at = "profile" => Profile!ListTells
    /\ at = "plan" => Plan!PaysOnce /\ Plan!MarkedIsOpen
    /\ at = "project" => Project!TicksListed /\ Project!ShowsKept
    /\ at = "org" => Org!FieldFollows
    /\ at = "review" => Review!TellsWhy /\ Review!JumpsLand
    /\ at = "request" => Request!ChosenKeyFits /\ Request!ReadyIsServed

(* The difference of two replies tells both, line by line, and marks no    *)
(* line as changed that a longer common part would have kept.              *)
DiffTells == at = "review" => Review!DiffTells

(* Answers that come late, and the acts of others, take nothing away: a    *)
(* draft of the checks changes only by the hand of its user, and the click *)
(* that ends a drag on the map selects no agent.                           *)
Spared ==
    [][/\ at = "checks" => Checks!DraftKept
       /\ at = "graph" => Graph!DropSelectsNone]_vars
=============================================================================
