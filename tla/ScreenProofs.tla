----------------------------- MODULE ScreenProofs -----------------------------
(***************************************************************************)
(* The invariants of the screens of Live View and of the account, project  *)
(* and organization pages, for any number of agents, logs, keys and        *)
(* members.  ConsoleProofs adds the screens of the gate and draws the      *)
(* theorems.                                                               *)
(***************************************************************************)
EXTENDS Console, FiniteSetTheorems, SequenceTheorems, TLAPS

\* Where one call is under way at most and there is room for one, there is none.
LEMMA OneCall ==
    ASSUME NEW S, \A c, d \in S : c = d, Cardinality(S) < 1
    PROVE  S = {}
<1> SUFFICES ASSUME NEW c \in S PROVE FALSE
  OBVIOUS
<1>1. S = {c}
  OBVIOUS
<1> QED
  BY <1>1, FS_Singleton

-----------------------------------------------------------------------------
(***************************************************************************)
(* The log of an agent.                                                    *)
(***************************************************************************)

LogPage == [rows : SUBSET Log!Snaps, total : Nat]

LogUi == [agent : Log!Owners, page : [Log!Owners -> LogPage \cup {None}], kept : LogPage,
          failed : BOOLEAN, older : SUBSET Log!Snaps, strays : SUBSET Log!Snaps, loading : BOOLEAN,
          select : BOOLEAN, sel : SUBSET Log!Snaps,
          remove : BOOLEAN, rem : SUBSET Log!Snaps, asked : SUBSET Log!Snaps,
          deleting : BOOLEAN]

LogCalls ==
    [kind : {"older"}, agent : Log!Owners, offset : Nat, rows : (SUBSET Log!Snaps) \cup {None}]
      \cup [kind : {"delete", "deleted"}, agent : Log!Owners, ids : SUBSET Log!Snaps,
            asked : SUBSET Log!Snaps, strays : SUBSET Log!Snaps]
      \cup [kind : {"settle"}, agent : Log!Owners]

LogOf(a) == Log!OfAgent(Log!Snaps, a)

\* A row of the log is of its agent or has strayed into it, and so has a tick.
LogOwnUi ==
    /\ \A a \in Log!Owners : ui.page[a] # None => ui.page[a].rows \subseteq LogOf(a)
    /\ ui.kept.rows \subseteq ui.strays
    /\ ui.older \subseteq ui.strays \cup LogOf(ui.agent)
    /\ ui.rem \subseteq ui.strays \cup LogOf(ui.agent)

LogOwnNet == \A c \in net : c.kind = "older" /\ c.rows # None => c.rows \subseteq LogOf(c.agent)

\* While the mode is on, every tick was given since it was entered.
LogInv ==
    /\ ui \in LogUi /\ net \subseteq LogCalls
    /\ srv \subseteq Log!Snaps /\ odd \in 0..1
    /\ ui.remove => ui.rem \subseteq ui.asked
    /\ LogOwnUi /\ LogOwnNet
    /\ Log!OnlyTicked
    /\ Log!OneMode
    /\ ~Log!Stuck

\* A number of elements, under two names.
LEMMA LogCardinality == \A S : Log!Cardinality(S) = Cardinality(S)
  BY DEF Log!Cardinality, Cardinality

\* A page is of the logs of one agent.
LEMMA LogPages ==
    ASSUME ConsoleAssumption, NEW S \in SUBSET Log!Snaps, NEW a
    PROVE  /\ Log!FirstPage(S, a) \in LogPage
           /\ \A n : Log!PageOf(S, a, n) \in SUBSET Log!Snaps /\ Log!PageOf(S, a, n) \subseteq LogOf(a)
           /\ Log!FirstPage(S, a).rows \subseteq LogOf(a)
<1> DEFINE p == Log!PageOf(S, a, 0)
<1>1. IsFiniteSet(Log!OfAgent(S, a))
  <2>1. Log!OfAgent(S, a) \in SUBSET DOMAIN Owner /\ IsFiniteSet(DOMAIN Owner)
    BY DEF Log!OfAgent, Log!Snaps, ConsoleAssumption
  <2> QED
    BY <2>1, FS_Subset
<1>2. Cardinality(Log!OfAgent(S, a)) \in Nat
  BY <1>1, FS_CardinalityType
<1>3. \A n : Log!PageOf(S, a, n) \in SUBSET Log!Snaps /\ Log!PageOf(S, a, n) \subseteq LogOf(a)
  BY DEF Log!PageOf, Log!OfAgent, LogOf
<1>4. p \in SUBSET Log!Snaps /\ p \subseteq LogOf(a)
  BY DEF Log!PageOf, Log!OfAgent, LogOf
<1>5. Log!FirstPage(S, a) = [rows |-> p, total |-> Cardinality(Log!OfAgent(S, a))]
  BY LogCardinality DEF Log!FirstPage
<1> HIDE DEF p
<1> QED
  BY <1>2, <1>3, <1>4, <1>5 DEF LogPage

\* What is loaded is a finite part of the logs.
LEMMA LogFinite ==
    ASSUME ConsoleAssumption, LogInv
    PROVE  Log!Loaded \in SUBSET Log!Snaps /\ Log!Cardinality(Log!Loaded) \in Nat /\ Log!Latest \in LogPage
<1>1. Log!Latest \in LogPage
  BY DEF LogInv, LogUi, Log!Latest
<1>2. Log!Loaded \in SUBSET Log!Snaps
  BY <1>1 DEF LogInv, LogUi, LogPage, Log!Loaded
<1> QED
  BY <1>1, <1>2, FS_Subset, FS_CardinalityType, LogCardinality DEF ConsoleAssumption, Log!Snaps

\* What is loaded is of the agent, or has strayed.
LEMMA LogLoaded == ASSUME LogInv PROVE Log!Loaded \subseteq ui.strays \cup LogOf(ui.agent)
<1>1. ui.agent \in Log!Owners /\ LogOwnUi
  BY DEF LogInv, LogUi
<1>2. Log!Latest.rows \subseteq ui.strays \cup LogOf(ui.agent)
  BY <1>1 DEF Log!Latest, LogOwnUi
<1> QED
  BY <1>1, <1>2 DEF Log!Loaded, LogOwnUi

\* Rows and ticks that stay are of the agent still.
LEMMA LogOwnKept ==
    ASSUME LogInv, ui'.agent = ui.agent, ui'.page = ui.page, ui'.kept = ui.kept,
           ui'.strays = ui.strays, ui'.older \subseteq ui.older, ui'.rem \subseteq ui.rem
    PROVE  LogOwnUi'
<1>1. LogOwnUi
  BY DEF LogInv
<1> QED
  BY <1>1 DEF LogOwnUi

\* The invariant holds when the screen is opened.
LEMMA LogInit == ASSUME ConsoleAssumption, Log!Init PROVE LogInv
  BY DEF Log!Init, LogInv, LogOwnUi, LogOwnNet, LogUi, LogPage, LogCalls, Log!Nothing, Log!OnlyTicked,
         Log!OneMode, Log!Stuck

\* Every step of the screen keeps the invariant.
LEMMA LogStep == ASSUME ConsoleAssumption, LogInv, Log!Next PROVE LogInv'
<1>f. Log!Loaded \in SUBSET Log!Snaps /\ Log!Cardinality(Log!Loaded) \in Nat /\ Log!Latest \in LogPage
  BY LogFinite
<1>1. ASSUME NEW a \in Log!Owners, Log!Switch(a) PROVE LogInv'
  <2>1. ui' \in LogUi
    <3>1. Log!KeptFor(a) \in LogPage
      BY <1>f DEF Log!KeptFor, Log!Nothing, LogPage
    <3>2. Log!KeptFor(a).rows \in SUBSET Log!Snaps
      BY <3>1 DEF LogPage
    <3> QED
      BY <1>1, <3>1, <3>2, Zenon DEF Log!Switch, LogInv, LogUi
  <2>2. net' \subseteq LogCalls
    BY <1>1 DEF Log!Switch, LogInv, LogUi, LogCalls
  <2>3. srv' \subseteq Log!Snaps /\ odd' \in 0..1
    BY <1>1 DEF Log!Switch, LogInv
  <2>4. (ui.remove => ui.rem \subseteq ui.asked)' /\ Log!OneMode'
    BY <1>1 DEF Log!Switch, LogInv, LogUi, Log!OneMode
  <2>5. Log!OnlyTicked'
    BY <1>1 DEF Log!Switch, LogInv, LogUi, Log!OnlyTicked
  <2>6. ~Log!Stuck'
    BY <1>1 DEF Log!Switch, LogInv, LogUi, LogCalls, Log!Stuck
  <2>7. LogOwnUi'
    <3>1. /\ ui'.agent = a /\ ui'.page = ui.page /\ ui'.kept = Log!KeptFor(a)
          /\ ui'.strays = Log!KeptFor(a).rows /\ ui'.older = {} /\ ui'.rem = {}
      BY <1>1, Zenon DEF Log!Switch, LogInv, LogUi
    <3> QED
      BY <3>1 DEF LogOwnUi, LogInv
  <2>8. LogOwnNet'
    BY <1>1 DEF Log!Switch, LogInv, LogOwnNet
  <2> QED
    BY <2>1, <2>2, <2>3, <2>4, <2>5, <2>6, <2>7, <2>8 DEF LogInv
<1>2. CASE Log!Refresh
  <2>1. ui' \in LogUi
    BY <1>2, LogPages, Zenon DEF Log!Refresh, LogInv, LogUi
  <2>2. net' \subseteq LogCalls
    BY <1>2, LogPages DEF Log!Refresh, LogInv, LogUi, LogCalls
  <2>3. srv' \subseteq Log!Snaps /\ odd' \in 0..1
    BY <1>2, LogPages DEF Log!Refresh, LogInv
  <2>4. (ui.remove => ui.rem \subseteq ui.asked)' /\ Log!OneMode'
    BY <1>2, LogPages, Zenon DEF Log!Refresh, LogInv, LogUi, Log!OneMode
  <2>5. Log!OnlyTicked'
    BY <1>2, LogPages DEF Log!Refresh, LogInv, LogUi, Log!OnlyTicked
  <2>6. ~Log!Stuck'
    BY <1>2, LogPages, Zenon DEF Log!Refresh, LogInv, LogUi, LogCalls, Log!Stuck
  <2>7. LogOwnUi'
    <3> DEFINE t == Log!FirstPage(srv, ui.agent)
    <3>1. t.rows \subseteq LogOf(ui.agent)
      BY LogPages DEF LogInv
    <3> HIDE DEF t
    <3>2. /\ ui'.agent = ui.agent /\ ui'.page = [ui.page EXCEPT ![ui.agent] = t] /\ ui'.kept = ui.kept
          /\ ui'.strays = ui.strays /\ ui'.older = ui.older /\ ui'.rem = ui.rem
      BY <1>2, Zenon DEF Log!Refresh, LogInv, LogUi, t
    <3>3. LogOwnUi /\ ui.page \in [Log!Owners -> LogPage \cup {None}]
      BY DEF LogInv, LogUi
    <3> QED
      BY <3>1, <3>2, <3>3 DEF LogOwnUi
  <2>8. LogOwnNet'
    BY <1>2 DEF Log!Refresh, LogInv, LogOwnNet
  <2> QED
    BY <2>1, <2>2, <2>3, <2>4, <2>5, <2>6, <2>7, <2>8 DEF LogInv
<1>3. CASE Log!RefreshFails
  <2>1. ui' \in LogUi
    BY <1>3, Zenon DEF Log!RefreshFails, LogInv, LogUi
  <2>2. net' \subseteq LogCalls
    BY <1>3 DEF Log!RefreshFails, LogInv, LogUi, LogCalls
  <2>3. srv' \subseteq Log!Snaps /\ odd' \in 0..1
    BY <1>3 DEF Log!RefreshFails, LogInv
  <2>4. (ui.remove => ui.rem \subseteq ui.asked)' /\ Log!OneMode'
    BY <1>3 DEF Log!RefreshFails, LogInv, LogUi, Log!OneMode
  <2>5. Log!OnlyTicked'
    BY <1>3 DEF Log!RefreshFails, LogInv, LogUi, Log!OnlyTicked
  <2>6. ~Log!Stuck'
    BY <1>3 DEF Log!RefreshFails, LogInv, LogUi, LogCalls, Log!Stuck
  <2>7. LogOwnUi'
    <3>1. /\ ui'.agent = ui.agent /\ ui'.page = ui.page /\ ui'.kept = ui.kept
          /\ ui'.strays = ui.strays /\ ui'.older \subseteq ui.older /\ ui'.rem \subseteq ui.rem
      BY <1>3, Zenon DEF Log!RefreshFails, LogInv, LogUi
    <3> QED
      BY <3>1, LogOwnKept
  <2>8. LogOwnNet'
    BY <1>3 DEF Log!RefreshFails, LogInv, LogOwnNet
  <2> QED
    BY <2>1, <2>2, <2>3, <2>4, <2>5, <2>6, <2>7, <2>8 DEF LogInv
<1>4. CASE Log!OthersAct
  <2>1. ui' \in LogUi
    BY <1>4, Zenon DEF Log!OthersAct, LogInv, LogUi
  <2>2. net' \subseteq LogCalls
    BY <1>4 DEF Log!OthersAct, LogInv, LogUi, LogCalls
  <2>3. srv' \subseteq Log!Snaps /\ odd' \in 0..1
    BY <1>4 DEF Log!OthersAct, LogInv
  <2>4. (ui.remove => ui.rem \subseteq ui.asked)' /\ Log!OneMode'
    BY <1>4, Zenon DEF Log!OthersAct, LogInv, LogUi, Log!OneMode
  <2>5. Log!OnlyTicked'
    BY <1>4 DEF Log!OthersAct, LogInv, LogUi, Log!OnlyTicked
  <2>6. ~Log!Stuck'
    BY <1>4, Zenon DEF Log!OthersAct, LogInv, LogUi, LogCalls, Log!Stuck
  <2>7. LogOwnUi'
    <3>1. /\ ui'.agent = ui.agent /\ ui'.page = ui.page /\ ui'.kept = ui.kept
          /\ ui'.strays = ui.strays /\ ui'.older \subseteq ui.older /\ ui'.rem \subseteq ui.rem
      BY <1>4, Zenon DEF Log!OthersAct, LogInv, LogUi
    <3> QED
      BY <3>1, LogOwnKept
  <2>8. LogOwnNet'
    BY <1>4 DEF Log!OthersAct, LogInv, LogOwnNet
  <2> QED
    BY <2>1, <2>2, <2>3, <2>4, <2>5, <2>6, <2>7, <2>8 DEF LogInv
<1>5. CASE Log!LoadOlder
  <2> DEFINE d == [kind |-> "older", agent |-> ui.agent, offset |-> Log!Cardinality(Log!Loaded), rows |-> None]
  <2>i. d \in LogCalls /\ d.kind = "older" /\ d.rows = None /\ net' = net \cup {d}
    BY <1>5, <1>f DEF Log!LoadOlder, LogInv, LogUi, LogCalls
  <2> HIDE DEF d
  <2>1. ui' \in LogUi
    BY <1>5, <2>i, Zenon DEF Log!LoadOlder, LogInv, LogUi
  <2>2. net' \subseteq LogCalls
    BY <1>5, <2>i DEF Log!LoadOlder, LogInv, LogUi, LogCalls
  <2>3. srv' \subseteq Log!Snaps /\ odd' \in 0..1
    BY <1>5, <2>i DEF Log!LoadOlder, LogInv
  <2>4. (ui.remove => ui.rem \subseteq ui.asked)' /\ Log!OneMode'
    BY <1>5, <2>i DEF Log!LoadOlder, LogInv, LogUi, Log!OneMode
  <2>5. Log!OnlyTicked'
    BY <1>5, <2>i DEF Log!LoadOlder, LogInv, LogUi, Log!OnlyTicked
  <2>6. ~Log!Stuck'
    BY <1>5, <2>i DEF Log!LoadOlder, LogInv, LogUi, LogCalls, Log!Stuck
  <2>7. LogOwnUi'
    <3>1. /\ ui'.agent = ui.agent /\ ui'.page = ui.page /\ ui'.kept = ui.kept
          /\ ui'.strays = ui.strays /\ ui'.older \subseteq ui.older /\ ui'.rem \subseteq ui.rem
      BY <1>5, <2>i, Zenon DEF Log!LoadOlder, LogInv, LogUi
    <3> QED
      BY <3>1, LogOwnKept
  <2>8. LogOwnNet'
    BY <1>5, <2>i DEF Log!LoadOlder, LogInv, LogOwnNet
  <2> QED
    BY <2>1, <2>2, <2>3, <2>4, <2>5, <2>6, <2>7, <2>8 DEF LogInv
<1>6. CASE Log!ToggleSelect
  <2>1. ui' \in LogUi
    BY <1>6, Zenon DEF Log!ToggleSelect, LogInv, LogUi
  <2>2. net' \subseteq LogCalls
    BY <1>6 DEF Log!ToggleSelect, LogInv, LogUi, LogCalls
  <2>3. srv' \subseteq Log!Snaps /\ odd' \in 0..1
    BY <1>6 DEF Log!ToggleSelect, LogInv
  <2>4. (ui.remove => ui.rem \subseteq ui.asked)' /\ Log!OneMode'
    BY <1>6, Zenon DEF Log!ToggleSelect, LogInv, LogUi, Log!OneMode
  <2>5. Log!OnlyTicked'
    BY <1>6 DEF Log!ToggleSelect, LogInv, LogUi, Log!OnlyTicked
  <2>6. ~Log!Stuck'
    BY <1>6, Zenon DEF Log!ToggleSelect, LogInv, LogUi, LogCalls, Log!Stuck
  <2>7. LogOwnUi'
    <3>1. /\ ui'.agent = ui.agent /\ ui'.page = ui.page /\ ui'.kept = ui.kept
          /\ ui'.strays = ui.strays /\ ui'.older \subseteq ui.older /\ ui'.rem \subseteq ui.rem
      BY <1>6, Zenon DEF Log!ToggleSelect, LogInv, LogUi
    <3> QED
      BY <3>1, LogOwnKept
  <2>8. LogOwnNet'
    BY <1>6 DEF Log!ToggleSelect, LogInv, LogOwnNet
  <2> QED
    BY <2>1, <2>2, <2>3, <2>4, <2>5, <2>6, <2>7, <2>8 DEF LogInv
<1>7. CASE Log!ToggleRemove
  <2>1. ui' \in LogUi
    BY <1>7, Zenon DEF Log!ToggleRemove, Log!TicksOnToggle, LogInv, LogUi
  <2>2. net' \subseteq LogCalls
    BY <1>7 DEF Log!ToggleRemove, Log!TicksOnToggle, LogInv, LogUi, LogCalls
  <2>3. srv' \subseteq Log!Snaps /\ odd' \in 0..1
    BY <1>7 DEF Log!ToggleRemove, Log!TicksOnToggle, LogInv
  <2>4. (ui.remove => ui.rem \subseteq ui.asked)' /\ Log!OneMode'
    BY <1>7, Zenon DEF Log!ToggleRemove, Log!TicksOnToggle, LogInv, LogUi, Log!OneMode
  <2>5. Log!OnlyTicked'
    BY <1>7 DEF Log!ToggleRemove, Log!TicksOnToggle, LogInv, LogUi, Log!OnlyTicked
  <2>6. ~Log!Stuck'
    BY <1>7, Zenon DEF Log!ToggleRemove, Log!TicksOnToggle, LogInv, LogUi, LogCalls, Log!Stuck
  <2>7. LogOwnUi'
    <3>1. /\ ui'.agent = ui.agent /\ ui'.page = ui.page /\ ui'.kept = ui.kept
          /\ ui'.strays = ui.strays /\ ui'.older \subseteq ui.older /\ ui'.rem \subseteq ui.rem
      BY <1>7, Zenon DEF Log!ToggleRemove, Log!TicksOnToggle, LogInv, LogUi
    <3> QED
      BY <3>1, LogOwnKept
  <2>8. LogOwnNet'
    BY <1>7 DEF Log!ToggleRemove, Log!TicksOnToggle, LogInv, LogOwnNet
  <2> QED
    BY <2>1, <2>2, <2>3, <2>4, <2>5, <2>6, <2>7, <2>8 DEF LogInv
<1>8. CASE Log!TickAll
  <2>1. ui' \in LogUi
    <3>1. CASE ui' = [ui EXCEPT !.sel = IF Log!AllTicked(ui.sel) THEN {} ELSE Log!Loaded]
      BY <3>1, <1>f DEF LogInv, LogUi
    <3>2. CASE ui' = [ui EXCEPT !.rem = IF Log!AllTicked(ui.rem) THEN {} ELSE Log!Loaded,
                                !.asked = @ \cup Log!Loaded]
      BY <3>2, <1>f, Zenon DEF LogInv, LogUi
    <3> QED
      BY <1>8, <3>1, <3>2 DEF Log!TickAll
  <2>2. net' \subseteq LogCalls
    BY <1>8 DEF Log!TickAll, LogInv, LogUi, LogCalls
  <2>3. srv' \subseteq Log!Snaps /\ odd' \in 0..1
    BY <1>8 DEF Log!TickAll, LogInv
  <2>4. (ui.remove => ui.rem \subseteq ui.asked)' /\ Log!OneMode'
    <3>1. CASE ui.select /\ ui' = [ui EXCEPT !.sel = IF Log!AllTicked(ui.sel) THEN {} ELSE Log!Loaded]
      <4>1. ui'.remove = ui.remove /\ ui'.rem = ui.rem /\ ui'.asked = ui.asked /\ ui'.select = ui.select
        BY <3>1 DEF LogInv, LogUi
      <4> QED
        BY <3>1, <4>1 DEF LogInv, Log!OneMode
    <3>2. CASE /\ ui.remove
               /\ ui' = [ui EXCEPT !.rem = IF Log!AllTicked(ui.rem) THEN {} ELSE Log!Loaded,
                                   !.asked = @ \cup Log!Loaded]
      <4>1. /\ ui'.remove = ui.remove /\ ui'.sel = ui.sel /\ ui'.select = ui.select
            /\ ui'.rem = (IF Log!AllTicked(ui.rem) THEN {} ELSE Log!Loaded)
            /\ ui'.asked = ui.asked \cup Log!Loaded
        BY <3>2 DEF LogInv, LogUi
      <4> QED
        BY <4>1 DEF LogInv, Log!OneMode
    <3> QED
      BY <1>8, <3>1, <3>2 DEF Log!TickAll
  <2>5. Log!OnlyTicked'
    BY <1>8 DEF Log!TickAll, LogInv, LogUi, Log!OnlyTicked
  <2>6. ~Log!Stuck'
    BY <1>8, Zenon DEF Log!TickAll, LogInv, LogUi, LogCalls, Log!Stuck
  <2>7. LogOwnUi'
    <3>1. /\ ui'.agent = ui.agent /\ ui'.page = ui.page /\ ui'.kept = ui.kept
          /\ ui'.strays = ui.strays /\ ui'.older = ui.older
          /\ ui'.rem = ui.rem \/ ui'.rem = {} \/ ui'.rem = Log!Loaded
      BY <1>8, Zenon DEF Log!TickAll, LogInv, LogUi
    <3> QED
      BY <3>1, LogLoaded DEF LogInv, LogOwnUi
  <2>8. LogOwnNet'
    BY <1>8 DEF Log!TickAll, LogInv, LogOwnNet
  <2> QED
    BY <2>1, <2>2, <2>3, <2>4, <2>5, <2>6, <2>7, <2>8 DEF LogInv
<1>9. CASE Log!Delete
  <2> DEFINE d == [kind |-> "delete", agent |-> ui.agent, ids |-> ui.rem, asked |-> ui.asked, strays |-> ui.strays]
  <2>i. /\ d \in LogCalls /\ d.kind = "delete" /\ d.ids = ui.rem /\ d.asked = ui.asked
        /\ d.agent = ui.agent /\ d.strays = ui.strays /\ net' = net \cup {d}
    BY <1>9 DEF Log!Delete, LogInv, LogUi, LogCalls
  <2> HIDE DEF d
  <2>1. ui' \in LogUi
    BY <1>9, <2>i, Zenon DEF Log!Delete, Log!Offers, LogInv, LogUi
  <2>2. net' \subseteq LogCalls
    BY <1>9, <2>i DEF Log!Delete, Log!Offers, LogInv, LogUi, LogCalls
  <2>3. srv' \subseteq Log!Snaps /\ odd' \in 0..1
    BY <1>9, <2>i DEF Log!Delete, Log!Offers, LogInv
  <2>4. (ui.remove => ui.rem \subseteq ui.asked)' /\ Log!OneMode'
    BY <1>9, <2>i DEF Log!Delete, Log!Offers, LogInv, LogUi, Log!OneMode
  <2>5. Log!OnlyTicked'
    BY <1>9, <2>i DEF Log!Delete, Log!Offers, LogInv, LogUi, LogOwnUi, LogOf, Log!OnlyTicked
  <2>6. ~Log!Stuck'
    BY <1>9, <2>i DEF Log!Delete, Log!Offers, LogInv, LogUi, LogCalls, Log!Stuck
  <2>7. LogOwnUi'
    <3>1. /\ ui'.agent = ui.agent /\ ui'.page = ui.page /\ ui'.kept = ui.kept
          /\ ui'.strays = ui.strays /\ ui'.older \subseteq ui.older /\ ui'.rem \subseteq ui.rem
      BY <1>9, <2>i, Zenon DEF Log!Delete, Log!Offers, LogInv, LogUi
    <3> QED
      BY <3>1, LogOwnKept
  <2>8. LogOwnNet'
    BY <1>9, <2>i DEF Log!Delete, Log!Offers, LogInv, LogOwnNet
  <2> QED
    BY <2>1, <2>2, <2>3, <2>4, <2>5, <2>6, <2>7, <2>8 DEF LogInv
<1>10. ASSUME NEW s \in Log!Snaps, Log!ClickRow(s) PROVE LogInv'
  <2>1. ui' \in LogUi
    <3> DEFINE flip(T) == Log!Flip(T, s)
    <3>1. \A T \in SUBSET Log!Snaps : flip(T) \in SUBSET Log!Snaps
      BY DEF Log!Flip
    <3>2. flip(ui.sel) \in SUBSET Log!Snaps /\ flip(ui.rem) \in SUBSET Log!Snaps
      BY <3>1 DEF LogInv, LogUi
    <3>3. \/ ui' = [ui EXCEPT !.sel = flip(ui.sel)]
          \/ ui' = [ui EXCEPT !.rem = flip(ui.rem), !.asked = @ \cup {s}]
      BY <1>10 DEF Log!ClickRow
    <3> HIDE DEF flip
    <3>4. CASE ui' = [ui EXCEPT !.sel = flip(ui.sel)]
      BY <3>2, <3>4 DEF LogInv, LogUi
    <3>5. CASE ui' = [ui EXCEPT !.rem = flip(ui.rem), !.asked = @ \cup {s}]
      BY <3>2, <3>5, Zenon DEF LogInv, LogUi
    <3> QED
      BY <3>3, <3>4, <3>5
  <2>2. net' \subseteq LogCalls
    BY <1>10 DEF Log!ClickRow, Log!Flip, LogInv, LogUi, LogCalls
  <2>3. srv' \subseteq Log!Snaps /\ odd' \in 0..1
    BY <1>10 DEF Log!ClickRow, Log!Flip, LogInv
  <2>4. (ui.remove => ui.rem \subseteq ui.asked)' /\ Log!OneMode'
    <3> DEFINE flip(T) == Log!Flip(T, s)
    <3>1. CASE ui.select /\ ui' = [ui EXCEPT !.sel = flip(ui.sel)]
      <4>1. ui'.remove = ui.remove /\ ui'.rem = ui.rem /\ ui'.asked = ui.asked /\ ui'.select = ui.select
        <5> HIDE DEF flip
        <5> QED
          BY <3>1 DEF LogInv, LogUi
      <4> QED
        BY <3>1, <4>1 DEF LogInv, Log!OneMode
    <3>2. CASE ui.remove /\ ui' = [ui EXCEPT !.rem = flip(ui.rem), !.asked = @ \cup {s}]
      <4>1. /\ ui'.remove = ui.remove /\ ui'.sel = ui.sel /\ ui'.select = ui.select
            /\ ui'.rem = flip(ui.rem) /\ ui'.asked = ui.asked \cup {s}
        <5> HIDE DEF flip
        <5> QED
          BY <3>2 DEF LogInv, LogUi
      <4>2. flip(ui.rem) \subseteq ui.rem \cup {s}
        BY DEF Log!Flip
      <4> QED
        BY <3>2, <4>1, <4>2 DEF LogInv, Log!OneMode
    <3> QED
      BY <1>10, <3>1, <3>2 DEF Log!ClickRow
  <2>5. Log!OnlyTicked'
    BY <1>10 DEF Log!ClickRow, Log!Flip, LogInv, LogUi, Log!OnlyTicked
  <2>6. ~Log!Stuck'
    BY <1>10, Zenon DEF Log!ClickRow, Log!Flip, LogInv, LogUi, LogCalls, Log!Stuck
  <2>7. LogOwnUi'
    <3>1. /\ ui'.agent = ui.agent /\ ui'.page = ui.page /\ ui'.kept = ui.kept
          /\ ui'.strays = ui.strays /\ ui'.older = ui.older
          /\ ui'.rem = ui.rem \/ ui'.rem = Log!Flip(ui.rem, s)
      BY <1>10, Zenon DEF Log!ClickRow, LogInv, LogUi
    <3>2. Log!Flip(ui.rem, s) \subseteq ui.rem \cup {s} /\ s \in Log!Loaded
      BY <1>10 DEF Log!Flip, Log!ClickRow
    <3> QED
      BY <3>1, <3>2, LogLoaded DEF LogInv, LogOwnUi
  <2>8. LogOwnNet'
    BY <1>10 DEF Log!ClickRow, Log!Flip, LogInv, LogOwnNet
  <2> QED
    BY <2>1, <2>2, <2>3, <2>4, <2>5, <2>6, <2>7, <2>8 DEF LogInv
<1>11. ASSUME NEW c \in net, Log!ServeOlder(c) PROVE LogInv'
  <2> DEFINE d == [c EXCEPT !.rows = Log!PageOf(srv, c.agent, c.offset)]
  <2>i. /\ d \in LogCalls /\ d.kind = "older" /\ d.rows \subseteq LogOf(d.agent) /\ net' = (net \ {c}) \cup {d}
    BY <1>11, LogPages DEF Log!ServeOlder, LogInv, LogCalls
  <2> HIDE DEF d
  <2>1. ui' \in LogUi
    BY <1>11, <2>i DEF Log!ServeOlder, LogInv, LogUi
  <2>2. net' \subseteq LogCalls
    BY <1>11, <2>i DEF Log!ServeOlder, LogInv, LogUi, LogCalls
  <2>3. srv' \subseteq Log!Snaps /\ odd' \in 0..1
    BY <1>11, <2>i DEF Log!ServeOlder, LogInv
  <2>4. (ui.remove => ui.rem \subseteq ui.asked)' /\ Log!OneMode'
    BY <1>11, <2>i DEF Log!ServeOlder, LogInv, LogUi, Log!OneMode
  <2>5. Log!OnlyTicked'
    BY <1>11, <2>i DEF Log!ServeOlder, LogInv, LogUi, Log!OnlyTicked
  <2>6. ~Log!Stuck'
    BY <1>11, <2>i DEF Log!ServeOlder, LogInv, LogUi, LogCalls, Log!Stuck
  <2>7. LogOwnUi'
    <3>1. /\ ui'.agent = ui.agent /\ ui'.page = ui.page /\ ui'.kept = ui.kept
          /\ ui'.strays = ui.strays /\ ui'.older \subseteq ui.older /\ ui'.rem \subseteq ui.rem
      BY <1>11, <2>i, Zenon DEF Log!ServeOlder, LogInv, LogUi
    <3> QED
      BY <3>1, LogOwnKept
  <2>8. LogOwnNet'
    BY <1>11, <2>i DEF Log!ServeOlder, LogInv, LogOwnNet
  <2> QED
    BY <2>1, <2>2, <2>3, <2>4, <2>5, <2>6, <2>7, <2>8 DEF LogInv
<1>12. ASSUME NEW c \in net, Log!OlderArrives(c) PROVE LogInv'
  <2>1. ui' \in LogUi
    <3>1. c.rows \in SUBSET Log!Snaps /\ ui.strays \in SUBSET Log!Snaps
      BY <1>12 DEF Log!OlderArrives, LogInv, LogUi, LogCalls
    <3> QED
      BY <1>12, <3>1, Zenon DEF Log!OlderArrives, LogInv, LogUi
  <2>2. net' \subseteq LogCalls
    BY <1>12 DEF Log!OlderArrives, LogInv, LogUi, LogCalls
  <2>3. srv' \subseteq Log!Snaps /\ odd' \in 0..1
    BY <1>12 DEF Log!OlderArrives, LogInv
  <2>4. (ui.remove => ui.rem \subseteq ui.asked)' /\ Log!OneMode'
    BY <1>12 DEF Log!OlderArrives, LogInv, LogUi, Log!OneMode
  <2>5. Log!OnlyTicked'
    BY <1>12 DEF Log!OlderArrives, LogInv, LogUi, Log!OnlyTicked
  <2>6. ~Log!Stuck'
    BY <1>12 DEF Log!OlderArrives, LogInv, LogUi, LogCalls, Log!Stuck
  <2>7. LogOwnUi'
    <3>1. /\ ui'.agent = ui.agent /\ ui'.page = ui.page /\ ui'.kept = ui.kept
          /\ ui'.strays = (IF c.agent = ui.agent THEN ui.strays ELSE ui.strays \cup c.rows)
          /\ ui'.older = ui.older \cup c.rows /\ ui'.rem = ui.rem
      BY <1>12, Zenon DEF Log!OlderArrives, LogInv, LogUi
    <3>2. LogOwnUi /\ c.rows \subseteq LogOf(c.agent)
      BY <1>12 DEF Log!OlderArrives, LogInv, LogOwnNet
    <3> QED
      BY <3>1, <3>2 DEF LogOwnUi
  <2>8. LogOwnNet'
    BY <1>12 DEF Log!OlderArrives, LogInv, LogOwnNet
  <2> QED
    BY <2>1, <2>2, <2>3, <2>4, <2>5, <2>6, <2>7, <2>8 DEF LogInv
<1>13. ASSUME NEW c \in net, Log!OlderFails(c) PROVE LogInv'
  <2>1. ui' \in LogUi
    BY <1>13, Zenon DEF Log!OlderFails, LogInv, LogUi
  <2>2. net' \subseteq LogCalls
    BY <1>13 DEF Log!OlderFails, LogInv, LogUi, LogCalls
  <2>3. srv' \subseteq Log!Snaps /\ odd' \in 0..1
    BY <1>13 DEF Log!OlderFails, LogInv
  <2>4. (ui.remove => ui.rem \subseteq ui.asked)' /\ Log!OneMode'
    BY <1>13 DEF Log!OlderFails, LogInv, LogUi, Log!OneMode
  <2>5. Log!OnlyTicked'
    BY <1>13 DEF Log!OlderFails, LogInv, LogUi, Log!OnlyTicked
  <2>6. ~Log!Stuck'
    BY <1>13 DEF Log!OlderFails, LogInv, LogUi, LogCalls, Log!Stuck
  <2>7. LogOwnUi'
    <3>1. /\ ui'.agent = ui.agent /\ ui'.page = ui.page /\ ui'.kept = ui.kept
          /\ ui'.strays = ui.strays /\ ui'.older \subseteq ui.older /\ ui'.rem \subseteq ui.rem
      BY <1>13, Zenon DEF Log!OlderFails, LogInv, LogUi
    <3> QED
      BY <3>1, LogOwnKept
  <2>8. LogOwnNet'
    BY <1>13 DEF Log!OlderFails, LogInv, LogOwnNet
  <2> QED
    BY <2>1, <2>2, <2>3, <2>4, <2>5, <2>6, <2>7, <2>8 DEF LogInv
<1>14. ASSUME NEW c \in net, Log!ServerDeletes(c) PROVE LogInv'
  <2> DEFINE d == [c EXCEPT !.kind = "deleted"]
  <2>i. /\ d \in LogCalls /\ d.kind = "deleted" /\ net' = (net \ {c}) \cup {d}
    BY <1>14 DEF Log!ServerDeletes, LogInv, LogCalls
  <2> HIDE DEF d
  <2>1. ui' \in LogUi
    BY <1>14, <2>i, Zenon DEF Log!ServerDeletes, LogInv, LogUi
  <2>2. net' \subseteq LogCalls
    BY <1>14, <2>i DEF Log!ServerDeletes, LogInv, LogUi, LogCalls
  <2>3. srv' \subseteq Log!Snaps /\ odd' \in 0..1
    BY <1>14, <2>i DEF Log!ServerDeletes, LogInv
  <2>4. (ui.remove => ui.rem \subseteq ui.asked)' /\ Log!OneMode'
    BY <1>14, <2>i, Zenon DEF Log!ServerDeletes, LogInv, LogUi, Log!OneMode
  <2>5. Log!OnlyTicked'
    BY <1>14, <2>i DEF Log!ServerDeletes, LogInv, LogUi, Log!OnlyTicked
  <2>6. ~Log!Stuck'
    BY <1>14, <2>i, Zenon DEF Log!ServerDeletes, LogInv, LogUi, LogCalls, Log!Stuck
  <2>7. LogOwnUi'
    <3>1. /\ ui'.agent = ui.agent /\ ui'.page = ui.page /\ ui'.kept = ui.kept
          /\ ui'.strays = ui.strays /\ ui'.older \subseteq ui.older /\ ui'.rem \subseteq ui.rem
      BY <1>14, <2>i, Zenon DEF Log!ServerDeletes, LogInv, LogUi
    <3> QED
      BY <3>1, LogOwnKept
  <2>8. LogOwnNet'
    BY <1>14, <2>i DEF Log!ServerDeletes, LogInv, LogOwnNet
  <2> QED
    BY <2>1, <2>2, <2>3, <2>4, <2>5, <2>6, <2>7, <2>8 DEF LogInv
<1>15. ASSUME NEW c \in net, Log!DeleteFails(c) PROVE LogInv'
  <2>1. ui' \in LogUi
    BY <1>15, Zenon DEF Log!DeleteFails, Log!AfterFailure, LogInv, LogUi
  <2>2. net' \subseteq LogCalls
    BY <1>15 DEF Log!DeleteFails, Log!AfterFailure, LogInv, LogUi, LogCalls
  <2>3. srv' \subseteq Log!Snaps /\ odd' \in 0..1
    BY <1>15 DEF Log!DeleteFails, Log!AfterFailure, LogInv
  <2>4. (ui.remove => ui.rem \subseteq ui.asked)' /\ Log!OneMode'
    BY <1>15 DEF Log!DeleteFails, Log!AfterFailure, LogInv, LogUi, Log!OneMode
  <2>5. Log!OnlyTicked'
    BY <1>15 DEF Log!DeleteFails, Log!AfterFailure, LogInv, LogUi, Log!OnlyTicked
  <2>6. ~Log!Stuck'
    BY <1>15 DEF Log!DeleteFails, Log!AfterFailure, LogInv, LogUi, LogCalls, Log!Stuck
  <2>7. LogOwnUi'
    <3>1. /\ ui'.agent = ui.agent /\ ui'.page = ui.page /\ ui'.kept = ui.kept
          /\ ui'.strays = ui.strays /\ ui'.older \subseteq ui.older /\ ui'.rem \subseteq ui.rem
      BY <1>15, Zenon DEF Log!DeleteFails, Log!AfterFailure, LogInv, LogUi
    <3> QED
      BY <3>1, LogOwnKept
  <2>8. LogOwnNet'
    BY <1>15 DEF Log!DeleteFails, Log!AfterFailure, LogInv, LogOwnNet
  <2> QED
    BY <2>1, <2>2, <2>3, <2>4, <2>5, <2>6, <2>7, <2>8 DEF LogInv
<1>16. ASSUME NEW c \in net, Log!Deleted(c) PROVE LogInv'
  <2> DEFINE d == [kind |-> "settle", agent |-> ui.agent]
  <2>i. /\ d \in LogCalls /\ d.kind = "settle" /\ net' = (net \ {c}) \cup {d}
    BY <1>16 DEF Log!Deleted, LogInv, LogUi, LogCalls
  <2> HIDE DEF d
  <2>1. ui' \in LogUi
    BY <1>16, <2>i, Zenon DEF Log!Deleted, LogInv, LogUi
  <2>2. net' \subseteq LogCalls
    BY <1>16, <2>i DEF Log!Deleted, LogInv, LogUi, LogCalls
  <2>3. srv' \subseteq Log!Snaps /\ odd' \in 0..1
    BY <1>16, <2>i DEF Log!Deleted, LogInv
  <2>4. (ui.remove => ui.rem \subseteq ui.asked)' /\ Log!OneMode'
    BY <1>16, <2>i, Zenon DEF Log!Deleted, LogInv, LogUi, Log!OneMode
  <2>5. Log!OnlyTicked'
    BY <1>16, <2>i DEF Log!Deleted, LogInv, LogUi, Log!OnlyTicked
  <2>6. ~Log!Stuck'
    BY <1>16, <2>i, Zenon DEF Log!Deleted, LogInv, LogUi, LogCalls, Log!Stuck
  <2>7. LogOwnUi'
    <3>1. /\ ui'.agent = ui.agent /\ ui'.page = ui.page /\ ui'.kept = ui.kept
          /\ ui'.strays = ui.strays /\ ui'.older \subseteq ui.older /\ ui'.rem \subseteq ui.rem
      BY <1>16, <2>i, Zenon DEF Log!Deleted, LogInv, LogUi
    <3> QED
      BY <3>1, LogOwnKept
  <2>8. LogOwnNet'
    BY <1>16, <2>i DEF Log!Deleted, LogInv, LogOwnNet
  <2> QED
    BY <2>1, <2>2, <2>3, <2>4, <2>5, <2>6, <2>7, <2>8 DEF LogInv
<1>17. ASSUME NEW c \in net, Log!Settled(c) PROVE LogInv'
  <2> DEFINE t == Log!FirstPage(srv, c.agent)
  <2>i. t \in LogPage /\ t.rows \subseteq LogOf(c.agent) /\ c.agent \in Log!Owners
    BY <1>17, LogPages DEF Log!Settled, LogInv, LogCalls
  <2>j. ui' = [ui EXCEPT !.page[c.agent] = t, !.failed = @ /\ c.agent # ui.agent, !.deleting = FALSE]
    BY <1>17 DEF Log!Settled
  <2> HIDE DEF t
  <2>1. ui' \in LogUi
    BY <2>i, <2>j, Zenon DEF LogInv, LogUi
  <2>2. net' \subseteq LogCalls
    BY <1>17, <2>i DEF Log!Settled, LogInv, LogUi, LogCalls
  <2>3. srv' \subseteq Log!Snaps /\ odd' \in 0..1
    BY <1>17, <2>i DEF Log!Settled, LogInv
  <2>4. (ui.remove => ui.rem \subseteq ui.asked)' /\ Log!OneMode'
    BY <1>17, <2>i, Zenon DEF Log!Settled, LogInv, LogUi, Log!OneMode
  <2>5. Log!OnlyTicked'
    BY <1>17, <2>i DEF Log!Settled, LogInv, LogUi, Log!OnlyTicked
  <2>6. ~Log!Stuck'
    BY <1>17, <2>i, Zenon DEF Log!Settled, LogInv, LogUi, LogCalls, Log!Stuck
  <2>7. LogOwnUi'
    <3>1. /\ ui'.agent = ui.agent /\ ui'.page = [ui.page EXCEPT ![c.agent] = t] /\ ui'.kept = ui.kept
          /\ ui'.strays = ui.strays /\ ui'.older = ui.older /\ ui'.rem = ui.rem
      BY <2>j, Zenon DEF LogInv, LogUi
    <3>2. LogOwnUi /\ ui.page \in [Log!Owners -> LogPage \cup {None}]
      BY DEF LogInv, LogUi
    <3> QED
      BY <3>1, <3>2, <2>i DEF LogOwnUi
  <2>8. LogOwnNet'
    BY <1>17, <2>i DEF Log!Settled, LogInv, LogOwnNet
  <2> QED
    BY <2>1, <2>2, <2>3, <2>4, <2>5, <2>6, <2>7, <2>8 DEF LogInv
<1>18. ASSUME NEW c \in net, Log!SettleFails(c) PROVE LogInv'
  <2>1. ui' \in LogUi
    BY <1>18, Zenon DEF Log!SettleFails, LogInv, LogUi
  <2>2. net' \subseteq LogCalls
    BY <1>18 DEF Log!SettleFails, LogInv, LogUi, LogCalls
  <2>3. srv' \subseteq Log!Snaps /\ odd' \in 0..1
    BY <1>18 DEF Log!SettleFails, LogInv
  <2>4. (ui.remove => ui.rem \subseteq ui.asked)' /\ Log!OneMode'
    BY <1>18, Zenon DEF Log!SettleFails, LogInv, LogUi, Log!OneMode
  <2>5. Log!OnlyTicked'
    BY <1>18 DEF Log!SettleFails, LogInv, LogUi, Log!OnlyTicked
  <2>6. ~Log!Stuck'
    BY <1>18, Zenon DEF Log!SettleFails, LogInv, LogUi, LogCalls, Log!Stuck
  <2>7. LogOwnUi'
    <3>1. /\ ui'.agent = ui.agent /\ ui'.page = ui.page /\ ui'.kept = ui.kept
          /\ ui'.strays = ui.strays /\ ui'.older \subseteq ui.older /\ ui'.rem \subseteq ui.rem
      BY <1>18, Zenon DEF Log!SettleFails, LogInv, LogUi
    <3> QED
      BY <3>1, LogOwnKept
  <2>8. LogOwnNet'
    BY <1>18 DEF Log!SettleFails, LogInv, LogOwnNet
  <2> QED
    BY <2>1, <2>2, <2>3, <2>4, <2>5, <2>6, <2>7, <2>8 DEF LogInv
<1> QED
  BY <1>1, <1>2, <1>3, <1>4, <1>5, <1>6, <1>7, <1>8, <1>9, <1>10, <1>11, <1>12, <1>13,
     <1>14, <1>15, <1>16, <1>17, <1>18 DEF Log!Next

\* What the invariant says of the screen.
LEMMA LogHolds == ASSUME LogInv PROVE Log!TypeOK
  BY DEF LogInv, LogUi, LogPage, LogCalls, Log!TypeOK

\* And so does a step that is not the screen's.
LEMMA LogSame == ASSUME LogInv, UNCHANGED vars PROVE LogInv'
  BY DEF vars, LogInv, LogOwnUi, LogOwnNet, Log!OneMode, Log!OnlyTicked, Log!Stuck

-----------------------------------------------------------------------------
(***************************************************************************)
(* The Saved tab.                                                          *)
(***************************************************************************)

SavedLogs == [Saved!Datasets -> {None} \cup SUBSET Logs]
SavedLists == [Saved!Owners -> {None} \cup SUBSET Saved!Datasets]

SavedUi == [agent : Saved!Owners, list : SavedLists, failed : SUBSET Saved!Owners, logs : SavedLogs,
            remove : BOOLEAN, ticked : SUBSET Saved!Datasets, carried : SUBSET Saved!Datasets,
            confirm : BOOLEAN, removing : {None} \cup (Saved!Datasets \X Logs),
            editing : {None} \cup Saved!Datasets, renaming : BOOLEAN]

SavedCalls ==
    [kind : {"batch"}, agent : Saved!Owners, ids : SUBSET Saved!Datasets, asked : SUBSET Saved!Datasets,
     carried : SUBSET Saved!Datasets]
      \cup [kind : {"remove"}, of : Saved!Datasets, log : Logs, whole : BOOLEAN, keep : SUBSET Logs]
      \cup [kind : {"rename"}, of : Saved!Datasets]

\* The list of an agent is of its datasets, and so is a tick given since.
SavedOwn ==
    /\ \A a \in Saved!Owners : ui.list[a] # None => ui.list[a] \subseteq Saved!OfAgent(a)
    /\ ui.ticked \ ui.carried \subseteq Saved!OfAgent(ui.agent)

\* One call is under way at a time, and the question is asked of some ticks.
SavedInv ==
    /\ ui \in SavedUi /\ net \subseteq SavedCalls /\ srv \in SavedLogs
    /\ \A c, d \in net : c = d
    /\ ui.confirm => ui.ticked # {}
    /\ Saved!AsAsked
    /\ SavedOwn
    /\ ~Saved!Stuck

\* What a read brings, and the rows on screen, are of the agent.
LEMMA SavedItems ==
    ASSUME SavedInv
    PROVE  /\ Saved!Items \in SUBSET Saved!Datasets /\ Saved!Items \subseteq Saved!OfAgent(ui.agent)
           /\ Saved!Items # {} => ui.list[ui.agent] # None
           /\ \A a : Saved!Listed(a) \in SUBSET Saved!Datasets /\ Saved!Listed(a) \subseteq Saved!OfAgent(a)
<1>1. ui.agent \in Saved!Owners /\ ui.list[ui.agent] \in {None} \cup SUBSET Saved!Datasets /\ SavedOwn
  BY DEF SavedInv, SavedUi, SavedLists
<1>2. \A a : Saved!Listed(a) \in SUBSET Saved!Datasets /\ Saved!Listed(a) \subseteq Saved!OfAgent(a)
  BY DEF Saved!Listed, Saved!OfAgent
<1> QED
  BY <1>1, <1>2 DEF Saved!Items, Saved!Showing, SavedOwn

\* A list put in the place of the one on screen.
LEMMA SavedPut ==
    ASSUME SavedInv, NEW v \in {None} \cup SUBSET Saved!Datasets
    PROVE  [ui.list EXCEPT ![ui.agent] = v] \in SavedLists
  BY DEF SavedInv, SavedUi, SavedLists

\* The invariant holds when the screen is opened.
LEMMA SavedInit == ASSUME ConsoleAssumption, Saved!Init PROVE SavedInv
<1>1. srv \in SavedLogs /\ net = {}
  BY DEF Saved!Init, SavedLogs
<1>2. PICK a \in Saved!Owners, read \in BOOLEAN :
        ui = [agent |-> a, list |-> [e \in Saved!Owners |-> IF read /\ e = a THEN Saved!Listed(a) ELSE None],
              failed |-> {}, logs |-> [d \in Saved!Datasets |-> None],
              remove |-> FALSE, ticked |-> {}, carried |-> {}, confirm |-> FALSE,
              removing |-> None, editing |-> None, renaming |-> FALSE]
  BY Zenon DEF Saved!Init
<1>3. Saved!Listed(a) \in SUBSET Saved!Datasets /\ Saved!Listed(a) \subseteq Saved!OfAgent(a)
  BY DEF Saved!Listed, Saved!OfAgent
<1>4. ui \in SavedUi /\ SavedOwn
  BY <1>2, <1>3 DEF SavedUi, SavedLogs, SavedLists, SavedOwn
<1> QED
  BY <1>1, <1>2, <1>4 DEF SavedInv, Saved!AsAsked, Saved!Stuck

\* A number of elements, under two names.
LEMMA SavedCardinality == \A S : Saved!Cardinality(S) = Cardinality(S)
  BY DEF Saved!Cardinality, Cardinality

\* One call at most is under way, and none where there is room for one.
LEMMA SavedRoom == ASSUME SavedInv, Saved!Room PROVE net = {}
  BY SavedCardinality, OneCall DEF SavedInv, Saved!Room

\* Every step of the screen keeps the invariant.
LEMMA SavedStep == ASSUME ConsoleAssumption, SavedInv, Saved!Next PROVE SavedInv'
<1>1. ASSUME NEW a \in Saved!Owners, Saved!Switch(a) PROVE SavedInv'
  <2>1. ui' \in SavedUi
    BY <1>1, Zenon DEF Saved!Switch, Saved!Folded, SavedInv, SavedUi, SavedLogs
  <2>2. net' \subseteq SavedCalls
    BY <1>1 DEF Saved!Switch, Saved!Folded, SavedInv, SavedUi, SavedCalls
  <2>3. srv' \in SavedLogs
    BY <1>1 DEF Saved!Switch, Saved!Folded, SavedInv, SavedLogs, SavedCalls
  <2>4. (\A e, f \in net : e = f)'
    BY <1>1 DEF Saved!Switch, Saved!Folded, SavedInv
  <2>5. (ui.confirm => ui.ticked # {})' /\ Saved!AsAsked'
    BY <1>1 DEF Saved!Switch, Saved!Folded, SavedInv, SavedUi, Saved!AsAsked
  <2>6. SavedOwn'
    <3>1. ui'.agent = a /\ ui'.list = ui.list /\ ui'.ticked = ui.ticked /\ ui'.carried = ui.carried \cup ui.ticked
      BY <1>1, Zenon DEF Saved!Switch, SavedInv, SavedUi
    <3> QED
      BY <3>1 DEF SavedInv, SavedOwn
  <2>7. ~Saved!Stuck'
    BY <1>1 DEF Saved!Switch, Saved!Folded, SavedInv, SavedUi, SavedCalls, Saved!Stuck
  <2> QED
    BY <2>1, <2>2, <2>3, <2>4, <2>5, <2>6, <2>7 DEF SavedInv
<1>2. CASE Saved!Read
  <2> DEFINE t == Saved!Listed(ui.agent)
             l == [ui.list EXCEPT ![ui.agent] = t]
  <2>t. t \in SUBSET Saved!Datasets /\ t \subseteq Saved!OfAgent(ui.agent)
    BY <1>2, SavedItems
  <2>l. l \in SavedLists
    BY <2>t, SavedPut
  <2>u. ui' = [ui EXCEPT !.list = l, !.failed = ui.failed \ {ui.agent}]
    BY <1>2, Zenon DEF Saved!Read
  <2> HIDE DEF t
  <2>1. ui' \in SavedUi
    <3> HIDE DEF l
    <3> QED
      BY <2>u, <2>l, Zenon DEF SavedInv, SavedUi
  <2>2. net' \subseteq SavedCalls
    BY <1>2, <2>l DEF Saved!Read, SavedInv, SavedUi, SavedCalls
  <2>3. srv' \in SavedLogs
    BY <1>2, <2>l DEF Saved!Read, SavedInv, SavedLogs, SavedCalls
  <2>4. (\A e, f \in net : e = f)'
    BY <1>2, <2>l DEF Saved!Read, SavedInv
  <2>5. (ui.confirm => ui.ticked # {})' /\ Saved!AsAsked'
    BY <1>2, <2>l DEF Saved!Read, SavedInv, SavedUi, Saved!AsAsked
  <2>6. SavedOwn'
    <3>1. /\ ui'.agent = ui.agent /\ ui'.list = l /\ ui'.ticked = ui.ticked /\ ui'.carried = ui.carried
      BY <2>u, Zenon DEF SavedInv, SavedUi
    <3> QED
      BY <3>1, <2>t DEF SavedInv, SavedUi, SavedLists, SavedOwn
  <2>7. ~Saved!Stuck'
    BY <1>2, <2>l DEF Saved!Read, SavedInv, SavedUi, SavedCalls, Saved!Stuck
  <2> QED
    BY <2>1, <2>2, <2>3, <2>4, <2>5, <2>6, <2>7 DEF SavedInv
<1>3. CASE Saved!ReadFails
  <2>1. ui' \in SavedUi
    BY <1>3 DEF Saved!ReadFails, SavedInv, SavedUi, SavedLogs
  <2>2. net' \subseteq SavedCalls
    BY <1>3 DEF Saved!ReadFails, SavedInv, SavedUi, SavedCalls
  <2>3. srv' \in SavedLogs
    BY <1>3 DEF Saved!ReadFails, SavedInv, SavedLogs, SavedCalls
  <2>4. (\A e, f \in net : e = f)'
    BY <1>3 DEF Saved!ReadFails, SavedInv
  <2>5. (ui.confirm => ui.ticked # {})' /\ Saved!AsAsked'
    BY <1>3 DEF Saved!ReadFails, SavedInv, SavedUi, Saved!AsAsked
  <2>6. SavedOwn'
    <3>1. ui'.agent = ui.agent /\ ui'.list = ui.list /\ ui'.ticked = ui.ticked /\ ui'.carried = ui.carried
      BY <1>3, Zenon DEF Saved!ReadFails, SavedInv, SavedUi
    <3> QED
      BY <3>1 DEF SavedInv, SavedOwn
  <2>7. ~Saved!Stuck'
    BY <1>3 DEF Saved!ReadFails, SavedInv, SavedUi, SavedCalls, Saved!Stuck
  <2> QED
    BY <2>1, <2>2, <2>3, <2>4, <2>5, <2>6, <2>7 DEF SavedInv
<1>4. CASE Saved!ToggleMode
  <2>1. ui' \in SavedUi
    BY <1>4, Zenon DEF Saved!ToggleMode, SavedInv, SavedUi, SavedLogs
  <2>2. net' \subseteq SavedCalls
    BY <1>4 DEF Saved!ToggleMode, SavedInv, SavedUi, SavedCalls
  <2>3. srv' \in SavedLogs
    BY <1>4 DEF Saved!ToggleMode, SavedInv, SavedLogs, SavedCalls
  <2>4. (\A e, f \in net : e = f)'
    BY <1>4 DEF Saved!ToggleMode, SavedInv
  <2>5. (ui.confirm => ui.ticked # {})' /\ Saved!AsAsked'
    BY <1>4 DEF Saved!ToggleMode, SavedInv, SavedUi, Saved!AsAsked
  <2>6. SavedOwn'
    <3>1. ui'.agent = ui.agent /\ ui'.list = ui.list /\ ui'.ticked = {}
      BY <1>4, Zenon DEF Saved!ToggleMode, SavedInv, SavedUi
    <3> QED
      BY <3>1 DEF SavedInv, SavedOwn
  <2>7. ~Saved!Stuck'
    BY <1>4 DEF Saved!ToggleMode, SavedInv, SavedUi, SavedCalls, Saved!Stuck
  <2> QED
    BY <2>1, <2>2, <2>3, <2>4, <2>5, <2>6, <2>7 DEF SavedInv
<1>5. CASE Saved!Tick
  <2>1. ui' \in SavedUi
    BY <1>5, SavedItems DEF Saved!Tick, SavedInv, SavedUi, SavedLogs
  <2>2. net' \subseteq SavedCalls
    BY <1>5, SavedItems DEF Saved!Tick, SavedInv, SavedUi, SavedCalls
  <2>3. srv' \in SavedLogs
    BY <1>5, SavedItems DEF Saved!Tick, SavedInv, SavedLogs, SavedCalls
  <2>4. (\A e, f \in net : e = f)'
    BY <1>5, SavedItems DEF Saved!Tick, SavedInv
  <2>5. (ui.confirm => ui.ticked # {})' /\ Saved!AsAsked'
    BY <1>5, SavedItems DEF Saved!Tick, SavedInv, SavedUi, Saved!AsAsked
  <2>6. SavedOwn'
    <3>1. /\ ui'.agent = ui.agent /\ ui'.list = ui.list /\ ui'.carried = ui.carried
          /\ ui'.ticked \subseteq ui.ticked \cup Saved!Items
      BY <1>5 DEF Saved!Tick, SavedInv, SavedUi
    <3> QED
      BY <3>1, SavedItems DEF SavedInv, SavedOwn
  <2>7. ~Saved!Stuck'
    BY <1>5, SavedItems DEF Saved!Tick, SavedInv, SavedUi, SavedCalls, Saved!Stuck
  <2> QED
    BY <2>1, <2>2, <2>3, <2>4, <2>5, <2>6, <2>7 DEF SavedInv
<1>6. CASE Saved!AskConfirm
  <2>1. ui' \in SavedUi
    BY <1>6, Zenon DEF Saved!AskConfirm, Saved!DeleteOffered, SavedInv, SavedUi, SavedLogs
  <2>2. net' \subseteq SavedCalls
    BY <1>6 DEF Saved!AskConfirm, Saved!DeleteOffered, SavedInv, SavedUi, SavedCalls
  <2>3. srv' \in SavedLogs
    BY <1>6 DEF Saved!AskConfirm, Saved!DeleteOffered, SavedInv, SavedLogs, SavedCalls
  <2>4. (\A e, f \in net : e = f)'
    BY <1>6 DEF Saved!AskConfirm, Saved!DeleteOffered, SavedInv
  <2>5. (ui.confirm => ui.ticked # {})' /\ Saved!AsAsked'
    BY <1>6 DEF Saved!AskConfirm, Saved!DeleteOffered, SavedInv, SavedUi, Saved!AsAsked
  <2>6. SavedOwn'
    <3>1. ui'.agent = ui.agent /\ ui'.list = ui.list /\ ui'.ticked = ui.ticked /\ ui'.carried = ui.carried
      BY <1>6, Zenon DEF Saved!AskConfirm, Saved!DeleteOffered, SavedInv, SavedUi
    <3> QED
      BY <3>1 DEF SavedInv, SavedOwn
  <2>7. ~Saved!Stuck'
    BY <1>6 DEF Saved!AskConfirm, Saved!DeleteOffered, SavedInv, SavedUi, SavedCalls, Saved!Stuck
  <2> QED
    BY <2>1, <2>2, <2>3, <2>4, <2>5, <2>6, <2>7 DEF SavedInv
<1>7. CASE Saved!CloseConfirm
  <2>1. ui' \in SavedUi
    BY <1>7, Zenon DEF Saved!CloseConfirm, SavedInv, SavedUi, SavedLogs
  <2>2. net' \subseteq SavedCalls
    BY <1>7 DEF Saved!CloseConfirm, SavedInv, SavedUi, SavedCalls
  <2>3. srv' \in SavedLogs
    BY <1>7 DEF Saved!CloseConfirm, SavedInv, SavedLogs, SavedCalls
  <2>4. (\A e, f \in net : e = f)'
    BY <1>7 DEF Saved!CloseConfirm, SavedInv
  <2>5. (ui.confirm => ui.ticked # {})' /\ Saved!AsAsked'
    BY <1>7 DEF Saved!CloseConfirm, SavedInv, SavedUi, Saved!AsAsked
  <2>6. SavedOwn'
    <3>1. ui'.agent = ui.agent /\ ui'.list = ui.list /\ ui'.ticked = ui.ticked /\ ui'.carried = ui.carried
      BY <1>7, Zenon DEF Saved!CloseConfirm, SavedInv, SavedUi
    <3> QED
      BY <3>1 DEF SavedInv, SavedOwn
  <2>7. ~Saved!Stuck'
    BY <1>7 DEF Saved!CloseConfirm, SavedInv, SavedUi, SavedCalls, Saved!Stuck
  <2> QED
    BY <2>1, <2>2, <2>3, <2>4, <2>5, <2>6, <2>7 DEF SavedInv
<1>8. CASE Saved!ConfirmDelete
  <2> DEFINE d == [kind |-> "batch", agent |-> ui.agent, ids |-> ui.ticked, asked |-> ui.ticked,
                   carried |-> ui.carried]
             l == [ui.list EXCEPT ![ui.agent] = {}]
  <2>l. l \in SavedLists
    BY SavedPut
  <2>t. ui.confirm /\ ui.ticked # {}
    BY <1>8 DEF Saved!ConfirmDelete, SavedInv
  <2>i. /\ d \in SavedCalls /\ d.kind = "batch" /\ d.ids = d.asked
        /\ d.ids \ d.carried \subseteq Saved!OfAgent(d.agent)
    BY DEF SavedInv, SavedUi, SavedOwn, SavedCalls
  <2>n. net' = {d}
    BY <1>8, <2>t, SavedRoom, Zenon DEF Saved!ConfirmDelete, Saved!Call
  <2>u. ui' = [ui EXCEPT !.confirm = FALSE, !.logs = Saved!Folded, !.list = l]
    BY <1>8, Zenon DEF Saved!ConfirmDelete
  <2> HIDE DEF d
  <2>1. ui' \in SavedUi
    BY <1>8, <2>i, <2>n, <2>l, SavedRoom, Zenon DEF Saved!ConfirmDelete, Saved!Folded, SavedInv, SavedUi, SavedLogs
  <2>2. net' \subseteq SavedCalls
    BY <1>8, <2>i, <2>n, <2>l, SavedRoom DEF Saved!ConfirmDelete, Saved!Folded, SavedInv, SavedUi, SavedCalls
  <2>3. srv' \in SavedLogs
    BY <1>8, <2>i, <2>n, <2>l, SavedRoom DEF Saved!ConfirmDelete, Saved!Folded, SavedInv, SavedLogs, SavedCalls
  <2>4. (\A e, f \in net : e = f)'
    BY <1>8, <2>i, <2>n, <2>l, SavedRoom DEF Saved!ConfirmDelete, Saved!Folded, SavedInv
  <2>5. (ui.confirm => ui.ticked # {})' /\ Saved!AsAsked'
    BY <1>8, <2>i, <2>n, <2>l, SavedRoom DEF Saved!ConfirmDelete, Saved!Folded, SavedInv, SavedUi, Saved!AsAsked
  <2>6. SavedOwn'
    <3>1. /\ ui'.agent = ui.agent /\ ui'.list = l /\ ui'.ticked = ui.ticked /\ ui'.carried = ui.carried
      BY <2>u, Zenon DEF SavedInv, SavedUi
    <3> QED
      BY <3>1 DEF SavedInv, SavedUi, SavedLists, SavedOwn
  <2>7. ~Saved!Stuck'
    BY <1>8, <2>i, <2>n, <2>l, SavedRoom DEF Saved!ConfirmDelete, Saved!Folded, SavedInv, SavedUi, SavedCalls, Saved!Stuck
  <2> QED
    BY <2>1, <2>2, <2>3, <2>4, <2>5, <2>6, <2>7 DEF SavedInv
<1>9. CASE Saved!CancelRename
  <2>1. ui' \in SavedUi
    BY <1>9, Zenon DEF Saved!CancelRename, SavedInv, SavedUi, SavedLogs
  <2>2. net' \subseteq SavedCalls
    BY <1>9 DEF Saved!CancelRename, SavedInv, SavedUi, SavedCalls
  <2>3. srv' \in SavedLogs
    BY <1>9 DEF Saved!CancelRename, SavedInv, SavedLogs, SavedCalls
  <2>4. (\A e, f \in net : e = f)'
    BY <1>9 DEF Saved!CancelRename, SavedInv
  <2>5. (ui.confirm => ui.ticked # {})' /\ Saved!AsAsked'
    BY <1>9 DEF Saved!CancelRename, SavedInv, SavedUi, Saved!AsAsked
  <2>6. SavedOwn'
    <3>1. ui'.agent = ui.agent /\ ui'.list = ui.list /\ ui'.ticked = ui.ticked /\ ui'.carried = ui.carried
      BY <1>9, Zenon DEF Saved!CancelRename, SavedInv, SavedUi
    <3> QED
      BY <3>1 DEF SavedInv, SavedOwn
  <2>7. ~Saved!Stuck'
    BY <1>9 DEF Saved!CancelRename, SavedInv, SavedUi, SavedCalls, Saved!Stuck
  <2> QED
    BY <2>1, <2>2, <2>3, <2>4, <2>5, <2>6, <2>7 DEF SavedInv
<1>10. CASE Saved!SaveLabel
  <2> DEFINE d == [kind |-> "rename", of |-> ui.editing]
  <2>i. d \in SavedCalls /\ d.kind = "rename" /\ net' = {d}
    BY <1>10, SavedRoom, SavedItems DEF Saved!SaveLabel, Saved!Call, SavedCalls
  <2> HIDE DEF d
  <2>1. ui' \in SavedUi
    BY <1>10, <2>i, SavedRoom, Zenon DEF Saved!SaveLabel, SavedInv, SavedUi, SavedLogs
  <2>2. net' \subseteq SavedCalls
    BY <1>10, <2>i, SavedRoom DEF Saved!SaveLabel, SavedInv, SavedUi, SavedCalls
  <2>3. srv' \in SavedLogs
    BY <1>10, <2>i, SavedRoom DEF Saved!SaveLabel, SavedInv, SavedLogs, SavedCalls
  <2>4. (\A e, f \in net : e = f)'
    BY <1>10, <2>i, SavedRoom DEF Saved!SaveLabel, SavedInv
  <2>5. (ui.confirm => ui.ticked # {})' /\ Saved!AsAsked'
    BY <1>10, <2>i, SavedRoom DEF Saved!SaveLabel, SavedInv, SavedUi, Saved!AsAsked
  <2>6. SavedOwn'
    <3>1. ui'.agent = ui.agent /\ ui'.list = ui.list /\ ui'.ticked = ui.ticked /\ ui'.carried = ui.carried
      BY <1>10, <2>i, SavedRoom, Zenon DEF Saved!SaveLabel, SavedInv, SavedUi
    <3> QED
      BY <3>1 DEF SavedInv, SavedOwn
  <2>7. ~Saved!Stuck'
    BY <1>10, <2>i, SavedRoom DEF Saved!SaveLabel, SavedInv, SavedUi, SavedCalls, Saved!Stuck
  <2> QED
    BY <2>1, <2>2, <2>3, <2>4, <2>5, <2>6, <2>7 DEF SavedInv
<1>11. CASE Saved!OtherDeletes
  <2>1. ui' \in SavedUi
    BY <1>11 DEF Saved!OtherDeletes, SavedInv, SavedUi, SavedLogs
  <2>2. net' \subseteq SavedCalls
    BY <1>11 DEF Saved!OtherDeletes, SavedInv, SavedUi, SavedCalls
  <2>3. srv' \in SavedLogs
    BY <1>11 DEF Saved!OtherDeletes, SavedInv, SavedLogs, SavedCalls
  <2>4. (\A e, f \in net : e = f)'
    BY <1>11 DEF Saved!OtherDeletes, SavedInv
  <2>5. (ui.confirm => ui.ticked # {})' /\ Saved!AsAsked'
    BY <1>11 DEF Saved!OtherDeletes, SavedInv, SavedUi, Saved!AsAsked
  <2>6. SavedOwn'
    <3>1. ui'.agent = ui.agent /\ ui'.list = ui.list /\ ui'.ticked = ui.ticked /\ ui'.carried = ui.carried
      BY <1>11, Zenon DEF Saved!OtherDeletes, SavedInv, SavedUi
    <3> QED
      BY <3>1 DEF SavedInv, SavedOwn
  <2>7. ~Saved!Stuck'
    BY <1>11 DEF Saved!OtherDeletes, SavedInv, SavedUi, SavedCalls, Saved!Stuck
  <2> QED
    BY <2>1, <2>2, <2>3, <2>4, <2>5, <2>6, <2>7 DEF SavedInv
<1>12. ASSUME NEW x \in Saved!Datasets, Saved!StartRename(x) PROVE SavedInv'
  <2>1. ui' \in SavedUi
    BY <1>12 DEF Saved!StartRename, SavedInv, SavedUi, SavedLogs
  <2>2. net' \subseteq SavedCalls
    BY <1>12 DEF Saved!StartRename, SavedInv, SavedUi, SavedCalls
  <2>3. srv' \in SavedLogs
    BY <1>12 DEF Saved!StartRename, SavedInv, SavedLogs, SavedCalls
  <2>4. (\A e, f \in net : e = f)'
    BY <1>12 DEF Saved!StartRename, SavedInv
  <2>5. (ui.confirm => ui.ticked # {})' /\ Saved!AsAsked'
    BY <1>12 DEF Saved!StartRename, SavedInv, SavedUi, Saved!AsAsked
  <2>6. SavedOwn'
    <3>1. ui'.agent = ui.agent /\ ui'.list = ui.list /\ ui'.ticked = ui.ticked /\ ui'.carried = ui.carried
      BY <1>12, Zenon DEF Saved!StartRename, SavedInv, SavedUi
    <3> QED
      BY <3>1 DEF SavedInv, SavedOwn
  <2>7. ~Saved!Stuck'
    BY <1>12 DEF Saved!StartRename, SavedInv, SavedUi, SavedCalls, Saved!Stuck
  <2> QED
    BY <2>1, <2>2, <2>3, <2>4, <2>5, <2>6, <2>7 DEF SavedInv
<1>13. ASSUME NEW x \in Saved!Datasets, Saved!Expand(x) PROVE SavedInv'
  <2>1. ui' \in SavedUi
    BY <1>13 DEF Saved!Expand, SavedInv, SavedUi, SavedLogs
  <2>2. net' \subseteq SavedCalls
    BY <1>13 DEF Saved!Expand, SavedInv, SavedUi, SavedCalls
  <2>3. srv' \in SavedLogs
    BY <1>13 DEF Saved!Expand, SavedInv, SavedLogs, SavedCalls
  <2>4. (\A e, f \in net : e = f)'
    BY <1>13 DEF Saved!Expand, SavedInv
  <2>5. (ui.confirm => ui.ticked # {})' /\ Saved!AsAsked'
    BY <1>13 DEF Saved!Expand, SavedInv, SavedUi, Saved!AsAsked
  <2>6. SavedOwn'
    <3>1. ui'.agent = ui.agent /\ ui'.list = ui.list /\ ui'.ticked = ui.ticked /\ ui'.carried = ui.carried
      BY <1>13, Zenon DEF Saved!Expand, SavedInv, SavedUi
    <3> QED
      BY <3>1 DEF SavedInv, SavedOwn
  <2>7. ~Saved!Stuck'
    BY <1>13 DEF Saved!Expand, SavedInv, SavedUi, SavedCalls, Saved!Stuck
  <2> QED
    BY <2>1, <2>2, <2>3, <2>4, <2>5, <2>6, <2>7 DEF SavedInv
<1>14. ASSUME NEW x \in Saved!Datasets, NEW l \in Logs, Saved!RemoveLog(x, l) PROVE SavedInv'
  <2> DEFINE d == [kind |-> "remove", of |-> x, log |-> l, whole |-> Saved!Whole(x, l), keep |-> ui.logs[x] \ {l}]
             v == IF Saved!Whole(x, l) THEN None ELSE ui.logs[x] \ {l}
             g == [ui.logs EXCEPT ![x] = v]
             t == IF Saved!Whole(x, l) THEN ui.list[ui.agent] \ {x} ELSE ui.list[ui.agent]
             m == [ui.list EXCEPT ![ui.agent] = t]
  <2>l. ui.logs[x] \in SUBSET Logs /\ x \in Saved!Items
    BY <1>14 DEF Saved!RemoveLog, SavedInv, SavedUi, SavedLogs
  <2>a. ui.list[ui.agent] \in SUBSET Saved!Datasets /\ ui.list[ui.agent] \subseteq Saved!OfAgent(ui.agent)
    BY <2>l, SavedItems DEF SavedInv, SavedUi, SavedLists, SavedOwn
  <2>t. t \in SUBSET Saved!Datasets /\ t \subseteq Saved!OfAgent(ui.agent)
    BY <2>a
  <2>m. m \in SavedLists
    BY <2>t, SavedPut
  <2>g. g \in SavedLogs
    BY <2>l DEF SavedInv, SavedUi, SavedLogs
  <2>i. d \in SavedCalls /\ d.kind = "remove" /\ d.of = x /\ d.log = l
    BY <2>l DEF Saved!Whole, SavedCalls
  <2>n. net' = {d}
    BY <1>14, SavedRoom, Zenon DEF Saved!RemoveLog, Saved!Call
  <2>u. ui' = [ui EXCEPT !.removing = <<x, l>>, !.logs = g, !.list = m]
    BY <1>14, Zenon DEF Saved!RemoveLog
  <2> HIDE DEF d, g, t
  <2>1. ui' \in SavedUi
    <3>1. <<x, l>> \in {None} \cup (Saved!Datasets \X Logs)
      OBVIOUS
    <3>2. ui \in SavedUi
      BY DEF SavedInv
    <3> HIDE DEF m
    <3> QED
      BY <3>1, <3>2, <2>u, <2>g, <2>m, Zenon DEF SavedUi
  <2>2. net' \subseteq SavedCalls
    BY <2>i, <2>n
  <2>3. srv' \in SavedLogs
    BY <1>14 DEF Saved!RemoveLog, SavedInv
  <2>4. (\A e, f \in net : e = f)'
    BY <2>n
  <2>5. (ui.confirm => ui.ticked # {})' /\ Saved!AsAsked'
    BY <2>i, <2>n, <2>u DEF SavedInv, SavedUi, Saved!AsAsked
  <2>6. SavedOwn'
    <3>1. /\ ui'.agent = ui.agent /\ ui'.list = m /\ ui'.ticked = ui.ticked /\ ui'.carried = ui.carried
      BY <2>u, Zenon DEF SavedInv, SavedUi
    <3> QED
      BY <3>1, <2>t DEF SavedInv, SavedUi, SavedLists, SavedOwn
  <2>7. ~Saved!Stuck'
    <3>1. ui'.removing = <<x, l>> /\ ui'.renaming = ui.renaming
      BY <2>u, Zenon DEF SavedInv, SavedUi
    <3>2. ~ui.renaming
      BY <1>14, SavedRoom DEF Saved!RemoveLog, SavedInv, Saved!Stuck
    <3> QED
      BY <2>i, <2>n, <3>1, <3>2 DEF Saved!Stuck
  <2> QED
    BY <2>1, <2>2, <2>3, <2>4, <2>5, <2>6, <2>7 DEF SavedInv
<1>15. ASSUME NEW c \in net, NEW done, Saved!BatchEnds(c, done) PROVE SavedInv'
  <2> DEFINE t == {d \in Saved!OfAgent(ui.agent) : srv'[d] # None}
             l == [ui.list EXCEPT ![ui.agent] = t]
  <2>t. t \in SUBSET Saved!Datasets /\ t \subseteq Saved!OfAgent(ui.agent)
    BY DEF Saved!OfAgent
  <2>l. l \in SavedLists
    BY <2>t, SavedPut
  <2>u. ui' = [ui EXCEPT !.list = l, !.failed = ui.failed \ {ui.agent}]
    BY <1>15, Zenon DEF Saved!BatchEnds
  <2> HIDE DEF t
  <2>1. ui' \in SavedUi
    <3> HIDE DEF l
    <3> QED
      BY <2>u, <2>l, Zenon DEF SavedInv, SavedUi
  <2>2. net' \subseteq SavedCalls
    BY <1>15, <2>l DEF Saved!BatchEnds, SavedInv, SavedUi, SavedCalls
  <2>3. srv' \in SavedLogs
    BY <1>15, <2>l DEF Saved!BatchEnds, SavedInv, SavedLogs, SavedCalls
  <2>4. (\A e, f \in net : e = f)'
    BY <1>15, <2>l DEF Saved!BatchEnds, SavedInv
  <2>5. (ui.confirm => ui.ticked # {})' /\ Saved!AsAsked'
    BY <1>15, <2>l DEF Saved!BatchEnds, SavedInv, SavedUi, Saved!AsAsked
  <2>6. SavedOwn'
    <3>1. /\ ui'.agent = ui.agent /\ ui'.list = l /\ ui'.ticked = ui.ticked /\ ui'.carried = ui.carried
      BY <2>u, Zenon DEF SavedInv, SavedUi
    <3> QED
      BY <3>1, <2>t DEF SavedInv, SavedUi, SavedLists, SavedOwn
  <2>7. ~Saved!Stuck'
    BY <1>15, <2>l DEF Saved!BatchEnds, SavedInv, SavedUi, SavedCalls, Saved!Stuck
  <2> QED
    BY <2>1, <2>2, <2>3, <2>4, <2>5, <2>6, <2>7 DEF SavedInv
<1>16. ASSUME NEW c \in net, Saved!Removed(c) PROVE SavedInv'
  <2>1. ui' \in SavedUi
    BY <1>16 DEF Saved!Removed, Saved!Released, SavedInv, SavedUi, SavedLogs
  <2>2. net' \subseteq SavedCalls
    BY <1>16 DEF Saved!Removed, Saved!Released, SavedInv, SavedUi, SavedCalls
  <2>3. srv' \in SavedLogs
    BY <1>16 DEF Saved!Removed, Saved!Released, SavedInv, SavedLogs, SavedCalls
  <2>4. (\A e, f \in net : e = f)'
    BY <1>16 DEF Saved!Removed, Saved!Released, SavedInv
  <2>5. (ui.confirm => ui.ticked # {})' /\ Saved!AsAsked'
    BY <1>16 DEF Saved!Removed, Saved!Released, SavedInv, SavedUi, Saved!AsAsked
  <2>6. SavedOwn'
    <3>1. ui'.agent = ui.agent /\ ui'.list = ui.list /\ ui'.ticked = ui.ticked /\ ui'.carried = ui.carried
      BY <1>16, Zenon DEF Saved!Removed, Saved!Released, SavedInv, SavedUi
    <3> QED
      BY <3>1 DEF SavedInv, SavedOwn
  <2>7. ~Saved!Stuck'
    BY <1>16 DEF Saved!Removed, Saved!Released, SavedInv, SavedUi, SavedCalls, Saved!Stuck
  <2> QED
    BY <2>1, <2>2, <2>3, <2>4, <2>5, <2>6, <2>7 DEF SavedInv
<1>17. ASSUME NEW c \in net, Saved!RemoveFails(c) PROVE SavedInv'
  <2> DEFINE t == Saved!Rollback(c)
             l == [ui.list EXCEPT ![ui.agent] = t]
             r == Saved!Released(c)
             g == [ui.logs EXCEPT ![c.of] = IF ui.logs[c.of] = None THEN None ELSE srv[c.of]]
             h == IF c.whole THEN ui.failed \ {ui.agent} ELSE ui.failed
  <2>t. /\ t \in {None} \cup SUBSET Saved!Datasets
        /\ t # None => t \subseteq Saved!OfAgent(ui.agent)
    BY SavedItems DEF Saved!Rollback, SavedInv, SavedUi, SavedLists, SavedOwn
  <2>l. l \in SavedLists
    BY <2>t, SavedPut
  <2>g. g \in SavedLogs /\ h \in SUBSET Saved!Owners /\ r \in {None} \cup (Saved!Datasets \X Logs)
    BY DEF Saved!Released, SavedInv, SavedUi, SavedLogs
  <2>u. ui' = [ui EXCEPT !.removing = r, !.list = l, !.failed = h, !.logs = g]
    BY <1>17, Zenon DEF Saved!RemoveFails
  <2> HIDE DEF t, g, h, r
  <2>1. ui' \in SavedUi
    <3> HIDE DEF l
    <3> QED
      BY <2>u, <2>l, <2>g, Zenon DEF SavedInv, SavedUi
  <2>2. net' \subseteq SavedCalls /\ srv' \in SavedLogs
    BY <1>17 DEF Saved!RemoveFails, SavedInv
  <2>4. (\A e, f \in net : e = f)'
    BY <1>17 DEF Saved!RemoveFails, SavedInv
  <2>5. (ui.confirm => ui.ticked # {})' /\ Saved!AsAsked'
    BY <1>17, <2>u DEF Saved!RemoveFails, SavedInv, SavedUi, Saved!AsAsked
  <2>6. SavedOwn'
    <3>1. /\ ui'.agent = ui.agent /\ ui'.list = l /\ ui'.ticked = ui.ticked /\ ui'.carried = ui.carried
      BY <2>u, Zenon DEF SavedInv, SavedUi
    <3> QED
      BY <3>1, <2>t DEF SavedInv, SavedUi, SavedLists, SavedOwn
  <2>7. ~Saved!Stuck'
    <3>1. ui'.removing = r /\ ui'.renaming = ui.renaming
      BY <2>u, Zenon DEF SavedInv, SavedUi
    <3>2. c.kind = "remove" /\ net = {c} /\ ~ui.renaming
      BY <1>17 DEF Saved!RemoveFails, SavedInv, Saved!Stuck
    <3>3. r = None
      BY <3>2 DEF r, Saved!Released, SavedInv, Saved!Stuck
    <3> QED
      BY <3>1, <3>2, <3>3 DEF Saved!Stuck
  <2> QED
    BY <2>1, <2>2, <2>4, <2>5, <2>6, <2>7 DEF SavedInv
<1>18. ASSUME NEW c \in net, Saved!Renamed(c) PROVE SavedInv'
  <2> DEFINE t == Saved!Listed(ui.agent)
             l == [ui.list EXCEPT ![ui.agent] = t]
  <2>t. t \in SUBSET Saved!Datasets /\ t \subseteq Saved!OfAgent(ui.agent)
    BY <1>18, SavedItems
  <2>l. l \in SavedLists
    BY <2>t, SavedPut
  <2>u. ui' = [ui EXCEPT !.renaming = FALSE, !.editing = None, !.list = l, !.failed = ui.failed \ {ui.agent}]
    BY <1>18, Zenon DEF Saved!Renamed
  <2> HIDE DEF t
  <2>1. ui' \in SavedUi
    <3> HIDE DEF l
    <3> QED
      BY <2>u, <2>l, Zenon DEF SavedInv, SavedUi
  <2>2. net' \subseteq SavedCalls
    BY <1>18, <2>l DEF Saved!Renamed, SavedInv, SavedUi, SavedCalls
  <2>3. srv' \in SavedLogs
    BY <1>18, <2>l DEF Saved!Renamed, SavedInv, SavedLogs, SavedCalls
  <2>4. (\A e, f \in net : e = f)'
    BY <1>18, <2>l DEF Saved!Renamed, SavedInv
  <2>5. (ui.confirm => ui.ticked # {})' /\ Saved!AsAsked'
    BY <1>18, <2>l DEF Saved!Renamed, SavedInv, SavedUi, Saved!AsAsked
  <2>6. SavedOwn'
    <3>1. /\ ui'.agent = ui.agent /\ ui'.list = l /\ ui'.ticked = ui.ticked /\ ui'.carried = ui.carried
      BY <2>u, Zenon DEF SavedInv, SavedUi
    <3> QED
      BY <3>1, <2>t DEF SavedInv, SavedUi, SavedLists, SavedOwn
  <2>7. ~Saved!Stuck'
    BY <1>18, <2>l DEF Saved!Renamed, SavedInv, SavedUi, SavedCalls, Saved!Stuck
  <2> QED
    BY <2>1, <2>2, <2>3, <2>4, <2>5, <2>6, <2>7 DEF SavedInv
<1>19. ASSUME NEW c \in net, Saved!RenameFails(c) PROVE SavedInv'
  <2>1. ui' \in SavedUi
    BY <1>19 DEF Saved!RenameFails, SavedInv, SavedUi, SavedLogs
  <2>2. net' \subseteq SavedCalls
    BY <1>19 DEF Saved!RenameFails, SavedInv, SavedUi, SavedCalls
  <2>3. srv' \in SavedLogs
    BY <1>19 DEF Saved!RenameFails, SavedInv, SavedLogs, SavedCalls
  <2>4. (\A e, f \in net : e = f)'
    BY <1>19 DEF Saved!RenameFails, SavedInv
  <2>5. (ui.confirm => ui.ticked # {})' /\ Saved!AsAsked'
    BY <1>19 DEF Saved!RenameFails, SavedInv, SavedUi, Saved!AsAsked
  <2>6. SavedOwn'
    <3>1. ui'.agent = ui.agent /\ ui'.list = ui.list /\ ui'.ticked = ui.ticked /\ ui'.carried = ui.carried
      BY <1>19, Zenon DEF Saved!RenameFails, SavedInv, SavedUi
    <3> QED
      BY <3>1 DEF SavedInv, SavedOwn
  <2>7. ~Saved!Stuck'
    BY <1>19 DEF Saved!RenameFails, SavedInv, SavedUi, SavedCalls, Saved!Stuck
  <2> QED
    BY <2>1, <2>2, <2>3, <2>4, <2>5, <2>6, <2>7 DEF SavedInv
<1> QED
  BY <1>1, <1>2, <1>3, <1>4, <1>5, <1>6, <1>7, <1>8, <1>9, <1>10, <1>11, <1>12, <1>13,
     <1>14, <1>15, <1>16, <1>17, <1>18, <1>19, Zenon DEF Saved!Next, Saved!Answer, Saved!Fail, Saved!BatchFails

\* What the invariant says of the screen.
LEMMA SavedHolds == ASSUME SavedInv PROVE Saved!TypeOK
  BY DEF SavedInv, SavedUi, SavedLogs, SavedLists, Saved!TypeOK

\* And so does a step that is not the screen's.
LEMMA SavedSame == ASSUME SavedInv, UNCHANGED vars PROVE SavedInv'
  BY DEF vars, SavedInv, SavedOwn, Saved!AsAsked, Saved!Stuck

-----------------------------------------------------------------------------
(***************************************************************************)
(* The map of agents.                                                      *)
(***************************************************************************)

MapLists == [Agents -> {"live", "deleted", None}]

MapUi == [list : MapLists \cup {None}, error : BOOLEAN, agent : Agents \cup {None},
          tab : Map!Tabs, visible : BOOLEAN,
          stream : {"closed", "opening", "open", "broken"}, connected : BOOLEAN,
          timer : BOOLEAN, mode : BOOLEAN, ticked : SUBSET Agents, purging : BOOLEAN,
          restoring : Agents \cup {None}]

MapCalls ==
    [kind : {"purge"}, ids : SUBSET Agents, open : Agents \cup {None}, listed : SUBSET Agents]
      \cup [kind : {"purging"}, ids : SUBSET Agents, open : Agents \cup {None}, found : SUBSET Agents]
      \cup [kind : {"purged"}, ids : SUBSET Agents, open : Agents \cup {None}]
      \cup [kind : {"restore"}, agent : Agents]

\* A tick is on an agent of the tray, and a hidden tab has no stream.
MapInv ==
    /\ ui \in MapUi /\ net \subseteq MapCalls
    /\ srv \in [Agents -> {"live", "deleted", "gone"}] /\ odd \in 0..2
    /\ ui.ticked \subseteq Map!Tray
    /\ ~ui.visible => ui.stream = "closed"
    /\ Map!NeverBlind
    /\ Map!PurgesListed
    /\ ~Map!Stuck

\* The invariant holds when the screen is opened.
LEMMA MapInit == ASSUME Map!Init PROVE MapInv
<1>1. ui \in MapUi
  BY DEF Map!Init, MapUi, Map!Tabs
<1>2. srv \in [Agents -> {"live", "deleted", "gone"}]
  BY DEF Map!Init
<1> QED
  BY <1>1, <1>2 DEF Map!Init, MapInv, Map!NeverBlind, Map!PurgesListed, Map!Stuck

\* What a list that arrives leaves on the page.
LEMMA MapShows ==
    ASSUME ui \in MapUi, NEW s \in MapUi, NEW list \in MapLists
    PROVE  LET t == Map!Shows(s, list) IN
           /\ t \in MapUi
           /\ t.ticked \subseteq Map!Those(list, "deleted") /\ ~t.error /\ t.list = list
           /\ t.visible = s.visible /\ t.stream = s.stream /\ t.connected = s.connected
           /\ t.purging = s.purging /\ t.restoring = s.restoring
<1>1. Map!TicksOn(list) \in SUBSET Agents /\ Map!TicksOn(list) \subseteq Map!Those(list, "deleted")
  BY DEF Map!TicksOn, Map!Those
<1> QED
  BY <1>1, ZenonT(40) DEF Map!Shows, MapUi

\* What the server lists of the agents.
LEMMA MapListed ==
    ASSUME srv \in [Agents -> {"live", "deleted", "gone"}] PROVE Map!Listed \in MapLists
  BY DEF Map!Listed, MapLists

\* Every step of the screen keeps the invariant.
LEMMA MapStep == ASSUME MapInv, Map!Next PROVE MapInv'
<1>1. CASE Map!Fetch
  <2> DEFINE s == [ui EXCEPT !.timer = FALSE]
  <2>s. /\ s \in MapUi /\ s.visible = ui.visible /\ s.stream = ui.stream
        /\ s.connected = ui.connected /\ s.purging = ui.purging /\ s.restoring = ui.restoring
    BY Zenon DEF MapInv, MapUi
  <2>u. ui' = Map!Shows(s, Map!Listed)
    BY <1>1 DEF Map!Fetch
  <2> HIDE DEF s
  <2>i. /\ ui' \in MapUi
        /\ ui'.ticked \subseteq Map!Those(ui'.list, "deleted") /\ ~ui'.error
        /\ ui'.visible = ui.visible /\ ui'.stream = ui.stream /\ ui'.connected = ui.connected
        /\ ui'.purging = ui.purging /\ ui'.restoring = ui.restoring
    BY <2>s, <2>u, MapShows, MapListed DEF MapInv
  <2>1. ui' \in MapUi
    BY <1>1, <2>i, Zenon DEF Map!Fetch, MapInv, MapUi, Map!Tabs
  <2>2. net' \subseteq MapCalls
    BY <1>1, <2>i DEF Map!Fetch, MapInv, MapUi, MapCalls
  <2>3. srv' \in [Agents -> {"live", "deleted", "gone"}] /\ odd' \in 0..2
    BY <1>1, <2>i DEF Map!Fetch, MapInv, MapCalls
  <2>4. (ui.ticked \subseteq Map!Tray)'
    BY <1>1, <2>i, Zenon DEF Map!Fetch, MapInv, MapUi, Map!Tray, Map!Those
  <2>5. (~ui.visible => ui.stream = "closed")' /\ Map!NeverBlind'
    BY <1>1, <2>i, Zenon DEF Map!Fetch, MapInv, MapUi, Map!NeverBlind
  <2>6. Map!PurgesListed'
    BY <1>1, <2>i DEF Map!Fetch, MapInv, MapUi, MapCalls, Map!PurgesListed
  <2>7. ~Map!Stuck'
    BY <1>1, <2>i, Zenon DEF Map!Fetch, MapInv, MapUi, MapCalls, Map!Stuck, Map!Purging
  <2> QED
    BY <2>1, <2>2, <2>3, <2>4, <2>5, <2>6, <2>7 DEF MapInv
<1>2. CASE Map!FetchFails
  <2>1. ui' \in MapUi
    BY <1>2, Zenon DEF Map!FetchFails, MapInv, MapUi, Map!Tabs
  <2>2. net' \subseteq MapCalls
    BY <1>2 DEF Map!FetchFails, MapInv, MapUi, MapCalls
  <2>3. srv' \in [Agents -> {"live", "deleted", "gone"}] /\ odd' \in 0..2
    BY <1>2 DEF Map!FetchFails, MapInv, MapCalls
  <2>4. (ui.ticked \subseteq Map!Tray)'
    BY <1>2 DEF Map!FetchFails, MapInv, MapUi, Map!Tray, Map!Those
  <2>5. (~ui.visible => ui.stream = "closed")' /\ Map!NeverBlind'
    BY <1>2 DEF Map!FetchFails, MapInv, MapUi, Map!NeverBlind
  <2>6. Map!PurgesListed'
    BY <1>2 DEF Map!FetchFails, MapInv, MapUi, MapCalls, Map!PurgesListed
  <2>7. ~Map!Stuck'
    BY <1>2 DEF Map!FetchFails, MapInv, MapUi, MapCalls, Map!Stuck, Map!Purging
  <2> QED
    BY <2>1, <2>2, <2>3, <2>4, <2>5, <2>6, <2>7 DEF MapInv
<1>3. CASE Map!Retry
  <2>i. /\ ui' \in MapUi
        /\ ui'.ticked \subseteq Map!Those(ui'.list, "deleted") /\ ~ui'.error
        /\ ui'.visible = ui.visible /\ ui'.stream = ui.stream /\ ui'.connected = ui.connected
        /\ ui'.purging = ui.purging /\ ui'.restoring = ui.restoring
    BY <1>3, MapShows, MapListed DEF Map!Retry, MapInv
  <2>1. ui' \in MapUi
    BY <1>3, <2>i DEF Map!Retry, MapInv, MapUi, Map!Tabs
  <2>2. net' \subseteq MapCalls
    BY <1>3, <2>i DEF Map!Retry, MapInv, MapUi, MapCalls
  <2>3. srv' \in [Agents -> {"live", "deleted", "gone"}] /\ odd' \in 0..2
    BY <1>3, <2>i DEF Map!Retry, MapInv, MapCalls
  <2>4. (ui.ticked \subseteq Map!Tray)'
    BY <1>3, <2>i DEF Map!Retry, MapInv, MapUi, Map!Tray, Map!Those
  <2>5. (~ui.visible => ui.stream = "closed")' /\ Map!NeverBlind'
    BY <1>3, <2>i DEF Map!Retry, MapInv, MapUi, Map!NeverBlind
  <2>6. Map!PurgesListed'
    BY <1>3, <2>i DEF Map!Retry, MapInv, MapUi, MapCalls, Map!PurgesListed
  <2>7. ~Map!Stuck'
    BY <1>3, <2>i DEF Map!Retry, MapInv, MapUi, MapCalls, Map!Stuck, Map!Purging
  <2> QED
    BY <2>1, <2>2, <2>3, <2>4, <2>5, <2>6, <2>7 DEF MapInv
<1>4. CASE Map!Hide
  <2>1. ui' \in MapUi
    BY <1>4, Zenon DEF Map!Hide, Map!Closed, MapInv, MapUi, Map!Tabs
  <2>2. net' \subseteq MapCalls
    BY <1>4 DEF Map!Hide, Map!Closed, MapInv, MapUi, MapCalls
  <2>3. srv' \in [Agents -> {"live", "deleted", "gone"}] /\ odd' \in 0..2
    BY <1>4 DEF Map!Hide, Map!Closed, MapInv, MapCalls
  <2>4. (ui.ticked \subseteq Map!Tray)'
    BY <1>4 DEF Map!Hide, Map!Closed, MapInv, MapUi, Map!Tray, Map!Those
  <2>5. (~ui.visible => ui.stream = "closed")' /\ Map!NeverBlind'
    BY <1>4 DEF Map!Hide, Map!Closed, MapInv, MapUi, Map!NeverBlind
  <2>6. Map!PurgesListed'
    BY <1>4 DEF Map!Hide, Map!Closed, MapInv, MapUi, MapCalls, Map!PurgesListed
  <2>7. ~Map!Stuck'
    BY <1>4 DEF Map!Hide, Map!Closed, MapInv, MapUi, MapCalls, Map!Stuck, Map!Purging
  <2> QED
    BY <2>1, <2>2, <2>3, <2>4, <2>5, <2>6, <2>7 DEF MapInv
<1>5. CASE Map!Show
  <2> DEFINE back == [ui EXCEPT !.visible = TRUE, !.stream = "opening"]
  <2>s. back \in MapUi
    BY Zenon DEF MapInv, MapUi
  <2>t. back.ticked \subseteq Map!Tray /\ ~ui.connected
    BY <1>5 DEF MapInv, MapUi, Map!Show, Map!NeverBlind
  <2>b. /\ back.visible = TRUE /\ back.stream = "opening" /\ back.connected = ui.connected
        /\ back.purging = ui.purging /\ back.restoring = ui.restoring /\ back.error = ui.error
        /\ back.list = ui.list
    BY DEF MapInv, MapUi
  <2>u. ui' = back \/ ui' = Map!Shows(back, Map!Listed)
    BY <1>5 DEF Map!Show
  <2> HIDE DEF back
  <2>i. /\ ui' \in MapUi
        /\ ui'.visible = TRUE /\ ui'.stream = "opening" /\ ui'.connected = ui.connected
        /\ ui'.purging = ui.purging /\ ui'.restoring = ui.restoring
        /\ ui'.ticked \subseteq Map!Tray'
    <3>1. CASE ui' = back
      BY <3>1, <2>s, <2>t, <2>b DEF Map!Tray
    <3>2. CASE ui' = Map!Shows(back, Map!Listed)
      BY <3>2, <2>s, <2>b, MapShows, MapListed DEF MapInv, Map!Tray
    <3> QED
      BY <2>u, <3>1, <3>2, Zenon
  <2>1. ui' \in MapUi
    BY <1>5, <2>i DEF Map!Show, MapInv, MapUi, Map!Tabs
  <2>2. net' \subseteq MapCalls
    BY <1>5, <2>i DEF Map!Show, MapInv, MapUi, MapCalls
  <2>3. srv' \in [Agents -> {"live", "deleted", "gone"}] /\ odd' \in 0..2
    BY <1>5, <2>i DEF Map!Show, MapInv, MapCalls
  <2>4. (ui.ticked \subseteq Map!Tray)'
    BY <1>5, <2>i DEF Map!Show, MapInv, MapUi, Map!Tray, Map!Those
  <2>5. (~ui.visible => ui.stream = "closed")' /\ Map!NeverBlind'
    BY <1>5, <2>i DEF Map!Show, MapInv, MapUi, Map!NeverBlind
  <2>6. Map!PurgesListed'
    BY <1>5, <2>i DEF Map!Show, MapInv, MapUi, MapCalls, Map!PurgesListed
  <2>7. ~Map!Stuck'
    BY <1>5, <2>i DEF Map!Show, MapInv, MapUi, MapCalls, Map!Stuck, Map!Purging
  <2> QED
    BY <2>1, <2>2, <2>3, <2>4, <2>5, <2>6, <2>7 DEF MapInv
<1>6. CASE Map!StreamOpens
  <2>1. ui' \in MapUi
    BY <1>6, Zenon DEF Map!StreamOpens, MapInv, MapUi, Map!Tabs
  <2>2. net' \subseteq MapCalls
    BY <1>6 DEF Map!StreamOpens, MapInv, MapUi, MapCalls
  <2>3. srv' \in [Agents -> {"live", "deleted", "gone"}] /\ odd' \in 0..2
    BY <1>6 DEF Map!StreamOpens, MapInv, MapCalls
  <2>4. (ui.ticked \subseteq Map!Tray)'
    BY <1>6 DEF Map!StreamOpens, MapInv, MapUi, Map!Tray, Map!Those
  <2>5. (~ui.visible => ui.stream = "closed")' /\ Map!NeverBlind'
    BY <1>6 DEF Map!StreamOpens, MapInv, MapUi, Map!NeverBlind
  <2>6. Map!PurgesListed'
    BY <1>6 DEF Map!StreamOpens, MapInv, MapUi, MapCalls, Map!PurgesListed
  <2>7. ~Map!Stuck'
    BY <1>6 DEF Map!StreamOpens, MapInv, MapUi, MapCalls, Map!Stuck, Map!Purging
  <2> QED
    BY <2>1, <2>2, <2>3, <2>4, <2>5, <2>6, <2>7 DEF MapInv
<1>7. CASE Map!StreamBreaks
  <2>1. ui' \in MapUi
    BY <1>7, Zenon DEF Map!StreamBreaks, MapInv, MapUi, Map!Tabs
  <2>2. net' \subseteq MapCalls
    BY <1>7 DEF Map!StreamBreaks, MapInv, MapUi, MapCalls
  <2>3. srv' \in [Agents -> {"live", "deleted", "gone"}] /\ odd' \in 0..2
    BY <1>7 DEF Map!StreamBreaks, MapInv, MapCalls
  <2>4. (ui.ticked \subseteq Map!Tray)'
    BY <1>7 DEF Map!StreamBreaks, MapInv, MapUi, Map!Tray, Map!Those
  <2>5. (~ui.visible => ui.stream = "closed")' /\ Map!NeverBlind'
    BY <1>7 DEF Map!StreamBreaks, MapInv, MapUi, Map!NeverBlind
  <2>6. Map!PurgesListed'
    BY <1>7 DEF Map!StreamBreaks, MapInv, MapUi, MapCalls, Map!PurgesListed
  <2>7. ~Map!Stuck'
    BY <1>7 DEF Map!StreamBreaks, MapInv, MapUi, MapCalls, Map!Stuck, Map!Purging
  <2> QED
    BY <2>1, <2>2, <2>3, <2>4, <2>5, <2>6, <2>7 DEF MapInv
<1>8. CASE Map!OthersAct
  <2>1. ui' \in MapUi
    BY <1>8, Zenon DEF Map!OthersAct, Map!Turn, MapInv, MapUi, Map!Tabs
  <2>2. net' \subseteq MapCalls
    BY <1>8 DEF Map!OthersAct, Map!Turn, MapInv, MapUi, MapCalls
  <2>3. srv' \in [Agents -> {"live", "deleted", "gone"}] /\ odd' \in 0..2
    BY <1>8 DEF Map!OthersAct, Map!Turn, MapInv, MapCalls
  <2>4. (ui.ticked \subseteq Map!Tray)'
    BY <1>8 DEF Map!OthersAct, Map!Turn, MapInv, MapUi, Map!Tray, Map!Those
  <2>5. (~ui.visible => ui.stream = "closed")' /\ Map!NeverBlind'
    BY <1>8 DEF Map!OthersAct, Map!Turn, MapInv, MapUi, Map!NeverBlind
  <2>6. Map!PurgesListed'
    BY <1>8 DEF Map!OthersAct, Map!Turn, MapInv, MapUi, MapCalls, Map!PurgesListed
  <2>7. ~Map!Stuck'
    BY <1>8 DEF Map!OthersAct, Map!Turn, MapInv, MapUi, MapCalls, Map!Stuck, Map!Purging
  <2> QED
    BY <2>1, <2>2, <2>3, <2>4, <2>5, <2>6, <2>7 DEF MapInv
<1>9. CASE Map!ClosePanel
  <2>1. ui' \in MapUi
    BY <1>9, Zenon DEF Map!ClosePanel, MapInv, MapUi, Map!Tabs
  <2>2. net' \subseteq MapCalls
    BY <1>9 DEF Map!ClosePanel, MapInv, MapUi, MapCalls
  <2>3. srv' \in [Agents -> {"live", "deleted", "gone"}] /\ odd' \in 0..2
    BY <1>9 DEF Map!ClosePanel, MapInv, MapCalls
  <2>4. (ui.ticked \subseteq Map!Tray)'
    BY <1>9 DEF Map!ClosePanel, MapInv, MapUi, Map!Tray, Map!Those
  <2>5. (~ui.visible => ui.stream = "closed")' /\ Map!NeverBlind'
    BY <1>9 DEF Map!ClosePanel, MapInv, MapUi, Map!NeverBlind
  <2>6. Map!PurgesListed'
    BY <1>9 DEF Map!ClosePanel, MapInv, MapUi, MapCalls, Map!PurgesListed
  <2>7. ~Map!Stuck'
    BY <1>9 DEF Map!ClosePanel, MapInv, MapUi, MapCalls, Map!Stuck, Map!Purging
  <2> QED
    BY <2>1, <2>2, <2>3, <2>4, <2>5, <2>6, <2>7 DEF MapInv
<1>10. CASE Map!ToggleMode
  <2>1. ui' \in MapUi
    BY <1>10, Zenon DEF Map!ToggleMode, MapInv, MapUi, Map!Tabs
  <2>2. net' \subseteq MapCalls
    BY <1>10 DEF Map!ToggleMode, MapInv, MapUi, MapCalls
  <2>3. srv' \in [Agents -> {"live", "deleted", "gone"}] /\ odd' \in 0..2
    BY <1>10 DEF Map!ToggleMode, MapInv, MapCalls
  <2>4. (ui.ticked \subseteq Map!Tray)'
    BY <1>10 DEF Map!ToggleMode, MapInv, MapUi, Map!Tray, Map!Those
  <2>5. (~ui.visible => ui.stream = "closed")' /\ Map!NeverBlind'
    BY <1>10 DEF Map!ToggleMode, MapInv, MapUi, Map!NeverBlind
  <2>6. Map!PurgesListed'
    BY <1>10 DEF Map!ToggleMode, MapInv, MapUi, MapCalls, Map!PurgesListed
  <2>7. ~Map!Stuck'
    BY <1>10 DEF Map!ToggleMode, MapInv, MapUi, MapCalls, Map!Stuck, Map!Purging
  <2> QED
    BY <2>1, <2>2, <2>3, <2>4, <2>5, <2>6, <2>7 DEF MapInv
<1>11. CASE Map!Tick
  BY <1>11 DEF Map!Tick, Map!Tray, Map!Those, MapInv, MapUi, MapCalls, Map!NeverBlind, Map!PurgesListed,
     Map!Stuck, Map!Purging
<1>12. CASE Map!Purge
  <2> DEFINE d == [kind |-> "purge", ids |-> ui.ticked, open |-> ui.agent, listed |-> Map!Tray]
  <2>i. /\ d \in MapCalls /\ d.kind = "purge" /\ d.ids \subseteq d.listed
        /\ net' = net \cup {d}
    BY <1>12 DEF Map!Purge, Map!Call, MapInv, MapUi, MapCalls, Map!Tray, Map!Those
  <2> HIDE DEF d
  <2>1. ui' \in MapUi
    BY <1>12, <2>i, Zenon DEF Map!Purge, MapInv, MapUi, Map!Tabs
  <2>2. net' \subseteq MapCalls
    BY <1>12, <2>i DEF Map!Purge, MapInv, MapUi, MapCalls
  <2>3. srv' \in [Agents -> {"live", "deleted", "gone"}] /\ odd' \in 0..2
    BY <1>12, <2>i DEF Map!Purge, MapInv, MapCalls
  <2>4. (ui.ticked \subseteq Map!Tray)'
    BY <1>12, <2>i DEF Map!Purge, MapInv, MapUi, Map!Tray, Map!Those
  <2>5. (~ui.visible => ui.stream = "closed")' /\ Map!NeverBlind'
    BY <1>12, <2>i DEF Map!Purge, MapInv, MapUi, Map!NeverBlind
  <2>6. Map!PurgesListed'
    BY <1>12, <2>i DEF Map!Purge, MapInv, MapUi, MapCalls, Map!PurgesListed
  <2>7. ~Map!Stuck'
    BY <1>12, <2>i DEF Map!Purge, MapInv, MapUi, MapCalls, Map!Stuck, Map!Purging
  <2> QED
    BY <2>1, <2>2, <2>3, <2>4, <2>5, <2>6, <2>7 DEF MapInv
<1>13. ASSUME NEW a \in Agents, Map!Select(a) PROVE MapInv'
  <2>1. ui' \in MapUi
    BY <1>13 DEF Map!Select, MapInv, MapUi, Map!Tabs
  <2>2. net' \subseteq MapCalls
    BY <1>13 DEF Map!Select, MapInv, MapUi, MapCalls
  <2>3. srv' \in [Agents -> {"live", "deleted", "gone"}] /\ odd' \in 0..2
    BY <1>13 DEF Map!Select, MapInv, MapCalls
  <2>4. (ui.ticked \subseteq Map!Tray)'
    BY <1>13 DEF Map!Select, MapInv, MapUi, Map!Tray, Map!Those
  <2>5. (~ui.visible => ui.stream = "closed")' /\ Map!NeverBlind'
    BY <1>13 DEF Map!Select, MapInv, MapUi, Map!NeverBlind
  <2>6. Map!PurgesListed'
    BY <1>13 DEF Map!Select, MapInv, MapUi, MapCalls, Map!PurgesListed
  <2>7. ~Map!Stuck'
    BY <1>13 DEF Map!Select, MapInv, MapUi, MapCalls, Map!Stuck, Map!Purging
  <2> QED
    BY <2>1, <2>2, <2>3, <2>4, <2>5, <2>6, <2>7 DEF MapInv
<1>14. ASSUME NEW a \in Agents, Map!Restore(a) PROVE MapInv'
  <2> DEFINE d == [kind |-> "restore", agent |-> a]
  <2>i. d \in MapCalls /\ d.kind = "restore" /\ d.agent = a /\ net' = net \cup {d}
    BY <1>14 DEF Map!Restore, Map!Call, MapCalls
  <2> HIDE DEF d
  <2>1. ui' \in MapUi
    BY <1>14, <2>i DEF Map!Restore, MapInv, MapUi, Map!Tabs
  <2>2. net' \subseteq MapCalls
    BY <1>14, <2>i DEF Map!Restore, MapInv, MapUi, MapCalls
  <2>3. srv' \in [Agents -> {"live", "deleted", "gone"}] /\ odd' \in 0..2
    BY <1>14, <2>i DEF Map!Restore, MapInv, MapCalls
  <2>4. (ui.ticked \subseteq Map!Tray)'
    BY <1>14, <2>i DEF Map!Restore, MapInv, MapUi, Map!Tray, Map!Those
  <2>5. (~ui.visible => ui.stream = "closed")' /\ Map!NeverBlind'
    BY <1>14, <2>i DEF Map!Restore, MapInv, MapUi, Map!NeverBlind
  <2>6. Map!PurgesListed'
    BY <1>14, <2>i DEF Map!Restore, MapInv, MapUi, MapCalls, Map!PurgesListed
  <2>7. ~Map!Stuck'
    BY <1>14, <2>i DEF Map!Restore, MapInv, MapUi, MapCalls, Map!Stuck, Map!Purging
  <2> QED
    BY <2>1, <2>2, <2>3, <2>4, <2>5, <2>6, <2>7 DEF MapInv
<1>15. ASSUME NEW t \in Map!Tabs, Map!OpenTab(t) PROVE MapInv'
  <2>1. ui' \in MapUi
    BY <1>15 DEF Map!OpenTab, MapInv, MapUi, Map!Tabs
  <2>2. net' \subseteq MapCalls
    BY <1>15 DEF Map!OpenTab, MapInv, MapUi, MapCalls
  <2>3. srv' \in [Agents -> {"live", "deleted", "gone"}] /\ odd' \in 0..2
    BY <1>15 DEF Map!OpenTab, MapInv, MapCalls
  <2>4. (ui.ticked \subseteq Map!Tray)'
    BY <1>15 DEF Map!OpenTab, MapInv, MapUi, Map!Tray, Map!Those
  <2>5. (~ui.visible => ui.stream = "closed")' /\ Map!NeverBlind'
    BY <1>15 DEF Map!OpenTab, MapInv, MapUi, Map!NeverBlind
  <2>6. Map!PurgesListed'
    BY <1>15 DEF Map!OpenTab, MapInv, MapUi, MapCalls, Map!PurgesListed
  <2>7. ~Map!Stuck'
    BY <1>15 DEF Map!OpenTab, MapInv, MapUi, MapCalls, Map!Stuck, Map!Purging
  <2> QED
    BY <2>1, <2>2, <2>3, <2>4, <2>5, <2>6, <2>7 DEF MapInv
<1>16. ASSUME NEW c \in net, Map!PurgeDone(c) PROVE MapInv'
  <2> DEFINE s == Map!AfterPurge(c)
  <2>s. /\ s \in MapUi /\ s.visible = ui.visible /\ s.stream = ui.stream
        /\ s.connected = ui.connected /\ s.purging = FALSE /\ s.restoring = ui.restoring
    BY Zenon DEF Map!AfterPurge, MapInv, MapUi, Map!Tabs
  <2>l. Map!Listed \in MapLists
    BY MapListed DEF MapInv
  <2>u. ui' = Map!Shows(s, Map!Listed)
    BY <1>16 DEF Map!PurgeDone
  <2> HIDE DEF s
  <2>i. /\ ui' \in MapUi
        /\ ui'.ticked \subseteq Map!Those(ui'.list, "deleted") /\ ~ui'.error
        /\ ui'.visible = ui.visible /\ ui'.stream = ui.stream /\ ui'.connected = ui.connected
        /\ ui'.purging = FALSE /\ ui'.restoring = ui.restoring
    BY <2>s, <2>l, <2>u, MapShows DEF MapInv
  <2>1. ui' \in MapUi
    BY <1>16, <2>i DEF Map!PurgeDone, MapInv, MapUi, Map!Tabs
  <2>2. net' \subseteq MapCalls
    BY <1>16, <2>i DEF Map!PurgeDone, MapInv, MapUi, MapCalls
  <2>3. srv' \in [Agents -> {"live", "deleted", "gone"}] /\ odd' \in 0..2
    BY <1>16 DEF Map!PurgeDone, MapInv
  <2>4. (ui.ticked \subseteq Map!Tray)'
    BY <1>16, <2>i DEF Map!PurgeDone, MapInv, MapUi, Map!Tray, Map!Those
  <2>5. (~ui.visible => ui.stream = "closed")' /\ Map!NeverBlind'
    BY <1>16, <2>i DEF Map!PurgeDone, MapInv, MapUi, Map!NeverBlind
  <2>6. Map!PurgesListed'
    BY <1>16, <2>i DEF Map!PurgeDone, MapInv, MapUi, MapCalls, Map!PurgesListed
  <2>7. ~Map!Stuck'
    BY <1>16, <2>i DEF Map!PurgeDone, MapInv, MapUi, MapCalls, Map!Stuck, Map!Purging
  <2> QED
    BY <2>1, <2>2, <2>3, <2>4, <2>5, <2>6, <2>7 DEF MapInv
<1>17. ASSUME NEW c \in net, Map!PurgeFails(c) PROVE MapInv'
  <2>1. ui' \in MapUi
    BY <1>17, Zenon DEF Map!PurgeFails, MapInv, MapUi, Map!Tabs
  <2>2. net' \subseteq MapCalls
    BY <1>17 DEF Map!PurgeFails, MapInv, MapUi, MapCalls
  <2>3. srv' \in [Agents -> {"live", "deleted", "gone"}] /\ odd' \in 0..2
    BY <1>17 DEF Map!PurgeFails, MapInv, MapCalls
  <2>4. (ui.ticked \subseteq Map!Tray)'
    BY <1>17 DEF Map!PurgeFails, MapInv, MapUi, Map!Tray, Map!Those
  <2>5. (~ui.visible => ui.stream = "closed")' /\ Map!NeverBlind'
    BY <1>17 DEF Map!PurgeFails, MapInv, MapUi, Map!NeverBlind
  <2>6. Map!PurgesListed'
    BY <1>17 DEF Map!PurgeFails, MapInv, MapUi, MapCalls, Map!PurgesListed
  <2>7. ~Map!Stuck'
    BY <1>17 DEF Map!PurgeFails, MapInv, MapUi, MapCalls, Map!Stuck, Map!Purging
  <2> QED
    BY <2>1, <2>2, <2>3, <2>4, <2>5, <2>6, <2>7 DEF MapInv
<1>18. ASSUME NEW c \in net, Map!RestoreDone(c) PROVE MapInv'
  <2> DEFINE s == [ui EXCEPT !.agent = c.agent, !.tab = "issues", !.restoring = None]
  <2>c. c.agent \in Agents
    BY <1>18 DEF Map!RestoreDone, MapInv, MapCalls
  <2>s. /\ s \in MapUi /\ s.visible = ui.visible /\ s.stream = ui.stream
        /\ s.connected = ui.connected /\ s.purging = ui.purging /\ s.restoring = None
    BY <2>c, Zenon DEF MapInv, MapUi, Map!Tabs
  <2>v. srv' \in [Agents -> {"live", "deleted", "gone"}]
    BY <1>18, <2>c DEF Map!RestoreDone, Map!Turn, MapInv
  <2>l. Map!Listed' \in MapLists
    BY <2>v DEF Map!Listed, MapLists
  <2>u. ui' = Map!Shows(s, Map!Listed')
    BY <1>18 DEF Map!RestoreDone
  <2> HIDE DEF s
  <2>i. /\ ui' \in MapUi
        /\ ui'.ticked \subseteq Map!Those(ui'.list, "deleted") /\ ~ui'.error
        /\ ui'.visible = ui.visible /\ ui'.stream = ui.stream /\ ui'.connected = ui.connected
        /\ ui'.purging = ui.purging /\ ui'.restoring = None
    BY <2>s, <2>l, <2>u, MapShows DEF MapInv
  <2>1. ui' \in MapUi
    BY <1>18, <2>i DEF Map!RestoreDone, MapInv, MapUi, Map!Tabs
  <2>2. net' \subseteq MapCalls
    BY <1>18, <2>i DEF Map!RestoreDone, MapInv, MapUi, MapCalls
  <2>3. srv' \in [Agents -> {"live", "deleted", "gone"}] /\ odd' \in 0..2
    BY <2>v, <1>18 DEF Map!RestoreDone, MapInv
  <2>4. (ui.ticked \subseteq Map!Tray)'
    BY <1>18, <2>i DEF Map!RestoreDone, MapInv, MapUi, Map!Tray, Map!Those
  <2>5. (~ui.visible => ui.stream = "closed")' /\ Map!NeverBlind'
    BY <1>18, <2>i DEF Map!RestoreDone, MapInv, MapUi, Map!NeverBlind
  <2>6. Map!PurgesListed'
    BY <1>18, <2>i DEF Map!RestoreDone, MapInv, MapUi, MapCalls, Map!PurgesListed
  <2>7. ~Map!Stuck'
    BY <1>18, <2>i DEF Map!RestoreDone, MapInv, MapUi, MapCalls, Map!Stuck, Map!Purging
  <2> QED
    BY <2>1, <2>2, <2>3, <2>4, <2>5, <2>6, <2>7 DEF MapInv
<1>19. ASSUME NEW c \in net, Map!RestoreFails(c) PROVE MapInv'
  <2>1. ui' \in MapUi
    BY <1>19 DEF Map!RestoreFails, MapInv, MapUi, Map!Tabs
  <2>2. net' \subseteq MapCalls
    BY <1>19 DEF Map!RestoreFails, MapInv, MapUi, MapCalls
  <2>3. srv' \in [Agents -> {"live", "deleted", "gone"}] /\ odd' \in 0..2
    BY <1>19 DEF Map!RestoreFails, MapInv, MapCalls
  <2>4. (ui.ticked \subseteq Map!Tray)'
    BY <1>19 DEF Map!RestoreFails, MapInv, MapUi, Map!Tray, Map!Those
  <2>5. (~ui.visible => ui.stream = "closed")' /\ Map!NeverBlind'
    BY <1>19 DEF Map!RestoreFails, MapInv, MapUi, Map!NeverBlind
  <2>6. Map!PurgesListed'
    BY <1>19 DEF Map!RestoreFails, MapInv, MapUi, MapCalls, Map!PurgesListed
  <2>7. ~Map!Stuck'
    BY <1>19 DEF Map!RestoreFails, MapInv, MapUi, MapCalls, Map!Stuck, Map!Purging
  <2> QED
    BY <2>1, <2>2, <2>3, <2>4, <2>5, <2>6, <2>7 DEF MapInv
<1>20. ASSUME NEW c \in net, Map!PurgeReads(c) PROVE MapInv'
  <2> DEFINE d == [kind |-> "purging", open |-> c.open, ids |-> c.ids,
                   found |-> {a \in c.ids : srv[a] = "deleted"}]
  <2>i. d \in MapCalls /\ d.kind = "purging" /\ net' = (net \ {c}) \cup {d} /\ UNCHANGED <<ui, srv, odd>>
    BY <1>20 DEF Map!PurgeReads, MapInv, MapCalls
  <2> HIDE DEF d
  <2>2. net' \subseteq MapCalls
    BY <2>i DEF MapInv
  <2>6. Map!PurgesListed'
    BY <2>i DEF MapInv, Map!PurgesListed
  <2>7. ~Map!Stuck'
    BY <1>20, <2>i DEF Map!PurgeReads, MapInv, MapCalls, Map!Stuck, Map!Purging
  <2> QED
    BY <2>i, <2>2, <2>6, <2>7 DEF MapInv, Map!Tray, Map!NeverBlind
<1>21. ASSUME NEW c \in net, Map!PurgeCommits(c) PROVE MapInv'
  <2> DEFINE d == [kind |-> "purged", open |-> c.open, ids |-> c.ids]
  <2>i. d \in MapCalls /\ d.kind = "purged" /\ net' = (net \ {c}) \cup {d} /\ UNCHANGED <<ui, odd>>
    BY <1>21 DEF Map!PurgeCommits, MapInv, MapCalls
  <2> HIDE DEF d
  <2>2. net' \subseteq MapCalls
    BY <2>i DEF MapInv
  <2>3. srv' \in [Agents -> {"live", "deleted", "gone"}]
    BY <1>21 DEF Map!PurgeCommits, MapInv
  <2>6. Map!PurgesListed'
    BY <2>i DEF MapInv, Map!PurgesListed
  <2>7. ~Map!Stuck'
    BY <1>21, <2>i DEF Map!PurgeCommits, MapInv, MapCalls, Map!Stuck, Map!Purging
  <2> QED
    BY <2>i, <2>2, <2>3, <2>6, <2>7 DEF MapInv, Map!Tray, Map!NeverBlind
<1> QED
  BY <1>1, <1>2, <1>3, <1>4, <1>5, <1>6, <1>7, <1>8, <1>9, <1>10, <1>11, <1>12, <1>13, <1>14, <1>15,
     <1>16, <1>17, <1>18, <1>19, <1>20, <1>21 DEF Map!Next

\* What the invariant says of the screen.
LEMMA MapHolds == ASSUME MapInv PROVE Map!TypeOK
  BY DEF MapInv, MapUi, MapLists, Map!TypeOK

\* And so does a step that is not the screen's.
LEMMA MapSame == ASSUME MapInv, UNCHANGED vars PROVE MapInv'
  BY DEF vars, MapInv, Map!NeverBlind, Map!PurgesListed, Map!Stuck, Map!Tray

-----------------------------------------------------------------------------
(***************************************************************************)
(* The settings of an agent.                                               *)
(***************************************************************************)

SettingsUi == [agent : Agents \cup {None}, name : [Agents -> {None, "stored"}],
               keys : {None} \cup SUBSET Settings!Scopes, draft : Agents, typed : BOOLEAN,
               saving : BOOLEAN, confirm : BOOLEAN, deleting : BOOLEAN,
               key : Agents \cup {None}, savingKey : BOOLEAN, removing : BOOLEAN]

SettingsCalls ==
    [kind : {"name"}, agent : Agents, about : Agents]
      \cup [kind : {"remove"}, agent : Agents]
      \cup [kind : {"key"}, agent : Agents, about : Agents, key : SUBSET Settings!Scopes]
      \cup [kind : {"unkey"}, key : SUBSET Settings!Scopes, agent : Agents]

SettingsSrv == [keys : SUBSET Settings!Scopes, gone : SUBSET Agents]

\* What is being typed in an open panel is its agent's.
SettingsInv ==
    /\ ui \in SettingsUi /\ net \subseteq SettingsCalls /\ srv \in SettingsSrv /\ odd \in 0..1
    /\ Settings!Open => ui.draft = ui.agent /\ ui.key \in {None, ui.agent}
    /\ Settings!ForItsAgent
    /\ ~Settings!Stuck

\* The panel as it is opened, and while it is closed.
LEMMA SettingsFresh ==
    \A a \in Agents : /\ Settings!Fresh(a) \in SettingsUi
                      /\ [Settings!Fresh(a) EXCEPT !.agent = None] \in SettingsUi
  BY Zenon DEF Settings!Fresh, SettingsUi

\* The invariant holds when the screen is opened.
LEMMA SettingsInit == ASSUME Settings!Init PROVE SettingsInv
<1>1. PICK a \in Agents : ui = Settings!Fresh(a)
  BY DEF Settings!Init
<1>2. srv \in SettingsSrv
  BY DEF Settings!Init, SettingsSrv, Settings!Scopes
<1>3. ui \in SettingsUi
  BY <1>1, SettingsFresh, Zenon
<1>4. net = {} /\ odd \in 0..1
  BY DEF Settings!Init
<1> QED
  BY <1>1, <1>2, <1>3, <1>4 DEF SettingsInv, Settings!Fresh, Settings!ForItsAgent, Settings!Stuck

\* Every step of the screen keeps the invariant.
LEMMA SettingsStep == ASSUME SettingsInv, Settings!Next PROVE SettingsInv'
<1>1. ASSUME NEW a \in Agents, Settings!Switch(a) /\ (Settings!Open \/ net = {}) PROVE SettingsInv'
  <2>1. ui' \in SettingsUi
    BY <1>1, Zenon DEF Settings!Switch, Settings!Open, Settings!Fresh, Settings!DraftsOf, SettingsInv,
       SettingsUi, SettingsSrv
  <2>2. net' \subseteq SettingsCalls
    BY <1>1 DEF Settings!Switch, Settings!Open, Settings!Fresh, Settings!DraftsOf, SettingsInv
  <2>3. srv' \in SettingsSrv
    BY <1>1 DEF Settings!Switch, Settings!Open, Settings!Fresh, Settings!DraftsOf, SettingsInv,
       SettingsSrv, SettingsCalls
  <2>4. odd' \in 0..1
    BY <1>1 DEF Settings!Switch, Settings!Open, Settings!Fresh, Settings!DraftsOf, SettingsInv
  <2>5. (Settings!Open => ui.draft = ui.agent /\ ui.key \in {None, ui.agent})'
    BY <1>1 DEF Settings!Switch, Settings!Open, Settings!Fresh, Settings!DraftsOf, SettingsInv,
       SettingsUi, Settings!Open
  <2>6. Settings!ForItsAgent'
    BY <1>1 DEF Settings!Switch, Settings!Open, Settings!Fresh, Settings!DraftsOf, SettingsInv,
       Settings!ForItsAgent
  <2>7. ~Settings!Stuck'
    BY <1>1 DEF Settings!Switch, Settings!Open, Settings!Fresh, Settings!DraftsOf, SettingsInv,
       SettingsUi, Settings!Stuck, Settings!Open
  <2> QED
    BY <2>1, <2>2, <2>3, <2>4, <2>5, <2>6, <2>7 DEF SettingsInv
<1>2. CASE Settings!LoadSettings
  <2>1. ui' \in SettingsUi
    BY <1>2, Zenon DEF Settings!LoadSettings, Settings!Open, SettingsInv, SettingsUi, SettingsSrv
  <2>2. net' \subseteq SettingsCalls
    BY <1>2 DEF Settings!LoadSettings, Settings!Open, SettingsInv
  <2>3. srv' \in SettingsSrv
    BY <1>2 DEF Settings!LoadSettings, Settings!Open, SettingsInv, SettingsSrv, SettingsCalls
  <2>4. odd' \in 0..1
    BY <1>2 DEF Settings!LoadSettings, Settings!Open, SettingsInv
  <2>5. (Settings!Open => ui.draft = ui.agent /\ ui.key \in {None, ui.agent})'
    BY <1>2 DEF Settings!LoadSettings, Settings!Open, SettingsInv, SettingsUi, Settings!Open
  <2>6. Settings!ForItsAgent'
    BY <1>2 DEF Settings!LoadSettings, Settings!Open, SettingsInv, Settings!ForItsAgent
  <2>7. ~Settings!Stuck'
    BY <1>2 DEF Settings!LoadSettings, Settings!Open, SettingsInv, SettingsUi, Settings!Stuck, Settings!Open
  <2> QED
    BY <2>1, <2>2, <2>3, <2>4, <2>5, <2>6, <2>7 DEF SettingsInv
<1>3. CASE Settings!LoadKeys
  <2>1. ui' \in SettingsUi
    BY <1>3 DEF Settings!LoadKeys, SettingsInv, SettingsUi, SettingsSrv
  <2>2. net' \subseteq SettingsCalls
    BY <1>3 DEF Settings!LoadKeys, SettingsInv
  <2>3. srv' \in SettingsSrv
    BY <1>3 DEF Settings!LoadKeys, SettingsInv, SettingsSrv, SettingsCalls
  <2>4. odd' \in 0..1
    BY <1>3 DEF Settings!LoadKeys, SettingsInv
  <2>5. (Settings!Open => ui.draft = ui.agent /\ ui.key \in {None, ui.agent})'
    BY <1>3 DEF Settings!LoadKeys, SettingsInv, SettingsUi, Settings!Open
  <2>6. Settings!ForItsAgent'
    BY <1>3 DEF Settings!LoadKeys, SettingsInv, Settings!ForItsAgent
  <2>7. ~Settings!Stuck'
    BY <1>3 DEF Settings!LoadKeys, SettingsInv, SettingsUi, Settings!Stuck, Settings!Open
  <2> QED
    BY <2>1, <2>2, <2>3, <2>4, <2>5, <2>6, <2>7 DEF SettingsInv
<1>4. CASE Settings!TypeName
  <2>1. ui' \in SettingsUi
    BY <1>4, Zenon DEF Settings!TypeName, Settings!Offers, Settings!Open, SettingsInv, SettingsUi, SettingsSrv
  <2>2. net' \subseteq SettingsCalls
    BY <1>4 DEF Settings!TypeName, Settings!Offers, Settings!Open, SettingsInv
  <2>3. srv' \in SettingsSrv
    BY <1>4 DEF Settings!TypeName, Settings!Offers, Settings!Open, SettingsInv, SettingsSrv, SettingsCalls
  <2>4. odd' \in 0..1
    BY <1>4 DEF Settings!TypeName, Settings!Offers, Settings!Open, SettingsInv
  <2>5. (Settings!Open => ui.draft = ui.agent /\ ui.key \in {None, ui.agent})'
    BY <1>4 DEF Settings!TypeName, Settings!Offers, Settings!Open, SettingsInv, SettingsUi, Settings!Open
  <2>6. Settings!ForItsAgent'
    BY <1>4 DEF Settings!TypeName, Settings!Offers, Settings!Open, SettingsInv, Settings!ForItsAgent
  <2>7. ~Settings!Stuck'
    BY <1>4 DEF Settings!TypeName, Settings!Offers, Settings!Open, SettingsInv, SettingsUi,
       Settings!Stuck, Settings!Open
  <2> QED
    BY <2>1, <2>2, <2>3, <2>4, <2>5, <2>6, <2>7 DEF SettingsInv
<1>5. CASE Settings!SaveName
  <2> DEFINE d == [kind |-> "name", agent |-> ui.agent, about |-> ui.draft]
  <2>i. /\ d \in SettingsCalls /\ d.kind = "name" /\ d.about = d.agent
        /\ net' = net \cup {d}
    BY <1>5 DEF Settings!SaveName, Settings!Call, Settings!Offers, Settings!Open, SettingsInv,
       SettingsUi, SettingsCalls
  <2> HIDE DEF d
  <2>1. ui' \in SettingsUi
    BY <1>5, <2>i, Zenon DEF Settings!SaveName, SettingsInv, SettingsUi, SettingsSrv
  <2>2. net' \subseteq SettingsCalls
    BY <1>5, <2>i DEF Settings!SaveName, SettingsInv
  <2>3. srv' \in SettingsSrv
    BY <1>5, <2>i DEF Settings!SaveName, SettingsInv, SettingsSrv, SettingsCalls
  <2>4. odd' \in 0..1
    BY <1>5, <2>i DEF Settings!SaveName, SettingsInv
  <2>5. (Settings!Open => ui.draft = ui.agent /\ ui.key \in {None, ui.agent})'
    BY <1>5, <2>i DEF Settings!SaveName, SettingsInv, SettingsUi, Settings!Open
  <2>6. Settings!ForItsAgent'
    BY <1>5, <2>i DEF Settings!SaveName, SettingsInv, Settings!ForItsAgent
  <2>7. ~Settings!Stuck'
    BY <1>5, <2>i DEF Settings!SaveName, SettingsInv, SettingsUi, Settings!Stuck, Settings!Open
  <2> QED
    BY <2>1, <2>2, <2>3, <2>4, <2>5, <2>6, <2>7 DEF SettingsInv
<1>6. CASE Settings!AskRemove
  <2>1. ui' \in SettingsUi
    BY <1>6, Zenon DEF Settings!AskRemove, SettingsInv, SettingsUi, SettingsSrv
  <2>2. net' \subseteq SettingsCalls
    BY <1>6 DEF Settings!AskRemove, SettingsInv
  <2>3. srv' \in SettingsSrv
    BY <1>6 DEF Settings!AskRemove, SettingsInv, SettingsSrv, SettingsCalls
  <2>4. odd' \in 0..1
    BY <1>6 DEF Settings!AskRemove, SettingsInv
  <2>5. (Settings!Open => ui.draft = ui.agent /\ ui.key \in {None, ui.agent})'
    BY <1>6 DEF Settings!AskRemove, SettingsInv, SettingsUi, Settings!Open
  <2>6. Settings!ForItsAgent'
    BY <1>6 DEF Settings!AskRemove, SettingsInv, Settings!ForItsAgent
  <2>7. ~Settings!Stuck'
    BY <1>6 DEF Settings!AskRemove, SettingsInv, SettingsUi, Settings!Stuck, Settings!Open
  <2> QED
    BY <2>1, <2>2, <2>3, <2>4, <2>5, <2>6, <2>7 DEF SettingsInv
<1>7. CASE Settings!CancelRemove
  <2>1. ui' \in SettingsUi
    BY <1>7, Zenon DEF Settings!CancelRemove, SettingsInv, SettingsUi, SettingsSrv
  <2>2. net' \subseteq SettingsCalls
    BY <1>7 DEF Settings!CancelRemove, SettingsInv
  <2>3. srv' \in SettingsSrv
    BY <1>7 DEF Settings!CancelRemove, SettingsInv, SettingsSrv, SettingsCalls
  <2>4. odd' \in 0..1
    BY <1>7 DEF Settings!CancelRemove, SettingsInv
  <2>5. (Settings!Open => ui.draft = ui.agent /\ ui.key \in {None, ui.agent})'
    BY <1>7 DEF Settings!CancelRemove, SettingsInv, SettingsUi, Settings!Open
  <2>6. Settings!ForItsAgent'
    BY <1>7 DEF Settings!CancelRemove, SettingsInv, Settings!ForItsAgent
  <2>7. ~Settings!Stuck'
    BY <1>7 DEF Settings!CancelRemove, SettingsInv, SettingsUi, Settings!Stuck, Settings!Open
  <2> QED
    BY <2>1, <2>2, <2>3, <2>4, <2>5, <2>6, <2>7 DEF SettingsInv
<1>8. CASE Settings!Remove
  <2> DEFINE d == [kind |-> "remove", agent |-> ui.agent]
  <2>i. /\ d \in SettingsCalls /\ d.kind = "remove"
        /\ net' = net \cup {d}
    BY <1>8 DEF Settings!Remove, Settings!Call, Settings!Offers, Settings!Open, SettingsInv, SettingsUi,
       SettingsCalls
  <2> HIDE DEF d
  <2>1. ui' \in SettingsUi
    BY <1>8, <2>i, Zenon DEF Settings!Remove, SettingsInv, SettingsUi, SettingsSrv
  <2>2. net' \subseteq SettingsCalls
    BY <1>8, <2>i DEF Settings!Remove, SettingsInv
  <2>3. srv' \in SettingsSrv
    BY <1>8, <2>i DEF Settings!Remove, SettingsInv, SettingsSrv, SettingsCalls
  <2>4. odd' \in 0..1
    BY <1>8, <2>i DEF Settings!Remove, SettingsInv
  <2>5. (Settings!Open => ui.draft = ui.agent /\ ui.key \in {None, ui.agent})'
    BY <1>8, <2>i DEF Settings!Remove, SettingsInv, SettingsUi, Settings!Open
  <2>6. Settings!ForItsAgent'
    BY <1>8, <2>i DEF Settings!Remove, SettingsInv, Settings!ForItsAgent
  <2>7. ~Settings!Stuck'
    BY <1>8, <2>i DEF Settings!Remove, SettingsInv, SettingsUi, Settings!Stuck, Settings!Open
  <2> QED
    BY <2>1, <2>2, <2>3, <2>4, <2>5, <2>6, <2>7 DEF SettingsInv
<1>9. CASE Settings!TypeKey
  <2>1. ui' \in SettingsUi
    BY <1>9 DEF Settings!TypeKey, Settings!Offers, Settings!Open, SettingsInv, SettingsUi, SettingsSrv
  <2>2. net' \subseteq SettingsCalls
    BY <1>9 DEF Settings!TypeKey, Settings!Offers, Settings!Open, SettingsInv
  <2>3. srv' \in SettingsSrv
    BY <1>9 DEF Settings!TypeKey, Settings!Offers, Settings!Open, SettingsInv, SettingsSrv, SettingsCalls
  <2>4. odd' \in 0..1
    BY <1>9 DEF Settings!TypeKey, Settings!Offers, Settings!Open, SettingsInv
  <2>5. (Settings!Open => ui.draft = ui.agent /\ ui.key \in {None, ui.agent})'
    BY <1>9 DEF Settings!TypeKey, Settings!Offers, Settings!Open, SettingsInv, SettingsUi, Settings!Open
  <2>6. Settings!ForItsAgent'
    BY <1>9 DEF Settings!TypeKey, Settings!Offers, Settings!Open, SettingsInv, Settings!ForItsAgent
  <2>7. ~Settings!Stuck'
    BY <1>9 DEF Settings!TypeKey, Settings!Offers, Settings!Open, SettingsInv, SettingsUi,
       Settings!Stuck, Settings!Open
  <2> QED
    BY <2>1, <2>2, <2>3, <2>4, <2>5, <2>6, <2>7 DEF SettingsInv
<1>10. CASE Settings!SaveKey
  <2> DEFINE d == [kind |-> "key", agent |-> ui.agent, about |-> ui.key, key |-> {ui.agent}]
  <2>i. /\ d \in SettingsCalls /\ d.kind = "key" /\ d.about = d.agent
        /\ net' = net \cup {d}
    BY <1>10 DEF Settings!SaveKey, Settings!Call, Settings!Offers, Settings!Open, SettingsInv,
       SettingsUi, SettingsCalls, Settings!Scopes
  <2> HIDE DEF d
  <2>1. ui' \in SettingsUi
    BY <1>10, <2>i, Zenon DEF Settings!SaveKey, SettingsInv, SettingsUi, SettingsSrv
  <2>2. net' \subseteq SettingsCalls
    BY <1>10, <2>i DEF Settings!SaveKey, SettingsInv
  <2>3. srv' \in SettingsSrv
    BY <1>10, <2>i DEF Settings!SaveKey, SettingsInv, SettingsSrv, SettingsCalls
  <2>4. odd' \in 0..1
    BY <1>10, <2>i DEF Settings!SaveKey, SettingsInv
  <2>5. (Settings!Open => ui.draft = ui.agent /\ ui.key \in {None, ui.agent})'
    BY <1>10, <2>i DEF Settings!SaveKey, SettingsInv, SettingsUi, Settings!Open
  <2>6. Settings!ForItsAgent'
    BY <1>10, <2>i DEF Settings!SaveKey, SettingsInv, Settings!ForItsAgent
  <2>7. ~Settings!Stuck'
    BY <1>10, <2>i DEF Settings!SaveKey, SettingsInv, SettingsUi, Settings!Stuck, Settings!Open
  <2> QED
    BY <2>1, <2>2, <2>3, <2>4, <2>5, <2>6, <2>7 DEF SettingsInv
<1>11. CASE Settings!RemoveKey
  <2> DEFINE d == [kind |-> "unkey", key |-> Settings!TargetKey, agent |-> ui.agent]
  <2>i. /\ d \in SettingsCalls /\ d.kind = "unkey"
        /\ net' = net \cup {d}
    BY <1>11 DEF Settings!RemoveKey, Settings!Call, Settings!Offers, Settings!Open, SettingsInv,
       SettingsUi, SettingsCalls, Settings!Scopes, Settings!TargetKey
  <2> HIDE DEF d
  <2>1. ui' \in SettingsUi
    BY <1>11, <2>i, Zenon DEF Settings!RemoveKey, SettingsInv, SettingsUi, SettingsSrv
  <2>2. net' \subseteq SettingsCalls
    BY <1>11, <2>i DEF Settings!RemoveKey, SettingsInv
  <2>3. srv' \in SettingsSrv
    BY <1>11, <2>i DEF Settings!RemoveKey, SettingsInv, SettingsSrv, SettingsCalls
  <2>4. odd' \in 0..1
    BY <1>11, <2>i DEF Settings!RemoveKey, SettingsInv
  <2>5. (Settings!Open => ui.draft = ui.agent /\ ui.key \in {None, ui.agent})'
    BY <1>11, <2>i DEF Settings!RemoveKey, SettingsInv, SettingsUi, Settings!Open
  <2>6. Settings!ForItsAgent'
    BY <1>11, <2>i DEF Settings!RemoveKey, SettingsInv, Settings!ForItsAgent
  <2>7. ~Settings!Stuck'
    BY <1>11, <2>i DEF Settings!RemoveKey, SettingsInv, SettingsUi, Settings!Stuck, Settings!Open
  <2> QED
    BY <2>1, <2>2, <2>3, <2>4, <2>5, <2>6, <2>7 DEF SettingsInv
<1>12. CASE Settings!OthersAct
  <2>1. ui' \in SettingsUi
    BY <1>12 DEF Settings!OthersAct, SettingsInv, SettingsUi, SettingsSrv
  <2>2. net' \subseteq SettingsCalls
    BY <1>12 DEF Settings!OthersAct, SettingsInv
  <2>3. srv' \in SettingsSrv
    BY <1>12 DEF Settings!OthersAct, SettingsInv, SettingsSrv, SettingsCalls
  <2>4. odd' \in 0..1
    BY <1>12 DEF Settings!OthersAct, SettingsInv
  <2>5. (Settings!Open => ui.draft = ui.agent /\ ui.key \in {None, ui.agent})'
    BY <1>12 DEF Settings!OthersAct, SettingsInv, SettingsUi, Settings!Open
  <2>6. Settings!ForItsAgent'
    BY <1>12 DEF Settings!OthersAct, SettingsInv, Settings!ForItsAgent
  <2>7. ~Settings!Stuck'
    BY <1>12 DEF Settings!OthersAct, SettingsInv, SettingsUi, Settings!Stuck, Settings!Open
  <2> QED
    BY <2>1, <2>2, <2>3, <2>4, <2>5, <2>6, <2>7 DEF SettingsInv
<1>13. ASSUME NEW c \in net, Settings!NameSaved(c) /\ net' = net \ {c} PROVE SettingsInv'
  <2>1. ui' \in SettingsUi
    <3>1. c.agent \in Agents
      BY <1>13 DEF Settings!NameSaved, SettingsInv, SettingsCalls
    <3>2. (ui.typed /\ c.agent # ui.agent) \in BOOLEAN
      OBVIOUS
    <3>3. (IF c.agent = ui.agent THEN c.agent ELSE ui.draft) \in Agents
      BY <3>1 DEF SettingsInv, SettingsUi
    <3> QED
      BY <1>13, <3>2, <3>3, Zenon DEF Settings!NameSaved, SettingsInv, SettingsUi
  <2>2. net' \subseteq SettingsCalls
    BY <1>13 DEF Settings!NameSaved, SettingsInv
  <2>3. srv' \in SettingsSrv
    BY <1>13 DEF Settings!NameSaved, SettingsInv, SettingsSrv, SettingsCalls
  <2>4. odd' \in 0..1
    BY <1>13 DEF Settings!NameSaved, SettingsInv
  <2>5. (Settings!Open => ui.draft = ui.agent /\ ui.key \in {None, ui.agent})'
    BY <1>13 DEF Settings!NameSaved, SettingsInv, SettingsUi, Settings!Open
  <2>6. Settings!ForItsAgent'
    BY <1>13 DEF Settings!NameSaved, SettingsInv, Settings!ForItsAgent
  <2>7. ~Settings!Stuck'
    BY <1>13 DEF Settings!NameSaved, SettingsInv, SettingsUi, Settings!Stuck, Settings!Open
  <2> QED
    BY <2>1, <2>2, <2>3, <2>4, <2>5, <2>6, <2>7 DEF SettingsInv
<1>14. ASSUME NEW c \in net, Settings!Removed(c) /\ net' = net \ {c} PROVE SettingsInv'
  <2>1. ui' \in SettingsUi
    BY <1>14, SettingsFresh DEF Settings!Removed, Settings!Closed, SettingsInv, SettingsUi, SettingsSrv
  <2>2. net' \subseteq SettingsCalls
    BY <1>14, SettingsFresh DEF Settings!Removed, Settings!Closed, SettingsInv
  <2>3. srv' \in SettingsSrv
    BY <1>14, SettingsFresh DEF Settings!Removed, Settings!Closed, SettingsInv, SettingsSrv, SettingsCalls
  <2>4. odd' \in 0..1
    BY <1>14, SettingsFresh DEF Settings!Removed, Settings!Closed, SettingsInv
  <2>5. (Settings!Open => ui.draft = ui.agent /\ ui.key \in {None, ui.agent})'
    BY <1>14, SettingsFresh DEF Settings!Removed, Settings!Closed, SettingsInv, SettingsUi, Settings!Open
  <2>6. Settings!ForItsAgent'
    BY <1>14, SettingsFresh DEF Settings!Removed, Settings!Closed, SettingsInv, Settings!ForItsAgent
  <2>7. ~Settings!Stuck'
    BY <1>14, SettingsFresh DEF Settings!Removed, Settings!Closed, SettingsInv, SettingsUi,
       Settings!Stuck, Settings!Open
  <2> QED
    BY <2>1, <2>2, <2>3, <2>4, <2>5, <2>6, <2>7 DEF SettingsInv
<1>15. ASSUME NEW c \in net, Settings!KeySaved(c) /\ net' = net \ {c} PROVE SettingsInv'
  <2>1. ui' \in SettingsUi
    <3>1. srv'.keys \in SUBSET Settings!Scopes
      BY <1>15 DEF Settings!KeySaved, SettingsInv, SettingsSrv, SettingsCalls
    <3> QED
      BY <1>15, <3>1, Zenon DEF Settings!KeySaved, SettingsInv, SettingsUi
  <2>2. net' \subseteq SettingsCalls
    BY <1>15 DEF Settings!KeySaved, SettingsInv
  <2>3. srv' \in SettingsSrv
    BY <1>15 DEF Settings!KeySaved, SettingsInv, SettingsSrv, SettingsCalls
  <2>4. odd' \in 0..1
    BY <1>15 DEF Settings!KeySaved, SettingsInv
  <2>5. (Settings!Open => ui.draft = ui.agent /\ ui.key \in {None, ui.agent})'
    BY <1>15 DEF Settings!KeySaved, SettingsInv, SettingsUi, Settings!Open
  <2>6. Settings!ForItsAgent'
    BY <1>15 DEF Settings!KeySaved, SettingsInv, Settings!ForItsAgent
  <2>7. ~Settings!Stuck'
    BY <1>15 DEF Settings!KeySaved, SettingsInv, SettingsUi, Settings!Stuck, Settings!Open
  <2> QED
    BY <2>1, <2>2, <2>3, <2>4, <2>5, <2>6, <2>7 DEF SettingsInv
<1>16. ASSUME NEW c \in net, Settings!KeyRemoved(c) /\ net' = net \ {c} PROVE SettingsInv'
  <2>1. ui' \in SettingsUi
    BY <1>16, Zenon DEF Settings!KeyRemoved, SettingsInv, SettingsUi, SettingsSrv
  <2>2. net' \subseteq SettingsCalls
    BY <1>16 DEF Settings!KeyRemoved, SettingsInv
  <2>3. srv' \in SettingsSrv
    BY <1>16 DEF Settings!KeyRemoved, SettingsInv, SettingsSrv, SettingsCalls
  <2>4. odd' \in 0..1
    BY <1>16 DEF Settings!KeyRemoved, SettingsInv
  <2>5. (Settings!Open => ui.draft = ui.agent /\ ui.key \in {None, ui.agent})'
    BY <1>16 DEF Settings!KeyRemoved, SettingsInv, SettingsUi, Settings!Open
  <2>6. Settings!ForItsAgent'
    BY <1>16 DEF Settings!KeyRemoved, SettingsInv, Settings!ForItsAgent
  <2>7. ~Settings!Stuck'
    BY <1>16 DEF Settings!KeyRemoved, SettingsInv, SettingsUi, Settings!Stuck, Settings!Open
  <2> QED
    BY <2>1, <2>2, <2>3, <2>4, <2>5, <2>6, <2>7 DEF SettingsInv
<1>17. ASSUME NEW c \in net, Settings!Fails(c) /\ net' = net \ {c} PROVE SettingsInv'
  <2>c. c \in SettingsCalls
    BY DEF SettingsInv
  <2>k. \/ c.kind = "name" /\ ui' = [ui EXCEPT !.saving = FALSE]
        \/ c.kind = "remove" /\ ui' = [ui EXCEPT !.deleting = FALSE, !.confirm = FALSE]
        \/ c.kind = "key" /\ ui' = [ui EXCEPT !.savingKey = FALSE]
        \/ c.kind = "unkey" /\ ui' = [ui EXCEPT !.removing = FALSE]
    <3>1. c.kind \in {"name", "remove", "key", "unkey"}
      BY <2>c DEF SettingsCalls
    <3> QED
      BY <1>17, <3>1 DEF Settings!Fails
  <2>1. ui' \in SettingsUi
    <3>1. CASE c.kind = "name" /\ ui' = [ui EXCEPT !.saving = FALSE]
      BY <3>1, Zenon DEF SettingsInv, SettingsUi
    <3>2. CASE c.kind = "remove" /\ ui' = [ui EXCEPT !.deleting = FALSE, !.confirm = FALSE]
      BY <3>2, Zenon DEF SettingsInv, SettingsUi
    <3>3. CASE c.kind = "key" /\ ui' = [ui EXCEPT !.savingKey = FALSE]
      BY <3>3, Zenon DEF SettingsInv, SettingsUi
    <3>4. CASE c.kind = "unkey" /\ ui' = [ui EXCEPT !.removing = FALSE]
      BY <3>4, Zenon DEF SettingsInv, SettingsUi
    <3> QED
      BY <2>k, <3>1, <3>2, <3>3, <3>4
  <2>2. net' \subseteq SettingsCalls
    BY <1>17 DEF Settings!Fails, SettingsInv
  <2>3. srv' \in SettingsSrv
    BY <1>17 DEF Settings!Fails, SettingsInv, SettingsSrv, SettingsCalls
  <2>4. odd' \in 0..1
    BY <1>17 DEF Settings!Fails, SettingsInv
  <2>5. (Settings!Open => ui.draft = ui.agent /\ ui.key \in {None, ui.agent})'
    <3>1. CASE c.kind = "name" /\ ui' = [ui EXCEPT !.saving = FALSE]
      BY <3>1 DEF SettingsInv, SettingsUi, Settings!Open
    <3>2. CASE c.kind = "remove" /\ ui' = [ui EXCEPT !.deleting = FALSE, !.confirm = FALSE]
      BY <3>2 DEF SettingsInv, SettingsUi, Settings!Open
    <3>3. CASE c.kind = "key" /\ ui' = [ui EXCEPT !.savingKey = FALSE]
      BY <3>3 DEF SettingsInv, SettingsUi, Settings!Open
    <3>4. CASE c.kind = "unkey" /\ ui' = [ui EXCEPT !.removing = FALSE]
      BY <3>4 DEF SettingsInv, SettingsUi, Settings!Open
    <3> QED
      BY <2>k, <3>1, <3>2, <3>3, <3>4
  <2>6. Settings!ForItsAgent'
    BY <1>17 DEF Settings!Fails, SettingsInv, Settings!ForItsAgent
  <2>7. ~Settings!Stuck'
    <3>1. CASE c.kind = "name" /\ ui' = [ui EXCEPT !.saving = FALSE]
      BY <3>1, <1>17 DEF SettingsInv, SettingsUi, Settings!Stuck, Settings!Open
    <3>2. CASE c.kind = "remove" /\ ui' = [ui EXCEPT !.deleting = FALSE, !.confirm = FALSE]
      BY <3>2, <1>17 DEF SettingsInv, SettingsUi, Settings!Stuck, Settings!Open
    <3>3. CASE c.kind = "key" /\ ui' = [ui EXCEPT !.savingKey = FALSE]
      BY <3>3, <1>17 DEF SettingsInv, SettingsUi, Settings!Stuck, Settings!Open
    <3>4. CASE c.kind = "unkey" /\ ui' = [ui EXCEPT !.removing = FALSE]
      BY <3>4, <1>17 DEF SettingsInv, SettingsUi, Settings!Stuck, Settings!Open
    <3> QED
      BY <2>k, <3>1, <3>2, <3>3, <3>4
  <2> QED
    BY <2>1, <2>2, <2>3, <2>4, <2>5, <2>6, <2>7 DEF SettingsInv
<1>18. ASSUME NEW c \in net, Settings!Late(c) /\ net' = net \ {c} PROVE SettingsInv'
  <2>1. ui' \in SettingsUi
    BY <1>18 DEF Settings!Late, SettingsInv, SettingsUi, SettingsSrv
  <2>2. net' \subseteq SettingsCalls
    BY <1>18 DEF Settings!Late, SettingsInv
  <2>3. srv' \in SettingsSrv
    BY <1>18 DEF Settings!Late, SettingsInv, SettingsSrv, SettingsCalls
  <2>4. odd' \in 0..1
    BY <1>18 DEF Settings!Late, SettingsInv
  <2>5. (Settings!Open => ui.draft = ui.agent /\ ui.key \in {None, ui.agent})'
    BY <1>18 DEF Settings!Late, SettingsInv, SettingsUi, Settings!Open
  <2>6. Settings!ForItsAgent'
    BY <1>18 DEF Settings!Late, SettingsInv, Settings!ForItsAgent
  <2>7. ~Settings!Stuck'
    BY <1>18 DEF Settings!Late, SettingsInv, SettingsUi, Settings!Stuck, Settings!Open
  <2> QED
    BY <2>1, <2>2, <2>3, <2>4, <2>5, <2>6, <2>7 DEF SettingsInv
<1> QED
  BY <1>1, <1>2, <1>3, <1>4, <1>5, <1>6, <1>7, <1>8, <1>9, <1>10, <1>11, <1>12, <1>13, <1>14, <1>15,
     <1>16, <1>17, <1>18 DEF Settings!Next, Settings!Answer

\* What the invariant says of the screen.
LEMMA SettingsHolds == ASSUME SettingsInv PROVE Settings!TypeOK
  BY DEF SettingsInv, SettingsUi, SettingsSrv, Settings!TypeOK

\* And so does a step that is not the screen's.
LEMMA SettingsSame == ASSUME SettingsInv, UNCHANGED vars PROVE SettingsInv'
  BY DEF vars, SettingsInv, Settings!ForItsAgent, Settings!Open, Settings!Stuck

-----------------------------------------------------------------------------
(***************************************************************************)
(* The checks of an agent.                                                 *)
(***************************************************************************)

ChecksUi == [agent : Agents, seen : [Agents -> Checks!Configs \cup {None}],
             draft : Checks!Configs \cup {None}, last : Agents \cup {None},
             status : Checks!Statuses, timers : 0..2,
             scope : {"project", "agent", None}, form : Agents \cup {None}, saving : BOOLEAN]

ChecksCalls ==
    [kind : {"checks"}, agent : Agents, config : {0, 1}]
      \cup [kind : {"rule"}, scope : {"project", "agent", None}, agent : Agents, about : Agents]

\* One call at a time, and a filled form is of the agent on screen.
ChecksInv ==
    /\ ui \in ChecksUi /\ net \subseteq ChecksCalls
    /\ srv \in [Agents -> {0, 1}] /\ odd \in 0..1
    /\ \A e, f \in net : e = f
    /\ \A e \in net : e.kind = "checks" => ui.timers \in 0..1
    /\ ui.form \in {None, ui.agent}
    /\ Checks!RuleForItsAgent
    /\ ~Checks!Stuck

\* A number of elements, under two names.
LEMMA ChecksCardinality == \A S : Checks!Cardinality(S) = Cardinality(S)
  BY DEF Checks!Cardinality, Cardinality

\* A call is made where none is under way.
LEMMA ChecksCall ==
    ASSUME ChecksInv, NEW c, Checks!Call(c) PROVE net = {} /\ net' = {c}
<1>1. net = {}
  BY ChecksCardinality, OneCall DEF ChecksInv, Checks!Call
<1> QED
  BY <1>1 DEF Checks!Call

\* Settings that arrive leave the draft of the agent it is for alone.
LEMMA ChecksSettled ==
    ASSUME NEW s \in ChecksUi
    PROVE  LET t == Checks!Settled(s) IN
           /\ t \in ChecksUi /\ t.agent = s.agent /\ t.form = s.form /\ t.scope = s.scope
           /\ t.saving = s.saving /\ t.timers = s.timers /\ t.status \in {s.status, "idle"}
           /\ s.draft # None /\ s.last = s.agent => t.draft = s.draft
<1>1. s.seen[s.agent] \in Checks!Configs \cup {None}
  BY DEF ChecksUi
<1> DEFINE t == [s EXCEPT !.draft = s.seen[s.agent], !.last = s.agent, !.status = "idle"]
<1>2. /\ t \in ChecksUi /\ t.agent = s.agent /\ t.form = s.form /\ t.scope = s.scope
      /\ t.saving = s.saving /\ t.timers = s.timers /\ t.status = "idle"
  BY <1>1, Zenon DEF ChecksUi, Checks!Statuses
<1>3. Checks!Settled(s) = s \/ (Checks!Settled(s) = t /\ ~(s.draft # None /\ s.last = s.agent))
  BY DEF Checks!Settled, Checks!Adopt
<1> HIDE DEF t
<1> QED
  BY <1>2, <1>3

\* The invariant holds when the screen is opened.
LEMMA ChecksInit == ASSUME Checks!Init PROVE ChecksInv
<1>1. PICK a \in Agents :
         ui = [agent |-> a, seen |-> [b \in Agents |-> None], draft |-> None, last |-> None,
               status |-> "idle", timers |-> 0,
               scope |-> None, form |-> None, saving |-> FALSE]
  BY Zenon DEF Checks!Init
<1>2. 0 \in 0..2
  OBVIOUS
<1>3. ui \in ChecksUi
  BY <1>1, <1>2, Zenon DEF ChecksUi, Checks!Statuses
<1>4. net = {} /\ odd \in 0..1 /\ srv \in [Agents -> {0, 1}]
  BY DEF Checks!Init
<1> QED
  BY <1>1, <1>3, <1>4 DEF ChecksInv, Checks!RuleForItsAgent, Checks!Stuck

\* Every step of the screen keeps the invariant.
LEMMA ChecksStep == ASSUME ChecksInv, Checks!Next PROVE ChecksInv'
<1>1. ASSUME NEW a \in Agents, Checks!Switch(a) PROVE ChecksInv'
  <2> DEFINE s == [ui EXCEPT !.agent = a, !.form = None, !.saving = @ /\ ui.scope = None]
  <2>x. (ui.saving /\ ui.scope = None) \in BOOLEAN
    OBVIOUS
  <2>s. /\ s \in ChecksUi /\ s.agent = a /\ s.form = None /\ s.timers = ui.timers
        /\ s.saving = (ui.saving /\ ui.scope = None) /\ s.status = ui.status
    BY <2>x, Zenon DEF ChecksInv, ChecksUi
  <2>u. ui' = Checks!Settled(s) /\ UNCHANGED <<net, srv, odd>>
    BY <1>1 DEF Checks!Switch, Checks!FormOf
  <2> HIDE DEF s
  <2>i. /\ ui' \in ChecksUi /\ ui'.form = None /\ ui'.timers = ui.timers
        /\ ui'.saving => ui.saving
        /\ ui'.status \in {ui.status, "idle"}
    BY <2>s, <2>u, ChecksSettled, Zenon
  <2>1. ui' \in ChecksUi
    BY <2>i
  <2>2. net' \subseteq ChecksCalls
    BY <2>u DEF ChecksInv
  <2>3. srv' \in [Agents -> {0, 1}] /\ odd' \in 0..1
    BY <2>u DEF ChecksInv
  <2>4. (\A e, f \in net : e = f)'
    BY <2>u DEF ChecksInv
  <2>5. (\A e \in net : e.kind = "checks" => ui.timers \in 0..1)'
    BY <2>u, <2>i DEF ChecksInv
  <2>6. (ui.form \in {None, ui.agent})'
    BY <2>u, <2>i DEF ChecksInv
  <2>7. Checks!RuleForItsAgent'
    BY <2>u DEF ChecksInv, Checks!RuleForItsAgent
  <2>8. ~Checks!Stuck'
    BY <2>u, <2>i DEF ChecksInv, Checks!Stuck
  <2> QED
    BY <2>1, <2>2, <2>3, <2>4, <2>5, <2>6, <2>7, <2>8 DEF ChecksInv
<1>2. CASE Checks!Read
  <2> DEFINE s == [ui EXCEPT !.seen[ui.agent] = srv[ui.agent]]
  <2>x. [ui.seen EXCEPT ![ui.agent] = srv[ui.agent]] \in [Agents -> Checks!Configs \cup {None}]
    BY DEF ChecksInv, ChecksUi, Checks!Configs
  <2>s. /\ s \in ChecksUi /\ s.agent = ui.agent /\ s.form = ui.form /\ s.timers = ui.timers
        /\ s.saving = ui.saving /\ s.status = ui.status
    BY <2>x, Zenon DEF ChecksInv, ChecksUi
  <2>u. ui' = Checks!Settled(s) /\ UNCHANGED <<net, srv, odd>>
    BY <1>2 DEF Checks!Read
  <2> HIDE DEF s
  <2>i. /\ ui' \in ChecksUi /\ ui'.form = ui.form /\ ui'.agent = ui.agent
        /\ ui'.timers = ui.timers /\ ui'.saving = ui.saving /\ ui'.status \in {ui.status, "idle"}
    BY <2>s, <2>u, ChecksSettled
  <2>1. ui' \in ChecksUi
    BY <2>i
  <2>2. net' \subseteq ChecksCalls
    BY <2>u DEF ChecksInv
  <2>3. srv' \in [Agents -> {0, 1}] /\ odd' \in 0..1
    BY <2>u DEF ChecksInv
  <2>4. (\A e, f \in net : e = f)'
    BY <2>u DEF ChecksInv
  <2>5. (\A e \in net : e.kind = "checks" => ui.timers \in 0..1)'
    BY <2>u, <2>i DEF ChecksInv
  <2>6. (ui.form \in {None, ui.agent})'
    BY <2>u, <2>i DEF ChecksInv
  <2>7. Checks!RuleForItsAgent'
    BY <2>u DEF ChecksInv, Checks!RuleForItsAgent
  <2>8. ~Checks!Stuck'
    BY <2>u, <2>i DEF ChecksInv, Checks!Stuck
  <2> QED
    BY <2>1, <2>2, <2>3, <2>4, <2>5, <2>6, <2>7, <2>8 DEF ChecksInv
<1>3. CASE Checks!OthersSave
  <2>1. ui' \in ChecksUi
    BY <1>3 DEF Checks!OthersSave, ChecksInv, ChecksUi, Checks!Statuses
  <2>2. net' \subseteq ChecksCalls
    BY <1>3 DEF Checks!OthersSave, ChecksInv
  <2>3. srv' \in [Agents -> {0, 1}] /\ odd' \in 0..1
    BY <1>3 DEF Checks!OthersSave, ChecksInv
  <2>4. (\A e, f \in net : e = f)'
    BY <1>3 DEF Checks!OthersSave, ChecksInv
  <2>5. (\A e \in net : e.kind = "checks" => ui.timers \in 0..1)'
    BY <1>3 DEF Checks!OthersSave, ChecksInv, ChecksUi
  <2>6. (ui.form \in {None, ui.agent})'
    BY <1>3 DEF Checks!OthersSave, ChecksInv, ChecksUi
  <2>7. Checks!RuleForItsAgent'
    BY <1>3 DEF Checks!OthersSave, ChecksInv, Checks!RuleForItsAgent
  <2>8. ~Checks!Stuck'
    BY <1>3 DEF Checks!OthersSave, ChecksInv, ChecksUi, Checks!Stuck
  <2> QED
    BY <2>1, <2>2, <2>3, <2>4, <2>5, <2>6, <2>7, <2>8 DEF ChecksInv
<1>4. CASE Checks!Edit
  <2>1. ui' \in ChecksUi
    BY <1>4, Zenon DEF Checks!Edit, ChecksInv, ChecksUi, Checks!Statuses
  <2>2. net' \subseteq ChecksCalls
    BY <1>4 DEF Checks!Edit, ChecksInv
  <2>3. srv' \in [Agents -> {0, 1}] /\ odd' \in 0..1
    BY <1>4 DEF Checks!Edit, ChecksInv
  <2>4. (\A e, f \in net : e = f)'
    BY <1>4 DEF Checks!Edit, ChecksInv
  <2>5. (\A e \in net : e.kind = "checks" => ui.timers \in 0..1)'
    BY <1>4 DEF Checks!Edit, ChecksInv, ChecksUi
  <2>6. (ui.form \in {None, ui.agent})'
    BY <1>4 DEF Checks!Edit, ChecksInv, ChecksUi
  <2>7. Checks!RuleForItsAgent'
    BY <1>4 DEF Checks!Edit, ChecksInv, Checks!RuleForItsAgent
  <2>8. ~Checks!Stuck'
    BY <1>4 DEF Checks!Edit, ChecksInv, ChecksUi, Checks!Stuck
  <2> QED
    BY <2>1, <2>2, <2>3, <2>4, <2>5, <2>6, <2>7, <2>8 DEF ChecksInv
<1>5. CASE Checks!Reset
  <2>1. ui' \in ChecksUi
    <3>1. Checks!EvalConfig \in Checks!Configs \cup {None}
      BY DEF Checks!EvalConfig, Checks!Defaults, Checks!Configs, ChecksInv, ChecksUi
    <3> QED
      BY <1>5, <3>1, Zenon DEF Checks!Reset, ChecksInv, ChecksUi, Checks!Statuses
  <2>2. net' \subseteq ChecksCalls
    BY <1>5 DEF Checks!Reset, Checks!EvalConfig, Checks!Defaults, Checks!Configs, ChecksInv
  <2>3. srv' \in [Agents -> {0, 1}] /\ odd' \in 0..1
    BY <1>5 DEF Checks!Reset, Checks!EvalConfig, Checks!Defaults, Checks!Configs, ChecksInv
  <2>4. (\A e, f \in net : e = f)'
    BY <1>5 DEF Checks!Reset, Checks!EvalConfig, Checks!Defaults, Checks!Configs, ChecksInv
  <2>5. (\A e \in net : e.kind = "checks" => ui.timers \in 0..1)'
    BY <1>5 DEF Checks!Reset, Checks!EvalConfig, Checks!Defaults, Checks!Configs, ChecksInv, ChecksUi
  <2>6. (ui.form \in {None, ui.agent})'
    BY <1>5 DEF Checks!Reset, Checks!EvalConfig, Checks!Defaults, Checks!Configs, ChecksInv, ChecksUi
  <2>7. Checks!RuleForItsAgent'
    BY <1>5 DEF Checks!Reset, Checks!EvalConfig, Checks!Defaults, Checks!Configs, ChecksInv,
       Checks!RuleForItsAgent
  <2>8. ~Checks!Stuck'
    BY <1>5 DEF Checks!Reset, Checks!EvalConfig, Checks!Defaults, Checks!Configs, ChecksInv, ChecksUi,
       Checks!Stuck
  <2> QED
    BY <2>1, <2>2, <2>3, <2>4, <2>5, <2>6, <2>7, <2>8 DEF ChecksInv
<1>6. CASE Checks!Save
  <2>1. CASE ui' = [ui EXCEPT !.status = "error"] /\ net' = net
    <3>1. ui' \in ChecksUi
      BY <2>1, Zenon DEF ChecksInv, ChecksUi, Checks!Statuses
    <3>2. /\ ui'.form = ui.form /\ ui'.agent = ui.agent /\ ui'.timers = ui.timers
          /\ ui'.saving = ui.saving /\ ui'.status = "error"
      BY <2>1 DEF ChecksInv, ChecksUi
    <3> QED
      BY <1>6, <2>1, <3>1, <3>2 DEF Checks!Save, ChecksInv, Checks!RuleForItsAgent, Checks!Stuck
  <2>2. CASE /\ Checks!Complete(ui.draft) /\ ui.timers < 2
             /\ Checks!Call([kind |-> "checks", agent |-> ui.agent, config |-> ui.draft])
             /\ ui' = [ui EXCEPT !.status = "saving"]
    <3> DEFINE d == [kind |-> "checks", agent |-> ui.agent, config |-> ui.draft]
    <3>1. ui.draft \in {0, 1}
      BY <1>6, <2>2 DEF Checks!Save, Checks!IsDirty, Checks!Complete, Checks!Configs, ChecksInv, ChecksUi
    <3>2. d \in ChecksCalls /\ d.kind = "checks" /\ net = {} /\ net' = {d}
      BY <2>2, <3>1, ChecksCall DEF ChecksInv, ChecksUi, ChecksCalls
    <3> HIDE DEF d
    <3>3. ui' \in ChecksUi
      BY <2>2, Zenon DEF ChecksInv, ChecksUi, Checks!Statuses
    <3>4. /\ ui'.form = ui.form /\ ui'.agent = ui.agent /\ ui'.timers = ui.timers
          /\ ui'.saving = ui.saving
      BY <2>2 DEF ChecksInv, ChecksUi
    <3>5. ui.timers \in 0..1
      BY <2>2 DEF ChecksInv, ChecksUi
    <3>6. ~ui.saving
      BY <3>2 DEF ChecksInv, Checks!Stuck
    <3>7. srv' = srv /\ odd' = odd
      BY <1>6 DEF Checks!Save
    <3>8. ~Checks!Stuck'
      BY <3>2, <3>4, <3>6 DEF Checks!Stuck
    <3> QED
      BY <3>2, <3>3, <3>4, <3>5, <3>7, <3>8 DEF ChecksInv, Checks!RuleForItsAgent
  <2> QED
    BY <1>6, <2>1, <2>2 DEF Checks!Save
<1>7. CASE Checks!NoteFades
  <2> DEFINE n == ui.timers - 1
  <2>n. n \in 0..2 /\ (ui.timers \in 0..1 => n \in 0..1)
    BY <1>7 DEF Checks!NoteFades, ChecksInv, ChecksUi
  <2>u. ui' = [ui EXCEPT !.status = "idle", !.timers = n] /\ UNCHANGED <<net, srv, odd>>
    BY <1>7 DEF Checks!NoteFades
  <2> HIDE DEF n
  <2>i. /\ ui' \in ChecksUi /\ ui'.form = ui.form /\ ui'.agent = ui.agent /\ ui'.timers = n
        /\ ui'.saving = ui.saving /\ ui'.status = "idle"
    BY <2>n, <2>u, Zenon DEF ChecksInv, ChecksUi, Checks!Statuses
  <2>1. ui' \in ChecksUi
    BY <2>i
  <2>2. net' \subseteq ChecksCalls
    BY <2>u DEF ChecksInv
  <2>3. srv' \in [Agents -> {0, 1}] /\ odd' \in 0..1
    BY <2>u DEF ChecksInv
  <2>4. (\A e, f \in net : e = f)'
    BY <2>u DEF ChecksInv
  <2>5. (\A e \in net : e.kind = "checks" => ui.timers \in 0..1)'
    BY <2>u, <2>i, <2>n DEF ChecksInv
  <2>6. (ui.form \in {None, ui.agent})'
    BY <2>u, <2>i DEF ChecksInv
  <2>7. Checks!RuleForItsAgent'
    BY <2>u DEF ChecksInv, Checks!RuleForItsAgent
  <2>8. ~Checks!Stuck'
    BY <2>u, <2>i DEF ChecksInv, Checks!Stuck
  <2> QED
    BY <2>1, <2>2, <2>3, <2>4, <2>5, <2>6, <2>7, <2>8 DEF ChecksInv
<1>8. ASSUME NEW scope \in {"project", "agent"}, Checks!OpenForm(scope) PROVE ChecksInv'
  <2>1. ui' \in ChecksUi
    BY <1>8, Zenon DEF Checks!OpenForm, ChecksInv, ChecksUi, Checks!Statuses
  <2>2. net' \subseteq ChecksCalls
    BY <1>8 DEF Checks!OpenForm, ChecksInv
  <2>3. srv' \in [Agents -> {0, 1}] /\ odd' \in 0..1
    BY <1>8 DEF Checks!OpenForm, ChecksInv
  <2>4. (\A e, f \in net : e = f)'
    BY <1>8 DEF Checks!OpenForm, ChecksInv
  <2>5. (\A e \in net : e.kind = "checks" => ui.timers \in 0..1)'
    BY <1>8 DEF Checks!OpenForm, ChecksInv, ChecksUi
  <2>6. (ui.form \in {None, ui.agent})'
    BY <1>8 DEF Checks!OpenForm, ChecksInv, ChecksUi
  <2>7. Checks!RuleForItsAgent'
    BY <1>8 DEF Checks!OpenForm, ChecksInv, Checks!RuleForItsAgent
  <2>8. ~Checks!Stuck'
    BY <1>8 DEF Checks!OpenForm, ChecksInv, ChecksUi, Checks!Stuck
  <2> QED
    BY <2>1, <2>2, <2>3, <2>4, <2>5, <2>6, <2>7, <2>8 DEF ChecksInv
<1>9. CASE Checks!CloseForm
  <2>1. ui' \in ChecksUi
    BY <1>9 DEF Checks!CloseForm, ChecksInv, ChecksUi, Checks!Statuses
  <2>2. net' \subseteq ChecksCalls
    BY <1>9 DEF Checks!CloseForm, ChecksInv
  <2>3. srv' \in [Agents -> {0, 1}] /\ odd' \in 0..1
    BY <1>9 DEF Checks!CloseForm, ChecksInv
  <2>4. (\A e, f \in net : e = f)'
    BY <1>9 DEF Checks!CloseForm, ChecksInv
  <2>5. (\A e \in net : e.kind = "checks" => ui.timers \in 0..1)'
    BY <1>9 DEF Checks!CloseForm, ChecksInv, ChecksUi
  <2>6. (ui.form \in {None, ui.agent})'
    BY <1>9 DEF Checks!CloseForm, ChecksInv, ChecksUi
  <2>7. Checks!RuleForItsAgent'
    BY <1>9 DEF Checks!CloseForm, ChecksInv, Checks!RuleForItsAgent
  <2>8. ~Checks!Stuck'
    BY <1>9 DEF Checks!CloseForm, ChecksInv, ChecksUi, Checks!Stuck
  <2> QED
    BY <2>1, <2>2, <2>3, <2>4, <2>5, <2>6, <2>7, <2>8 DEF ChecksInv
<1>10. CASE Checks!Fill
  <2>1. ui' \in ChecksUi
    BY <1>10 DEF Checks!Fill, ChecksInv, ChecksUi, Checks!Statuses
  <2>2. net' \subseteq ChecksCalls
    BY <1>10 DEF Checks!Fill, ChecksInv
  <2>3. srv' \in [Agents -> {0, 1}] /\ odd' \in 0..1
    BY <1>10 DEF Checks!Fill, ChecksInv
  <2>4. (\A e, f \in net : e = f)'
    BY <1>10 DEF Checks!Fill, ChecksInv
  <2>5. (\A e \in net : e.kind = "checks" => ui.timers \in 0..1)'
    BY <1>10 DEF Checks!Fill, ChecksInv, ChecksUi
  <2>6. (ui.form \in {None, ui.agent})'
    BY <1>10 DEF Checks!Fill, ChecksInv, ChecksUi
  <2>7. Checks!RuleForItsAgent'
    BY <1>10 DEF Checks!Fill, ChecksInv, Checks!RuleForItsAgent
  <2>8. ~Checks!Stuck'
    BY <1>10 DEF Checks!Fill, ChecksInv, ChecksUi, Checks!Stuck
  <2> QED
    BY <2>1, <2>2, <2>3, <2>4, <2>5, <2>6, <2>7, <2>8 DEF ChecksInv
<1>11. CASE Checks!SaveRule
  <2> DEFINE d == [kind |-> "rule", scope |-> ui.scope, agent |-> ui.agent, about |-> ui.form]
  <2>i. /\ d \in ChecksCalls /\ d.kind = "rule" /\ d.about = d.agent /\ net' = {d} /\ net = {}
    BY <1>11, ChecksCall DEF Checks!SaveRule, ChecksInv, ChecksUi, ChecksCalls
  <2> HIDE DEF d
  <2>1. ui' \in ChecksUi
    BY <1>11, <2>i, Zenon DEF Checks!SaveRule, ChecksInv, ChecksUi, Checks!Statuses
  <2>2. net' \subseteq ChecksCalls
    BY <1>11, <2>i DEF Checks!SaveRule, ChecksInv
  <2>3. srv' \in [Agents -> {0, 1}] /\ odd' \in 0..1
    BY <1>11, <2>i DEF Checks!SaveRule, ChecksInv
  <2>4. (\A e, f \in net : e = f)'
    BY <1>11, <2>i DEF Checks!SaveRule, ChecksInv
  <2>5. (\A e \in net : e.kind = "checks" => ui.timers \in 0..1)'
    BY <1>11, <2>i DEF Checks!SaveRule, ChecksInv, ChecksUi
  <2>6. (ui.form \in {None, ui.agent})'
    BY <1>11, <2>i DEF Checks!SaveRule, ChecksInv, ChecksUi
  <2>7. Checks!RuleForItsAgent'
    BY <1>11, <2>i DEF Checks!SaveRule, ChecksInv, Checks!RuleForItsAgent
  <2>8. ~Checks!Stuck'
    BY <1>11, <2>i DEF Checks!SaveRule, ChecksInv, ChecksUi, Checks!Stuck
  <2> QED
    BY <2>1, <2>2, <2>3, <2>4, <2>5, <2>6, <2>7, <2>8 DEF ChecksInv
<1>12. ASSUME NEW c \in net, Checks!Saved(c) PROVE ChecksInv'
  <2>c. c.kind = "checks" /\ c.agent \in Agents /\ c.config \in {0, 1}
    BY <1>12 DEF Checks!Saved, ChecksInv, ChecksCalls
  <2>v. srv' \in [Agents -> {0, 1}]
    BY <1>12, <2>c DEF Checks!Saved, ChecksInv
  <2> DEFINE s == [ui EXCEPT !.seen[ui.agent] = srv'[ui.agent]]
             t == Checks!Settled(s)
  <2>x. [ui.seen EXCEPT ![ui.agent] = srv'[ui.agent]] \in [Agents -> Checks!Configs \cup {None}]
    BY <2>v DEF ChecksInv, ChecksUi, Checks!Configs
  <2>s. /\ s \in ChecksUi /\ s.agent = ui.agent /\ s.form = ui.form /\ s.timers = ui.timers
        /\ s.saving = ui.saving
    BY <2>x, Zenon DEF ChecksInv, ChecksUi
  <2>u. ui' = [t EXCEPT !.status = "saved", !.timers = @ + 1] /\ net' = {} /\ odd' = odd
    BY <1>12 DEF Checks!Saved, ChecksInv
  <2> HIDE DEF s
  <2>t. /\ t \in ChecksUi /\ t.form = ui.form /\ t.agent = ui.agent
        /\ t.timers = ui.timers /\ t.saving = ui.saving
    BY <2>s, ChecksSettled
  <2> HIDE DEF t
  <2>n. t.timers + 1 \in 0..2
    <3>1. ui.timers \in 0..1
      BY <2>c DEF ChecksInv
    <3> QED
      BY <3>1, <2>t
  <2>i. /\ ui' \in ChecksUi /\ ui'.form = ui.form /\ ui'.agent = ui.agent /\ ui'.status = "saved"
        /\ ui'.saving = ui.saving
    <3> DEFINE n == t.timers + 1
    <3>1. n \in 0..2 /\ ui' = [t EXCEPT !.status = "saved", !.timers = n]
      BY <2>n, <2>u
    <3> HIDE DEF n
    <3> QED
      BY <3>1, <2>t, Zenon DEF ChecksUi, Checks!Statuses
  <2>o. ~ui.saving
    BY <2>c DEF ChecksInv, Checks!Stuck
  <2>1. ui' \in ChecksUi
    BY <2>i
  <2>2. net' \subseteq ChecksCalls
    BY <2>u
  <2>3. srv' \in [Agents -> {0, 1}] /\ odd' \in 0..1
    BY <2>v, <2>u DEF ChecksInv
  <2>4. (\A e, f \in net : e = f)'
    BY <2>u
  <2>5. (\A e \in net : e.kind = "checks" => ui.timers \in 0..1)'
    BY <2>u
  <2>6. (ui.form \in {None, ui.agent})'
    BY <2>i DEF ChecksInv
  <2>7. Checks!RuleForItsAgent'
    BY <2>u DEF Checks!RuleForItsAgent
  <2>8. ~Checks!Stuck'
    BY <2>i, <2>o DEF Checks!Stuck
  <2> QED
    BY <2>1, <2>2, <2>3, <2>4, <2>5, <2>6, <2>7, <2>8 DEF ChecksInv
<1>13. ASSUME NEW c \in net, Checks!SaveFails(c) PROVE ChecksInv'
  <2>1. ui' \in ChecksUi
    BY <1>13 DEF Checks!SaveFails, ChecksInv, ChecksUi, Checks!Statuses
  <2>2. net' \subseteq ChecksCalls
    BY <1>13 DEF Checks!SaveFails, ChecksInv
  <2>3. srv' \in [Agents -> {0, 1}] /\ odd' \in 0..1
    BY <1>13 DEF Checks!SaveFails, ChecksInv
  <2>4. (\A e, f \in net : e = f)'
    BY <1>13 DEF Checks!SaveFails, ChecksInv
  <2>5. (\A e \in net : e.kind = "checks" => ui.timers \in 0..1)'
    BY <1>13 DEF Checks!SaveFails, ChecksInv, ChecksUi
  <2>6. (ui.form \in {None, ui.agent})'
    BY <1>13 DEF Checks!SaveFails, ChecksInv, ChecksUi
  <2>7. Checks!RuleForItsAgent'
    BY <1>13 DEF Checks!SaveFails, ChecksInv, Checks!RuleForItsAgent
  <2>8. ~Checks!Stuck'
    BY <1>13 DEF Checks!SaveFails, ChecksInv, ChecksUi, Checks!Stuck
  <2> QED
    BY <2>1, <2>2, <2>3, <2>4, <2>5, <2>6, <2>7, <2>8 DEF ChecksInv
<1>14. ASSUME NEW c \in net, Checks!RuleSaved(c) PROVE ChecksInv'
  <2>1. ui' \in ChecksUi
    BY <1>14, Zenon DEF Checks!RuleSaved, ChecksInv, ChecksUi, Checks!Statuses
  <2>2. net' \subseteq ChecksCalls
    BY <1>14 DEF Checks!RuleSaved, ChecksInv
  <2>3. srv' \in [Agents -> {0, 1}] /\ odd' \in 0..1
    BY <1>14 DEF Checks!RuleSaved, ChecksInv
  <2>4. (\A e, f \in net : e = f)'
    BY <1>14 DEF Checks!RuleSaved, ChecksInv
  <2>5. (\A e \in net : e.kind = "checks" => ui.timers \in 0..1)'
    BY <1>14 DEF Checks!RuleSaved, ChecksInv, ChecksUi
  <2>6. (ui.form \in {None, ui.agent})'
    BY <1>14 DEF Checks!RuleSaved, ChecksInv, ChecksUi
  <2>7. Checks!RuleForItsAgent'
    BY <1>14 DEF Checks!RuleSaved, ChecksInv, Checks!RuleForItsAgent
  <2>8. ~Checks!Stuck'
    BY <1>14 DEF Checks!RuleSaved, ChecksInv, ChecksUi, Checks!Stuck
  <2> QED
    BY <2>1, <2>2, <2>3, <2>4, <2>5, <2>6, <2>7, <2>8 DEF ChecksInv
<1>15. ASSUME NEW c \in net, Checks!RuleFails(c) PROVE ChecksInv'
  <2>1. ui' \in ChecksUi
    BY <1>15, Zenon DEF Checks!RuleFails, ChecksInv, ChecksUi, Checks!Statuses
  <2>2. net' \subseteq ChecksCalls
    BY <1>15 DEF Checks!RuleFails, ChecksInv
  <2>3. srv' \in [Agents -> {0, 1}] /\ odd' \in 0..1
    BY <1>15 DEF Checks!RuleFails, ChecksInv
  <2>4. (\A e, f \in net : e = f)'
    BY <1>15 DEF Checks!RuleFails, ChecksInv
  <2>5. (\A e \in net : e.kind = "checks" => ui.timers \in 0..1)'
    BY <1>15 DEF Checks!RuleFails, ChecksInv, ChecksUi
  <2>6. (ui.form \in {None, ui.agent})'
    BY <1>15 DEF Checks!RuleFails, ChecksInv, ChecksUi
  <2>7. Checks!RuleForItsAgent'
    BY <1>15 DEF Checks!RuleFails, ChecksInv, Checks!RuleForItsAgent
  <2>8. ~Checks!Stuck'
    BY <1>15 DEF Checks!RuleFails, ChecksInv, ChecksUi, Checks!Stuck
  <2> QED
    BY <2>1, <2>2, <2>3, <2>4, <2>5, <2>6, <2>7, <2>8 DEF ChecksInv
<1> QED
  BY <1>1, <1>2, <1>3, <1>4, <1>5, <1>6, <1>7, <1>8, <1>9, <1>10, <1>11, <1>12, <1>13, <1>14, <1>15 DEF
     Checks!Next

\* What the invariant says of the screen.
LEMMA ChecksHolds == ASSUME ChecksInv PROVE Checks!TypeOK
<1>1. ui \in ChecksUi
  BY DEF ChecksInv
<1>2. /\ ui.agent \in Agents /\ ui.last \in Agents \cup {None} /\ ui.form \in Agents \cup {None}
      /\ ui.draft \in Checks!Configs \cup {None} /\ ui.status \in Checks!Statuses
      /\ ui.seen \in [Agents -> Checks!Configs \cup {None}] /\ ui.timers \in 0..2
      /\ ui.scope \in {"project", "agent", None} /\ ui.saving \in BOOLEAN
  BY <1>1 DEF ChecksUi
<1>3. ui.timers \in 0..3
  BY <1>2
<1> QED
  BY <1>2, <1>3 DEF ChecksInv, Checks!TypeOK

\* Whatever is read anew leaves the draft of the agent that stays on screen.
LEMMA ChecksKeeps == ASSUME ChecksInv, Checks!Next PROVE Checks!DraftKept
<1> SUFFICES ASSUME ui.draft # None, ui.last = ui.agent, ui'.agent = ui.agent,
                    ui'.draft # ui.draft, ~Checks!Edit, ~Checks!Reset
             PROVE  FALSE
  BY DEF Checks!DraftKept
<1>t. ui \in ChecksUi
  BY DEF ChecksInv
<1>1. ASSUME NEW config \in Checks!Configs PROVE
        LET s == [ui EXCEPT !.seen[ui.agent] = config] IN
        /\ s \in ChecksUi /\ s.draft = ui.draft /\ s.last = ui.last /\ s.agent = ui.agent
        /\ Checks!Settled(s).draft = ui.draft /\ Checks!Settled(s) \in ChecksUi
  <2> DEFINE s == [ui EXCEPT !.seen[ui.agent] = config]
  <2>1. [ui.seen EXCEPT ![ui.agent] = config] \in [Agents -> Checks!Configs \cup {None}]
    BY <1>t, <1>1 DEF ChecksUi
  <2>2. s \in ChecksUi /\ s.draft = ui.draft /\ s.last = ui.last /\ s.agent = ui.agent
    BY <1>t, <2>1, Zenon DEF ChecksUi
  <2> HIDE DEF s
  <2>3. Checks!Settled(s).draft = ui.draft /\ Checks!Settled(s) \in ChecksUi
    BY <2>2, ChecksSettled
  <2> QED
    BY <2>2, <2>3 DEF s
<1>2. CASE \E a \in Agents : Checks!Switch(a)
  <2>1. PICK a \in Agents : Checks!Switch(a)
    BY <1>2
  <2> DEFINE s == [ui EXCEPT !.agent = a, !.form = None, !.saving = @ /\ ui.scope = None]
  <2>2. (ui.saving /\ ui.scope = None) \in BOOLEAN
    OBVIOUS
  <2>3. s \in ChecksUi /\ s.agent = a /\ ui' = Checks!Settled(s)
    BY <1>t, <2>1, <2>2, Zenon DEF ChecksUi, Checks!Switch, Checks!FormOf
  <2> HIDE DEF s
  <2>4. ui'.agent = a
    BY <2>3, ChecksSettled
  <2> QED
    BY <2>1, <2>4 DEF Checks!Switch
<1>3. CASE Checks!Read
  <2>1. srv[ui.agent] \in Checks!Configs
    BY <1>t DEF ChecksInv, ChecksUi, Checks!Configs
  <2> QED
    BY <1>1, <1>3, <2>1 DEF Checks!Read
<1>4. ASSUME NEW c \in net, Checks!Saved(c) PROVE FALSE
  <2>1. srv' \in [Agents -> {0, 1}]
    BY <1>4 DEF Checks!Saved, ChecksInv, ChecksCalls
  <2> DEFINE v == srv'[ui.agent]
             t == Checks!Settled([ui EXCEPT !.seen[ui.agent] = v])
  <2>2. v \in Checks!Configs
    BY <1>t, <2>1 DEF ChecksUi, Checks!Configs
  <2>3. ui' = [t EXCEPT !.status = "saved", !.timers = @ + 1]
    BY <1>4 DEF Checks!Saved
  <2> HIDE DEF v
  <2>4. t.draft = ui.draft /\ t \in ChecksUi
    BY <1>1, <2>2
  <2> HIDE DEF t
  <2> QED
    BY <2>3, <2>4 DEF ChecksUi
<1>5. CASE ui' = ui
  BY <1>5
<1>6. CASE Checks!Save
  BY <1>6, <1>t DEF Checks!Save, ChecksUi
<1>7. CASE Checks!NoteFades
  BY <1>7, <1>t DEF Checks!NoteFades, ChecksUi
<1>8. ASSUME NEW scope \in {"project", "agent"}, Checks!OpenForm(scope) PROVE FALSE
  BY <1>8, <1>t DEF Checks!OpenForm, ChecksUi
<1>9. CASE Checks!CloseForm \/ Checks!Fill \/ Checks!SaveRule
  BY <1>9, <1>t DEF Checks!CloseForm, Checks!Fill, Checks!SaveRule, ChecksUi
<1>10. ASSUME NEW c \in net, Checks!SaveFails(c) \/ Checks!RuleSaved(c) \/ Checks!RuleFails(c)
       PROVE  FALSE
  BY <1>10, <1>t, Zenon DEF Checks!SaveFails, Checks!RuleSaved, Checks!RuleFails, ChecksUi
<1> QED
  BY <1>2, <1>3, <1>4, <1>5, <1>6, <1>7, <1>8, <1>9, <1>10 DEF Checks!Next, Checks!OthersSave

\* And so does a step that is not the screen's.
LEMMA ChecksSame == ASSUME ChecksInv, UNCHANGED vars PROVE ChecksInv'
  BY DEF vars, ChecksInv, Checks!RuleForItsAgent, Checks!Stuck

-----------------------------------------------------------------------------
(***************************************************************************)
(* The service keys of an account.                                         *)
(***************************************************************************)

ProfileUi == [section : {"keys", "account"}, keys : SUBSET Profile!Keys,
              form : {"idle", "typed", "busy"}, creating : BOOLEAN,
              removing : Profile!Keys \cup {None}, editing : Profile!Keys \cup {None},
              text : Profile!Keys \cup {Profile!First}, renaming : Profile!Keys \cup {None},
              confirmed : BOOLEAN, leaving : BOOLEAN, usage : Profile!Plans \cup {"unknown"},
              gone : BOOLEAN, crossed : BOOLEAN]

ProfileCalls ==
    [kind : Profile!Forms \cup {"create", "account"}]
      \cup [kind : {"list"}, keys : SUBSET Profile!Keys]
      \cup [kind : {"remove"}, key : Profile!Keys]
      \cup [kind : {"rename"}, key : Profile!Keys, name : Profile!Keys \cup {Profile!First}]

ProfileSrv == [name : [Profile!Keys -> Profile!Keys \cup {Profile!First, None}], plan : Profile!Plans]

ProfileAssumption == None \notin OldKeys \cup NewKeys \cup Nat /\ 0 \notin OldKeys \cup NewKeys

ProfileThere == {k \in Profile!Keys : srv.name[k] # None}

\* What is typed, and what is sent, is of the row.
ProfileRows ==
    /\ ui.editing # None => ui.text \in {Profile!First, ui.editing}
    /\ \A c \in net : c.kind = "rename" => c.name \in {Profile!First, c.key}

\* One key is being created or listed at a time, and the page knows of it.
ProfileOne ==
    /\ \A c \in net : c.kind \in {"create", "list"} => ui.creating
    /\ \A c, d \in net : {c.kind, d.kind} \subseteq {"create", "list"} => c = d

\* The list under way, or else the page, has the keys there are.
ProfileLists ==
    ~ui.crossed => /\ \A c \in net : c.kind = "list" => c.keys = ProfileThere
                   /\ (\A c \in net : c.kind # "list") => ui.keys = ProfileThere

ProfileInv ==
    /\ ui \in ProfileUi /\ net \subseteq ProfileCalls /\ srv \in ProfileSrv /\ odd \in {0, 1}
    /\ ProfileRows /\ Profile!NamedInItsRow /\ ProfileOne /\ ProfileLists
    /\ ~Profile!Stuck

\* The new name of a key is none of the keys.
LEMMA ProfileNames ==
    ASSUME ProfileAssumption
    PROVE  /\ None \notin Profile!Keys /\ None # Profile!First /\ Profile!First \notin Profile!Keys
           /\ None \notin Profile!Keys \cup {Profile!First}
  BY DEF ProfileAssumption, Profile!Keys, Profile!First

\* The invariant holds when the screen is opened.
LEMMA ProfileInit == ASSUME ProfileAssumption, Profile!Init PROVE ProfileInv
<1>1. PICK p \in Profile!Plans :
        /\ srv = [name |-> [k \in Profile!Keys |-> IF k \in OldKeys THEN Profile!First ELSE None], plan |-> p]
        /\ \E u \in {p, "unknown"}, part \in {"keys", "account"} :
             (part = "keys" => u = "none") /\ ui = Profile!Loaded(part, u)
  BY DEF Profile!Init
<1>2. PICK u \in {p, "unknown"}, part \in {"keys", "account"} : ui = Profile!Loaded(part, u)
  BY <1>1
<1>3. /\ ui \in ProfileUi /\ ui.editing = None /\ ui.creating = FALSE /\ ui.form = "idle"
      /\ ui.leaving = FALSE /\ ui.removing = None /\ ui.renaming = None /\ ui.keys = OldKeys
  BY <1>2 DEF Profile!Loaded, ProfileUi, Profile!Keys
<1>4. srv \in ProfileSrv /\ \A k \in Profile!Keys : srv.name[k] = IF k \in OldKeys THEN Profile!First ELSE None
  BY <1>1 DEF ProfileSrv
<1>5. ProfileThere = OldKeys
  BY <1>4, ProfileNames DEF ProfileThere, Profile!Keys
<1>6. net = {} /\ odd = 1
  BY DEF Profile!Init
<1>7. Profile!NamedInItsRow
  BY <1>4 DEF Profile!NamedInItsRow
<1>8. ~Profile!Stuck
  BY <1>3 DEF Profile!Stuck
<1> QED
  BY <1>3, <1>4, <1>5, <1>6, <1>7, <1>8 DEF ProfileInv, ProfileRows, ProfileOne, ProfileLists

\* Every step of the screen keeps the invariant.
LEMMA ProfileStep == ASSUME ProfileAssumption, ProfileInv, Profile!Next PROVE ProfileInv'
<1>n. /\ None \notin Profile!Keys /\ None # Profile!First /\ Profile!First \notin Profile!Keys
      /\ None \notin Profile!Keys \cup {Profile!First}
  BY ProfileNames
<1>1. CASE Profile!Focus
  <2>1. ui' \in ProfileUi
    <3>1. srv.plan \in Profile!Plans
      BY DEF ProfileInv, ProfileSrv
    <3> QED
      BY <1>1, <3>1 DEF Profile!Focus, ProfileInv, ProfileUi
  <2>2. net' \subseteq ProfileCalls
    BY <1>1 DEF Profile!Focus, ProfileInv
  <2>3. srv' \in ProfileSrv
    BY <1>1 DEF Profile!Focus, ProfileInv
  <2>4. odd' \in {0, 1}
    BY <1>1 DEF Profile!Focus, ProfileInv
  <2>5. ProfileRows'
    BY <1>1 DEF Profile!Focus, ProfileInv, ProfileUi, ProfileRows
  <2>6. Profile!NamedInItsRow'
    BY <1>1 DEF Profile!Focus, ProfileInv, Profile!NamedInItsRow
  <2>7. ProfileOne'
    BY <1>1 DEF Profile!Focus, ProfileInv, ProfileUi, ProfileOne
  <2>8. ProfileLists'
    BY <1>1 DEF Profile!Focus, ProfileInv, ProfileUi, ProfileLists, ProfileThere
  <2>9. ~Profile!Stuck'
    BY <1>1 DEF Profile!Focus, ProfileInv, ProfileUi, Profile!Stuck, Profile!Under
  <2> QED
    BY <2>1, <2>2, <2>3, <2>4, <2>5, <2>6, <2>7, <2>8, <2>9 DEF ProfileInv
<1>2. CASE Profile!Type
  <2>1. ui' \in ProfileUi
    BY <1>2 DEF Profile!Type, ProfileInv, ProfileUi
  <2>2. net' \subseteq ProfileCalls
    BY <1>2 DEF Profile!Type, ProfileInv
  <2>3. srv' \in ProfileSrv
    BY <1>2 DEF Profile!Type, ProfileInv
  <2>4. odd' \in {0, 1}
    BY <1>2 DEF Profile!Type, ProfileInv
  <2>5. ProfileRows'
    BY <1>2 DEF Profile!Type, ProfileInv, ProfileUi, ProfileRows
  <2>6. Profile!NamedInItsRow'
    BY <1>2 DEF Profile!Type, ProfileInv, Profile!NamedInItsRow
  <2>7. ProfileOne'
    BY <1>2 DEF Profile!Type, ProfileInv, ProfileUi, ProfileOne
  <2>8. ProfileLists'
    BY <1>2 DEF Profile!Type, ProfileInv, ProfileUi, ProfileLists, ProfileThere
  <2>9. ~Profile!Stuck'
    BY <1>2 DEF Profile!Type, ProfileInv, ProfileUi, Profile!Stuck, Profile!Under
  <2> QED
    BY <2>1, <2>2, <2>3, <2>4, <2>5, <2>6, <2>7, <2>8, <2>9 DEF ProfileInv
<1>3. ASSUME NEW f \in Profile!Forms, Profile!Submit(f) PROVE ProfileInv'
  <2> DEFINE d == [kind |-> f]
  <2>i. /\ d \in ProfileCalls /\ d.kind = f /\ f \notin {"create", "list", "rename", "remove", "account"}
        /\ net' = net \cup {d}
    BY <1>3 DEF Profile!Submit, Profile!Call, ProfileInv, ProfileUi, ProfileRows, ProfileCalls, Profile!Forms
  <2> HIDE DEF d
  <2>1. ui' \in ProfileUi
    BY <1>3, <2>i DEF Profile!Submit, Profile!Forms, ProfileInv, ProfileUi
  <2>2. net' \subseteq ProfileCalls
    BY <1>3, <2>i DEF Profile!Submit, Profile!Forms, ProfileInv
  <2>3. srv' \in ProfileSrv
    BY <1>3, <2>i DEF Profile!Submit, Profile!Forms, ProfileInv
  <2>4. odd' \in {0, 1}
    BY <1>3, <2>i DEF Profile!Submit, Profile!Forms, ProfileInv
  <2>5. ProfileRows'
    BY <1>3, <2>i DEF Profile!Submit, Profile!Forms, ProfileInv, ProfileUi, ProfileRows
  <2>6. Profile!NamedInItsRow'
    BY <1>3, <2>i DEF Profile!Submit, Profile!Forms, ProfileInv, Profile!NamedInItsRow
  <2>7. ProfileOne'
    BY <1>3, <2>i DEF Profile!Submit, Profile!Forms, ProfileInv, ProfileUi, ProfileOne
  <2>8. ProfileLists'
    BY <1>3, <2>i DEF Profile!Submit, Profile!Forms, ProfileInv, ProfileUi, ProfileLists, ProfileThere
  <2>9. ~Profile!Stuck'
    BY <1>3, <2>i DEF Profile!Submit, Profile!Forms, ProfileInv, ProfileUi, Profile!Stuck, Profile!Under
  <2> QED
    BY <2>1, <2>2, <2>3, <2>4, <2>5, <2>6, <2>7, <2>8, <2>9 DEF ProfileInv
<1>4. CASE Profile!Create
  <2> DEFINE d == [kind |-> "create"]
  <2>i. /\ d \in ProfileCalls /\ d.kind = "create"
        /\ net' = net \cup {d}
    BY <1>4 DEF Profile!Create, Profile!Call, ProfileInv, ProfileUi, ProfileRows, ProfileCalls
  <2> HIDE DEF d
  <2>1. ui' \in ProfileUi
    BY <1>4, <2>i, Zenon DEF Profile!Create, ProfileInv, ProfileUi
  <2>2. net' \subseteq ProfileCalls
    BY <1>4, <2>i DEF Profile!Create, ProfileInv
  <2>3. srv' \in ProfileSrv
    BY <1>4, <2>i DEF Profile!Create, ProfileInv
  <2>4. odd' \in {0, 1}
    BY <1>4, <2>i DEF Profile!Create, ProfileInv
  <2>5. ProfileRows'
    BY <1>4, <2>i DEF Profile!Create, ProfileInv, ProfileUi, ProfileRows
  <2>6. Profile!NamedInItsRow'
    BY <1>4, <2>i DEF Profile!Create, ProfileInv, Profile!NamedInItsRow
  <2>7. ProfileOne'
    BY <1>4, <2>i DEF Profile!Create, ProfileInv, ProfileUi, ProfileOne
  <2>8. ProfileLists'
    BY <1>4, <2>i DEF Profile!Create, ProfileInv, ProfileUi, ProfileLists, ProfileThere
  <2>9. ~Profile!Stuck'
    BY <1>4, <2>i DEF Profile!Create, ProfileInv, ProfileUi, Profile!Stuck, Profile!Under
  <2> QED
    BY <2>1, <2>2, <2>3, <2>4, <2>5, <2>6, <2>7, <2>8, <2>9 DEF ProfileInv
<1>5. CASE Profile!TypeName
  <2>1. ui' \in ProfileUi
    BY <1>5 DEF Profile!TypeName, ProfileInv, ProfileUi
  <2>2. net' \subseteq ProfileCalls
    BY <1>5 DEF Profile!TypeName, ProfileInv
  <2>3. srv' \in ProfileSrv
    BY <1>5 DEF Profile!TypeName, ProfileInv
  <2>4. odd' \in {0, 1}
    BY <1>5 DEF Profile!TypeName, ProfileInv
  <2>5. ProfileRows'
    BY <1>5 DEF Profile!TypeName, ProfileInv, ProfileUi, ProfileRows
  <2>6. Profile!NamedInItsRow'
    BY <1>5 DEF Profile!TypeName, ProfileInv, Profile!NamedInItsRow
  <2>7. ProfileOne'
    BY <1>5 DEF Profile!TypeName, ProfileInv, ProfileUi, ProfileOne
  <2>8. ProfileLists'
    BY <1>5 DEF Profile!TypeName, ProfileInv, ProfileUi, ProfileLists, ProfileThere
  <2>9. ~Profile!Stuck'
    BY <1>5 DEF Profile!TypeName, ProfileInv, ProfileUi, Profile!Stuck, Profile!Under
  <2> QED
    BY <2>1, <2>2, <2>3, <2>4, <2>5, <2>6, <2>7, <2>8, <2>9 DEF ProfileInv
<1>6. CASE Profile!CancelRename
  <2>1. ui' \in ProfileUi
    BY <1>6, Zenon DEF Profile!CancelRename, ProfileInv, ProfileUi
  <2>2. net' \subseteq ProfileCalls
    BY <1>6 DEF Profile!CancelRename, ProfileInv
  <2>3. srv' \in ProfileSrv
    BY <1>6 DEF Profile!CancelRename, ProfileInv
  <2>4. odd' \in {0, 1}
    BY <1>6 DEF Profile!CancelRename, ProfileInv
  <2>5. ProfileRows'
    BY <1>6 DEF Profile!CancelRename, ProfileInv, ProfileUi, ProfileRows
  <2>6. Profile!NamedInItsRow'
    BY <1>6 DEF Profile!CancelRename, ProfileInv, Profile!NamedInItsRow
  <2>7. ProfileOne'
    BY <1>6 DEF Profile!CancelRename, ProfileInv, ProfileUi, ProfileOne
  <2>8. ProfileLists'
    BY <1>6 DEF Profile!CancelRename, ProfileInv, ProfileUi, ProfileLists, ProfileThere
  <2>9. ~Profile!Stuck'
    BY <1>6 DEF Profile!CancelRename, ProfileInv, ProfileUi, Profile!Stuck, Profile!Under
  <2> QED
    BY <2>1, <2>2, <2>3, <2>4, <2>5, <2>6, <2>7, <2>8, <2>9 DEF ProfileInv
<1>7. CASE Profile!Confirm
  <2>1. ui' \in ProfileUi
    BY <1>7, Zenon DEF Profile!Confirm, ProfileInv, ProfileUi
  <2>2. net' \subseteq ProfileCalls
    BY <1>7 DEF Profile!Confirm, ProfileInv
  <2>3. srv' \in ProfileSrv
    BY <1>7 DEF Profile!Confirm, ProfileInv
  <2>4. odd' \in {0, 1}
    BY <1>7 DEF Profile!Confirm, ProfileInv
  <2>5. ProfileRows'
    BY <1>7 DEF Profile!Confirm, ProfileInv, ProfileUi, ProfileRows
  <2>6. Profile!NamedInItsRow'
    BY <1>7 DEF Profile!Confirm, ProfileInv, Profile!NamedInItsRow
  <2>7. ProfileOne'
    BY <1>7 DEF Profile!Confirm, ProfileInv, ProfileUi, ProfileOne
  <2>8. ProfileLists'
    BY <1>7 DEF Profile!Confirm, ProfileInv, ProfileUi, ProfileLists, ProfileThere
  <2>9. ~Profile!Stuck'
    BY <1>7 DEF Profile!Confirm, ProfileInv, ProfileUi, Profile!Stuck, Profile!Under
  <2> QED
    BY <2>1, <2>2, <2>3, <2>4, <2>5, <2>6, <2>7, <2>8, <2>9 DEF ProfileInv
<1>8. CASE Profile!DeleteAccount
  <2> DEFINE d == [kind |-> "account"]
  <2>i. /\ d \in ProfileCalls /\ d.kind = "account"
        /\ net' = net \cup {d}
    BY <1>8 DEF Profile!DeleteAccount, Profile!Call, ProfileInv, ProfileUi, ProfileRows, ProfileCalls
  <2> HIDE DEF d
  <2>1. ui' \in ProfileUi
    BY <1>8, <2>i, Zenon DEF Profile!DeleteAccount, ProfileInv, ProfileUi
  <2>2. net' \subseteq ProfileCalls
    BY <1>8, <2>i DEF Profile!DeleteAccount, ProfileInv
  <2>3. srv' \in ProfileSrv
    BY <1>8, <2>i DEF Profile!DeleteAccount, ProfileInv
  <2>4. odd' \in {0, 1}
    BY <1>8, <2>i DEF Profile!DeleteAccount, ProfileInv
  <2>5. ProfileRows'
    BY <1>8, <2>i DEF Profile!DeleteAccount, ProfileInv, ProfileUi, ProfileRows
  <2>6. Profile!NamedInItsRow'
    BY <1>8, <2>i DEF Profile!DeleteAccount, ProfileInv, Profile!NamedInItsRow
  <2>7. ProfileOne'
    BY <1>8, <2>i DEF Profile!DeleteAccount, ProfileInv, ProfileUi, ProfileOne
  <2>8. ProfileLists'
    BY <1>8, <2>i DEF Profile!DeleteAccount, ProfileInv, ProfileUi, ProfileLists, ProfileThere
  <2>9. ~Profile!Stuck'
    BY <1>8, <2>i DEF Profile!DeleteAccount, ProfileInv, ProfileUi, Profile!Stuck, Profile!Under
  <2> QED
    BY <2>1, <2>2, <2>3, <2>4, <2>5, <2>6, <2>7, <2>8, <2>9 DEF ProfileInv
<1>9. CASE Profile!PlanChanges
  <2>1. ui' \in ProfileUi
    BY <1>9 DEF Profile!PlanChanges, ProfileInv, ProfileUi
  <2>2. net' \subseteq ProfileCalls
    BY <1>9 DEF Profile!PlanChanges, ProfileInv
  <2>3. srv' \in ProfileSrv
    <3>1. PICK p \in Profile!Plans : srv' = [srv EXCEPT !.plan = p]
      BY <1>9 DEF Profile!PlanChanges
    <3> QED
      BY <3>1 DEF ProfileInv, ProfileSrv
  <2>4. odd' \in {0, 1}
    BY <1>9 DEF Profile!PlanChanges, ProfileInv
  <2>5. ProfileRows'
    BY <1>9 DEF Profile!PlanChanges, ProfileInv, ProfileUi, ProfileRows
  <2>6. Profile!NamedInItsRow'
    BY <1>9 DEF Profile!PlanChanges, ProfileInv, Profile!NamedInItsRow
  <2>7. ProfileOne'
    BY <1>9 DEF Profile!PlanChanges, ProfileInv, ProfileUi, ProfileOne
  <2>8. ProfileLists'
    BY <1>9 DEF Profile!PlanChanges, ProfileInv, ProfileUi, ProfileLists, ProfileThere
  <2>9. ~Profile!Stuck'
    BY <1>9 DEF Profile!PlanChanges, ProfileInv, ProfileUi, Profile!Stuck, Profile!Under
  <2> QED
    BY <2>1, <2>2, <2>3, <2>4, <2>5, <2>6, <2>7, <2>8, <2>9 DEF ProfileInv
<1>10. ASSUME NEW k \in Profile!Keys, Profile!Remove(k) PROVE ProfileInv'
  <2> DEFINE d == [kind |-> "remove", key |-> k]
  <2>i. /\ d \in ProfileCalls /\ d.kind = "remove" /\ d.key = k
        /\ net' = net \cup {d}
    BY <1>10 DEF Profile!Remove, Profile!Call, ProfileInv, ProfileUi, ProfileRows, ProfileCalls
  <2> HIDE DEF d
  <2>1. ui' \in ProfileUi
    BY <1>10, <2>i DEF Profile!Remove, ProfileInv, ProfileUi
  <2>2. net' \subseteq ProfileCalls
    BY <1>10, <2>i DEF Profile!Remove, ProfileInv
  <2>3. srv' \in ProfileSrv
    BY <1>10, <2>i DEF Profile!Remove, ProfileInv
  <2>4. odd' \in {0, 1}
    BY <1>10, <2>i DEF Profile!Remove, ProfileInv
  <2>5. ProfileRows'
    BY <1>10, <2>i DEF Profile!Remove, ProfileInv, ProfileUi, ProfileRows
  <2>6. Profile!NamedInItsRow'
    BY <1>10, <2>i DEF Profile!Remove, ProfileInv, Profile!NamedInItsRow
  <2>7. ProfileOne'
    BY <1>10, <2>i DEF Profile!Remove, ProfileInv, ProfileUi, ProfileOne
  <2>8. ProfileLists'
    BY <1>10, <2>i DEF Profile!Remove, ProfileInv, ProfileUi, ProfileLists, ProfileThere
  <2>9. ~Profile!Stuck'
    BY <1>10, <2>i DEF Profile!Remove, ProfileInv, ProfileUi, Profile!Stuck, Profile!Under
  <2> QED
    BY <2>1, <2>2, <2>3, <2>4, <2>5, <2>6, <2>7, <2>8, <2>9 DEF ProfileInv
<1>11. ASSUME NEW k \in Profile!Keys, Profile!StartRename(k) PROVE ProfileInv'
  <2>t. PICK t \in {Profile!First, srv.name[k]} \ {None} : ui' = [ui EXCEPT !.editing = k, !.text = t]
    BY <1>11, Zenon DEF Profile!StartRename
  <2>u. t \in {Profile!First, k}
    BY <2>t DEF ProfileInv, Profile!NamedInItsRow
  <2>i. UNCHANGED <<net, srv, odd>>
    BY <1>11 DEF Profile!StartRename
  <2>1. ui' \in ProfileUi
    BY <2>t, <2>u, <2>i, Zenon DEF ProfileInv, ProfileUi
  <2>2. net' \subseteq ProfileCalls
    BY <2>t, <2>u, <2>i DEF ProfileInv
  <2>3. srv' \in ProfileSrv
    BY <2>t, <2>u, <2>i DEF ProfileInv
  <2>4. odd' \in {0, 1}
    BY <2>t, <2>u, <2>i DEF ProfileInv
  <2>5. ProfileRows'
    BY <2>t, <2>u, <2>i DEF ProfileInv, ProfileUi, ProfileRows
  <2>6. Profile!NamedInItsRow'
    BY <2>t, <2>u, <2>i DEF ProfileInv, Profile!NamedInItsRow
  <2>7. ProfileOne'
    BY <2>t, <2>u, <2>i DEF ProfileInv, ProfileUi, ProfileOne
  <2>8. ProfileLists'
    BY <2>t, <2>u, <2>i DEF ProfileInv, ProfileUi, ProfileLists, ProfileThere
  <2>9. ~Profile!Stuck'
    BY <2>t, <2>u, <2>i DEF ProfileInv, ProfileUi, Profile!Stuck, Profile!Under
  <2> QED
    BY <2>1, <2>2, <2>3, <2>4, <2>5, <2>6, <2>7, <2>8, <2>9 DEF ProfileInv
<1>12. ASSUME NEW k \in Profile!Keys, Profile!Rename(k) PROVE ProfileInv'
  <2> DEFINE d == [kind |-> "rename", key |-> k, name |-> ui.text]
  <2>t. ui.text \in Profile!Keys \cup {Profile!First} /\ ui.text \in {Profile!First, k}
    BY <1>12, <1>n DEF Profile!Rename, ProfileInv, ProfileUi, ProfileRows
  <2>c. d \in ProfileCalls
    BY <2>t DEF ProfileCalls
  <2>i. /\ d \in ProfileCalls /\ d.kind = "rename" /\ d.key = k /\ d.name \in {Profile!First, k}
        /\ net' = net \cup {d}
    BY <1>12, <2>c, <2>t DEF Profile!Rename, Profile!Call
  <2> HIDE DEF d
  <2>1. ui' \in ProfileUi
    BY <1>12, <2>i DEF Profile!Rename, ProfileInv, ProfileUi
  <2>2. net' \subseteq ProfileCalls
    BY <1>12, <2>i DEF Profile!Rename, ProfileInv
  <2>3. srv' \in ProfileSrv
    BY <1>12, <2>i DEF Profile!Rename, ProfileInv
  <2>4. odd' \in {0, 1}
    BY <1>12, <2>i DEF Profile!Rename, ProfileInv
  <2>5. ProfileRows'
    BY <1>12, <2>i DEF Profile!Rename, ProfileInv, ProfileUi, ProfileRows
  <2>6. Profile!NamedInItsRow'
    BY <1>12, <2>i DEF Profile!Rename, ProfileInv, Profile!NamedInItsRow
  <2>7. ProfileOne'
    BY <1>12, <2>i DEF Profile!Rename, ProfileInv, ProfileUi, ProfileOne
  <2>8. ProfileLists'
    BY <1>12, <2>i DEF Profile!Rename, ProfileInv, ProfileUi, ProfileLists, ProfileThere
  <2>9. ~Profile!Stuck'
    BY <1>12, <2>i DEF Profile!Rename, ProfileInv, ProfileUi, Profile!Stuck, Profile!Under
  <2> QED
    BY <2>1, <2>2, <2>3, <2>4, <2>5, <2>6, <2>7, <2>8, <2>9 DEF ProfileInv
<1>13. ASSUME NEW c \in net, Profile!Submitted(c) PROVE ProfileInv'
  <2>1. ui' \in ProfileUi
    BY <1>13 DEF Profile!Submitted, Profile!Ends, Profile!Forms, ProfileInv, ProfileUi
  <2>2. net' \subseteq ProfileCalls
    BY <1>13 DEF Profile!Submitted, Profile!Ends, Profile!Forms, ProfileInv
  <2>3. srv' \in ProfileSrv
    BY <1>13 DEF Profile!Submitted, Profile!Ends, Profile!Forms, ProfileInv
  <2>4. odd' \in {0, 1}
    BY <1>13 DEF Profile!Submitted, Profile!Ends, Profile!Forms, ProfileInv
  <2>5. ProfileRows'
    BY <1>13 DEF Profile!Submitted, Profile!Ends, Profile!Forms, ProfileInv, ProfileUi, ProfileRows
  <2>6. Profile!NamedInItsRow'
    BY <1>13 DEF Profile!Submitted, Profile!Ends, Profile!Forms, ProfileInv, Profile!NamedInItsRow
  <2>7. ProfileOne'
    BY <1>13 DEF Profile!Submitted, Profile!Ends, Profile!Forms, ProfileInv, ProfileUi, ProfileOne
  <2>8. ProfileLists'
    BY <1>13 DEF Profile!Submitted, Profile!Ends, Profile!Forms, ProfileInv, ProfileUi, ProfileLists,
       ProfileThere
  <2>9. ~Profile!Stuck'
    BY <1>13 DEF Profile!Submitted, Profile!Ends, Profile!Forms, ProfileInv, ProfileUi, Profile!Stuck,
       Profile!Under
  <2> QED
    BY <2>1, <2>2, <2>3, <2>4, <2>5, <2>6, <2>7, <2>8, <2>9 DEF ProfileInv
<1>14. ASSUME NEW c \in net, Profile!Created(c) PROVE ProfileInv'
  <2>p. PICK k \in NewKeys :
           /\ ~Profile!Exists(k)
           /\ srv' = [srv EXCEPT !.name[k] = Profile!First]
           /\ net' = (net \ {c}) \cup {[kind |-> "list", keys |-> {j \in Profile!Keys : srv'.name[j] # None}]}
    BY <1>14, Zenon DEF Profile!Created
  <2>k. k \in Profile!Keys
    BY DEF Profile!Keys
  <2>s. srv' \in ProfileSrv /\ \A j \in Profile!Keys : srv'.name[j] = IF j = k THEN Profile!First ELSE srv.name[j]
    BY <2>p, <2>k DEF ProfileInv, ProfileSrv
  <2> DEFINE d == [kind |-> "list", keys |-> {j \in Profile!Keys : srv'.name[j] # None}]
  <2>i. /\ d \in ProfileCalls /\ d.kind = "list" /\ d.keys = ProfileThere'
        /\ net' = (net \ {c}) \cup {d} /\ c.kind = "create"
    BY <1>14, <2>p DEF Profile!Created, ProfileCalls, ProfileThere
  <2> HIDE DEF d
  <2>1. ui' \in ProfileUi
    BY <1>14, <2>i, <2>s DEF Profile!Created, ProfileInv, ProfileUi
  <2>2. net' \subseteq ProfileCalls
    BY <2>i DEF ProfileInv
  <2>3. srv' \in ProfileSrv
    BY <2>s
  <2>4. odd' \in {0, 1}
    BY <1>14, <2>i, <2>s DEF Profile!Created, ProfileInv
  <2>5. ProfileRows'
    BY <1>14, <2>i, <2>s DEF Profile!Created, ProfileInv, ProfileUi, ProfileRows
  <2>6. Profile!NamedInItsRow'
    BY <1>14, <2>i, <2>s DEF Profile!Created, ProfileInv, Profile!NamedInItsRow
  <2>7. ProfileOne'
    BY <1>14, <2>i, <2>s DEF Profile!Created, ProfileInv, ProfileUi, ProfileOne
  <2>8. ProfileLists'
    <3>1. \A e \in net' : e.kind = "list" => e = d
      BY <2>i, <1>14 DEF Profile!Created, ProfileInv, ProfileOne
    <3>2. UNCHANGED ui /\ d \in net' /\ d.kind = "list" /\ d.keys = ProfileThere'
      BY <1>14, <2>i DEF Profile!Created
    <3> QED
      BY <3>1, <3>2 DEF ProfileLists
  <2>9. ~Profile!Stuck'
    <3>1. UNCHANGED ui
      BY <1>14 DEF Profile!Created
    <3>2. /\ \A e \in net : e.kind # "create" => e \in net'
          /\ d \in net' /\ d.kind = "list"
      BY <2>i
    <3> QED
      BY <3>1, <3>2 DEF ProfileInv, Profile!Stuck, Profile!Under, Profile!Forms
  <2> QED
    BY <2>1, <2>2, <2>3, <2>4, <2>5, <2>6, <2>7, <2>8, <2>9 DEF ProfileInv
<1>15. ASSUME NEW c \in net, Profile!Listed(c) PROVE ProfileInv'
  <2>1. ui' \in ProfileUi
    <3>1. c.keys \in SUBSET Profile!Keys
      BY <1>15 DEF Profile!Listed, ProfileInv, ProfileCalls, Profile!Forms
    <3> QED
      BY <1>15, <3>1, Zenon DEF Profile!Listed, ProfileInv, ProfileUi
  <2>2. net' \subseteq ProfileCalls
    BY <1>15 DEF Profile!Listed, Profile!Ends, ProfileInv
  <2>3. srv' \in ProfileSrv
    BY <1>15 DEF Profile!Listed, Profile!Ends, ProfileInv
  <2>4. odd' \in {0, 1}
    BY <1>15 DEF Profile!Listed, Profile!Ends, ProfileInv
  <2>5. ProfileRows'
    BY <1>15 DEF Profile!Listed, Profile!Ends, ProfileInv, ProfileUi, ProfileRows
  <2>6. Profile!NamedInItsRow'
    BY <1>15 DEF Profile!Listed, Profile!Ends, ProfileInv, Profile!NamedInItsRow
  <2>7. ProfileOne'
    BY <1>15 DEF Profile!Listed, Profile!Ends, ProfileInv, ProfileUi, ProfileOne
  <2>8. ProfileLists'
    BY <1>15 DEF Profile!Listed, Profile!Ends, ProfileInv, ProfileUi, ProfileLists, ProfileThere
  <2>9. ~Profile!Stuck'
    <3>1. /\ ui'.gone = ui.gone /\ ui'.creating = FALSE /\ ui'.form = ui.form /\ ui'.leaving = ui.leaving /\ ui'.removing = ui.removing /\ ui'.renaming = ui.renaming
      BY <1>15 DEF Profile!Listed, ProfileInv, ProfileUi
    <3>2. net' = net \ {c} /\ c.kind = "list"
      BY <1>15 DEF Profile!Listed, Profile!Ends
    <3> QED
      BY <3>1, <3>2 DEF ProfileInv, Profile!Stuck, Profile!Under, Profile!Forms
  <2> QED
    BY <2>1, <2>2, <2>3, <2>4, <2>5, <2>6, <2>7, <2>8, <2>9 DEF ProfileInv
<1>16. ASSUME NEW c \in net, Profile!Removed(c) PROVE ProfileInv'
  <2>c. c \in ProfileCalls /\ c.kind = "remove"
    BY <1>16 DEF ProfileInv, Profile!Removed
  <2>k. c.key \in Profile!Keys
    BY <2>c DEF ProfileCalls, Profile!Forms
  <2>s. srv' \in ProfileSrv /\ \A j \in Profile!Keys : srv'.name[j] = IF j = c.key THEN None ELSE srv.name[j]
    BY <1>16, <2>k DEF Profile!Removed, ProfileInv, ProfileSrv
  <2> DEFINE x == ui.crossed \/ \E l \in net : l.kind = "list" /\ c.key \in l.keys
  <2>u. x \in BOOLEAN
    BY DEF ProfileInv, ProfileUi
  <2>v. ui' = [ui EXCEPT !.keys = Profile!Without(c.key), !.removing = None, !.crossed = x]
    BY <1>16 DEF Profile!Removed, ProfileInv, ProfileUi
  <2>h. ProfileThere' = ProfileThere \ {c.key} /\ c.key \in ProfileThere
    BY <1>16, <2>s, <2>k DEF Profile!Removed, Profile!Exists, ProfileThere
  <2>1. ui' \in ProfileUi
    <3> HIDE DEF x
    <3>1. Profile!Without(c.key) \in SUBSET Profile!Keys
      BY DEF ProfileInv, ProfileUi, Profile!Without
    <3> QED
      BY <2>u, <2>v, <3>1, Zenon DEF ProfileInv, ProfileUi
  <2>2. net' \subseteq ProfileCalls
    BY <1>16, <2>c, <2>k, <2>s DEF Profile!Removed, Profile!Ends, Profile!Without, ProfileInv
  <2>3. srv' \in ProfileSrv
    BY <2>s
  <2>4. odd' \in {0, 1}
    BY <1>16, <2>c, <2>k, <2>s DEF Profile!Removed, Profile!Ends, Profile!Without, ProfileInv
  <2>5. ProfileRows'
    <3> HIDE DEF x
    <3> QED
      BY <1>16, <2>c, <2>v DEF Profile!Removed, Profile!Ends, ProfileInv, ProfileUi, ProfileRows
  <2>6. Profile!NamedInItsRow'
    BY <1>16, <2>c, <2>k, <2>s DEF Profile!Removed, Profile!Ends, Profile!Without, ProfileInv,
       Profile!NamedInItsRow
  <2>7. ProfileOne'
    <3> HIDE DEF x
    <3> QED
      BY <1>16, <2>c, <2>v DEF Profile!Removed, Profile!Ends, ProfileInv, ProfileUi, ProfileOne
  <2>8. ProfileLists'
    <3>1. ui'.crossed = x /\ ui'.keys = ui.keys \ {c.key} /\ net' = net \ {c}
      BY <1>16, <2>u, <2>v DEF Profile!Removed, Profile!Ends, Profile!Without, ProfileInv, ProfileUi
    <3>2. ~x => ~ui.crossed /\ \A e \in net : e.kind # "list"
      BY <2>h DEF ProfileInv, ProfileLists
    <3> HIDE DEF x
    <3>3. ASSUME ~ui'.crossed
          PROVE  ui'.keys = ProfileThere' /\ \A e \in net' : e.kind # "list"
      <4>1. ~ui.crossed /\ \A e \in net : e.kind # "list"
        BY <3>1, <3>2, <3>3
      <4>2. ui.keys = ProfileThere
        BY <4>1 DEF ProfileInv, ProfileLists
      <4> QED
        BY <3>1, <4>1, <4>2, <2>h
    <3> QED
      BY <3>3 DEF ProfileLists
  <2>9. ~Profile!Stuck'
    <3> HIDE DEF x
    <3>1. /\ ui'.gone = ui.gone /\ ui'.creating = ui.creating /\ ui'.form = ui.form /\ ui'.leaving = ui.leaving
          /\ ui'.removing = None /\ ui'.renaming = ui.renaming
      BY <2>v DEF ProfileInv, ProfileUi
    <3>2. net' = net \ {c} /\ c.kind = "remove"
      BY <1>16 DEF Profile!Removed, Profile!Ends
    <3> QED
      BY <3>1, <3>2 DEF ProfileInv, Profile!Stuck, Profile!Under, Profile!Forms
  <2> QED
    BY <2>1, <2>2, <2>3, <2>4, <2>5, <2>6, <2>7, <2>8, <2>9 DEF ProfileInv
<1>17. ASSUME NEW c \in net, Profile!Renamed(c) PROVE ProfileInv'
  <2>c. c \in ProfileCalls /\ c.kind = "rename"
    BY <1>17 DEF ProfileInv, Profile!Renamed
  <2>k. c.key \in Profile!Keys /\ c.name \in {Profile!First, c.key}
    BY <2>c DEF ProfileInv, ProfileRows, ProfileCalls, Profile!Forms
  <2>s. srv' \in ProfileSrv /\ \A j \in Profile!Keys : srv'.name[j] = IF j = c.key THEN c.name ELSE srv.name[j]
    BY <1>17, <2>k DEF Profile!Renamed, ProfileInv, ProfileSrv
  <2>h. ProfileThere' = ProfileThere
    BY <1>17, <2>s, <2>k, ProfileNames DEF Profile!Renamed, Profile!Exists, ProfileThere
  <2>1. ui' \in ProfileUi
    BY <1>17, <2>c, <2>k, <2>s, <2>h, Zenon DEF Profile!Renamed, Profile!Ends, ProfileInv, ProfileUi
  <2>2. net' \subseteq ProfileCalls
    BY <1>17, <2>c, <2>k, <2>s, <2>h DEF Profile!Renamed, Profile!Ends, ProfileInv
  <2>3. srv' \in ProfileSrv
    BY <2>s
  <2>4. odd' \in {0, 1}
    BY <1>17, <2>c, <2>k, <2>s, <2>h DEF Profile!Renamed, Profile!Ends, ProfileInv
  <2>5. ProfileRows'
    BY <1>17, <2>c, <2>k, <2>s, <2>h DEF Profile!Renamed, Profile!Ends, ProfileInv, ProfileUi, ProfileRows
  <2>6. Profile!NamedInItsRow'
    BY <1>17, <2>c, <2>k, <2>s, <2>h DEF Profile!Renamed, Profile!Ends, ProfileInv, Profile!NamedInItsRow
  <2>7. ProfileOne'
    BY <1>17, <2>c, <2>k, <2>s, <2>h DEF Profile!Renamed, Profile!Ends, ProfileInv, ProfileUi, ProfileOne
  <2>8. ProfileLists'
    BY <1>17, <2>c, <2>h DEF Profile!Renamed, Profile!Ends, ProfileInv, ProfileUi, ProfileLists
  <2>9. ~Profile!Stuck'
    <3>1. /\ ui'.gone = ui.gone /\ ui'.creating = ui.creating /\ ui'.form = ui.form /\ ui'.leaving = ui.leaving /\ ui'.removing = ui.removing /\ ui'.renaming = None
      BY <1>17 DEF Profile!Renamed, ProfileInv, ProfileUi
    <3>2. net' = net \ {c} /\ c.kind = "rename"
      BY <1>17 DEF Profile!Renamed, Profile!Ends
    <3> QED
      BY <3>1, <3>2 DEF ProfileInv, Profile!Stuck, Profile!Under, Profile!Forms
  <2> QED
    BY <2>1, <2>2, <2>3, <2>4, <2>5, <2>6, <2>7, <2>8, <2>9 DEF ProfileInv
<1>18. ASSUME NEW c \in net, Profile!AccountDeleted(c) PROVE ProfileInv'
  <2>s. srv' \in ProfileSrv /\ \A j \in Profile!Keys : srv'.name[j] = None
    BY <1>18 DEF Profile!AccountDeleted, ProfileInv, ProfileSrv
  <2>1. ui' \in ProfileUi
    BY <1>18, <2>s, Zenon DEF Profile!AccountDeleted, ProfileInv, ProfileUi
  <2>2. net' \subseteq ProfileCalls
    BY <1>18, <2>s DEF Profile!AccountDeleted, ProfileInv
  <2>3. srv' \in ProfileSrv
    BY <2>s
  <2>4. odd' \in {0, 1}
    BY <1>18, <2>s DEF Profile!AccountDeleted, ProfileInv
  <2>5. ProfileRows'
    BY <1>18, <2>s DEF Profile!AccountDeleted, ProfileInv, ProfileUi, ProfileRows
  <2>6. Profile!NamedInItsRow'
    BY <1>18, <2>s DEF Profile!AccountDeleted, ProfileInv, Profile!NamedInItsRow
  <2>7. ProfileOne'
    BY <1>18, <2>s DEF Profile!AccountDeleted, ProfileInv, ProfileUi, ProfileOne
  <2>8. ProfileLists'
    BY <1>18, <2>s DEF Profile!AccountDeleted, ProfileInv, ProfileUi, ProfileLists, ProfileThere
  <2>9. ~Profile!Stuck'
    BY <1>18, <2>s DEF Profile!AccountDeleted, ProfileInv, ProfileUi, Profile!Stuck, Profile!Under
  <2> QED
    BY <2>1, <2>2, <2>3, <2>4, <2>5, <2>6, <2>7, <2>8, <2>9 DEF ProfileInv
<1>19. ASSUME NEW c \in net, Profile!SubmitFails(c) PROVE ProfileInv'
  <2>1. ui' \in ProfileUi
    BY <1>19 DEF Profile!SubmitFails, Profile!Fails, Profile!Ends, Profile!Forms, ProfileInv, ProfileUi
  <2>2. net' \subseteq ProfileCalls
    BY <1>19 DEF Profile!SubmitFails, Profile!Fails, Profile!Ends, Profile!Forms, ProfileInv
  <2>3. srv' \in ProfileSrv
    BY <1>19 DEF Profile!SubmitFails, Profile!Fails, Profile!Ends, Profile!Forms, ProfileInv
  <2>4. odd' \in {0, 1}
    BY <1>19 DEF Profile!SubmitFails, Profile!Fails, Profile!Ends, Profile!Forms, ProfileInv
  <2>5. ProfileRows'
    BY <1>19 DEF Profile!SubmitFails, Profile!Fails, Profile!Ends, Profile!Forms, ProfileInv, ProfileUi,
       ProfileRows
  <2>6. Profile!NamedInItsRow'
    BY <1>19 DEF Profile!SubmitFails, Profile!Fails, Profile!Ends, Profile!Forms, ProfileInv,
       Profile!NamedInItsRow
  <2>7. ProfileOne'
    BY <1>19 DEF Profile!SubmitFails, Profile!Fails, Profile!Ends, Profile!Forms, ProfileInv, ProfileUi,
       ProfileOne
  <2>8. ProfileLists'
    BY <1>19 DEF Profile!SubmitFails, Profile!Fails, Profile!Ends, Profile!Forms, ProfileInv, ProfileUi,
       ProfileLists, ProfileThere
  <2>9. ~Profile!Stuck'
    BY <1>19 DEF Profile!SubmitFails, Profile!Fails, Profile!Ends, Profile!Forms, ProfileInv, ProfileUi,
       Profile!Stuck, Profile!Under
  <2> QED
    BY <2>1, <2>2, <2>3, <2>4, <2>5, <2>6, <2>7, <2>8, <2>9 DEF ProfileInv
<1>20. ASSUME NEW c \in net, Profile!CreateFails(c) PROVE ProfileInv'
  <2> DEFINE x == ui.crossed \/ c.kind = "list"
  <2>u. x \in BOOLEAN
    BY DEF ProfileInv, ProfileUi
  <2>v. ui' = [ui EXCEPT !.creating = FALSE, !.crossed = x]
    BY <1>20 DEF Profile!CreateFails, ProfileInv, ProfileUi
  <2>w. ui'.crossed = x
    BY <2>u, <2>v DEF ProfileInv, ProfileUi
  <2>1. ui' \in ProfileUi
    <3> HIDE DEF x
    <3> QED
      BY <2>u, <2>v, Zenon DEF ProfileInv, ProfileUi
  <2>2. net' \subseteq ProfileCalls
    BY <1>20 DEF Profile!CreateFails, Profile!Fails, Profile!Ends, ProfileInv
  <2>3. srv' \in ProfileSrv
    BY <1>20 DEF Profile!CreateFails, Profile!Fails, Profile!Ends, ProfileInv
  <2>4. odd' \in {0, 1}
    BY <1>20 DEF Profile!CreateFails, Profile!Fails, Profile!Ends, ProfileInv
  <2>5. ProfileRows'
    BY <1>20 DEF Profile!CreateFails, Profile!Fails, Profile!Ends, ProfileInv, ProfileUi, ProfileRows
  <2>6. Profile!NamedInItsRow'
    BY <1>20 DEF Profile!CreateFails, Profile!Fails, Profile!Ends, ProfileInv, Profile!NamedInItsRow
  <2>7. ProfileOne'
    BY <1>20 DEF Profile!CreateFails, Profile!Fails, Profile!Ends, ProfileInv, ProfileUi, ProfileOne
  <2>8. ProfileLists'
    BY <1>20, Zenon DEF Profile!CreateFails, Profile!Fails, Profile!Ends, ProfileInv, ProfileUi, ProfileLists,
       ProfileThere
  <2>9. ~Profile!Stuck'
    <3>1. /\ ui'.gone = ui.gone /\ ui'.creating = FALSE /\ ui'.form = ui.form /\ ui'.leaving = ui.leaving /\ ui'.removing = ui.removing /\ ui'.renaming = ui.renaming
      BY <2>u, <2>v DEF ProfileInv, ProfileUi
    <3>2. net' = net \ {c} /\ c.kind \in {"create", "list"}
      BY <1>20 DEF Profile!CreateFails, Profile!Ends, Profile!Fails
    <3> QED
      BY <3>1, <3>2 DEF ProfileInv, Profile!Stuck, Profile!Under, Profile!Forms
  <2> QED
    BY <2>1, <2>2, <2>3, <2>4, <2>5, <2>6, <2>7, <2>8, <2>9 DEF ProfileInv
<1>21. ASSUME NEW c \in net, Profile!RemoveFails(c) PROVE ProfileInv'
  <2>1. ui' \in ProfileUi
    BY <1>21 DEF Profile!RemoveFails, Profile!Fails, Profile!Ends, ProfileInv, ProfileUi
  <2>2. net' \subseteq ProfileCalls
    BY <1>21 DEF Profile!RemoveFails, Profile!Fails, Profile!Ends, ProfileInv
  <2>3. srv' \in ProfileSrv
    BY <1>21 DEF Profile!RemoveFails, Profile!Fails, Profile!Ends, ProfileInv
  <2>4. odd' \in {0, 1}
    BY <1>21 DEF Profile!RemoveFails, Profile!Fails, Profile!Ends, ProfileInv
  <2>5. ProfileRows'
    BY <1>21 DEF Profile!RemoveFails, Profile!Fails, Profile!Ends, ProfileInv, ProfileUi, ProfileRows
  <2>6. Profile!NamedInItsRow'
    BY <1>21 DEF Profile!RemoveFails, Profile!Fails, Profile!Ends, ProfileInv, Profile!NamedInItsRow
  <2>7. ProfileOne'
    BY <1>21 DEF Profile!RemoveFails, Profile!Fails, Profile!Ends, ProfileInv, ProfileUi, ProfileOne
  <2>8. ProfileLists'
    BY <1>21 DEF Profile!RemoveFails, Profile!Fails, Profile!Ends, ProfileInv, ProfileUi, ProfileLists,
       ProfileThere
  <2>9. ~Profile!Stuck'
    <3>1. /\ ui'.gone = ui.gone /\ ui'.creating = ui.creating /\ ui'.form = ui.form /\ ui'.leaving = ui.leaving /\ ui'.removing = None /\ ui'.renaming = ui.renaming
      BY <1>21 DEF Profile!RemoveFails, Profile!Fails, ProfileInv, ProfileUi
    <3>2. net' = net \ {c} /\ c.kind = "remove"
      BY <1>21 DEF Profile!RemoveFails, Profile!Ends, Profile!Fails
    <3> QED
      BY <3>1, <3>2 DEF ProfileInv, Profile!Stuck, Profile!Under, Profile!Forms
  <2> QED
    BY <2>1, <2>2, <2>3, <2>4, <2>5, <2>6, <2>7, <2>8, <2>9 DEF ProfileInv
<1>22. ASSUME NEW c \in net, Profile!RenameFails(c) PROVE ProfileInv'
  <2>1. ui' \in ProfileUi
    BY <1>22 DEF Profile!RenameFails, Profile!Fails, Profile!Ends, ProfileInv, ProfileUi
  <2>2. net' \subseteq ProfileCalls
    BY <1>22 DEF Profile!RenameFails, Profile!Fails, Profile!Ends, ProfileInv
  <2>3. srv' \in ProfileSrv
    BY <1>22 DEF Profile!RenameFails, Profile!Fails, Profile!Ends, ProfileInv
  <2>4. odd' \in {0, 1}
    BY <1>22 DEF Profile!RenameFails, Profile!Fails, Profile!Ends, ProfileInv
  <2>5. ProfileRows'
    BY <1>22 DEF Profile!RenameFails, Profile!Fails, Profile!Ends, ProfileInv, ProfileUi, ProfileRows
  <2>6. Profile!NamedInItsRow'
    BY <1>22 DEF Profile!RenameFails, Profile!Fails, Profile!Ends, ProfileInv, Profile!NamedInItsRow
  <2>7. ProfileOne'
    BY <1>22 DEF Profile!RenameFails, Profile!Fails, Profile!Ends, ProfileInv, ProfileUi, ProfileOne
  <2>8. ProfileLists'
    BY <1>22 DEF Profile!RenameFails, Profile!Fails, Profile!Ends, ProfileInv, ProfileUi, ProfileLists,
       ProfileThere
  <2>9. ~Profile!Stuck'
    <3>1. /\ ui'.gone = ui.gone /\ ui'.creating = ui.creating /\ ui'.form = ui.form /\ ui'.leaving = ui.leaving /\ ui'.removing = ui.removing /\ ui'.renaming = None
      BY <1>22 DEF Profile!RenameFails, Profile!Fails, ProfileInv, ProfileUi
    <3>2. net' = net \ {c} /\ c.kind = "rename"
      BY <1>22 DEF Profile!RenameFails, Profile!Ends, Profile!Fails
    <3> QED
      BY <3>1, <3>2 DEF ProfileInv, Profile!Stuck, Profile!Under, Profile!Forms
  <2> QED
    BY <2>1, <2>2, <2>3, <2>4, <2>5, <2>6, <2>7, <2>8, <2>9 DEF ProfileInv
<1>23. ASSUME NEW c \in net, Profile!AccountStays(c) PROVE ProfileInv'
  <2>1. ui' \in ProfileUi
    BY <1>23, Zenon DEF Profile!AccountStays, Profile!Fails, Profile!Ends, ProfileInv, ProfileUi
  <2>2. net' \subseteq ProfileCalls
    BY <1>23 DEF Profile!AccountStays, Profile!Fails, Profile!Ends, ProfileInv
  <2>3. srv' \in ProfileSrv
    BY <1>23 DEF Profile!AccountStays, Profile!Fails, Profile!Ends, ProfileInv
  <2>4. odd' \in {0, 1}
    BY <1>23 DEF Profile!AccountStays, Profile!Fails, Profile!Ends, ProfileInv
  <2>5. ProfileRows'
    BY <1>23 DEF Profile!AccountStays, Profile!Fails, Profile!Ends, ProfileInv, ProfileUi, ProfileRows
  <2>6. Profile!NamedInItsRow'
    BY <1>23 DEF Profile!AccountStays, Profile!Fails, Profile!Ends, ProfileInv, Profile!NamedInItsRow
  <2>7. ProfileOne'
    BY <1>23 DEF Profile!AccountStays, Profile!Fails, Profile!Ends, ProfileInv, ProfileUi, ProfileOne
  <2>8. ProfileLists'
    BY <1>23 DEF Profile!AccountStays, Profile!Fails, Profile!Ends, ProfileInv, ProfileUi, ProfileLists,
       ProfileThere
  <2>9. ~Profile!Stuck'
    <3>1. /\ ui'.gone = ui.gone /\ ui'.creating = ui.creating /\ ui'.form = ui.form /\ ui'.leaving = FALSE /\ ui'.removing = ui.removing /\ ui'.renaming = ui.renaming
      BY <1>23 DEF Profile!AccountStays, Profile!Fails, ProfileInv, ProfileUi
    <3>2. net' = net \ {c} /\ c.kind = "account"
      BY <1>23 DEF Profile!AccountStays, Profile!Ends, Profile!Fails
    <3> QED
      BY <3>1, <3>2 DEF ProfileInv, Profile!Stuck, Profile!Under, Profile!Forms
  <2> QED
    BY <2>1, <2>2, <2>3, <2>4, <2>5, <2>6, <2>7, <2>8, <2>9 DEF ProfileInv
<1> QED
  BY <1>1, <1>2, <1>3, <1>4, <1>5, <1>6, <1>7, <1>8, <1>9, <1>10, <1>11, <1>12, <1>13, <1>14, <1>15,
     <1>16, <1>17, <1>18, <1>19, <1>20, <1>21, <1>22, <1>23 DEF Profile!Next, Profile!Answer,
     Profile!Fail

\* What the invariant says of the screen.
LEMMA ProfileHolds ==
    ASSUME ProfileInv PROVE Profile!TypeOK /\ Profile!NamedInItsRow /\ Profile!ListTells
<1>1. Profile!TypeOK
  BY DEF ProfileInv, ProfileUi, ProfileSrv, Profile!TypeOK
<1>2. Profile!ListTells
  BY DEF ProfileInv, ProfileLists, ProfileThere, Profile!ListTells, Profile!Exists
<1> QED
  BY <1>1, <1>2 DEF ProfileInv

\* And so does a step that is not the screen's.
LEMMA ProfileSame == ASSUME ProfileInv, UNCHANGED vars PROVE ProfileInv'
  BY DEF vars, ProfileInv, Profile!NamedInItsRow, Profile!Stuck, ProfileLists, ProfileOne, ProfileRows,
     Profile!Under, ProfileThere

-----------------------------------------------------------------------------
(***************************************************************************)
(* Buying a plan.                                                          *)
(***************************************************************************)

PlanDialog == [target : Paid \cup {None}, seen : Paid \cup {None}, loading : BOOLEAN,
               failed : BOOLEAN, applying : BOOLEAN]

PlanLink == [mark : BOOLEAN, opening : BOOLEAN, overlay : BOOLEAN, done : BOOLEAN,
             left : BOOLEAN]

PlanUi == [at : {"billing", "checkout"}, shown : Plan!Standings, busy : Paid \cup {None},
           dialog : PlanDialog, portal : [open : BOOLEAN, busy : BOOLEAN], link : PlanLink]

PlanCalls ==
    [kind : {"checkout", "preview", "paddle"}, plan : Paid]
      \cup [kind : {"change"}, plan : Paid, seen : Paid]
      \cup [kind : {"portal"}]

PlanSrv == [real : Paid \cup {"free"}, row : Plan!Standings, subs : 0..2, early : BOOLEAN]

\* The calls of the dialog are about what it shows.
PlanTalk ==
    /\ \A c \in net : c.kind = "preview" => ui.dialog.loading /\ c.plan = ui.dialog.target
    /\ \A c \in net : c.kind = "change" => /\ ui.dialog.applying
                                           /\ c.plan = ui.dialog.target
                                           /\ c.seen = ui.dialog.seen
    /\ ui.dialog.seen # None => ui.dialog.seen = ui.dialog.target
    /\ ui.dialog.applying => ~ui.dialog.loading /\ ~ui.dialog.failed /\ ui.dialog.seen # None
    /\ ui.dialog.loading \/ ui.dialog.failed => ui.dialog.target # None

\* The checkout page has one transaction and nothing of the billing page.
PlanPages ==
    /\ ui.at = "checkout" => /\ ui.dialog = Plan!Shut /\ ui.portal = Plan!NoPortal
                             /\ ui.busy = None
                             /\ \A c \in net : c.kind = "paddle"
                             /\ \A c, d \in net : c = d
    /\ ui.at = "billing" => ui.link = Plan!NoLink /\ \A c \in net : c.kind # "paddle"

\* A checkout that is under way beside a subscription was asked for early.
PlanEarly ==
    /\ \A c \in net : c.kind \in {"checkout", "paddle"} /\ srv.subs > 0 => srv.early
    /\ Plan!PaysOnce

PlanInv ==
    /\ ui \in PlanUi /\ net \subseteq PlanCalls /\ srv \in PlanSrv /\ odd \in 0..2
    /\ PlanTalk /\ PlanPages /\ PlanEarly
    /\ Plan!PricedFirst /\ Plan!MarkedIsOpen
    /\ ~Plan!Stuck

\* The parts of the page as they are opened.
LEMMA PlanFresh ==
    /\ Plan!Shut \in PlanDialog
    /\ Plan!Shut.target = None /\ Plan!Shut.seen = None /\ Plan!Shut.loading = FALSE
    /\ Plan!Shut.failed = FALSE /\ Plan!Shut.applying = FALSE
    /\ Plan!NoPortal \in [open : BOOLEAN, busy : BOOLEAN]
    /\ Plan!NoPortal.open = FALSE /\ Plan!NoPortal.busy = FALSE
    /\ Plan!NoLink \in PlanLink
    /\ Plan!NoLink.mark = FALSE /\ Plan!NoLink.opening = FALSE /\ Plan!NoLink.overlay = FALSE
    /\ Plan!NoLink.done = FALSE /\ Plan!NoLink.left = FALSE
  BY DEF Plan!Shut, Plan!NoPortal, Plan!NoLink, PlanDialog, PlanLink

\* The billing page as it is opened.
LEMMA PlanBilling ==
    ASSUME NEW s \in Plan!Standings
    PROVE  LET b == Plan!Billing(s) IN
           /\ b \in PlanUi /\ b.at = "billing" /\ b.busy = None /\ b.shown = s
           /\ b.dialog = Plan!Shut /\ b.portal = Plan!NoPortal /\ b.link = Plan!NoLink
  BY PlanFresh DEF Plan!Billing, PlanUi

\* The page is loaded anew, without calls.
LEMMA PlanFreshPage ==
    ASSUME NEW s \in Plan!Standings, ui' = Plan!Billing(s), net' = {}
    PROVE  /\ ui' \in PlanUi /\ PlanTalk' /\ PlanPages' /\ Plan!PricedFirst'
           /\ Plan!MarkedIsOpen' /\ ~Plan!Stuck'
<1>1. ui'.dialog = Plan!Shut /\ ui'.portal = Plan!NoPortal /\ ui'.link = Plan!NoLink
  BY PlanBilling
<1>2. ui' \in PlanUi /\ ui'.at = "billing" /\ ui'.busy = None
  BY PlanBilling
<1> QED
  BY <1>1, <1>2, PlanFresh DEF PlanTalk, PlanPages, Plan!PricedFirst, Plan!MarkedIsOpen,
     Plan!Stuck, Plan!Under

\* The invariant holds when the screen is opened.
LEMMA PlanInit == ASSUME Plan!Init PROVE PlanInv
<1>1. PICK s \in Plan!Standings :
        /\ srv = [real |-> IF s = "over" THEN "free" ELSE s, row |-> s,
                  subs |-> IF s \in Paid THEN 1 ELSE 0, early |-> FALSE]
        /\ ui = Plan!Billing(s)
  BY Zenon DEF Plan!Init
<1>2. srv \in PlanSrv /\ srv.subs < 2
  BY <1>1 DEF PlanSrv, Plan!Standings
<1>3. net = {} /\ odd \in 0..2
  BY DEF Plan!Init
<1>4. /\ ui \in PlanUi /\ ui.at = "billing" /\ ui.busy = None
      /\ ui.dialog = Plan!Shut /\ ui.portal = Plan!NoPortal /\ ui.link = Plan!NoLink
  BY <1>1, PlanBilling
<1>5. PlanTalk /\ PlanPages /\ Plan!PricedFirst /\ Plan!MarkedIsOpen /\ ~Plan!Stuck
  BY <1>3, <1>4, PlanFresh DEF PlanTalk, PlanPages, Plan!PricedFirst, Plan!MarkedIsOpen,
     Plan!Stuck, Plan!Under
<1> QED
  BY <1>2, <1>3, <1>4, <1>5 DEF PlanInv, PlanEarly, Plan!PaysOnce

\* Every step of the screen keeps the invariant.
LEMMA PlanStep == ASSUME None \notin Paid, PlanInv, Plan!Next PROVE PlanInv'
<1>1. ASSUME NEW p \in Paid, Plan!StartCheckout(p) PROVE PlanInv'
  <2> DEFINE e == [kind |-> "checkout", plan |-> p]
  <2>i. /\ e \in PlanCalls /\ e.kind = "checkout" /\ e.plan = p
        /\ net' = net \cup {e}
    BY <1>1 DEF Plan!StartCheckout, Plan!Call, PlanInv, PlanTalk, PlanUi, PlanDialog, PlanCalls
  <2> HIDE DEF e
  <2>1. ui' \in PlanUi
    BY <1>1, <2>i DEF Plan!StartCheckout, Plan!Offered, Plan!AtBilling, Plan!Manage, PlanInv, PlanUi,
       PlanDialog, PlanLink, PlanSrv, PlanCalls
  <2>2. net' \subseteq PlanCalls
    BY <1>1, <2>i DEF Plan!StartCheckout, Plan!Offered, Plan!AtBilling, Plan!Manage, PlanInv, PlanUi,
       PlanCalls
  <2>3. srv' \in PlanSrv /\ odd' \in 0..2
    BY <1>1, <2>i, Zenon DEF Plan!StartCheckout, Plan!Offered, Plan!AtBilling, Plan!Manage, PlanInv, PlanSrv,
       PlanCalls, Plan!Standings
  <2>4. PlanTalk'
    BY <1>1, <2>i DEF Plan!StartCheckout, Plan!Offered, Plan!AtBilling, Plan!Manage, PlanInv, PlanUi,
       PlanDialog, PlanTalk, PlanPages, PlanCalls
  <2>5. PlanPages'
    BY <1>1, <2>i DEF Plan!StartCheckout, Plan!Offered, Plan!AtBilling, Plan!Manage, PlanInv, PlanUi,
       PlanPages, PlanTalk, PlanCalls, Plan!Shut, Plan!NoPortal, Plan!NoLink
  <2>6. PlanEarly'
    BY <1>1, <2>i, Zenon DEF Plan!StartCheckout, Plan!Offered, Plan!AtBilling, Plan!Manage, PlanInv, PlanUi,
       PlanSrv, PlanCalls, PlanPages, PlanEarly, Plan!PaysOnce
  <2>7. Plan!PricedFirst' /\ Plan!MarkedIsOpen'
    BY <1>1, <2>i DEF Plan!StartCheckout, Plan!Offered, Plan!AtBilling, Plan!Manage, PlanInv, PlanUi,
       PlanDialog, PlanLink, PlanTalk, Plan!PricedFirst, Plan!MarkedIsOpen
  <2>8. ~Plan!Stuck'
    BY <1>1, <2>i DEF Plan!StartCheckout, Plan!Offered, Plan!AtBilling, Plan!Manage, PlanInv, PlanUi,
       PlanDialog, PlanCalls, Plan!Stuck, Plan!Under, PlanTalk, PlanPages
  <2> QED
    BY <2>1, <2>2, <2>3, <2>4, <2>5, <2>6, <2>7, <2>8 DEF PlanInv
<1>2. ASSUME NEW p \in Paid, Plan!OpenPaidPlanChange(p) PROVE PlanInv'
  <2> DEFINE e == [kind |-> "preview", plan |-> p]
  <2>i. /\ e \in PlanCalls /\ e.kind = "preview" /\ e.plan = p
        /\ net' = net \cup {e}
    BY <1>2 DEF Plan!OpenPaidPlanChange, Plan!Call, PlanInv, PlanTalk, PlanUi, PlanDialog, PlanCalls
  <2> HIDE DEF e
  <2>1. ui' \in PlanUi
    BY <1>2, PlanFresh, <2>i, Zenon DEF Plan!OpenPaidPlanChange, Plan!Offered, Plan!AtBilling, PlanInv, PlanUi,
       PlanDialog, PlanLink, PlanSrv, PlanCalls
  <2>2. net' \subseteq PlanCalls
    BY <1>2, PlanFresh, <2>i DEF Plan!OpenPaidPlanChange, Plan!Offered, Plan!AtBilling, PlanInv, PlanUi,
       PlanCalls
  <2>3. srv' \in PlanSrv /\ odd' \in 0..2
    BY <1>2, PlanFresh, <2>i DEF Plan!OpenPaidPlanChange, Plan!Offered, Plan!AtBilling, PlanInv,
       PlanSrv, PlanCalls, Plan!Standings
  <2>4. PlanTalk'
    BY <1>2, PlanFresh, <2>i, Zenon DEF Plan!OpenPaidPlanChange, Plan!Offered, Plan!AtBilling, PlanInv, PlanUi,
       PlanDialog, PlanTalk, PlanPages, PlanCalls
  <2>5. PlanPages'
    BY <1>2, PlanFresh, <2>i DEF Plan!OpenPaidPlanChange, Plan!Offered, Plan!AtBilling, PlanInv, PlanUi,
       PlanPages, PlanTalk, PlanCalls, Plan!Shut, Plan!NoPortal, Plan!NoLink
  <2>6. PlanEarly'
    BY <1>2, PlanFresh, <2>i DEF Plan!OpenPaidPlanChange, Plan!Offered, Plan!AtBilling, PlanInv, PlanUi,
       PlanSrv, PlanCalls, PlanPages, PlanEarly, Plan!PaysOnce
  <2>7. Plan!PricedFirst' /\ Plan!MarkedIsOpen'
    BY <1>2, PlanFresh, <2>i DEF Plan!OpenPaidPlanChange, Plan!Offered, Plan!AtBilling, PlanInv, PlanUi,
       PlanDialog, PlanLink, PlanTalk, Plan!PricedFirst, Plan!MarkedIsOpen
  <2>8. ~Plan!Stuck'
    BY <1>2, PlanFresh, <2>i, Zenon DEF Plan!OpenPaidPlanChange, Plan!Offered, Plan!AtBilling, PlanInv, PlanUi,
       PlanDialog, PlanCalls, Plan!Stuck, Plan!Under, PlanTalk, PlanPages
  <2> QED
    BY <2>1, <2>2, <2>3, <2>4, <2>5, <2>6, <2>7, <2>8 DEF PlanInv
<1>3. CASE Plan!Refresh
  <2>1. ui' \in PlanUi
    BY <1>3 DEF Plan!Refresh, Plan!AtBilling, PlanInv, PlanUi, PlanDialog, PlanLink, PlanSrv, PlanCalls
  <2>2. net' \subseteq PlanCalls
    BY <1>3 DEF Plan!Refresh, Plan!AtBilling, PlanInv, PlanUi, PlanCalls
  <2>3. srv' \in PlanSrv /\ odd' \in 0..2
    BY <1>3 DEF Plan!Refresh, Plan!AtBilling, PlanInv, PlanSrv, PlanCalls, Plan!Standings
  <2>4. PlanTalk'
    BY <1>3 DEF Plan!Refresh, Plan!AtBilling, PlanInv, PlanUi, PlanDialog, PlanTalk, PlanPages, PlanCalls
  <2>5. PlanPages'
    BY <1>3 DEF Plan!Refresh, Plan!AtBilling, PlanInv, PlanUi, PlanPages, PlanTalk, PlanCalls,
       Plan!Shut, Plan!NoPortal, Plan!NoLink
  <2>6. PlanEarly'
    BY <1>3 DEF Plan!Refresh, Plan!AtBilling, PlanInv, PlanUi, PlanSrv, PlanCalls, PlanPages, PlanEarly,
       Plan!PaysOnce
  <2>7. Plan!PricedFirst' /\ Plan!MarkedIsOpen'
    BY <1>3 DEF Plan!Refresh, Plan!AtBilling, PlanInv, PlanUi, PlanDialog, PlanLink, PlanTalk,
       Plan!PricedFirst, Plan!MarkedIsOpen
  <2>8. ~Plan!Stuck'
    BY <1>3 DEF Plan!Refresh, Plan!AtBilling, PlanInv, PlanUi, PlanDialog, PlanCalls, Plan!Stuck,
       Plan!Under, PlanTalk, PlanPages
  <2> QED
    BY <2>1, <2>2, <2>3, <2>4, <2>5, <2>6, <2>7, <2>8 DEF PlanInv
<1>4. CASE Plan!Webhook
  <2>1. ui' \in PlanUi
    BY <1>4 DEF Plan!Webhook, PlanInv, PlanUi, PlanDialog, PlanLink, PlanSrv, PlanCalls
  <2>2. net' \subseteq PlanCalls
    BY <1>4 DEF Plan!Webhook, PlanInv, PlanUi, PlanCalls
  <2>3. srv' \in PlanSrv /\ odd' \in 0..2
    BY <1>4 DEF Plan!Webhook, PlanInv, PlanSrv, PlanCalls, Plan!Standings
  <2>4. PlanTalk'
    BY <1>4 DEF Plan!Webhook, PlanInv, PlanUi, PlanDialog, PlanTalk, PlanPages, PlanCalls
  <2>5. PlanPages'
    BY <1>4 DEF Plan!Webhook, PlanInv, PlanUi, PlanPages, PlanTalk, PlanCalls, Plan!Shut, Plan!NoPortal,
       Plan!NoLink
  <2>6. PlanEarly'
    BY <1>4 DEF Plan!Webhook, PlanInv, PlanUi, PlanSrv, PlanCalls, PlanPages, PlanEarly, Plan!PaysOnce
  <2>7. Plan!PricedFirst' /\ Plan!MarkedIsOpen'
    BY <1>4 DEF Plan!Webhook, PlanInv, PlanUi, PlanDialog, PlanLink, PlanTalk, Plan!PricedFirst,
       Plan!MarkedIsOpen
  <2>8. ~Plan!Stuck'
    BY <1>4 DEF Plan!Webhook, PlanInv, PlanUi, PlanDialog, PlanCalls, Plan!Stuck, Plan!Under, PlanTalk,
       PlanPages
  <2> QED
    BY <2>1, <2>2, <2>3, <2>4, <2>5, <2>6, <2>7, <2>8 DEF PlanInv
<1>5. CASE Plan!TryAgain
  <2> DEFINE e == [kind |-> "preview", plan |-> ui.dialog.target]
  <2>i. /\ e \in PlanCalls /\ e.kind = "preview" /\ e.plan = ui.dialog.target
        /\ net' = net \cup {e}
    BY <1>5 DEF Plan!TryAgain, Plan!Call, PlanInv, PlanTalk, PlanUi, PlanDialog, PlanCalls
  <2> HIDE DEF e
  <2>1. ui' \in PlanUi
    BY <1>5, PlanFresh, <2>i, Zenon DEF Plan!TryAgain, PlanInv, PlanUi, PlanDialog, PlanLink, PlanSrv, PlanCalls
  <2>2. net' \subseteq PlanCalls
    BY <1>5, PlanFresh, <2>i DEF Plan!TryAgain, PlanInv, PlanUi, PlanCalls
  <2>3. srv' \in PlanSrv /\ odd' \in 0..2
    BY <1>5, PlanFresh, <2>i DEF Plan!TryAgain, PlanInv, PlanSrv, PlanCalls, Plan!Standings
  <2>4. PlanTalk'
    BY <1>5, PlanFresh, <2>i, Zenon DEF Plan!TryAgain, PlanInv, PlanUi, PlanDialog, PlanTalk, PlanPages, PlanCalls
  <2>5. PlanPages'
    BY <1>5, PlanFresh, <2>i DEF Plan!TryAgain, PlanInv, PlanUi, PlanPages, PlanTalk, PlanCalls,
       Plan!Shut, Plan!NoPortal, Plan!NoLink
  <2>6. PlanEarly'
    BY <1>5, PlanFresh, <2>i DEF Plan!TryAgain, PlanInv, PlanUi, PlanSrv, PlanCalls, PlanPages,
       PlanEarly, Plan!PaysOnce
  <2>7. Plan!PricedFirst' /\ Plan!MarkedIsOpen'
    BY <1>5, PlanFresh, <2>i DEF Plan!TryAgain, PlanInv, PlanUi, PlanDialog, PlanLink, PlanTalk,
       Plan!PricedFirst, Plan!MarkedIsOpen
  <2>8. ~Plan!Stuck'
    BY <1>5, PlanFresh, <2>i, Zenon DEF Plan!TryAgain, PlanInv, PlanUi, PlanDialog, PlanCalls, Plan!Stuck,
       Plan!Under, PlanTalk, PlanPages
  <2> QED
    BY <2>1, <2>2, <2>3, <2>4, <2>5, <2>6, <2>7, <2>8 DEF PlanInv
<1>6. CASE Plan!CloseDialog
  <2>1. ui' \in PlanUi
    BY <1>6, PlanFresh DEF Plan!CloseDialog, PlanInv, PlanUi, PlanDialog, PlanLink, PlanSrv, PlanCalls
  <2>2. net' \subseteq PlanCalls
    BY <1>6, PlanFresh DEF Plan!CloseDialog, PlanInv, PlanUi, PlanCalls
  <2>3. srv' \in PlanSrv /\ odd' \in 0..2
    BY <1>6, PlanFresh DEF Plan!CloseDialog, PlanInv, PlanSrv, PlanCalls, Plan!Standings
  <2>4. PlanTalk'
    BY <1>6, PlanFresh DEF Plan!CloseDialog, PlanInv, PlanUi, PlanDialog, PlanTalk, PlanPages, PlanCalls
  <2>5. PlanPages'
    BY <1>6, PlanFresh DEF Plan!CloseDialog, PlanInv, PlanUi, PlanPages, PlanTalk, PlanCalls, Plan!Shut,
       Plan!NoPortal, Plan!NoLink
  <2>6. PlanEarly'
    BY <1>6, PlanFresh DEF Plan!CloseDialog, PlanInv, PlanUi, PlanSrv, PlanCalls, PlanPages, PlanEarly,
       Plan!PaysOnce
  <2>7. Plan!PricedFirst' /\ Plan!MarkedIsOpen'
    BY <1>6, PlanFresh DEF Plan!CloseDialog, PlanInv, PlanUi, PlanDialog, PlanLink, PlanTalk,
       Plan!PricedFirst, Plan!MarkedIsOpen
  <2>8. ~Plan!Stuck'
    BY <1>6, PlanFresh DEF Plan!CloseDialog, PlanInv, PlanUi, PlanDialog, PlanCalls, Plan!Stuck,
       Plan!Under, PlanTalk, PlanPages
  <2> QED
    BY <2>1, <2>2, <2>3, <2>4, <2>5, <2>6, <2>7, <2>8 DEF PlanInv
<1>7. CASE Plan!HandleConfirm
  <2> DEFINE e == [kind |-> "change", plan |-> ui.dialog.target, seen |-> ui.dialog.seen]
  <2>i. /\ e \in PlanCalls /\ e.kind = "change" /\ e.plan = ui.dialog.target /\ e.seen = ui.dialog.seen
        /\ net' = net \cup {e}
    BY <1>7 DEF Plan!HandleConfirm, Plan!Call, PlanInv, PlanTalk, PlanUi, PlanDialog, PlanCalls
  <2> HIDE DEF e
  <2>1. ui' \in PlanUi
    BY <1>7, <2>i, Zenon DEF Plan!HandleConfirm, PlanInv, PlanUi, PlanDialog, PlanLink, PlanSrv, PlanCalls
  <2>2. net' \subseteq PlanCalls
    BY <1>7, <2>i DEF Plan!HandleConfirm, PlanInv, PlanUi, PlanCalls
  <2>3. srv' \in PlanSrv /\ odd' \in 0..2
    BY <1>7, <2>i DEF Plan!HandleConfirm, PlanInv, PlanSrv, PlanCalls, Plan!Standings
  <2>4. PlanTalk'
    BY <1>7, <2>i DEF Plan!HandleConfirm, PlanInv, PlanUi, PlanDialog, PlanTalk, PlanPages, PlanCalls
  <2>5. PlanPages'
    BY <1>7, <2>i DEF Plan!HandleConfirm, PlanInv, PlanUi, PlanPages, PlanTalk, PlanCalls, Plan!Shut,
       Plan!NoPortal, Plan!NoLink
  <2>6. PlanEarly'
    BY <1>7, <2>i DEF Plan!HandleConfirm, PlanInv, PlanUi, PlanSrv, PlanCalls, PlanPages, PlanEarly,
       Plan!PaysOnce
  <2>7. Plan!PricedFirst' /\ Plan!MarkedIsOpen'
    BY <1>7, <2>i DEF Plan!HandleConfirm, PlanInv, PlanUi, PlanDialog, PlanLink, PlanTalk,
       Plan!PricedFirst, Plan!MarkedIsOpen
  <2>8. ~Plan!Stuck'
    BY <1>7, <2>i DEF Plan!HandleConfirm, PlanInv, PlanUi, PlanDialog, PlanCalls, Plan!Stuck,
       Plan!Under, PlanTalk, PlanPages
  <2> QED
    BY <2>1, <2>2, <2>3, <2>4, <2>5, <2>6, <2>7, <2>8 DEF PlanInv
<1>8. CASE Plan!AskPortal
  <2>1. ui' \in PlanUi
    BY <1>8, Zenon DEF Plan!AskPortal, Plan!AtBilling, PlanInv, PlanUi, PlanDialog, PlanLink, PlanSrv, PlanCalls
  <2>2. net' \subseteq PlanCalls
    BY <1>8 DEF Plan!AskPortal, Plan!AtBilling, PlanInv, PlanUi, PlanCalls
  <2>3. srv' \in PlanSrv /\ odd' \in 0..2
    BY <1>8 DEF Plan!AskPortal, Plan!AtBilling, PlanInv, PlanSrv, PlanCalls, Plan!Standings
  <2>4. PlanTalk'
    BY <1>8 DEF Plan!AskPortal, Plan!AtBilling, PlanInv, PlanUi, PlanDialog, PlanTalk, PlanPages, PlanCalls
  <2>5. PlanPages'
    BY <1>8 DEF Plan!AskPortal, Plan!AtBilling, PlanInv, PlanUi, PlanPages, PlanTalk, PlanCalls,
       Plan!Shut, Plan!NoPortal, Plan!NoLink
  <2>6. PlanEarly'
    BY <1>8 DEF Plan!AskPortal, Plan!AtBilling, PlanInv, PlanUi, PlanSrv, PlanCalls, PlanPages,
       PlanEarly, Plan!PaysOnce
  <2>7. Plan!PricedFirst' /\ Plan!MarkedIsOpen'
    BY <1>8 DEF Plan!AskPortal, Plan!AtBilling, PlanInv, PlanUi, PlanDialog, PlanLink, PlanTalk,
       Plan!PricedFirst, Plan!MarkedIsOpen
  <2>8. ~Plan!Stuck'
    BY <1>8 DEF Plan!AskPortal, Plan!AtBilling, PlanInv, PlanUi, PlanDialog, PlanCalls, Plan!Stuck,
       Plan!Under, PlanTalk, PlanPages
  <2> QED
    BY <2>1, <2>2, <2>3, <2>4, <2>5, <2>6, <2>7, <2>8 DEF PlanInv
<1>9. CASE Plan!ClosePortal
  <2>1. ui' \in PlanUi
    BY <1>9, Zenon DEF Plan!ClosePortal, PlanInv, PlanUi, PlanDialog, PlanLink, PlanSrv, PlanCalls
  <2>2. net' \subseteq PlanCalls
    BY <1>9 DEF Plan!ClosePortal, PlanInv, PlanUi, PlanCalls
  <2>3. srv' \in PlanSrv /\ odd' \in 0..2
    BY <1>9 DEF Plan!ClosePortal, PlanInv, PlanSrv, PlanCalls, Plan!Standings
  <2>4. PlanTalk'
    BY <1>9 DEF Plan!ClosePortal, PlanInv, PlanUi, PlanDialog, PlanTalk, PlanPages, PlanCalls
  <2>5. PlanPages'
    BY <1>9 DEF Plan!ClosePortal, PlanInv, PlanUi, PlanPages, PlanTalk, PlanCalls, Plan!Shut,
       Plan!NoPortal, Plan!NoLink
  <2>6. PlanEarly'
    BY <1>9 DEF Plan!ClosePortal, PlanInv, PlanUi, PlanSrv, PlanCalls, PlanPages, PlanEarly, Plan!PaysOnce
  <2>7. Plan!PricedFirst' /\ Plan!MarkedIsOpen'
    BY <1>9 DEF Plan!ClosePortal, PlanInv, PlanUi, PlanDialog, PlanLink, PlanTalk, Plan!PricedFirst,
       Plan!MarkedIsOpen
  <2>8. ~Plan!Stuck'
    BY <1>9 DEF Plan!ClosePortal, PlanInv, PlanUi, PlanDialog, PlanCalls, Plan!Stuck, Plan!Under,
       PlanTalk, PlanPages
  <2> QED
    BY <2>1, <2>2, <2>3, <2>4, <2>5, <2>6, <2>7, <2>8 DEF PlanInv
<1>10. CASE Plan!OpenPortal
  <2> DEFINE e == [kind |-> "portal"]
  <2>i. /\ e \in PlanCalls /\ e.kind = "portal"
        /\ net' = net \cup {e}
    BY <1>10 DEF Plan!OpenPortal, Plan!Call, PlanInv, PlanTalk, PlanUi, PlanDialog, PlanCalls
  <2> HIDE DEF e
  <2>1. ui' \in PlanUi
    BY <1>10, <2>i, Zenon DEF Plan!OpenPortal, PlanInv, PlanUi, PlanDialog, PlanLink, PlanSrv, PlanCalls
  <2>2. net' \subseteq PlanCalls
    BY <1>10, <2>i DEF Plan!OpenPortal, PlanInv, PlanUi, PlanCalls
  <2>3. srv' \in PlanSrv /\ odd' \in 0..2
    BY <1>10, <2>i DEF Plan!OpenPortal, PlanInv, PlanSrv, PlanCalls, Plan!Standings
  <2>4. PlanTalk'
    BY <1>10, <2>i DEF Plan!OpenPortal, PlanInv, PlanUi, PlanDialog, PlanTalk, PlanPages, PlanCalls
  <2>5. PlanPages'
    BY <1>10, <2>i DEF Plan!OpenPortal, PlanInv, PlanUi, PlanPages, PlanTalk, PlanCalls, Plan!Shut,
       Plan!NoPortal, Plan!NoLink
  <2>6. PlanEarly'
    BY <1>10, <2>i DEF Plan!OpenPortal, PlanInv, PlanUi, PlanSrv, PlanCalls, PlanPages, PlanEarly,
       Plan!PaysOnce
  <2>7. Plan!PricedFirst' /\ Plan!MarkedIsOpen'
    BY <1>10, <2>i DEF Plan!OpenPortal, PlanInv, PlanUi, PlanDialog, PlanLink, PlanTalk,
       Plan!PricedFirst, Plan!MarkedIsOpen
  <2>8. ~Plan!Stuck'
    BY <1>10, <2>i DEF Plan!OpenPortal, PlanInv, PlanUi, PlanDialog, PlanCalls, Plan!Stuck, Plan!Under,
       PlanTalk, PlanPages
  <2> QED
    BY <2>1, <2>2, <2>3, <2>4, <2>5, <2>6, <2>7, <2>8 DEF PlanInv
<1>11. CASE Plan!PaddleLoads
  <2>1. ui' \in PlanUi
    BY <1>11, ZenonT(40) DEF Plan!PaddleLoads, PlanInv, PlanUi, PlanDialog, PlanLink, PlanSrv, PlanCalls
  <2>2. net' \subseteq PlanCalls
    BY <1>11 DEF Plan!PaddleLoads, PlanInv, PlanUi, PlanCalls
  <2>3. srv' \in PlanSrv /\ odd' \in 0..2
    BY <1>11 DEF Plan!PaddleLoads, PlanInv, PlanSrv, PlanCalls, Plan!Standings
  <2>4. PlanTalk'
    BY <1>11 DEF Plan!PaddleLoads, PlanInv, PlanUi, PlanDialog, PlanTalk, PlanPages, PlanCalls
  <2>5. PlanPages'
    BY <1>11 DEF Plan!PaddleLoads, PlanInv, PlanUi, PlanPages, PlanTalk, PlanCalls, Plan!Shut,
       Plan!NoPortal, Plan!NoLink
  <2>6. PlanEarly'
    BY <1>11 DEF Plan!PaddleLoads, PlanInv, PlanUi, PlanSrv, PlanCalls, PlanPages, PlanEarly, Plan!PaysOnce
  <2>7. Plan!PricedFirst' /\ Plan!MarkedIsOpen'
    BY <1>11, ZenonT(40) DEF Plan!PaddleLoads, PlanInv, PlanUi, PlanDialog, PlanLink, PlanTalk, Plan!PricedFirst,
       Plan!MarkedIsOpen
  <2>8. ~Plan!Stuck'
    BY <1>11 DEF Plan!PaddleLoads, PlanInv, PlanUi, PlanDialog, PlanCalls, Plan!Stuck, Plan!Under,
       PlanTalk, PlanPages
  <2> QED
    BY <2>1, <2>2, <2>3, <2>4, <2>5, <2>6, <2>7, <2>8 DEF PlanInv
<1>12. CASE Plan!PaddleFails
  <2>1. ui' \in PlanUi
    BY <1>12, Zenon DEF Plan!PaddleFails, Plan!OpenFailed, PlanInv, PlanUi, PlanDialog, PlanLink, PlanSrv, PlanCalls
  <2>2. net' \subseteq PlanCalls
    BY <1>12 DEF Plan!PaddleFails, Plan!OpenFailed, PlanInv, PlanUi, PlanCalls
  <2>3. srv' \in PlanSrv /\ odd' \in 0..2
    BY <1>12 DEF Plan!PaddleFails, Plan!OpenFailed, PlanInv, PlanSrv, PlanCalls, Plan!Standings
  <2>4. PlanTalk'
    BY <1>12 DEF Plan!PaddleFails, Plan!OpenFailed, PlanInv, PlanUi, PlanDialog, PlanTalk, PlanPages,
       PlanCalls
  <2>5. PlanPages'
    BY <1>12 DEF Plan!PaddleFails, Plan!OpenFailed, PlanInv, PlanUi, PlanPages, PlanTalk, PlanCalls,
       Plan!Shut, Plan!NoPortal, Plan!NoLink
  <2>6. PlanEarly'
    BY <1>12 DEF Plan!PaddleFails, Plan!OpenFailed, PlanInv, PlanUi, PlanSrv, PlanCalls, PlanPages,
       PlanEarly, Plan!PaysOnce
  <2>7. Plan!PricedFirst' /\ Plan!MarkedIsOpen'
    BY <1>12, Zenon DEF Plan!PaddleFails, Plan!OpenFailed, PlanInv, PlanUi, PlanDialog, PlanLink, PlanTalk,
       Plan!PricedFirst, Plan!MarkedIsOpen
  <2>8. ~Plan!Stuck'
    BY <1>12 DEF Plan!PaddleFails, Plan!OpenFailed, PlanInv, PlanUi, PlanDialog, PlanCalls, Plan!Stuck,
       Plan!Under, PlanTalk, PlanPages
  <2> QED
    BY <2>1, <2>2, <2>3, <2>4, <2>5, <2>6, <2>7, <2>8 DEF PlanInv
<1>13. CASE Plan!Reload
  <2>1. ui' \in PlanUi
    BY <1>13, PlanFresh, Zenon DEF Plan!Reload, Plan!AtCheckout, PlanInv, PlanUi, PlanDialog, PlanLink,
       PlanSrv, PlanCalls
  <2>2. net' \subseteq PlanCalls
    BY <1>13, PlanFresh DEF Plan!Reload, Plan!AtCheckout, PlanInv, PlanUi, PlanCalls
  <2>3. srv' \in PlanSrv /\ odd' \in 0..2
    BY <1>13, PlanFresh DEF Plan!Reload, Plan!AtCheckout, PlanInv, PlanSrv, PlanCalls, Plan!Standings
  <2>4. PlanTalk'
    BY <1>13, PlanFresh DEF Plan!Reload, Plan!AtCheckout, PlanInv, PlanUi, PlanDialog, PlanTalk,
       PlanPages, PlanCalls
  <2>5. PlanPages'
    BY <1>13, PlanFresh DEF Plan!Reload, Plan!AtCheckout, PlanInv, PlanUi, PlanPages, PlanTalk,
       PlanCalls, Plan!Shut, Plan!NoPortal, Plan!NoLink
  <2>6. PlanEarly'
    BY <1>13, PlanFresh DEF Plan!Reload, Plan!AtCheckout, PlanInv, PlanUi, PlanSrv, PlanCalls,
       PlanPages, PlanEarly, Plan!PaysOnce
  <2>7. Plan!PricedFirst' /\ Plan!MarkedIsOpen'
    BY <1>13, PlanFresh, Zenon DEF Plan!Reload, Plan!AtCheckout, PlanInv, PlanUi, PlanDialog, PlanLink,
       PlanTalk, Plan!PricedFirst, Plan!MarkedIsOpen
  <2>8. ~Plan!Stuck'
    BY <1>13, PlanFresh DEF Plan!Reload, Plan!AtCheckout, PlanInv, PlanUi, PlanDialog, PlanCalls,
       Plan!Stuck, Plan!Under, PlanTalk, PlanPages
  <2> QED
    BY <2>1, <2>2, <2>3, <2>4, <2>5, <2>6, <2>7, <2>8 DEF PlanInv
<1>14. CASE Plan!Leave
  <2>1. ui' \in PlanUi
    BY <1>14, Zenon DEF Plan!Leave, Plan!AtCheckout, PlanInv, PlanUi, PlanDialog, PlanLink, PlanSrv, PlanCalls
  <2>2. net' \subseteq PlanCalls
    BY <1>14 DEF Plan!Leave, Plan!AtCheckout, PlanInv, PlanUi, PlanCalls
  <2>3. srv' \in PlanSrv /\ odd' \in 0..2
    BY <1>14 DEF Plan!Leave, Plan!AtCheckout, PlanInv, PlanSrv, PlanCalls, Plan!Standings
  <2>4. PlanTalk'
    BY <1>14 DEF Plan!Leave, Plan!AtCheckout, PlanInv, PlanUi, PlanDialog, PlanTalk, PlanPages, PlanCalls
  <2>5. PlanPages'
    BY <1>14 DEF Plan!Leave, Plan!AtCheckout, PlanInv, PlanUi, PlanPages, PlanTalk, PlanCalls,
       Plan!Shut, Plan!NoPortal, Plan!NoLink
  <2>6. PlanEarly'
    BY <1>14 DEF Plan!Leave, Plan!AtCheckout, PlanInv, PlanUi, PlanSrv, PlanCalls, PlanPages, PlanEarly,
       Plan!PaysOnce
  <2>7. Plan!PricedFirst' /\ Plan!MarkedIsOpen'
    BY <1>14 DEF Plan!Leave, Plan!AtCheckout, PlanInv, PlanUi, PlanDialog, PlanLink, PlanTalk,
       Plan!PricedFirst, Plan!MarkedIsOpen
  <2>8. ~Plan!Stuck'
    BY <1>14 DEF Plan!Leave, Plan!AtCheckout, PlanInv, PlanUi, PlanDialog, PlanCalls, Plan!Stuck,
       Plan!Under, PlanTalk, PlanPages
  <2> QED
    BY <2>1, <2>2, <2>3, <2>4, <2>5, <2>6, <2>7, <2>8 DEF PlanInv
<1>15. CASE Plan!Pay
  <2>c. PICK c \in net : net' = net \ {c} /\ srv' = [srv EXCEPT !.subs = @ + 1, !.real = c.plan]
    BY <1>15, Zenon DEF Plan!Pay, Plan!Ends
  <2>p. ui.at = "checkout"
    BY <1>15, PlanFresh DEF Plan!Pay, PlanInv, PlanUi, PlanPages
  <2>k. c \in PlanCalls /\ c.kind = "paddle" /\ net' = {}
    BY <2>c, <2>p DEF PlanInv, PlanPages
  <2>d. c.plan \in Paid
    BY <2>k DEF PlanCalls
  <2>e. srv.subs > 0 => srv.early
    BY <2>c, <2>k DEF PlanInv, PlanEarly
  <2>i. srv' \in PlanSrv /\ srv'.subs = srv.subs + 1 /\ srv'.early = srv.early
    <3>1. srv.subs \in 0..1
      BY <1>15 DEF Plan!Pay, PlanInv, PlanSrv
    <3>2. srv.subs + 1 \in 0..2
      BY <3>1
    <3> QED
      BY <2>c, <2>d, <3>2, Zenon DEF PlanInv, PlanSrv
  <2>j. ui' = [ui EXCEPT !.link.done = TRUE] /\ odd' = odd
    BY <1>15 DEF Plan!Pay
  <2>1. ui' \in PlanUi
    BY <1>15, Zenon DEF Plan!Pay, Plan!Ends, PlanInv, PlanUi, PlanDialog, PlanLink, PlanSrv, PlanCalls
  <2>2. net' \subseteq PlanCalls
    BY <2>k
  <2>3. srv' \in PlanSrv /\ odd' \in 0..2
    BY <2>i, <2>j DEF PlanInv
  <2>4. PlanTalk'
    BY <1>15 DEF Plan!Pay, Plan!Ends, PlanInv, PlanUi, PlanDialog, PlanTalk, PlanPages, PlanCalls
  <2>5. PlanPages'
    BY <2>j, <2>k, <2>p DEF PlanInv, PlanUi, PlanPages
  <2>6. PlanEarly'
    <3>1. srv.subs \in Nat
      BY DEF PlanInv, PlanSrv
    <3> QED
      BY <2>i, <2>e, <2>k, <3>1 DEF PlanEarly, Plan!PaysOnce
  <2>7. Plan!PricedFirst' /\ Plan!MarkedIsOpen'
    BY <1>15 DEF Plan!Pay, Plan!Ends, PlanInv, PlanUi, PlanDialog, PlanLink, PlanTalk, Plan!PricedFirst,
       Plan!MarkedIsOpen
  <2>8. ~Plan!Stuck'
    BY <2>j, <2>k, <2>p, PlanFresh DEF PlanInv, PlanUi, PlanPages, Plan!Stuck, Plan!Under
  <2> QED
    BY <2>1, <2>2, <2>3, <2>4, <2>5, <2>6, <2>7, <2>8 DEF PlanInv
<1>16. CASE Plan!Success
  <2>r. srv.row \in Plan!Standings
    BY DEF PlanInv, PlanSrv
  <2>i. /\ ui' \in PlanUi /\ PlanTalk' /\ PlanPages' /\ Plan!PricedFirst'
        /\ Plan!MarkedIsOpen' /\ ~Plan!Stuck'
    BY <1>16, <2>r, PlanFreshPage DEF Plan!Success
  <2>1. ui' \in PlanUi
    BY <2>i
  <2>2. net' \subseteq PlanCalls
    BY <1>16, PlanFreshPage DEF Plan!Success, PlanInv, PlanUi, PlanCalls
  <2>3. srv' \in PlanSrv /\ odd' \in 0..2
    BY <1>16, PlanFreshPage DEF Plan!Success, PlanInv, PlanSrv, PlanCalls, Plan!Standings
  <2>4. PlanTalk'
    BY <2>i
  <2>5. PlanPages'
    BY <2>i
  <2>6. PlanEarly'
    BY <1>16, PlanFreshPage DEF Plan!Success, PlanInv, PlanUi, PlanSrv, PlanCalls, PlanPages, PlanEarly,
       Plan!PaysOnce
  <2>7. Plan!PricedFirst' /\ Plan!MarkedIsOpen'
    BY <2>i
  <2>8. ~Plan!Stuck'
    BY <2>i
  <2> QED
    BY <2>1, <2>2, <2>3, <2>4, <2>5, <2>6, <2>7, <2>8 DEF PlanInv
<1>17. CASE Plan!CloseOverlay
  <2>r. srv.row \in Plan!Standings
    BY DEF PlanInv, PlanSrv
  <2>j. srv' = srv /\ odd' = odd
    BY <1>17 DEF Plan!CloseOverlay
  <2>i. ui.at = "checkout"
    BY <1>17, PlanFresh DEF Plan!CloseOverlay, PlanInv, PlanUi, PlanPages
  <2>a. CASE ui' = Plan!Billing(srv.row) /\ net' = {}
    <3>1. /\ ui' \in PlanUi /\ PlanTalk' /\ PlanPages' /\ Plan!PricedFirst'
          /\ Plan!MarkedIsOpen' /\ ~Plan!Stuck'
      BY <2>a, <2>r, PlanFreshPage
    <3> QED
      BY <2>a, <2>j, <3>1 DEF PlanInv, PlanEarly, Plan!PaysOnce
  <2>b. SUFFICES ASSUME ui' = [ui EXCEPT !.link.overlay = FALSE], ui.link.left, net' = net PROVE PlanInv'
    BY <1>17, <2>a DEF Plan!CloseOverlay
  <2>1. ui' \in PlanUi
    BY <2>b, <2>i, <2>j, Zenon DEF PlanInv, PlanUi, PlanLink
  <2>2. net' \subseteq PlanCalls
    BY <2>b, <2>i, <2>j DEF PlanInv, PlanUi
  <2>3. srv' \in PlanSrv /\ odd' \in 0..2
    BY <2>b, <2>i, <2>j DEF PlanInv
  <2>4. PlanTalk'
    BY <2>b, <2>i, <2>j DEF PlanInv, PlanUi, PlanDialog, PlanTalk, PlanPages
  <2>5. PlanPages'
    BY <2>b, <2>i, <2>j DEF PlanInv, PlanUi, PlanPages
  <2>6. PlanEarly'
    BY <2>b, <2>i, <2>j DEF PlanInv, PlanEarly, Plan!PaysOnce
  <2>7. Plan!PricedFirst' /\ Plan!MarkedIsOpen'
    BY <2>b, <2>i, <2>j DEF PlanInv, PlanUi, PlanLink, Plan!PricedFirst, Plan!MarkedIsOpen
  <2>8. ~Plan!Stuck'
    BY <2>b, <2>i, <2>j DEF PlanInv, PlanUi, Plan!Stuck, Plan!Under
  <2> QED
    BY <2>1, <2>2, <2>3, <2>4, <2>5, <2>6, <2>7, <2>8 DEF PlanInv
<1>18. CASE Plan!GoToBilling
  <2>r. srv.row \in Plan!Standings
    BY DEF PlanInv, PlanSrv
  <2>i. /\ ui' \in PlanUi /\ PlanTalk' /\ PlanPages' /\ Plan!PricedFirst'
        /\ Plan!MarkedIsOpen' /\ ~Plan!Stuck'
    BY <1>18, <2>r, PlanFreshPage DEF Plan!GoToBilling
  <2>1. ui' \in PlanUi
    BY <2>i
  <2>2. net' \subseteq PlanCalls
    BY <1>18, PlanFreshPage DEF Plan!GoToBilling, PlanInv, PlanUi, PlanCalls
  <2>3. srv' \in PlanSrv /\ odd' \in 0..2
    BY <1>18, PlanFreshPage DEF Plan!GoToBilling, PlanInv, PlanSrv, PlanCalls, Plan!Standings
  <2>4. PlanTalk'
    BY <2>i
  <2>5. PlanPages'
    BY <2>i
  <2>6. PlanEarly'
    BY <1>18, PlanFreshPage DEF Plan!GoToBilling, PlanInv, PlanUi, PlanSrv, PlanCalls, PlanPages,
       PlanEarly, Plan!PaysOnce
  <2>7. Plan!PricedFirst' /\ Plan!MarkedIsOpen'
    BY <2>i
  <2>8. ~Plan!Stuck'
    BY <2>i
  <2> QED
    BY <2>1, <2>2, <2>3, <2>4, <2>5, <2>6, <2>7, <2>8 DEF PlanInv
<1>19. ASSUME NEW c \in net, Plan!PreviewReady(c) PROVE PlanInv'
  <2> DEFINE e == [ui.dialog EXCEPT !.seen = c.plan, !.loading = FALSE]
  <2>c. c.kind = "preview" /\ net' = net \ {c} /\ ui' = [ui EXCEPT !.dialog = e]
    BY <1>19, Zenon DEF Plan!PreviewReady, Plan!Fails, Plan!Ends, PlanInv, PlanUi, PlanDialog
  <2>d. c \in PlanCalls /\ c.plan \in Paid /\ c.plan = ui.dialog.target /\ ui.dialog.loading
    BY <2>c DEF PlanInv, PlanCalls, PlanTalk
  <2>e. /\ e \in PlanDialog /\ e.loading = FALSE /\ e.target = c.plan /\ e.applying = ui.dialog.applying
        /\ e.seen = c.plan /\ e.failed = ui.dialog.failed
    BY <2>d, Zenon DEF PlanInv, PlanUi, PlanDialog
  <2> HIDE DEF e
  <2>u. ui' \in PlanUi /\ ui'.dialog = e
    BY <2>c, <2>e DEF PlanInv, PlanUi
  <2>o. \A b \in net' : b.kind # "preview"
    <3> SUFFICES ASSUME NEW b \in net', b.kind = "preview" PROVE FALSE
      OBVIOUS
    <3>1. b \in PlanCalls /\ b.plan = c.plan /\ b # c
      BY <2>c, <2>d DEF PlanInv, PlanTalk
    <3>2. b = [kind |-> "preview", plan |-> b.plan] /\ c = [kind |-> "preview", plan |-> c.plan]
      BY <2>c, <2>d, <3>1 DEF PlanCalls
    <3> QED
      BY <3>1, <3>2
  <2>n. \A b \in net' : b.kind # "change"
    BY <2>c, <2>d DEF PlanInv, PlanTalk
  <2>1. ui' \in PlanUi
    BY <2>u
  <2>2. net' \subseteq PlanCalls
    BY <1>19 DEF Plan!PreviewReady, Plan!Ends, PlanInv, PlanUi, PlanCalls
  <2>3. srv' \in PlanSrv /\ odd' \in 0..2
    BY <1>19 DEF Plan!PreviewReady, Plan!Ends, PlanInv, PlanSrv, PlanCalls, Plan!Standings
  <2>4. PlanTalk'
    BY <2>c, <2>d, <2>e, <2>u, <2>o, <2>n DEF PlanInv, PlanTalk
  <2>5. PlanPages'
    BY <1>19 DEF Plan!PreviewReady, Plan!Ends, PlanInv, PlanUi, PlanPages, PlanTalk, PlanCalls,
       Plan!Shut, Plan!NoPortal, Plan!NoLink
  <2>6. PlanEarly'
    BY <1>19 DEF Plan!PreviewReady, Plan!Ends, PlanInv, PlanUi, PlanSrv, PlanCalls, PlanPages,
       PlanEarly, Plan!PaysOnce
  <2>7. Plan!PricedFirst' /\ Plan!MarkedIsOpen'
    BY <1>19 DEF Plan!PreviewReady, Plan!Ends, PlanInv, PlanUi, PlanDialog, PlanLink, PlanTalk,
       Plan!PricedFirst, Plan!MarkedIsOpen
  <2>8. ~Plan!Stuck'
    BY <1>19, Zenon DEF Plan!PreviewReady, Plan!Ends, PlanInv, PlanUi, PlanDialog, PlanCalls, Plan!Stuck,
       Plan!Under, PlanTalk, PlanPages
  <2> QED
    BY <2>1, <2>2, <2>3, <2>4, <2>5, <2>6, <2>7, <2>8 DEF PlanInv
<1>20. ASSUME NEW c \in net, Plan!Changed(c) PROVE PlanInv'
  <2>1. ui' \in PlanUi
    BY <1>20, PlanFresh, Zenon DEF Plan!Changed, Plan!Ends, PlanInv, PlanUi, PlanDialog, PlanLink, PlanSrv, PlanCalls
  <2>2. net' \subseteq PlanCalls
    BY <1>20, PlanFresh DEF Plan!Changed, Plan!Ends, PlanInv, PlanUi, PlanCalls
  <2>3. srv' \in PlanSrv /\ odd' \in 0..2
    BY <1>20, PlanFresh DEF Plan!Changed, Plan!Ends, PlanInv, PlanSrv, PlanCalls, Plan!Standings
  <2>4. PlanTalk'
    BY <1>20, PlanFresh DEF Plan!Changed, Plan!Ends, PlanInv, PlanUi, PlanDialog, PlanTalk, PlanPages,
       PlanCalls
  <2>5. PlanPages'
    BY <1>20, PlanFresh DEF Plan!Changed, Plan!Ends, PlanInv, PlanUi, PlanPages, PlanTalk, PlanCalls,
       Plan!Shut, Plan!NoPortal, Plan!NoLink
  <2>6. PlanEarly'
    BY <1>20, PlanFresh DEF Plan!Changed, Plan!Ends, PlanInv, PlanUi, PlanSrv, PlanCalls, PlanPages,
       PlanEarly, Plan!PaysOnce
  <2>7. Plan!PricedFirst' /\ Plan!MarkedIsOpen'
    BY <1>20, PlanFresh DEF Plan!Changed, Plan!Ends, PlanInv, PlanUi, PlanDialog, PlanLink, PlanTalk,
       Plan!PricedFirst, Plan!MarkedIsOpen
  <2>8. ~Plan!Stuck'
    BY <1>20, PlanFresh DEF Plan!Changed, Plan!Ends, PlanInv, PlanUi, PlanDialog, PlanCalls, Plan!Stuck,
       Plan!Under, PlanTalk, PlanPages
  <2> QED
    BY <2>1, <2>2, <2>3, <2>4, <2>5, <2>6, <2>7, <2>8 DEF PlanInv
<1>21. ASSUME NEW c \in net, Plan!Portal(c) PROVE PlanInv'
  <2>r. srv.row \in Plan!Standings
    BY DEF PlanInv, PlanSrv
  <2>i. /\ ui' \in PlanUi /\ PlanTalk' /\ PlanPages' /\ Plan!PricedFirst'
        /\ Plan!MarkedIsOpen' /\ ~Plan!Stuck'
    BY <1>21, <2>r, PlanFreshPage DEF Plan!Portal
  <2>1. ui' \in PlanUi
    BY <2>i
  <2>2. net' \subseteq PlanCalls
    BY <1>21, PlanFreshPage DEF Plan!Portal, PlanInv, PlanUi, PlanCalls
  <2>3. srv' \in PlanSrv /\ odd' \in 0..2
    <3>1. srv' \in PlanSrv
      <4>s. srv \in PlanSrv /\ 0 \in 0..2
        BY DEF PlanInv
      <4>1. CASE srv' = [srv EXCEPT !.real = "free", !.subs = 0]
        BY <4>1, <4>s, Zenon DEF PlanSrv
      <4>2. CASE srv' = srv
        BY <4>2 DEF PlanInv
      <4> QED
        BY <1>21, <4>1, <4>2 DEF Plan!Portal
    <3> QED
      BY <1>21, <3>1 DEF Plan!Portal, PlanInv
  <2>4. PlanTalk'
    BY <2>i
  <2>5. PlanPages'
    BY <2>i
  <2>6. PlanEarly'
    <3>1. CASE srv' = [srv EXCEPT !.real = "free", !.subs = 0]
      BY <1>21, <3>1 DEF Plan!Portal, PlanInv, PlanSrv, PlanEarly, Plan!PaysOnce
    <3>2. CASE srv' = srv
      BY <1>21, <3>2 DEF Plan!Portal, PlanInv, PlanEarly, Plan!PaysOnce
    <3> QED
      BY <1>21, <3>1, <3>2 DEF Plan!Portal
  <2>7. Plan!PricedFirst' /\ Plan!MarkedIsOpen'
    BY <2>i
  <2>8. ~Plan!Stuck'
    BY <2>i
  <2> QED
    BY <2>1, <2>2, <2>3, <2>4, <2>5, <2>6, <2>7, <2>8 DEF PlanInv
<1>22. ASSUME NEW c \in net, Plan!CheckoutReady(c) PROVE PlanInv'
  <2> DEFINE e == [kind |-> "paddle", plan |-> c.plan]
             l == [Plan!NoLink EXCEPT !.mark = TRUE, !.opening = TRUE]
  <2>e. e \in PlanCalls /\ e.kind = "paddle" /\ net' = {e}
    BY <1>22 DEF Plan!CheckoutReady, PlanInv, PlanCalls
  <2>l. l \in PlanLink /\ l.opening = TRUE
    BY PlanFresh, Zenon DEF PlanLink
  <2>b. ui' = [Plan!Billing(ui.shown) EXCEPT !.at = "checkout", !.link = l]
    BY <1>22 DEF Plan!CheckoutReady
  <2>s. c.kind = "checkout" /\ srv' = srv
    BY <1>22 DEF Plan!CheckoutReady
  <2> HIDE DEF e, l
  <2>t. ui.shown \in Plan!Standings
    BY DEF PlanInv, PlanUi
  <2> DEFINE b == Plan!Billing(ui.shown)
  <2>u. /\ b \in PlanUi /\ b.busy = None /\ b.dialog = Plan!Shut /\ b.portal = Plan!NoPortal
        /\ ui' = [b EXCEPT !.at = "checkout", !.link = l]
    BY <2>b, <2>t, PlanBilling
  <2> HIDE DEF b
  <2>i. /\ ui' \in PlanUi /\ ui'.at = "checkout" /\ ui'.busy = None /\ ui'.dialog = Plan!Shut
        /\ ui'.portal = Plan!NoPortal /\ ui'.link = l
    BY <2>l, <2>u, Zenon DEF PlanUi
  <2>1. ui' \in PlanUi
    BY <2>i
  <2>2. net' \subseteq PlanCalls
    BY <2>e
  <2>3. srv' \in PlanSrv /\ odd' \in 0..2
    BY <1>22, PlanFresh, PlanBilling DEF Plan!CheckoutReady, PlanInv, PlanSrv, PlanCalls, Plan!Standings
  <2>4. PlanTalk'
    BY <2>e, <2>i, PlanFresh DEF PlanTalk
  <2>5. PlanPages'
    BY <2>e, <2>i DEF PlanPages
  <2>6. PlanEarly'
    BY <2>e, <2>i, <2>s DEF PlanInv, PlanEarly, Plan!PaysOnce
  <2>7. Plan!PricedFirst' /\ Plan!MarkedIsOpen'
    BY <2>e, <2>i, <2>l DEF Plan!PricedFirst, Plan!MarkedIsOpen
  <2>8. ~Plan!Stuck'
    BY <2>e, <2>i, PlanFresh DEF Plan!Stuck, Plan!Under
  <2> QED
    BY <2>1, <2>2, <2>3, <2>4, <2>5, <2>6, <2>7, <2>8 DEF PlanInv
<1>23. ASSUME NEW c \in net, Plan!CheckoutFails(c) PROVE PlanInv'
  <2>1. ui' \in PlanUi
    BY <1>23 DEF Plan!CheckoutFails, Plan!Fails, Plan!Ends, PlanInv, PlanUi, PlanDialog, PlanLink,
       PlanSrv, PlanCalls
  <2>2. net' \subseteq PlanCalls
    BY <1>23 DEF Plan!CheckoutFails, Plan!Fails, Plan!Ends, PlanInv, PlanUi, PlanCalls
  <2>3. srv' \in PlanSrv /\ odd' \in 0..2
    BY <1>23 DEF Plan!CheckoutFails, Plan!Fails, Plan!Ends, PlanInv, PlanSrv, PlanCalls, Plan!Standings
  <2>4. PlanTalk'
    BY <1>23 DEF Plan!CheckoutFails, Plan!Fails, Plan!Ends, PlanInv, PlanUi, PlanDialog, PlanTalk,
       PlanPages, PlanCalls
  <2>5. PlanPages'
    BY <1>23 DEF Plan!CheckoutFails, Plan!Fails, Plan!Ends, PlanInv, PlanUi, PlanPages, PlanTalk,
       PlanCalls, Plan!Shut, Plan!NoPortal, Plan!NoLink
  <2>6. PlanEarly'
    BY <1>23 DEF Plan!CheckoutFails, Plan!Fails, Plan!Ends, PlanInv, PlanUi, PlanSrv, PlanCalls,
       PlanPages, PlanEarly, Plan!PaysOnce
  <2>7. Plan!PricedFirst' /\ Plan!MarkedIsOpen'
    BY <1>23 DEF Plan!CheckoutFails, Plan!Fails, Plan!Ends, PlanInv, PlanUi, PlanDialog, PlanLink,
       PlanTalk, Plan!PricedFirst, Plan!MarkedIsOpen
  <2>8. ~Plan!Stuck'
    BY <1>23 DEF Plan!CheckoutFails, Plan!Fails, Plan!Ends, PlanInv, PlanUi, PlanDialog, PlanCalls,
       Plan!Stuck, Plan!Under, PlanTalk, PlanPages
  <2> QED
    BY <2>1, <2>2, <2>3, <2>4, <2>5, <2>6, <2>7, <2>8 DEF PlanInv
<1>24. ASSUME NEW c \in net, Plan!PreviewFails(c) PROVE PlanInv'
  <2> DEFINE e == [ui.dialog EXCEPT !.failed = TRUE, !.loading = FALSE]
  <2>c. c.kind = "preview" /\ net' = net \ {c} /\ ui' = [ui EXCEPT !.dialog = e]
    BY <1>24, Zenon DEF Plan!PreviewFails, Plan!Fails, Plan!Ends, PlanInv, PlanUi, PlanDialog
  <2>d. c \in PlanCalls /\ c.plan \in Paid /\ c.plan = ui.dialog.target /\ ui.dialog.loading
    BY <2>c DEF PlanInv, PlanCalls, PlanTalk
  <2>e. /\ e \in PlanDialog /\ e.loading = FALSE /\ e.target = c.plan /\ e.applying = ui.dialog.applying
        /\ e.seen = ui.dialog.seen /\ e.failed = TRUE
    BY <2>d, Zenon DEF PlanInv, PlanUi, PlanDialog
  <2> HIDE DEF e
  <2>u. ui' \in PlanUi /\ ui'.dialog = e
    BY <2>c, <2>e DEF PlanInv, PlanUi
  <2>o. \A b \in net' : b.kind # "preview"
    <3> SUFFICES ASSUME NEW b \in net', b.kind = "preview" PROVE FALSE
      OBVIOUS
    <3>1. b \in PlanCalls /\ b.plan = c.plan /\ b # c
      BY <2>c, <2>d DEF PlanInv, PlanTalk
    <3>2. b = [kind |-> "preview", plan |-> b.plan] /\ c = [kind |-> "preview", plan |-> c.plan]
      BY <2>c, <2>d, <3>1 DEF PlanCalls
    <3> QED
      BY <3>1, <3>2
  <2>n. \A b \in net' : b.kind # "change"
    BY <2>c, <2>d DEF PlanInv, PlanTalk
  <2>1. ui' \in PlanUi
    BY <2>u
  <2>2. net' \subseteq PlanCalls
    BY <1>24 DEF Plan!PreviewFails, Plan!Fails, Plan!Ends, PlanInv, PlanUi, PlanCalls
  <2>3. srv' \in PlanSrv /\ odd' \in 0..2
    BY <1>24 DEF Plan!PreviewFails, Plan!Fails, Plan!Ends, PlanInv, PlanSrv, PlanCalls, Plan!Standings
  <2>4. PlanTalk'
    BY <2>c, <2>d, <2>e, <2>u, <2>o, <2>n DEF PlanInv, PlanTalk
  <2>5. PlanPages'
    BY <1>24 DEF Plan!PreviewFails, Plan!Fails, Plan!Ends, PlanInv, PlanUi, PlanPages, PlanTalk,
       PlanCalls, Plan!Shut, Plan!NoPortal, Plan!NoLink
  <2>6. PlanEarly'
    BY <1>24 DEF Plan!PreviewFails, Plan!Fails, Plan!Ends, PlanInv, PlanUi, PlanSrv, PlanCalls,
       PlanPages, PlanEarly, Plan!PaysOnce
  <2>7. Plan!PricedFirst' /\ Plan!MarkedIsOpen'
    BY <1>24 DEF Plan!PreviewFails, Plan!Fails, Plan!Ends, PlanInv, PlanUi, PlanDialog, PlanLink,
       PlanTalk, Plan!PricedFirst, Plan!MarkedIsOpen
  <2>8. ~Plan!Stuck'
    BY <1>24, Zenon DEF Plan!PreviewFails, Plan!Fails, Plan!Ends, PlanInv, PlanUi, PlanDialog, PlanCalls,
       Plan!Stuck, Plan!Under, PlanTalk, PlanPages
  <2> QED
    BY <2>1, <2>2, <2>3, <2>4, <2>5, <2>6, <2>7, <2>8 DEF PlanInv
<1>25. ASSUME NEW c \in net, Plan!ChangeFails(c) PROVE PlanInv'
  <2>1. ui' \in PlanUi
    BY <1>25, Zenon DEF Plan!ChangeFails, Plan!Fails, Plan!Ends, PlanInv, PlanUi, PlanDialog, PlanLink,
       PlanSrv, PlanCalls
  <2>2. net' \subseteq PlanCalls
    BY <1>25 DEF Plan!ChangeFails, Plan!Fails, Plan!Ends, PlanInv, PlanUi, PlanCalls
  <2>3. srv' \in PlanSrv /\ odd' \in 0..2
    BY <1>25 DEF Plan!ChangeFails, Plan!Fails, Plan!Ends, PlanInv, PlanSrv, PlanCalls, Plan!Standings
  <2>4. PlanTalk'
    BY <1>25 DEF Plan!ChangeFails, Plan!Fails, Plan!Ends, PlanInv, PlanUi, PlanDialog, PlanTalk,
       PlanPages, PlanCalls
  <2>5. PlanPages'
    BY <1>25 DEF Plan!ChangeFails, Plan!Fails, Plan!Ends, PlanInv, PlanUi, PlanPages, PlanTalk,
       PlanCalls, Plan!Shut, Plan!NoPortal, Plan!NoLink
  <2>6. PlanEarly'
    BY <1>25 DEF Plan!ChangeFails, Plan!Fails, Plan!Ends, PlanInv, PlanUi, PlanSrv, PlanCalls,
       PlanPages, PlanEarly, Plan!PaysOnce
  <2>7. Plan!PricedFirst' /\ Plan!MarkedIsOpen'
    BY <1>25 DEF Plan!ChangeFails, Plan!Fails, Plan!Ends, PlanInv, PlanUi, PlanDialog, PlanLink,
       PlanTalk, Plan!PricedFirst, Plan!MarkedIsOpen
  <2>8. ~Plan!Stuck'
    BY <1>25 DEF Plan!ChangeFails, Plan!Fails, Plan!Ends, PlanInv, PlanUi, PlanDialog, PlanCalls,
       Plan!Stuck, Plan!Under, PlanTalk, PlanPages
  <2> QED
    BY <2>1, <2>2, <2>3, <2>4, <2>5, <2>6, <2>7, <2>8 DEF PlanInv
<1>26. ASSUME NEW c \in net, Plan!PortalFails(c) PROVE PlanInv'
  <2>1. ui' \in PlanUi
    BY <1>26, Zenon DEF Plan!PortalFails, Plan!Fails, Plan!Ends, PlanInv, PlanUi, PlanDialog, PlanLink,
       PlanSrv, PlanCalls
  <2>2. net' \subseteq PlanCalls
    BY <1>26 DEF Plan!PortalFails, Plan!Fails, Plan!Ends, PlanInv, PlanUi, PlanCalls
  <2>3. srv' \in PlanSrv /\ odd' \in 0..2
    BY <1>26 DEF Plan!PortalFails, Plan!Fails, Plan!Ends, PlanInv, PlanSrv, PlanCalls, Plan!Standings
  <2>4. PlanTalk'
    BY <1>26 DEF Plan!PortalFails, Plan!Fails, Plan!Ends, PlanInv, PlanUi, PlanDialog, PlanTalk,
       PlanPages, PlanCalls
  <2>5. PlanPages'
    BY <1>26 DEF Plan!PortalFails, Plan!Fails, Plan!Ends, PlanInv, PlanUi, PlanPages, PlanTalk,
       PlanCalls, Plan!Shut, Plan!NoPortal, Plan!NoLink
  <2>6. PlanEarly'
    BY <1>26 DEF Plan!PortalFails, Plan!Fails, Plan!Ends, PlanInv, PlanUi, PlanSrv, PlanCalls,
       PlanPages, PlanEarly, Plan!PaysOnce
  <2>7. Plan!PricedFirst' /\ Plan!MarkedIsOpen'
    BY <1>26 DEF Plan!PortalFails, Plan!Fails, Plan!Ends, PlanInv, PlanUi, PlanDialog, PlanLink,
       PlanTalk, Plan!PricedFirst, Plan!MarkedIsOpen
  <2>8. ~Plan!Stuck'
    BY <1>26 DEF Plan!PortalFails, Plan!Fails, Plan!Ends, PlanInv, PlanUi, PlanDialog, PlanCalls,
       Plan!Stuck, Plan!Under, PlanTalk, PlanPages
  <2> QED
    BY <2>1, <2>2, <2>3, <2>4, <2>5, <2>6, <2>7, <2>8 DEF PlanInv
<1> QED
  BY <1>1, <1>2, <1>3, <1>4, <1>5, <1>6, <1>7, <1>8, <1>9, <1>10, <1>11, <1>12, <1>13, <1>14, <1>15,
     <1>16, <1>17, <1>18, <1>19, <1>20, <1>21, <1>22, <1>23, <1>24, <1>25, <1>26 DEF Plan!Next,
     Plan!Answer, Plan!Fail

\* What the invariant says of the screen.
LEMMA PlanHolds == ASSUME PlanInv PROVE Plan!TypeOK
<1>1. ui \in PlanUi
  BY DEF PlanInv
<1>2. /\ ui.at \in {"billing", "checkout"} /\ ui.shown \in Plan!Standings
      /\ ui.busy \in Paid \cup {None} /\ ui.dialog \in PlanDialog /\ ui.link \in PlanLink
      /\ ui.portal \in [open : BOOLEAN, busy : BOOLEAN]
  BY <1>1 DEF PlanUi
<1>3. \A f \in DOMAIN Plan!NoLink : ui.link[f] \in BOOLEAN
  BY <1>2 DEF PlanLink, Plan!NoLink
<1>4. srv.real \in Paid \cup {"free"} /\ srv.row \in Plan!Standings /\ srv.subs \in 0..2
  BY DEF PlanInv, PlanSrv
<1> QED
  BY <1>2, <1>3, <1>4 DEF PlanDialog, Plan!TypeOK

\* And so does a step that is not the screen's.
LEMMA PlanSame == ASSUME PlanInv, UNCHANGED vars PROVE PlanInv'
  BY DEF vars, PlanInv, Plan!MarkedIsOpen, Plan!PricedFirst, Plan!Stuck, PlanEarly, PlanPages, PlanTalk,
     Plan!Under, Plan!PaysOnce

-----------------------------------------------------------------------------
(***************************************************************************)
(* The settings of a project.                                              *)
(***************************************************************************)

ProjectTexts == {"", "old", "new"}

ProjectGeneral == [page : {"general"}, list : SUBSET Logs, ticked : SUBSET Logs,
                   busy : SUBSET Project!Busy, text : ProjectTexts, told : BOOLEAN, gone : BOOLEAN]
ProjectKeys == [page : {"keys"}, keys : SUBSET OldKeys, busy : SUBSET Project!Busy,
                asked : OldKeys \cup {None}, crossed : BOOLEAN]

\* The calls of either page.
GeneralCalls ==
    [kind : {"save"}, text : ProjectTexts] \cup [kind : {"delete"}]
      \cup [kind : {"restore", "purge"}, ids : SUBSET Logs]
      \cup [kind : {"list"}, flag : Project!Busy, last : BOOLEAN]
KeysCalls ==
    [kind : {"add"}] \cup [kind : {"remove"}, key : OldKeys]
      \cup [kind : {"keys"}, keys : SUBSET OldKeys, newest : BOOLEAN]

ProjectSrv == [log : [Logs -> {"deleted", "live", "purged"}], text : ProjectTexts, there : BOOLEAN,
               keys : SUBSET OldKeys]

ProjectTicks == ui \in ProjectGeneral /\ net \subseteq GeneralCalls /\ ui.ticked \subseteq ui.list

\* A page that tells of a save shows what is kept, unless it was emptied.
ProjectTold == ui.told /\ ui.text # "" => srv.text = ui.text

\* The newest list under way, or else the page, has the keys there are.
ProjectLists ==
    /\ ui \in ProjectKeys /\ net \subseteq KeysCalls
    /\ \A c \in net : c.kind = "keys" /\ c.newest => c.keys = srv.keys
    /\ ~ui.crossed /\ (\A c \in net : c.kind = "keys" => ~c.newest) => ui.keys = srv.keys

\* The call a flag is up for.
ProjectHolds(c, f) == IF c.kind = "list" THEN c.flag = f ELSE c.kind # "keys" /\ Project!FlagOf(c.kind) = f
ProjectServed == \A f \in ui.busy : \E c \in net : ProjectHolds(c, f)

ProjectInv ==
    /\ srv \in ProjectSrv /\ odd \in {0, 1}
    /\ (ProjectTicks /\ ProjectTold) \/ ProjectLists
    /\ ProjectServed

\* The flag of each kind of call.
LEMMA ProjectFlags ==
    /\ Project!FlagOf("save") = "saving" /\ Project!FlagOf("delete") = "deleting"
    /\ Project!FlagOf("restore") = "restoring" /\ Project!FlagOf("purge") = "purging"
    /\ Project!FlagOf("add") = "adding" /\ Project!FlagOf("remove") = "removing"
  BY DEF Project!FlagOf

\* A page is one of the two, and its state has that page's fields.
LEMMA ProjectPage ==
    ASSUME ProjectInv
    PROVE  /\ ui.page = "general" => ProjectTicks /\ ProjectTold
           /\ ui.page = "keys" => ProjectLists
           /\ ui.page \in {"general", "keys"}
  BY DEF ProjectInv, ProjectTicks, ProjectLists, ProjectGeneral, ProjectKeys

\* What a call of each page carries.
LEMMA ProjectKinds ==
    /\ \A c \in GeneralCalls : /\ c.kind \in {"save", "delete", "restore", "purge", "list"}
                               /\ c.kind = "save" => c.text \in ProjectTexts
                               /\ c.kind \in {"restore", "purge"} => c.ids \in SUBSET Logs
                               /\ c.kind = "list" => c.flag \in Project!Busy /\ c.last \in BOOLEAN
    /\ \A c \in KeysCalls : /\ c.kind \in {"add", "remove", "keys"}
                            /\ c.kind = "remove" => c.key \in OldKeys
                            /\ c.kind = "keys" => c.keys \in SUBSET OldKeys /\ c.newest \in BOOLEAN
  BY DEF GeneralCalls, KeysCalls

\* Readings that are overtaken are still awaited.
LEMMA ProjectOvertaken ==
    ASSUME NEW S \in SUBSET GeneralCalls
    PROVE  /\ Project!Overtaken(S) \subseteq GeneralCalls
           /\ \A f : (\E c \in S : ProjectHolds(c, f)) => \E c \in Project!Overtaken(S) : ProjectHolds(c, f)
<1> DEFINE g(d) == IF d.kind = "list" THEN [d EXCEPT !.last = FALSE] ELSE d
<1>1. ASSUME NEW d \in S PROVE g(d) \in GeneralCalls /\ \A f : ProjectHolds(d, f) => ProjectHolds(g(d), f)
  <2>1. CASE d.kind = "list"
    <3>1. d \in [kind : {"list"}, flag : Project!Busy, last : BOOLEAN]
      BY <2>1 DEF GeneralCalls
    <3>2. g(d) \in [kind : {"list"}, flag : Project!Busy, last : BOOLEAN] /\ g(d).flag = d.flag /\ g(d).kind = "list"
      BY <2>1, <3>1, Zenon
    <3> HIDE DEF g
    <3> QED
      BY <2>1, <3>2 DEF GeneralCalls, ProjectHolds
  <2>2. CASE d.kind # "list"
    BY <2>2
  <2> QED
    BY <2>1, <2>2, Zenon
<1>2. Project!Overtaken(S) = {g(d) : d \in S}
  BY DEF Project!Overtaken
<1> HIDE DEF g
<1> QED
  BY <1>1, <1>2

\* A new list makes the lists under way older, and no call is lost.
LEMMA ProjectOlder ==
    ASSUME NEW S \in SUBSET KeysCalls
    PROVE  /\ Project!Older(S) \subseteq KeysCalls
           /\ \A c \in Project!Older(S) : c.kind = "keys" => ~c.newest
           /\ \A f : (\E c \in S : ProjectHolds(c, f)) => \E c \in Project!Older(S) : ProjectHolds(c, f)
<1> DEFINE g(d) == IF d.kind = "keys" THEN [d EXCEPT !.newest = FALSE] ELSE d
<1>1. ASSUME NEW d \in S
      PROVE  /\ g(d) \in KeysCalls /\ (g(d).kind = "keys" => ~g(d).newest)
             /\ \A f : ProjectHolds(d, f) => ProjectHolds(g(d), f)
  <2>1. CASE d.kind = "keys"
    <3>1. d \in [kind : {"keys"}, keys : SUBSET OldKeys, newest : BOOLEAN]
      BY <2>1 DEF KeysCalls
    <3>2. g(d) \in [kind : {"keys"}, keys : SUBSET OldKeys, newest : BOOLEAN] /\ ~g(d).newest
      BY <2>1, <3>1, Zenon
    <3> HIDE DEF g
    <3> QED
      BY <2>1, <3>2 DEF KeysCalls, ProjectHolds
  <2>2. CASE d.kind # "keys"
    BY <2>2
  <2> QED
    BY <2>1, <2>2, Zenon
<1>2. Project!Older(S) = {g(d) : d \in S}
  BY DEF Project!Older
<1> HIDE DEF g
<1> QED
  BY <1>1, <1>2

\* The invariant holds when the screen is opened.
LEMMA ProjectInit == ASSUME Project!Init PROVE ProjectInv
<1>1. srv \in ProjectSrv /\ odd = 1 /\ net = {} /\ srv.keys = {k \in OldKeys : k = 1}
  BY DEF Project!Init, ProjectSrv, ProjectTexts
<1>2. CASE ui = Project!General
  <2>1. ui \in ProjectGeneral /\ ui.told = FALSE /\ ui.busy = {} /\ ui.ticked = {}
    BY <1>2 DEF Project!General, ProjectGeneral, ProjectTexts
  <2> QED
    BY <1>1, <2>1, Zenon DEF ProjectInv, ProjectTicks, ProjectTold, ProjectServed
<1>3. CASE ui = Project!KeyPage
  <2>1. ui \in ProjectKeys /\ ui.busy = {} /\ ui.keys = {k \in OldKeys : k = 1}
    BY <1>3 DEF Project!KeyPage, ProjectKeys
  <2> QED
    BY <1>1, <2>1 DEF ProjectInv, ProjectLists, ProjectServed
<1> QED
  BY <1>2, <1>3 DEF Project!Init

\* Every step of the screen keeps the invariant.
LEMMA ProjectStep == ASSUME ProjectInv, Project!Next PROVE ProjectInv'
<1>1. ASSUME NEW t \in ProjectTexts, Project!Type(t) PROVE ProjectInv'
  <2>g. ui \in ProjectGeneral /\ net \subseteq GeneralCalls /\ ui.ticked \subseteq ui.list /\ ProjectTold
    BY <1>1, ProjectPage DEF Project!Type, Project!AtGeneral, ProjectTicks
  <2>u. ui' \in ProjectGeneral /\ ui'.list = ui.list /\ ui'.ticked = ui.ticked /\ ui'.busy = ui.busy /\ ui'.text = t /\ ui'.told = FALSE
    BY <1>1, <2>g, Zenon DEF Project!Type, ProjectTexts, ProjectGeneral
  <2>1. srv' \in ProjectSrv
    BY <1>1 DEF Project!Type, ProjectInv
  <2>2. odd' \in {0, 1}
    BY <1>1 DEF Project!Type, ProjectInv
  <2>3. ((ProjectTicks /\ ProjectTold) \/ ProjectLists)'
    BY <1>1, <2>g, <2>u, Zenon DEF Project!Type, ProjectTicks, ProjectTold
  <2>4. ProjectServed'
    BY <1>1, <2>u DEF Project!Type, ProjectInv, ProjectServed
  <2> QED
    BY <2>1, <2>2, <2>3, <2>4 DEF ProjectInv
<1>2. ASSUME NEW l \in Logs, Project!Toggle(l) PROVE ProjectInv'
  <2>g. ui \in ProjectGeneral /\ net \subseteq GeneralCalls /\ ui.ticked \subseteq ui.list /\ ProjectTold
    BY <1>2, ProjectPage DEF Project!Toggle, Project!AtGeneral, ProjectTicks
  <2>u. ui' \in ProjectGeneral /\ ui'.list = ui.list /\ ui'.ticked = (IF l \in ui.ticked THEN ui.ticked \ {l} ELSE ui.ticked \cup {l}) /\ ui'.busy = ui.busy /\ ui'.text = ui.text /\ ui'.told = ui.told
    BY <1>2, <2>g DEF Project!Toggle, ProjectGeneral
  <2>t. ui'.ticked \subseteq ui'.list
    BY <1>2, <2>g, <2>u DEF Project!Toggle
  <2>n. UNCHANGED <<net, srv>>
    BY <1>2 DEF Project!Toggle
  <2>1. srv' \in ProjectSrv
    BY <1>2 DEF Project!Toggle, ProjectInv
  <2>2. odd' \in {0, 1}
    BY <1>2 DEF Project!Toggle, ProjectInv
  <2>3. ((ProjectTicks /\ ProjectTold) \/ ProjectLists)'
    BY <2>g, <2>u, <2>t, <2>n, Zenon DEF ProjectTicks, ProjectTold
  <2>4. ProjectServed'
    BY <1>2, <2>u DEF Project!Toggle, ProjectInv, ProjectServed
  <2> QED
    BY <2>1, <2>2, <2>3, <2>4 DEF ProjectInv
<1>3. ASSUME NEW k \in OldKeys, Project!AskRemove(k) PROVE ProjectInv'
  <2>g. ui \in ProjectKeys /\ net \subseteq KeysCalls /\ ProjectLists
    BY <1>3, ProjectPage DEF Project!AskRemove, Project!AtKeys, ProjectLists
  <2>u. ui' \in ProjectKeys /\ ui'.keys = ui.keys /\ ui'.busy = ui.busy /\ ui'.asked = k /\ ui'.crossed = ui.crossed
    BY <1>3, <2>g DEF Project!AskRemove, ProjectKeys
  <2>1. srv' \in ProjectSrv
    BY <1>3 DEF Project!AskRemove, ProjectInv
  <2>2. odd' \in {0, 1}
    BY <1>3 DEF Project!AskRemove, ProjectInv
  <2>3. ((ProjectTicks /\ ProjectTold) \/ ProjectLists)'
    BY <1>3, <2>g, <2>u DEF Project!AskRemove, ProjectLists
  <2>4. ProjectServed'
    BY <1>3, <2>u DEF Project!AskRemove, ProjectInv, ProjectServed
  <2> QED
    BY <2>1, <2>2, <2>3, <2>4 DEF ProjectInv
<1>4. CASE Project!Save
  <2>g. ui \in ProjectGeneral /\ net \subseteq GeneralCalls /\ ui.ticked \subseteq ui.list /\ ProjectTold
    BY <1>4, ProjectPage DEF Project!Save, Project!AtGeneral, ProjectTicks
  <2>u. ui' \in ProjectGeneral /\ ui'.list = ui.list /\ ui'.ticked = ui.ticked /\ ui'.busy = ui.busy \cup {"saving"} /\ ui'.text = ui.text /\ ui'.told = FALSE
    BY <1>4, <2>g, Zenon DEF Project!Save, Project!Busy, ProjectGeneral
  <2> DEFINE d == [kind |-> "save", text |-> ui.text]
  <2>d. d \in GeneralCalls /\ ProjectHolds(d, "saving") /\ net' = net \cup {d} /\ UNCHANGED <<srv, odd>>
    BY <1>4, <2>g, ProjectFlags DEF Project!Save, Project!Press, Project!Call, GeneralCalls,
       ProjectHolds, ProjectGeneral
  <2> HIDE DEF d
  <2>1. srv' \in ProjectSrv
    BY <2>d DEF ProjectInv
  <2>2. odd' \in {0, 1}
    BY <2>d DEF ProjectInv
  <2>3. ((ProjectTicks /\ ProjectTold) \/ ProjectLists)'
    BY <2>g, <2>u, <2>d, Zenon DEF ProjectTicks, ProjectTold
  <2>4. ProjectServed'
    BY <2>u, <2>d DEF ProjectInv, ProjectServed
  <2> QED
    BY <2>1, <2>2, <2>3, <2>4 DEF ProjectInv
<1>5. CASE Project!DeleteProject
  <2>g. ui \in ProjectGeneral /\ net \subseteq GeneralCalls /\ ui.ticked \subseteq ui.list /\ ProjectTold
    BY <1>5, ProjectPage DEF Project!DeleteProject, Project!AtGeneral, ProjectTicks
  <2>u. ui' \in ProjectGeneral /\ ui'.list = ui.list /\ ui'.ticked = ui.ticked /\ ui'.busy = ui.busy \cup {"deleting"} /\ ui'.text = ui.text /\ ui'.told = ui.told
    BY <1>5, <2>g DEF Project!DeleteProject, Project!Busy, ProjectGeneral
  <2> DEFINE d == [kind |-> "delete"]
  <2>d. d \in GeneralCalls /\ ProjectHolds(d, "deleting") /\ net' = net \cup {d} /\ UNCHANGED <<srv, odd>>
    BY <1>5, <2>g, ProjectFlags DEF Project!DeleteProject, Project!Press, Project!Call, GeneralCalls,
       ProjectHolds, ProjectGeneral
  <2> HIDE DEF d
  <2>1. srv' \in ProjectSrv
    BY <2>d DEF ProjectInv
  <2>2. odd' \in {0, 1}
    BY <2>d DEF ProjectInv
  <2>3. ((ProjectTicks /\ ProjectTold) \/ ProjectLists)'
    BY <2>g, <2>u, <2>d, Zenon DEF ProjectTicks, ProjectTold
  <2>4. ProjectServed'
    BY <2>u, <2>d DEF ProjectInv, ProjectServed
  <2> QED
    BY <2>1, <2>2, <2>3, <2>4 DEF ProjectInv
<1>6. CASE Project!Restore
  <2>g. ui \in ProjectGeneral /\ net \subseteq GeneralCalls /\ ui.ticked \subseteq ui.list /\ ProjectTold
    BY <1>6, ProjectPage DEF Project!Restore, Project!AtGeneral, ProjectTicks
  <2>u. ui' \in ProjectGeneral /\ ui'.list = ui.list /\ ui'.ticked = ui.ticked /\ ui'.busy = ui.busy \cup {"restoring"} /\ ui'.text = ui.text /\ ui'.told = ui.told
    BY <1>6, <2>g DEF Project!Restore, Project!Busy, ProjectGeneral
  <2> DEFINE d == [kind |-> "restore", ids |-> ui.ticked]
  <2>d. d \in GeneralCalls /\ ProjectHolds(d, "restoring") /\ net' = net \cup {d} /\ UNCHANGED <<srv, odd>>
    BY <1>6, <2>g, ProjectFlags DEF Project!Restore, Project!Press, Project!Call, GeneralCalls,
       ProjectHolds, ProjectGeneral
  <2> HIDE DEF d
  <2>1. srv' \in ProjectSrv
    BY <2>d DEF ProjectInv
  <2>2. odd' \in {0, 1}
    BY <2>d DEF ProjectInv
  <2>3. ((ProjectTicks /\ ProjectTold) \/ ProjectLists)'
    BY <2>g, <2>u, <2>d, Zenon DEF ProjectTicks, ProjectTold
  <2>4. ProjectServed'
    BY <2>u, <2>d DEF ProjectInv, ProjectServed
  <2> QED
    BY <2>1, <2>2, <2>3, <2>4 DEF ProjectInv
<1>7. CASE Project!Purge
  <2>g. ui \in ProjectGeneral /\ net \subseteq GeneralCalls /\ ui.ticked \subseteq ui.list /\ ProjectTold
    BY <1>7, ProjectPage DEF Project!Purge, Project!AtGeneral, ProjectTicks
  <2>u. ui' \in ProjectGeneral /\ ui'.list = ui.list /\ ui'.ticked = ui.ticked /\ ui'.busy = ui.busy \cup {"purging"} /\ ui'.text = ui.text /\ ui'.told = ui.told
    BY <1>7, <2>g DEF Project!Purge, Project!Busy, ProjectGeneral
  <2> DEFINE d == [kind |-> "purge", ids |-> ui.ticked]
  <2>d. d \in GeneralCalls /\ ProjectHolds(d, "purging") /\ net' = net \cup {d} /\ UNCHANGED <<srv, odd>>
    BY <1>7, <2>g, ProjectFlags DEF Project!Purge, Project!Press, Project!Call, GeneralCalls,
       ProjectHolds, ProjectGeneral
  <2> HIDE DEF d
  <2>1. srv' \in ProjectSrv
    BY <2>d DEF ProjectInv
  <2>2. odd' \in {0, 1}
    BY <2>d DEF ProjectInv
  <2>3. ((ProjectTicks /\ ProjectTold) \/ ProjectLists)'
    BY <2>g, <2>u, <2>d, Zenon DEF ProjectTicks, ProjectTold
  <2>4. ProjectServed'
    BY <2>u, <2>d DEF ProjectInv, ProjectServed
  <2> QED
    BY <2>1, <2>2, <2>3, <2>4 DEF ProjectInv
<1>8. CASE Project!OthersAct
  <2>g. ui \in ProjectGeneral /\ net \subseteq GeneralCalls /\ ui.ticked \subseteq ui.list /\ ProjectTold
    BY <1>8, ProjectPage DEF Project!OthersAct, Project!AtGeneral, ProjectTicks
  <2>s. srv' \in ProjectSrv /\ srv'.text = srv.text
    <3>1. CASE srv' = [srv EXCEPT !.there = FALSE]
      BY <3>1, Zenon DEF ProjectInv, ProjectSrv
    <3>2. ASSUME NEW l \in Logs, srv' = [srv EXCEPT !.log[l] = "purged"]
          PROVE  srv' \in ProjectSrv /\ srv'.text = srv.text
      BY <3>2 DEF ProjectInv, ProjectSrv
    <3> QED
      BY <1>8, <3>1, <3>2 DEF Project!OthersAct
  <2>1. srv' \in ProjectSrv
    BY <2>s
  <2>2. odd' \in {0, 1}
    BY <1>8 DEF Project!OthersAct, ProjectInv
  <2>3. ((ProjectTicks /\ ProjectTold) \/ ProjectLists)'
    BY <1>8, <2>g, <2>s, Zenon DEF Project!OthersAct, ProjectTicks, ProjectTold
  <2>4. ProjectServed'
    BY <1>8 DEF Project!OthersAct, ProjectInv, ProjectServed
  <2> QED
    BY <2>1, <2>2, <2>3, <2>4 DEF ProjectInv
<1>9. CASE Project!Add
  <2>g. ui \in ProjectKeys /\ net \subseteq KeysCalls /\ ProjectLists
    BY <1>9, ProjectPage DEF Project!Add, Project!AtKeys, ProjectLists
  <2>u. ui' \in ProjectKeys /\ ui'.keys = ui.keys /\ ui'.busy = ui.busy \cup {"adding"} /\ ui'.asked = ui.asked /\ ui'.crossed = ui.crossed
    BY <1>9, <2>g DEF Project!Add, Project!Busy, ProjectKeys
  <2> DEFINE d == [kind |-> "add"]
  <2>d. /\ d \in KeysCalls /\ d.kind = "add" /\ ProjectHolds(d, "adding")
        /\ net' = net \cup {d} /\ UNCHANGED <<srv, odd>>
    BY <1>9, ProjectFlags DEF Project!Add, Project!Press, Project!Call, KeysCalls, ProjectHolds
  <2> HIDE DEF d
  <2>1. srv' \in ProjectSrv
    BY <2>d DEF ProjectInv
  <2>2. odd' \in {0, 1}
    BY <2>d DEF ProjectInv
  <2>3. ((ProjectTicks /\ ProjectTold) \/ ProjectLists)'
    BY <2>g, <2>u, <2>d DEF ProjectLists
  <2>4. ProjectServed'
    BY <2>u, <2>d DEF ProjectInv, ProjectServed
  <2> QED
    BY <2>1, <2>2, <2>3, <2>4 DEF ProjectInv
<1>10. CASE Project!CloseAsk
  <2>g. ui \in ProjectKeys /\ net \subseteq KeysCalls /\ ProjectLists
    BY <1>10, ProjectPage DEF Project!CloseAsk, Project!AtKeys, ProjectLists
  <2>u. ui' \in ProjectKeys /\ ui'.keys = ui.keys /\ ui'.busy = ui.busy /\ ui'.asked = None /\ ui'.crossed = ui.crossed
    BY <1>10, <2>g DEF Project!CloseAsk, ProjectKeys
  <2>1. srv' \in ProjectSrv
    BY <1>10 DEF Project!CloseAsk, ProjectInv
  <2>2. odd' \in {0, 1}
    BY <1>10 DEF Project!CloseAsk, ProjectInv
  <2>3. ((ProjectTicks /\ ProjectTold) \/ ProjectLists)'
    BY <1>10, <2>g, <2>u DEF Project!CloseAsk, ProjectLists
  <2>4. ProjectServed'
    BY <1>10, <2>u DEF Project!CloseAsk, ProjectInv, ProjectServed
  <2> QED
    BY <2>1, <2>2, <2>3, <2>4 DEF ProjectInv
<1>11. CASE Project!RemoveKey
  <2>g. ui \in ProjectKeys /\ net \subseteq KeysCalls /\ ProjectLists
    BY <1>11, ProjectPage DEF Project!RemoveKey, Project!AtKeys, ProjectLists
  <2>u. ui' \in ProjectKeys /\ ui'.keys = ui.keys /\ ui'.busy = ui.busy \cup {"removing"} /\ ui'.asked = ui.asked /\ ui'.crossed = ui.crossed
    BY <1>11, <2>g DEF Project!RemoveKey, Project!Busy, ProjectKeys
  <2> DEFINE d == [kind |-> "remove", key |-> ui.asked]
  <2>d. /\ d \in KeysCalls /\ d.kind = "remove" /\ ProjectHolds(d, "removing")
        /\ net' = net \cup {d} /\ UNCHANGED <<srv, odd>>
    BY <1>11, <2>g, ProjectFlags DEF Project!RemoveKey, Project!Press, Project!Call, KeysCalls,
       ProjectHolds, ProjectKeys
  <2> HIDE DEF d
  <2>1. srv' \in ProjectSrv
    BY <2>d DEF ProjectInv
  <2>2. odd' \in {0, 1}
    BY <2>d DEF ProjectInv
  <2>3. ((ProjectTicks /\ ProjectTold) \/ ProjectLists)'
    BY <2>g, <2>u, <2>d DEF ProjectLists
  <2>4. ProjectServed'
    BY <2>u, <2>d DEF ProjectInv, ProjectServed
  <2> QED
    BY <2>1, <2>2, <2>3, <2>4 DEF ProjectInv
<1>12. ASSUME NEW c \in net, Project!Saved(c) PROVE ProjectInv'
  <2>g. ui \in ProjectGeneral /\ net \subseteq GeneralCalls /\ ui.ticked \subseteq ui.list /\ ProjectTold
    BY <1>12, ProjectKinds DEF Project!Saved, ProjectInv, ProjectTicks, ProjectLists
  <2>c. c.text \in ProjectTexts /\ c.kind = "save" /\ Project!Kept(c.text) \in ProjectTexts
    BY <1>12, <2>g, ProjectKinds, Zenon DEF Project!Saved, Project!Kept, ProjectInv, ProjectSrv
  <2>b. (ui.text = c.text) \in BOOLEAN
    OBVIOUS
  <2>u. ui' \in ProjectGeneral /\ ui'.list = ui.list /\ ui'.ticked = ui.ticked /\ ui'.busy = ui.busy \ {"saving"} /\ ui'.text = ui.text /\ ui'.told = (ui.text = c.text)
    BY <1>12, <2>g, <2>c, <2>b, Zenon DEF Project!Saved, ProjectGeneral
  <2>1. srv' \in ProjectSrv
    BY <1>12, <2>c DEF Project!Saved, ProjectInv, ProjectSrv
  <2>2. odd' \in {0, 1}
    BY <1>12 DEF Project!Saved, Project!Ends, ProjectInv
  <2>3. ((ProjectTicks /\ ProjectTold) \/ ProjectLists)'
    <3>1. srv'.text = Project!Kept(c.text) /\ net' \subseteq net
      BY <1>12 DEF Project!Saved, Project!Ends, ProjectInv, ProjectSrv
    <3> QED
      BY <2>g, <2>u, <3>1, Zenon DEF ProjectTicks, ProjectTold, Project!Kept
  <2>4. ProjectServed'
    <3>1. net' = net \ {c} /\ \A f : ProjectHolds(c, f) => f = "saving"
      BY <1>12, ProjectFlags DEF Project!Saved, Project!Ends, ProjectHolds
    <3> QED
      BY <2>u, <3>1 DEF ProjectInv, ProjectServed
  <2> QED
    BY <2>1, <2>2, <2>3, <2>4 DEF ProjectInv
<1>13. ASSUME NEW c \in net, Project!ProjectDeleted(c) PROVE ProjectInv'
  <2>g. ui \in ProjectGeneral /\ net \subseteq GeneralCalls /\ ui.ticked \subseteq ui.list /\ ProjectTold
    BY <1>13, ProjectKinds DEF Project!ProjectDeleted, ProjectInv, ProjectTicks, ProjectLists
  <2>u. ui' \in ProjectGeneral /\ ui'.list = ui.list /\ ui'.ticked = ui.ticked /\ ui'.busy = {} /\ ui'.text = ui.text /\ ui'.told = ui.told
    BY <1>13, <2>g, Zenon DEF Project!ProjectDeleted, ProjectGeneral
  <2>1. srv' \in ProjectSrv
    BY <1>13, Zenon DEF Project!ProjectDeleted, ProjectInv, ProjectSrv
  <2>2. odd' \in {0, 1}
    BY <1>13 DEF Project!ProjectDeleted, ProjectInv
  <2>3. ((ProjectTicks /\ ProjectTold) \/ ProjectLists)'
    <3>1. srv'.text = srv.text /\ net' = {}
      BY <1>13 DEF Project!ProjectDeleted, ProjectInv, ProjectSrv
    <3> QED
      BY <2>g, <2>u, <3>1, Zenon DEF ProjectTicks, ProjectTold
  <2>4. ProjectServed'
    BY <2>u DEF ProjectServed
  <2> QED
    BY <2>1, <2>2, <2>3, <2>4 DEF ProjectInv
<1>14. ASSUME NEW c \in net, Project!BatchDone(c) PROVE ProjectInv'
  <2>g. ui \in ProjectGeneral /\ net \subseteq GeneralCalls /\ ui.ticked \subseteq ui.list /\ ProjectTold
    BY <1>14, ProjectKinds DEF Project!BatchDone, ProjectInv, ProjectTicks, ProjectLists
  <2>u. ui' \in ProjectGeneral /\ ui'.list = ui.list /\ ui'.ticked = {} /\ ui'.busy = ui.busy /\ ui'.text = ui.text /\ ui'.told = ui.told
    BY <1>14, <2>g DEF Project!BatchDone, ProjectGeneral
  <2> DEFINE d == [kind |-> "list", flag |-> Project!FlagOf(c.kind), last |-> TRUE]
             S == net \ {c}
  <2>d. /\ d \in GeneralCalls /\ d.kind = "list" /\ net' = Project!Overtaken(S) \cup {d}
        /\ \A f : ProjectHolds(c, f) => ProjectHolds(d, f)
    BY <1>14, ProjectFlags DEF Project!BatchDone, Project!Busy, GeneralCalls, ProjectHolds
  <2>o. /\ S \in SUBSET GeneralCalls /\ Project!Overtaken(S) \subseteq GeneralCalls
        /\ \A f : (\E e \in S : ProjectHolds(e, f)) => \E e \in Project!Overtaken(S) : ProjectHolds(e, f)
    BY <2>g, ProjectOvertaken
  <2>s. srv' \in ProjectSrv /\ srv'.text = srv.text
    BY <1>14 DEF Project!BatchDone, ProjectInv, ProjectSrv
  <2> HIDE DEF d
  <2>1. srv' \in ProjectSrv
    BY <2>s
  <2>2. odd' \in {0, 1}
    BY <1>14 DEF Project!BatchDone, ProjectInv
  <2>3. ((ProjectTicks /\ ProjectTold) \/ ProjectLists)'
    BY <2>g, <2>u, <2>d, <2>o, <2>s, Zenon DEF ProjectTicks, ProjectTold
  <2>4. ProjectServed'
    BY <2>u, <2>d, <2>o, Zenon DEF ProjectInv, ProjectServed
  <2> QED
    BY <2>1, <2>2, <2>3, <2>4 DEF ProjectInv
<1>15. ASSUME NEW c \in net, Project!ListRead(c) PROVE ProjectInv'
  <2>g. ui \in ProjectGeneral /\ net \subseteq GeneralCalls /\ ui.ticked \subseteq ui.list /\ ProjectTold
    BY <1>15, ProjectKinds DEF Project!ListRead, ProjectInv, ProjectTicks, ProjectLists
  <2>p. PICK list \in SUBSET Logs : ui' = [ui EXCEPT !.list = list, !.ticked = Project!Pruned(list), !.busy = @ \ {c.flag}]
    BY <1>15, <2>g, Zenon DEF Project!ListRead, ProjectGeneral
  <2>u. ui' \in ProjectGeneral /\ ui'.list = list /\ ui'.ticked = ui.ticked \cap list /\ ui'.busy = ui.busy \ {c.flag}
        /\ ui'.text = ui.text /\ ui'.told = ui.told
    BY <2>g, <2>p, Zenon DEF Project!Pruned, ProjectGeneral
  <2>1. srv' \in ProjectSrv
    BY <1>15 DEF Project!ListRead, Project!Ends, ProjectInv
  <2>2. odd' \in {0, 1}
    BY <1>15 DEF Project!ListRead, Project!Ends, ProjectInv
  <2>3. ((ProjectTicks /\ ProjectTold) \/ ProjectLists)'
    BY <1>15, <2>g, <2>u, Zenon DEF Project!ListRead, Project!Ends, ProjectTicks, ProjectTold
  <2>4. ProjectServed'
    <3>1. net' = net \ {c} /\ \A f : ProjectHolds(c, f) => f = c.flag
      BY <1>15, ProjectFlags DEF Project!ListRead, Project!Ends, ProjectHolds
    <3> QED
      BY <2>u, <3>1 DEF ProjectInv, ProjectServed
  <2> QED
    BY <2>1, <2>2, <2>3, <2>4 DEF ProjectInv
<1>16. ASSUME NEW c \in net, Project!Added(c) PROVE ProjectInv'
  <2>g. ui \in ProjectKeys /\ net \subseteq KeysCalls /\ ProjectLists
    BY <1>16, ProjectKinds DEF Project!Added, ProjectInv, ProjectTicks, ProjectLists
  <2>u. ui' \in ProjectKeys /\ ui'.keys = ui.keys /\ ui'.busy = ui.busy \ {"adding"} /\ ui'.asked = ui.asked /\ ui'.crossed = ui.crossed
    BY <1>16, <2>g DEF Project!Added, ProjectKeys
  <2>p. PICK keys \in SUBSET OldKeys : Project!KeysChange(c, keys)
    BY <1>16 DEF Project!Added, ProjectInv, ProjectSrv
  <2> DEFINE d == [kind |-> "keys", keys |-> keys, newest |-> TRUE]
             S == net \ {c}
  <2>d. d \in KeysCalls /\ d.kind = "keys" /\ d.newest /\ d.keys = keys
    BY DEF KeysCalls
  <2>n. net' = Project!Older(S) \cup {d} /\ UNCHANGED odd
    BY <2>p DEF Project!KeysChange
  <2>o. /\ S \in SUBSET KeysCalls /\ Project!Older(S) \subseteq KeysCalls
        /\ \A e \in Project!Older(S) : e.kind = "keys" => ~e.newest
        /\ \A f : (\E e \in S : ProjectHolds(e, f)) => \E e \in Project!Older(S) : ProjectHolds(e, f)
    BY <2>g, ProjectOlder
  <2>s. srv' \in ProjectSrv /\ srv'.keys = keys
    BY <2>p DEF Project!KeysChange, ProjectInv, ProjectSrv
  <2> HIDE DEF d
  <2>1. srv' \in ProjectSrv
    BY <2>s
  <2>2. odd' \in {0, 1}
    BY <2>n DEF ProjectInv
  <2>3. ((ProjectTicks /\ ProjectTold) \/ ProjectLists)'
    BY <2>u, <2>d, <2>n, <2>o, <2>s, Zenon DEF ProjectLists
  <2>4. ProjectServed'
    <3>1. \A f : ProjectHolds(c, f) => f = "adding"
      BY <1>16, ProjectFlags DEF Project!Added, ProjectHolds
    <3> QED
      BY <2>u, <2>n, <2>o, <3>1, Zenon DEF ProjectInv, ProjectServed
  <2> QED
    BY <2>1, <2>2, <2>3, <2>4 DEF ProjectInv
<1>17. ASSUME NEW c \in net, Project!KeyRemoved(c) PROVE ProjectInv'
  <2>g. ui \in ProjectKeys /\ net \subseteq KeysCalls /\ ProjectLists
    BY <1>17, ProjectKinds DEF Project!KeyRemoved, ProjectInv, ProjectTicks, ProjectLists
  <2>u. ui' \in ProjectKeys /\ ui'.keys = ui.keys /\ ui'.busy = ui.busy \ {"removing"} /\ ui'.asked = None /\ ui'.crossed = ui.crossed
    BY <1>17, <2>g, Zenon DEF Project!KeyRemoved, ProjectKeys
  <2>p. PICK keys \in SUBSET OldKeys : Project!KeysChange(c, keys)
    BY <1>17 DEF Project!KeyRemoved, ProjectInv, ProjectSrv
  <2> DEFINE d == [kind |-> "keys", keys |-> keys, newest |-> TRUE]
             S == net \ {c}
  <2>d. d \in KeysCalls /\ d.kind = "keys" /\ d.newest /\ d.keys = keys
    BY DEF KeysCalls
  <2>n. net' = Project!Older(S) \cup {d} /\ UNCHANGED odd
    BY <2>p DEF Project!KeysChange
  <2>o. /\ S \in SUBSET KeysCalls /\ Project!Older(S) \subseteq KeysCalls
        /\ \A e \in Project!Older(S) : e.kind = "keys" => ~e.newest
        /\ \A f : (\E e \in S : ProjectHolds(e, f)) => \E e \in Project!Older(S) : ProjectHolds(e, f)
    BY <2>g, ProjectOlder
  <2>s. srv' \in ProjectSrv /\ srv'.keys = keys
    BY <2>p DEF Project!KeysChange, ProjectInv, ProjectSrv
  <2> HIDE DEF d
  <2>1. srv' \in ProjectSrv
    BY <2>s
  <2>2. odd' \in {0, 1}
    BY <2>n DEF ProjectInv
  <2>3. ((ProjectTicks /\ ProjectTold) \/ ProjectLists)'
    BY <2>u, <2>d, <2>n, <2>o, <2>s, Zenon DEF ProjectLists
  <2>4. ProjectServed'
    <3>1. \A f : ProjectHolds(c, f) => f = "removing"
      BY <1>17, ProjectFlags DEF Project!KeyRemoved, ProjectHolds
    <3> QED
      BY <2>u, <2>n, <2>o, <3>1, Zenon DEF ProjectInv, ProjectServed
  <2> QED
    BY <2>1, <2>2, <2>3, <2>4 DEF ProjectInv
<1>18. ASSUME NEW c \in net, Project!KeysRead(c) PROVE ProjectInv'
  <2>g. ui \in ProjectKeys /\ net \subseteq KeysCalls /\ ProjectLists
    BY <1>18, ProjectKinds DEF Project!KeysRead, ProjectInv, ProjectTicks, ProjectLists
  <2>c. c.keys \in SUBSET OldKeys /\ c.newest \in BOOLEAN /\ (~c.newest) \in BOOLEAN
    BY <1>18, <2>g, ProjectKinds DEF Project!KeysRead
  <2>u. ui' \in ProjectKeys /\ ui'.keys = c.keys /\ ui'.busy = ui.busy /\ ui'.asked = ui.asked /\ ui'.crossed = ~c.newest
    BY <1>18, <2>g, <2>c, Zenon DEF Project!KeysRead, ProjectKeys
  <2>1. srv' \in ProjectSrv
    BY <1>18 DEF Project!KeysRead, Project!Ends, ProjectInv
  <2>2. odd' \in {0, 1}
    BY <1>18 DEF Project!KeysRead, Project!Ends, ProjectInv
  <2>3. ((ProjectTicks /\ ProjectTold) \/ ProjectLists)'
    BY <1>18, <2>g, <2>u, <2>c, Zenon DEF Project!KeysRead, Project!Ends, ProjectLists
  <2>4. ProjectServed'
    <3>1. net' = net \ {c} /\ \A f : ~ProjectHolds(c, f)
      BY <1>18 DEF Project!KeysRead, Project!Ends, ProjectHolds
    <3> QED
      BY <2>u, <3>1 DEF ProjectInv, ProjectServed
  <2> QED
    BY <2>1, <2>2, <2>3, <2>4 DEF ProjectInv
<1>19. ASSUME NEW c \in net, Project!ChangeFails(c) PROVE ProjectInv'
  <2>n. net' = net \ {c} /\ srv' = srv
    BY <1>19 DEF Project!ChangeFails, Project!Fails, Project!Ends
  <2>b. ui' = [ui EXCEPT !.busy = @ \ {Project!FlagOf(c.kind)}]
    BY <1>19 DEF Project!ChangeFails
  <2>1. srv' \in ProjectSrv
    BY <2>n DEF ProjectInv
  <2>2. odd' \in {0, 1}
    BY <1>19 DEF Project!ChangeFails, Project!Fails, Project!Ends, ProjectInv
  <2>3. ((ProjectTicks /\ ProjectTold) \/ ProjectLists)'
    <3>1. CASE ui \in ProjectGeneral /\ ProjectTicks /\ ProjectTold
      BY <2>n, <2>b, <3>1, Zenon DEF ProjectTicks, ProjectTold, ProjectGeneral
    <3>2. CASE ui \in ProjectKeys /\ ProjectLists
      <4>1. /\ ui' \in ProjectKeys /\ ui'.crossed = ui.crossed /\ ui'.keys = ui.keys
            /\ \A e \in net : e.kind = "keys" => e \in net'
        BY <1>19, <2>n, <2>b, <3>2 DEF Project!ChangeFails, ProjectKeys
      <4> QED
        BY <2>n, <3>2, <4>1 DEF ProjectLists
    <3> QED
      BY <3>1, <3>2 DEF ProjectInv, ProjectTicks, ProjectLists
  <2>4. ProjectServed'
    <3>1. ui'.busy = ui.busy \ {Project!FlagOf(c.kind)}
      BY <2>b DEF ProjectInv, ProjectTicks, ProjectLists, ProjectGeneral, ProjectKeys
    <3>2. \A f : ProjectHolds(c, f) => f = Project!FlagOf(c.kind)
      BY <1>19 DEF Project!ChangeFails, ProjectHolds
    <3> QED
      BY <2>n, <3>1, <3>2 DEF ProjectInv, ProjectServed
  <2> QED
    BY <2>1, <2>2, <2>3, <2>4 DEF ProjectInv
<1>20. ASSUME NEW c \in net, Project!KeysUnread(c) PROVE ProjectInv'
  <2>g. ui \in ProjectKeys /\ net \subseteq KeysCalls /\ ProjectLists
    BY <1>20, ProjectKinds DEF Project!KeysUnread, ProjectInv, ProjectTicks, ProjectLists
  <2>u. ui' \in ProjectKeys /\ ui'.keys = {} /\ ui'.busy = ui.busy /\ ui'.asked = ui.asked /\ ui'.crossed = TRUE
    BY <1>20, <2>g, Zenon DEF Project!KeysUnread, ProjectKeys
  <2>1. srv' \in ProjectSrv
    BY <1>20 DEF Project!KeysUnread, Project!Fails, Project!Ends, ProjectInv
  <2>2. odd' \in {0, 1}
    BY <1>20 DEF Project!KeysUnread, Project!Fails, Project!Ends, ProjectInv
  <2>3. ((ProjectTicks /\ ProjectTold) \/ ProjectLists)'
    BY <1>20, <2>g, <2>u DEF Project!KeysUnread, Project!Fails, Project!Ends, ProjectLists
  <2>4. ProjectServed'
    <3>1. net' = net \ {c} /\ \A f : ~ProjectHolds(c, f)
      BY <1>20 DEF Project!KeysUnread, Project!Fails, Project!Ends, ProjectHolds
    <3> QED
      BY <2>u, <3>1 DEF ProjectInv, ProjectServed
  <2> QED
    BY <2>1, <2>2, <2>3, <2>4 DEF ProjectInv
<1> QED
  BY <1>1, <1>2, <1>3, <1>4, <1>5, <1>6, <1>7, <1>8, <1>9, <1>10, <1>11, <1>12, <1>13, <1>14, <1>15,
     <1>16, <1>17, <1>18, <1>19, <1>20, Zenon DEF Project!Next, Project!Answer, ProjectTexts

\* What the invariant says of the screen.
LEMMA ProjectHoldsAll ==
    ASSUME ProjectInv
    PROVE  Project!TypeOK /\ ~Project!Stuck /\ Project!TicksListed /\ Project!ShowsKept
<1>1. ~Project!Stuck
  BY DEF ProjectInv, ProjectServed, ProjectHolds, Project!Stuck
<1>s. srv.log \in [Logs -> {"deleted", "live", "purged"}] /\ srv.keys \subseteq OldKeys
  BY DEF ProjectInv, ProjectSrv
<1>2. CASE ProjectTicks /\ ProjectTold
  <2>1. ui \in ProjectGeneral /\ ui.page = "general" /\ ui.ticked \subseteq ui.list /\ ProjectTold
    BY <1>2 DEF ProjectTicks, ProjectGeneral
  <2>2. Project!TypeOK
    BY <1>s, <2>1, Zenon DEF ProjectGeneral, ProjectTexts, Project!TypeOK
  <2> QED
    BY <1>1, <2>1, <2>2, Zenon DEF ProjectTold, Project!TicksListed, Project!ShowsKept
<1>3. CASE ProjectLists
  <2>1. ui \in ProjectKeys /\ ui.page = "keys" /\ (net = {} /\ ~ui.crossed => ui.keys = srv.keys)
    BY <1>3 DEF ProjectLists, ProjectKeys
  <2>2. Project!TypeOK
    BY <1>s, <2>1 DEF ProjectKeys, Project!TypeOK
  <2> QED
    BY <1>1, <2>1, <2>2 DEF Project!TicksListed, Project!ShowsKept
<1> QED
  BY <1>1, <1>2, <1>3 DEF ProjectInv

\* And so does a step that is not the screen's.
LEMMA ProjectSame == ASSUME ProjectInv, UNCHANGED vars PROVE ProjectInv'
  BY Zenon DEF vars, ProjectInv, ProjectLists, ProjectServed, ProjectTicks, ProjectTold

-----------------------------------------------------------------------------
(***************************************************************************)
(* An organization and its members.                                        *)
(***************************************************************************)

OrgName == [page : {"name"}, shown : Org!Names, text : Org!Names, saving : BOOLEAN, asking : BOOLEAN,
            phrase : Org!Names \cup {None}, gone : BOOLEAN, typed : BOOLEAN, crossed : BOOLEAN]
OrgTeam == [page : {"team"}, list : SUBSET Members, email : Members \cup {None}, inviting : BOOLEAN,
            limit : BOOLEAN, asked : Members \cup {None}, removing : BOOLEAN, missed : BOOLEAN]
OrgNew == [page : {"new"}, used : {0, 1, 2}, named : BOOLEAN, creating : BOOLEAN, limit : BOOLEAN,
           error : BOOLEAN]

\* The readings of a page that shows some of X, and the other calls of each.
OrgReads(X) == [kind : {"read"}, sees : (SUBSET X) \cup {None}, last : BOOLEAN]
NameActs == [kind : {"save"}, name : Org!Names] \cup [kind : {"delete"}]
TeamActs == [kind : {"invite", "remove"}, who : Members]
NewActs == [kind : {"create"}]

OrgSrv == [name : Org!Names, there : BOOLEAN, members : SUBSET Members, count : {0, 1, 2}, others : BOOLEAN]

\* A field nobody typed in shows the name, unless an overtaken reading
\* filled it.
OrgOnName ==
    /\ ui \in OrgName /\ net \subseteq OrgReads(Org!Names) \cup NameActs
    /\ ~ui.typed /\ ~ui.crossed => ui.text = ui.shown

\* Until others act, the newest reading saw the members there are; and where
\* it came, they are listed.
OrgOnTeam ==
    /\ ui \in OrgTeam /\ net \subseteq OrgReads(Members) \cup TeamActs
    /\ ~srv.others =>
         /\ \A c \in net : c.kind = "read" /\ c.sees # None /\ c.last => c.sees = srv.members
         /\ ~ui.missed /\ (\A c \in net : c.kind = "read" => ~c.last) => ui.list = srv.members

OrgOnNew == ui \in OrgNew /\ net \subseteq NewActs

OrgFew == IsFiniteSet(net) /\ Cardinality(net) <= MaxCalls

OrgInv ==
    /\ srv \in OrgSrv /\ odd \in {0, 1}
    /\ OrgOnName \/ OrgOnTeam \/ OrgOnNew
    /\ OrgFew /\ ~Org!Stuck

OrgAssumption == Org!Founder \in Members

\* A number of elements, under two names.
LEMMA OrgCardinality == \A S : Org!Cardinality(S) = Cardinality(S)
  BY DEF Org!Cardinality, Cardinality

\* A page is one of the three, and its state has that page's fields.
LEMMA OrgPage ==
    ASSUME OrgInv
    PROVE  /\ ui.page = "name" => OrgOnName
           /\ ui.page = "team" => OrgOnTeam
           /\ ui.page = "new" => OrgOnNew
  BY DEF OrgInv, OrgOnName, OrgOnTeam, OrgOnNew, OrgName, OrgTeam, OrgNew

\* A call tells the page that made it.
LEMMA OrgKinds ==
    /\ \A X : \A c \in OrgReads(X) : c.kind = "read" /\ c.sees \in (SUBSET X) \cup {None} /\ c.last \in BOOLEAN
    /\ \A c \in NameActs : c.kind \in {"save", "delete"} /\ (c.kind = "save" => c.name \in Org!Names)
    /\ \A c \in TeamActs : c.kind \in {"invite", "remove"} /\ c.who \in Members
    /\ \A c \in NewActs : c.kind = "create"
  BY DEF OrgReads, NameActs, TeamActs, NewActs

\* A call in flight tells the page.
LEMMA OrgCaller ==
    ASSUME OrgInv, NEW c \in net
    PROVE  /\ c.kind \in {"save", "delete"} => OrgOnName
           /\ c.kind \in {"invite", "remove"} => OrgOnTeam
           /\ c.kind = "create" => OrgOnNew
           /\ c.kind = "read" => OrgOnName \/ OrgOnTeam
           /\ c.kind \in {"save", "delete", "invite", "remove", "create", "read"}
  BY OrgKinds DEF OrgInv, OrgOnName, OrgOnTeam, OrgOnNew

\* Readings that are overtaken are no longer the newest; no call is lost.
LEMMA OrgOvertaken ==
    ASSUME NEW X, NEW Y, \A d \in Y : d.kind # "read",
           NEW S \in SUBSET (OrgReads(X) \cup Y), IsFiniteSet(S)
    PROVE  /\ Org!Overtaken(S) \subseteq OrgReads(X) \cup Y
           /\ \A d \in Org!Overtaken(S) : d.kind = "read" => ~d.last
           /\ \A d \in S : d.kind # "read" => d \in Org!Overtaken(S)
           /\ IsFiniteSet(Org!Overtaken(S)) /\ Cardinality(Org!Overtaken(S)) <= Cardinality(S)
<1> DEFINE g(d) == IF d.kind = "read" THEN [d EXCEPT !.last = FALSE] ELSE d
           f == [d \in S |-> g(d)]
           T == Org!Overtaken(S)
<1>1. ASSUME NEW d \in S
      PROVE  /\ g(d) \in OrgReads(X) \cup Y /\ (g(d).kind = "read" => ~g(d).last)
             /\ d.kind # "read" => g(d) = d
  <2>1. CASE d.kind = "read"
    <3>1. d \in OrgReads(X)
      BY <2>1
    <3>2. g(d) \in OrgReads(X) /\ ~g(d).last
      BY <2>1, <3>1, Zenon DEF OrgReads
    <3> QED
      BY <2>1, <3>2
  <2>2. CASE d.kind # "read"
    BY <2>2
  <2> QED
    BY <2>1, <2>2
<1>2. T = {g(d) : d \in S}
  BY DEF Org!Overtaken
<1> HIDE DEF g
<1>3. f \in Surjection(S, T)
  BY <1>2 DEF Surjection
<1>4. IsFiniteSet(T) /\ Cardinality(T) <= Cardinality(S)
  <2> HIDE DEF f, T
  <2> QED
    BY <1>3, FS_Surjection
<1>5. T \subseteq OrgReads(X) \cup Y /\ (\A d \in T : d.kind = "read" => ~d.last)
      /\ (\A d \in S : d.kind # "read" => d \in T)
  BY <1>1, <1>2
<1> QED
  BY <1>4, <1>5

\* What a step does to the calls in flight leaves no more than there may be.
LEMMA OrgFewer == ASSUME OrgFew, net' = {} \/ net' = net \/ (\E c \in net : net' = net \ {c}) PROVE OrgFew'
<1> USE DEF OrgFew
<1>1. CASE net' = {}
  BY <1>1, FS_EmptySet, FS_CardinalityType, FS_Subset, ConsoleAssumption DEF ConsoleAssumption
<1>2. CASE net' = net
  BY <1>2
<1>3. ASSUME NEW c \in net, net' = net \ {c} PROVE OrgFew'
  <2>1. IsFiniteSet(net') /\ Cardinality(net') = Cardinality(net) - 1
    BY <1>3, FS_RemoveElement
  <2>2. Cardinality(net) \in Nat /\ MaxCalls \in Nat
    BY FS_CardinalityType, ConsoleAssumption DEF ConsoleAssumption
  <2> QED
    BY <2>1, <2>2
<1> QED
  BY <1>1, <1>2, <1>3

\* A call is added where there is room.
LEMMA OrgOneMore ==
    ASSUME NEW S, NEW d, IsFiniteSet(S), Cardinality(S) < MaxCalls, net' = S \cup {d}
    PROVE  OrgFew'
<1>1. IsFiniteSet(net') /\ (Cardinality(net') = Cardinality(S) \/ Cardinality(net') = Cardinality(S) + 1)
  BY FS_AddElement
<1>2. Cardinality(S) \in Nat /\ MaxCalls \in Nat
  BY FS_CardinalityType, ConsoleAssumption DEF ConsoleAssumption
<1> QED
  BY <1>1, <1>2 DEF OrgFew

\* Without a call there is room for one.
LEMMA OrgWithout ==
    ASSUME OrgFew, NEW c \in net
    PROVE  IsFiniteSet(net \ {c}) /\ Cardinality(net \ {c}) \in Nat /\ Cardinality(net \ {c}) < MaxCalls
<1>1. IsFiniteSet(net \ {c}) /\ Cardinality(net \ {c}) = Cardinality(net) - 1
  BY FS_RemoveElement DEF OrgFew
<1>2. Cardinality(net) \in Nat /\ Cardinality(net \ {c}) \in Nat /\ MaxCalls \in Nat /\ Cardinality(net) <= MaxCalls
  BY <1>1, FS_CardinalityType, ConsoleAssumption DEF ConsoleAssumption, OrgFew
<1> QED
  BY <1>1, <1>2

\* A change overtakes the readings and is followed by one.
LEMMA OrgReread ==
    ASSUME NEW X, NEW Y, \A d \in Y : d.kind # "read", net \subseteq OrgReads(X) \cup Y, OrgFew, NEW c \in net,
           net' = Org!Overtaken(net \ {c}) \cup {Org!Reading}
    PROVE  /\ net' \subseteq OrgReads(X) \cup Y /\ OrgFew'
           /\ \A d \in net' : d.kind = "read" /\ d.last => d.sees = None
           /\ \E d \in net' : d.kind = "read" /\ d.last
           /\ \A d \in net \ {c} : d.kind # "read" => d \in net'
<1> DEFINE S == net \ {c}
           r == Org!Reading
<1>1. IsFiniteSet(S) /\ Cardinality(S) \in Nat /\ Cardinality(S) < MaxCalls /\ S \in SUBSET (OrgReads(X) \cup Y)
  BY OrgWithout
<1>2. r \in OrgReads(X) /\ r.kind = "read" /\ r.sees = None /\ r.last
  BY DEF Org!Reading, OrgReads
<1> HIDE DEF S, r
<1>3. /\ Org!Overtaken(S) \subseteq OrgReads(X) \cup Y
      /\ \A d \in Org!Overtaken(S) : d.kind = "read" => ~d.last
      /\ \A d \in S : d.kind # "read" => d \in Org!Overtaken(S)
      /\ IsFiniteSet(Org!Overtaken(S)) /\ Cardinality(Org!Overtaken(S)) <= Cardinality(S)
  BY <1>1, OrgOvertaken
<1>4. net' = Org!Overtaken(S) \cup {r}
  BY DEF S, r
<1>5. Cardinality(Org!Overtaken(S)) < MaxCalls
  BY <1>1, <1>3, FS_CardinalityType, ConsoleAssumption DEF ConsoleAssumption
<1>6. OrgFew'
  BY <1>3, <1>4, <1>5, OrgOneMore, Zenon
<1> QED
  BY <1>2, <1>3, <1>4, <1>6, Zenon DEF S

\* The invariant holds when the screen is opened.
LEMMA OrgInit == ASSUME OrgAssumption, Org!Init PROVE OrgInv
<1>0. srv \in [name : {"old"}, there : {TRUE}, members : {{Org!Founder}}, count : 0..Org!Cap, others : {FALSE}]
  BY Zenon DEF Org!Init
<1>c. \A n \in 0..Org!Cap : n \in {0, 1, 2}
  BY DEF Org!Cap
<1>1. srv \in OrgSrv /\ odd = 1 /\ net = {} /\ srv.members = {Org!Founder}
  <2>1. PICK n \in 0..Org!Cap :
           srv = [name |-> "old", there |-> TRUE, members |-> {Org!Founder}, count |-> n, others |-> FALSE]
    BY <1>0, Zenon
  <2>2. n \in {0, 1, 2}
    BY <1>c
  <2>3. srv \in OrgSrv /\ srv.members = {Org!Founder}
    BY <2>1, <2>2 DEF Org!Names, OrgSrv, OrgAssumption
  <2> QED
    BY <2>3 DEF Org!Init
<1>2. OrgFew
  BY <1>1, FS_EmptySet, ConsoleAssumption DEF ConsoleAssumption, OrgFew
<1>3. CASE ui = Org!NamePage
  <2>1. ui \in OrgName /\ ui.text = ui.shown /\ ~ui.saving /\ ui.page = "name"
    BY <1>3 DEF Org!NamePage, Org!Names, OrgName
  <2> QED
    BY <1>1, <1>2, <2>1 DEF OrgInv, OrgOnName, Org!Stuck
<1>4. CASE ui = Org!TeamPage
  <2>1. ui \in OrgTeam /\ ui.list = {Org!Founder} /\ ~ui.inviting /\ ~ui.removing /\ ui.page = "team"
    BY <1>4 DEF Org!TeamPage, OrgTeam, OrgAssumption
  <2> QED
    BY <1>1, <1>2, <2>1 DEF OrgInv, OrgOnTeam, Org!Stuck
<1>5. ASSUME NEW used \in 0..Org!Cap, ui = Org!NewPage(used) PROVE OrgInv
  <2>1. used \in {0, 1, 2}
    BY DEF Org!Cap
  <2>2. ui \in OrgNew /\ ~ui.creating /\ ui.page = "new"
    BY <1>5, <2>1 DEF Org!NewPage, OrgNew
  <2> QED
    BY <1>1, <1>2, <2>2 DEF OrgInv, OrgOnNew, Org!Stuck
<1> QED
  BY <1>3, <1>4, <1>5 DEF Org!Init

\* Every step of the screen keeps the invariant.
LEMMA OrgStep == ASSUME ConsoleAssumption, OrgInv, Org!Next PROVE OrgInv'
<1>1. CASE Org!Focus
  <2>f. OrgFew /\ ~Org!Stuck /\ srv \in OrgSrv /\ odd \in {0, 1} /\ (OrgOnName \/ OrgOnTeam)
    BY <1>1, OrgPage DEF OrgInv, Org!Focus
  <2> DEFINE d == Org!Reading
  <2>d. d.kind = "read" /\ d.sees = None /\ d.last /\ \A X : d \in OrgReads(X)
    BY DEF Org!Reading, OrgReads
  <2>n. /\ net' = net \cup {d} /\ UNCHANGED <<ui, srv, odd>> /\ Cardinality(net) < MaxCalls
    BY <1>1, OrgCardinality DEF Org!Focus, Org!Room
  <2> HIDE DEF d
  <2>1. srv' \in OrgSrv
    BY <2>f, <2>n
  <2>2. odd' \in {0, 1}
    BY <2>f, <2>n
  <2>3. (OrgOnName \/ OrgOnTeam \/ OrgOnNew)'
    BY <2>f, <2>d, <2>n DEF OrgOnName, OrgOnTeam
  <2>4. OrgFew'
    BY <2>f, <2>n, OrgOneMore, Zenon DEF OrgFew
  <2>5. ~Org!Stuck'
    BY <2>f, <2>n DEF Org!Stuck, Org!InFlight
  <2> QED
    BY <2>1, <2>2, <2>3, <2>4, <2>5 DEF OrgInv
<1>2. CASE Org!OthersAct
  <2>f. OrgFew /\ ~Org!Stuck /\ srv \in OrgSrv /\ odd \in {0, 1} /\ (OrgOnName \/ OrgOnTeam)
    BY <1>2, OrgPage, Zenon DEF OrgInv, Org!OthersAct, Org!At
  <2>n. UNCHANGED <<ui, net>> /\ odd > 0 /\ odd' = odd - 1
    BY <1>2, Zenon DEF Org!OthersAct
  <2>s. srv' \in OrgSrv /\ srv'.others
    <3>1. CASE srv' = [srv EXCEPT !.name = "other", !.others = TRUE]
      BY <2>f, <3>1, Zenon DEF OrgSrv, Org!Names
    <3>2. CASE srv' = [srv EXCEPT !.there = FALSE, !.others = TRUE]
      BY <2>f, <3>2, Zenon DEF OrgSrv
    <3>3. ASSUME NEW m, srv' = [srv EXCEPT !.members = @ \ {m}, !.others = TRUE]
          PROVE  srv' \in OrgSrv /\ srv'.others
      BY <2>f, <3>3, Zenon DEF OrgSrv
    <3> QED
      BY <1>2, <3>1, <3>2, <3>3, Zenon DEF Org!OthersAct
  <2>1. srv' \in OrgSrv
    BY <2>s
  <2>2. odd' \in {0, 1}
    BY <2>f, <2>n
  <2>3. (OrgOnName \/ OrgOnTeam \/ OrgOnNew)'
    BY <2>f, <2>n, <2>s DEF OrgOnName, OrgOnTeam
  <2>4. OrgFew'
    BY <2>f, <2>n, OrgFewer
  <2>5. ~Org!Stuck'
    BY <2>f, <2>n DEF Org!Stuck, Org!InFlight
  <2> QED
    BY <2>1, <2>2, <2>3, <2>4, <2>5 DEF OrgInv
<1>3. ASSUME NEW t \in Org!Names, Org!TypeName(t) PROVE OrgInv'
  <2>f. OrgFew /\ ~Org!Stuck /\ srv \in OrgSrv /\ odd \in {0, 1}
    BY DEF OrgInv
  <2>g. OrgOnName
    BY <1>3, OrgPage DEF Org!TypeName, Org!At
  <2>u. /\ ui' \in OrgName /\ ui.page = "name" /\ ui'.page = "name"
        /\ ui'.shown = ui.shown /\ ui'.text = t /\ ui'.saving = ui.saving /\ ui'.asking = ui.asking /\ ui'.phrase = ui.phrase /\ ui'.gone = ui.gone /\ ui'.typed = TRUE /\ ui'.crossed = ui.crossed
    BY <1>3, <2>g, Zenon DEF Org!TypeName, OrgOnName, OrgName
  <2>n. UNCHANGED <<net, srv, odd>>
    BY <1>3 DEF Org!TypeName, Org!Edit
  <2>1. srv' \in OrgSrv
    BY <2>f, <2>n
  <2>2. odd' \in {0, 1}
    BY <2>f, <2>n
  <2>3. (OrgOnName \/ OrgOnTeam \/ OrgOnNew)'
    BY <2>g, <2>u, <2>n DEF OrgOnName
  <2>4. OrgFew'
    BY <2>f, <2>n, OrgFewer
  <2>5. ~Org!Stuck'
    BY <2>f, <2>u, <2>n DEF Org!Stuck, Org!InFlight
  <2> QED
    BY <2>1, <2>2, <2>3, <2>4, <2>5 DEF OrgInv
<1>4. ASSUME NEW t \in Org!Names, Org!TypePhrase(t) PROVE OrgInv'
  <2>f. OrgFew /\ ~Org!Stuck /\ srv \in OrgSrv /\ odd \in {0, 1}
    BY DEF OrgInv
  <2>g. OrgOnName
    BY <1>4, OrgPage DEF Org!TypePhrase, Org!At
  <2>u. /\ ui' \in OrgName /\ ui.page = "name" /\ ui'.page = "name"
        /\ ui'.shown = ui.shown /\ ui'.text = ui.text /\ ui'.saving = ui.saving /\ ui'.asking = ui.asking /\ ui'.phrase = t /\ ui'.gone = ui.gone /\ ui'.typed = ui.typed /\ ui'.crossed = ui.crossed
    BY <1>4, <2>g, Zenon DEF Org!TypePhrase, OrgOnName, OrgName
  <2>n. UNCHANGED <<net, srv, odd>>
    BY <1>4 DEF Org!TypePhrase, Org!Edit
  <2>1. srv' \in OrgSrv
    BY <2>f, <2>n
  <2>2. odd' \in {0, 1}
    BY <2>f, <2>n
  <2>3. (OrgOnName \/ OrgOnTeam \/ OrgOnNew)'
    BY <2>g, <2>u, <2>n DEF OrgOnName
  <2>4. OrgFew'
    BY <2>f, <2>n, OrgFewer
  <2>5. ~Org!Stuck'
    BY <2>f, <2>u, <2>n DEF Org!Stuck, Org!InFlight
  <2> QED
    BY <2>1, <2>2, <2>3, <2>4, <2>5 DEF OrgInv
<1>5. CASE Org!HandleSave
  <2>f. OrgFew /\ ~Org!Stuck /\ srv \in OrgSrv /\ odd \in {0, 1}
    BY DEF OrgInv
  <2>g. OrgOnName
    BY <1>5, OrgPage DEF Org!HandleSave, Org!At
  <2>u. /\ ui' \in OrgName /\ ui.page = "name" /\ ui'.page = "name"
        /\ ui'.shown = ui.shown /\ ui'.text = ui.text /\ ui'.saving = TRUE /\ ui'.asking = ui.asking /\ ui'.phrase = ui.phrase /\ ui'.gone = ui.gone /\ ui'.typed = ui.typed /\ ui'.crossed = ui.crossed
    BY <1>5, <2>g, Zenon DEF Org!HandleSave, OrgOnName, OrgName
  <2> DEFINE d == [kind |-> "save", name |-> ui.text]
  <2>d. d \in OrgReads(Org!Names) \cup NameActs /\ d.kind = "save"
    BY <1>5, <2>g DEF Org!HandleSave, OrgOnName, OrgName, NameActs, TeamActs, NewActs
  <2>n. net' = net \cup {d} /\ UNCHANGED <<srv, odd>> /\ Cardinality(net) < MaxCalls
    BY <1>5, OrgCardinality DEF Org!HandleSave, Org!Call, Org!Room
  <2> HIDE DEF d
  <2>1. srv' \in OrgSrv
    BY <2>f, <2>n
  <2>2. odd' \in {0, 1}
    BY <2>f, <2>n
  <2>3. (OrgOnName \/ OrgOnTeam \/ OrgOnNew)'
    BY <2>g, <2>u, <2>d, <2>n DEF OrgOnName
  <2>4. OrgFew'
    BY <2>f, <2>n, OrgOneMore, Zenon DEF OrgFew
  <2>5. ~Org!Stuck'
    BY <2>f, <2>u, <2>d, <2>n DEF Org!Stuck, Org!InFlight
  <2> QED
    BY <2>1, <2>2, <2>3, <2>4, <2>5 DEF OrgInv
<1>6. CASE Org!Ask
  <2>f. OrgFew /\ ~Org!Stuck /\ srv \in OrgSrv /\ odd \in {0, 1}
    BY DEF OrgInv
  <2>g. OrgOnName
    BY <1>6, OrgPage DEF Org!Ask, Org!At
  <2>u. /\ ui' \in OrgName /\ ui.page = "name" /\ ui'.page = "name"
        /\ ui'.shown = ui.shown /\ ui'.text = ui.text /\ ui'.saving = ui.saving /\ ui'.asking = TRUE /\ ui'.phrase = ui.phrase /\ ui'.gone = ui.gone /\ ui'.typed = ui.typed /\ ui'.crossed = ui.crossed
    BY <1>6, <2>g, Zenon DEF Org!Ask, OrgOnName, OrgName
  <2>n. UNCHANGED <<net, srv, odd>>
    BY <1>6 DEF Org!Ask, Org!Edit
  <2>1. srv' \in OrgSrv
    BY <2>f, <2>n
  <2>2. odd' \in {0, 1}
    BY <2>f, <2>n
  <2>3. (OrgOnName \/ OrgOnTeam \/ OrgOnNew)'
    BY <2>g, <2>u, <2>n DEF OrgOnName
  <2>4. OrgFew'
    BY <2>f, <2>n, OrgFewer
  <2>5. ~Org!Stuck'
    BY <2>f, <2>u, <2>n DEF Org!Stuck, Org!InFlight
  <2> QED
    BY <2>1, <2>2, <2>3, <2>4, <2>5 DEF OrgInv
<1>7. CASE Org!Abort
  <2>f. OrgFew /\ ~Org!Stuck /\ srv \in OrgSrv /\ odd \in {0, 1}
    BY DEF OrgInv
  <2>g. OrgOnName
    BY <1>7, OrgPage DEF Org!Abort, Org!At
  <2>u. /\ ui' \in OrgName /\ ui.page = "name" /\ ui'.page = "name"
        /\ ui'.shown = ui.shown /\ ui'.text = ui.text /\ ui'.saving = ui.saving /\ ui'.asking = FALSE /\ ui'.phrase = None /\ ui'.gone = ui.gone /\ ui'.typed = ui.typed /\ ui'.crossed = ui.crossed
    BY <1>7, <2>g, Zenon DEF Org!Abort, OrgOnName, OrgName
  <2>n. UNCHANGED <<net, srv, odd>>
    BY <1>7 DEF Org!Abort, Org!Edit
  <2>1. srv' \in OrgSrv
    BY <2>f, <2>n
  <2>2. odd' \in {0, 1}
    BY <2>f, <2>n
  <2>3. (OrgOnName \/ OrgOnTeam \/ OrgOnNew)'
    BY <2>g, <2>u, <2>n DEF OrgOnName
  <2>4. OrgFew'
    BY <2>f, <2>n, OrgFewer
  <2>5. ~Org!Stuck'
    BY <2>f, <2>u, <2>n DEF Org!Stuck, Org!InFlight
  <2> QED
    BY <2>1, <2>2, <2>3, <2>4, <2>5 DEF OrgInv
<1>8. CASE Org!HandleDelete
  <2>f. OrgFew /\ ~Org!Stuck /\ srv \in OrgSrv /\ odd \in {0, 1}
    BY DEF OrgInv
  <2>g. OrgOnName
    BY <1>8, OrgPage DEF Org!HandleDelete, Org!At
  <2>u. /\ ui' = ui /\ ui \in OrgName /\ ui.page = "name" /\ ui'.page = "name"
        /\ ui'.shown = ui.shown /\ ui'.text = ui.text /\ ui'.saving = ui.saving /\ ui'.asking = ui.asking /\ ui'.phrase = ui.phrase /\ ui'.gone = ui.gone /\ ui'.typed = ui.typed /\ ui'.crossed = ui.crossed
    BY <1>8, <2>g, Zenon DEF Org!HandleDelete, OrgOnName, OrgName
  <2> DEFINE d == [kind |-> "delete"]
  <2>d. d \in OrgReads(Org!Names) \cup NameActs /\ d.kind = "delete"
    BY <1>8, <2>g DEF Org!HandleDelete, OrgOnName, OrgName, NameActs, TeamActs, NewActs
  <2>n. net' = net \cup {d} /\ UNCHANGED <<srv, odd>> /\ Cardinality(net) < MaxCalls
    BY <1>8, OrgCardinality DEF Org!HandleDelete, Org!Call, Org!Room
  <2> HIDE DEF d
  <2>1. srv' \in OrgSrv
    BY <2>f, <2>n
  <2>2. odd' \in {0, 1}
    BY <2>f, <2>n
  <2>3. (OrgOnName \/ OrgOnTeam \/ OrgOnNew)'
    BY <2>g, <2>u, <2>d, <2>n DEF OrgOnName
  <2>4. OrgFew'
    BY <2>f, <2>n, OrgOneMore, Zenon DEF OrgFew
  <2>5. ~Org!Stuck'
    BY <2>f, <2>u, <2>d, <2>n DEF Org!Stuck, Org!InFlight
  <2> QED
    BY <2>1, <2>2, <2>3, <2>4, <2>5 DEF OrgInv
<1>9. ASSUME NEW m \in Members, Org!TypeEmail(m) PROVE OrgInv'
  <2>f. OrgFew /\ ~Org!Stuck /\ srv \in OrgSrv /\ odd \in {0, 1}
    BY DEF OrgInv
  <2>g. OrgOnTeam
    BY <1>9, OrgPage DEF Org!TypeEmail, Org!At
  <2>u. /\ ui' \in OrgTeam /\ ui.page = "team" /\ ui'.page = "team"
        /\ ui'.list = ui.list /\ ui'.email = m /\ ui'.inviting = ui.inviting /\ ui'.limit = ui.limit /\ ui'.asked = ui.asked /\ ui'.removing = ui.removing /\ ui'.missed = ui.missed
    BY <1>9, <2>g DEF Org!TypeEmail, OrgOnTeam, OrgTeam
  <2>n. UNCHANGED <<net, srv, odd>>
    BY <1>9 DEF Org!TypeEmail, Org!Edit
  <2>1. srv' \in OrgSrv
    BY <2>f, <2>n
  <2>2. odd' \in {0, 1}
    BY <2>f, <2>n
  <2>3. (OrgOnName \/ OrgOnTeam \/ OrgOnNew)'
    BY <2>g, <2>u, <2>n DEF OrgOnTeam
  <2>4. OrgFew'
    BY <2>f, <2>n, OrgFewer
  <2>5. ~Org!Stuck'
    BY <2>f, <2>u, <2>n DEF Org!Stuck, Org!InFlight
  <2> QED
    BY <2>1, <2>2, <2>3, <2>4, <2>5 DEF OrgInv
<1>10. ASSUME NEW m \in Members, Org!AskRemove(m) PROVE OrgInv'
  <2>f. OrgFew /\ ~Org!Stuck /\ srv \in OrgSrv /\ odd \in {0, 1}
    BY DEF OrgInv
  <2>g. OrgOnTeam
    BY <1>10, OrgPage DEF Org!AskRemove, Org!At
  <2>u. /\ ui' \in OrgTeam /\ ui.page = "team" /\ ui'.page = "team"
        /\ ui'.list = ui.list /\ ui'.email = ui.email /\ ui'.inviting = ui.inviting /\ ui'.limit = ui.limit /\ ui'.asked = m /\ ui'.removing = ui.removing /\ ui'.missed = ui.missed
    BY <1>10, <2>g DEF Org!AskRemove, OrgOnTeam, OrgTeam
  <2>n. UNCHANGED <<net, srv, odd>>
    BY <1>10 DEF Org!AskRemove, Org!Edit
  <2>1. srv' \in OrgSrv
    BY <2>f, <2>n
  <2>2. odd' \in {0, 1}
    BY <2>f, <2>n
  <2>3. (OrgOnName \/ OrgOnTeam \/ OrgOnNew)'
    BY <2>g, <2>u, <2>n DEF OrgOnTeam
  <2>4. OrgFew'
    BY <2>f, <2>n, OrgFewer
  <2>5. ~Org!Stuck'
    BY <2>f, <2>u, <2>n DEF Org!Stuck, Org!InFlight
  <2> QED
    BY <2>1, <2>2, <2>3, <2>4, <2>5 DEF OrgInv
<1>11. CASE Org!HandleInvite
  <2>f. OrgFew /\ ~Org!Stuck /\ srv \in OrgSrv /\ odd \in {0, 1}
    BY DEF OrgInv
  <2>g. OrgOnTeam
    BY <1>11, OrgPage DEF Org!HandleInvite, Org!At
  <2>u. /\ ui' \in OrgTeam /\ ui.page = "team" /\ ui'.page = "team"
        /\ ui'.list = ui.list /\ ui'.email = ui.email /\ ui'.inviting = TRUE /\ ui'.limit = FALSE /\ ui'.asked = ui.asked /\ ui'.removing = ui.removing /\ ui'.missed = ui.missed
    BY <1>11, <2>g, Zenon DEF Org!HandleInvite, OrgOnTeam, OrgTeam
  <2> DEFINE d == [kind |-> "invite", who |-> ui.email]
  <2>d. d \in OrgReads(Members) \cup TeamActs /\ d.kind = "invite"
    BY <1>11, <2>g DEF Org!HandleInvite, OrgOnTeam, OrgTeam, NameActs, TeamActs, NewActs
  <2>n. net' = net \cup {d} /\ UNCHANGED <<srv, odd>> /\ Cardinality(net) < MaxCalls
    BY <1>11, OrgCardinality DEF Org!HandleInvite, Org!Call, Org!Room
  <2> HIDE DEF d
  <2>1. srv' \in OrgSrv
    BY <2>f, <2>n
  <2>2. odd' \in {0, 1}
    BY <2>f, <2>n
  <2>3. (OrgOnName \/ OrgOnTeam \/ OrgOnNew)'
    BY <2>g, <2>u, <2>d, <2>n DEF OrgOnTeam
  <2>4. OrgFew'
    BY <2>f, <2>n, OrgOneMore, Zenon DEF OrgFew
  <2>5. ~Org!Stuck'
    BY <2>f, <2>u, <2>d, <2>n DEF Org!Stuck, Org!InFlight
  <2> QED
    BY <2>1, <2>2, <2>3, <2>4, <2>5 DEF OrgInv
<1>12. CASE Org!CloseAsk
  <2>f. OrgFew /\ ~Org!Stuck /\ srv \in OrgSrv /\ odd \in {0, 1}
    BY DEF OrgInv
  <2>g. OrgOnTeam
    BY <1>12, OrgPage DEF Org!CloseAsk, Org!At
  <2>u. /\ ui' \in OrgTeam /\ ui.page = "team" /\ ui'.page = "team"
        /\ ui'.list = ui.list /\ ui'.email = ui.email /\ ui'.inviting = ui.inviting /\ ui'.limit = ui.limit /\ ui'.asked = None /\ ui'.removing = ui.removing /\ ui'.missed = ui.missed
    BY <1>12, <2>g DEF Org!CloseAsk, OrgOnTeam, OrgTeam
  <2>n. UNCHANGED <<net, srv, odd>>
    BY <1>12 DEF Org!CloseAsk, Org!Edit
  <2>1. srv' \in OrgSrv
    BY <2>f, <2>n
  <2>2. odd' \in {0, 1}
    BY <2>f, <2>n
  <2>3. (OrgOnName \/ OrgOnTeam \/ OrgOnNew)'
    BY <2>g, <2>u, <2>n DEF OrgOnTeam
  <2>4. OrgFew'
    BY <2>f, <2>n, OrgFewer
  <2>5. ~Org!Stuck'
    BY <2>f, <2>u, <2>n DEF Org!Stuck, Org!InFlight
  <2> QED
    BY <2>1, <2>2, <2>3, <2>4, <2>5 DEF OrgInv
<1>13. CASE Org!ExecuteRemove
  <2>f. OrgFew /\ ~Org!Stuck /\ srv \in OrgSrv /\ odd \in {0, 1}
    BY DEF OrgInv
  <2>g. OrgOnTeam
    BY <1>13, OrgPage DEF Org!ExecuteRemove, Org!At
  <2>u. /\ ui' \in OrgTeam /\ ui.page = "team" /\ ui'.page = "team"
        /\ ui'.list = ui.list /\ ui'.email = ui.email /\ ui'.inviting = ui.inviting /\ ui'.limit = ui.limit /\ ui'.asked = ui.asked /\ ui'.removing = TRUE /\ ui'.missed = ui.missed
    BY <1>13, <2>g, Zenon DEF Org!ExecuteRemove, OrgOnTeam, OrgTeam
  <2> DEFINE d == [kind |-> "remove", who |-> ui.asked]
  <2>d. d \in OrgReads(Members) \cup TeamActs /\ d.kind = "remove"
    BY <1>13, <2>g DEF Org!ExecuteRemove, OrgOnTeam, OrgTeam, NameActs, TeamActs, NewActs
  <2>n. net' = net \cup {d} /\ UNCHANGED <<srv, odd>> /\ Cardinality(net) < MaxCalls
    BY <1>13, OrgCardinality DEF Org!ExecuteRemove, Org!Call, Org!Room
  <2> HIDE DEF d
  <2>1. srv' \in OrgSrv
    BY <2>f, <2>n
  <2>2. odd' \in {0, 1}
    BY <2>f, <2>n
  <2>3. (OrgOnName \/ OrgOnTeam \/ OrgOnNew)'
    BY <2>g, <2>u, <2>d, <2>n DEF OrgOnTeam
  <2>4. OrgFew'
    BY <2>f, <2>n, OrgOneMore, Zenon DEF OrgFew
  <2>5. ~Org!Stuck'
    BY <2>f, <2>u, <2>d, <2>n DEF Org!Stuck, Org!InFlight
  <2> QED
    BY <2>1, <2>2, <2>3, <2>4, <2>5 DEF OrgInv
<1>14. CASE Org!TypeNew
  <2>f. OrgFew /\ ~Org!Stuck /\ srv \in OrgSrv /\ odd \in {0, 1}
    BY DEF OrgInv
  <2>g. OrgOnNew
    BY <1>14, OrgPage DEF Org!TypeNew, Org!At
  <2>u. /\ ui' \in OrgNew /\ ui.page = "new" /\ ui'.page = "new"
        /\ ui'.used = ui.used /\ ui'.named = TRUE /\ ui'.creating = ui.creating /\ ui'.limit = ui.limit /\ ui'.error = ui.error
    BY <1>14, <2>g, Zenon DEF Org!TypeNew, OrgOnNew, OrgNew
  <2>n. UNCHANGED <<net, srv, odd>>
    BY <1>14 DEF Org!TypeNew, Org!Edit
  <2>1. srv' \in OrgSrv
    BY <2>f, <2>n
  <2>2. odd' \in {0, 1}
    BY <2>f, <2>n
  <2>3. (OrgOnName \/ OrgOnTeam \/ OrgOnNew)'
    BY <2>g, <2>u, <2>n DEF OrgOnNew
  <2>4. OrgFew'
    BY <2>f, <2>n, OrgFewer
  <2>5. ~Org!Stuck'
    BY <2>f, <2>u, <2>n DEF Org!Stuck, Org!InFlight
  <2> QED
    BY <2>1, <2>2, <2>3, <2>4, <2>5 DEF OrgInv
<1>15. CASE Org!HandleSubmit
  <2>f. OrgFew /\ ~Org!Stuck /\ srv \in OrgSrv /\ odd \in {0, 1}
    BY DEF OrgInv
  <2>g. OrgOnNew
    BY <1>15, OrgPage DEF Org!HandleSubmit, Org!At
  <2>u. /\ ui' \in OrgNew /\ ui.page = "new" /\ ui'.page = "new"
        /\ ui'.used = ui.used /\ ui'.named = ui.named /\ ui'.creating = TRUE /\ ui'.limit = FALSE /\ ui'.error = FALSE
    BY <1>15, <2>g, Zenon DEF Org!HandleSubmit, OrgOnNew, OrgNew
  <2> DEFINE d == [kind |-> "create"]
  <2>d. d \in NewActs /\ d.kind = "create"
    BY <1>15, <2>g DEF Org!HandleSubmit, OrgOnNew, OrgNew, NameActs, TeamActs, NewActs
  <2>n. net' = net \cup {d} /\ UNCHANGED <<srv, odd>> /\ Cardinality(net) < MaxCalls
    BY <1>15, OrgCardinality DEF Org!HandleSubmit, Org!Call, Org!Room
  <2> HIDE DEF d
  <2>1. srv' \in OrgSrv
    BY <2>f, <2>n
  <2>2. odd' \in {0, 1}
    BY <2>f, <2>n
  <2>3. (OrgOnName \/ OrgOnTeam \/ OrgOnNew)'
    BY <2>g, <2>u, <2>d, <2>n DEF OrgOnNew
  <2>4. OrgFew'
    BY <2>f, <2>n, OrgOneMore, Zenon DEF OrgFew
  <2>5. ~Org!Stuck'
    BY <2>f, <2>u, <2>d, <2>n DEF Org!Stuck, Org!InFlight
  <2> QED
    BY <2>1, <2>2, <2>3, <2>4, <2>5 DEF OrgInv
<1>16. CASE Org!UsageRead
  <2>f. OrgFew /\ ~Org!Stuck /\ srv \in OrgSrv /\ odd \in {0, 1}
    BY DEF OrgInv
  <2>g. OrgOnNew
    BY <1>16, OrgPage DEF Org!UsageRead, Org!At
  <2>u. /\ ui' \in OrgNew /\ ui.page = "new" /\ ui'.page = "new"
        /\ ui'.used = srv.count /\ ui'.named = ui.named /\ ui'.creating = ui.creating /\ ui'.limit = ui.limit /\ ui'.error = ui.error
    BY <1>16, <2>g, <2>f DEF Org!UsageRead, OrgSrv, OrgOnNew, OrgNew
  <2>n. UNCHANGED <<net, srv, odd>>
    BY <1>16 DEF Org!UsageRead, Org!Edit
  <2>1. srv' \in OrgSrv
    BY <2>f, <2>n
  <2>2. odd' \in {0, 1}
    BY <2>f, <2>n
  <2>3. (OrgOnName \/ OrgOnTeam \/ OrgOnNew)'
    BY <2>g, <2>u, <2>n DEF OrgOnNew
  <2>4. OrgFew'
    BY <2>f, <2>n, OrgFewer
  <2>5. ~Org!Stuck'
    BY <2>f, <2>u, <2>n DEF Org!Stuck, Org!InFlight
  <2> QED
    BY <2>1, <2>2, <2>3, <2>4, <2>5 DEF OrgInv
<1>17. ASSUME NEW c \in net, Org!Serve(c) PROVE OrgInv'
  <2>f. OrgFew /\ ~Org!Stuck /\ srv \in OrgSrv /\ odd \in {0, 1} /\ (OrgOnName \/ OrgOnTeam)
    BY <1>17, OrgCaller DEF OrgInv, Org!Serve
  <2> DEFINE seen == IF ui.page = "name" THEN {srv.name} ELSE srv.members
             d == [c EXCEPT !.sees = seen]
  <2>d. ASSUME NEW X, c \in OrgReads(X), seen \in SUBSET X
        PROVE  d \in OrgReads(X) /\ d.kind = "read" /\ d.sees = seen /\ d.last = c.last
    BY <2>d DEF OrgReads
  <2>n. c.kind = "read" /\ c.sees = None /\ net' = (net \ {c}) \cup {d} /\ UNCHANGED <<ui, srv, odd>>
    BY <1>17 DEF Org!Serve
  <2>s. /\ OrgOnName => c \in OrgReads(Org!Names) /\ seen \in SUBSET Org!Names
        /\ OrgOnTeam => c \in OrgReads(Members) /\ seen \in SUBSET Members /\ seen = srv.members
    BY <2>f, <2>n, OrgKinds DEF OrgOnName, OrgOnTeam, OrgName, OrgTeam, OrgSrv
  <2> HIDE DEF d, seen
  <2>1. srv' \in OrgSrv
    BY <2>f, <2>n
  <2>2. odd' \in {0, 1}
    BY <2>f, <2>n
  <2>3. (OrgOnName \/ OrgOnTeam \/ OrgOnNew)'
    <3>1. CASE OrgOnName
      BY <2>d, <2>n, <2>s, <3>1 DEF OrgOnName
    <3>2. CASE OrgOnTeam
      <4>1. d \in OrgReads(Members) /\ d.kind = "read" /\ d.sees = srv.members /\ d.last = c.last
        BY <2>d, <2>s, <3>2
      <4> QED
        BY <2>n, <3>2, <4>1 DEF OrgOnTeam
    <3> QED
      BY <2>f, <3>1, <3>2
  <2>4. OrgFew'
    BY <2>f, <2>n, OrgWithout, OrgOneMore, Zenon
  <2>5. ~Org!Stuck'
    BY <2>f, <2>n DEF Org!Stuck, Org!InFlight
  <2> QED
    BY <2>1, <2>2, <2>3, <2>4, <2>5 DEF OrgInv
<1>18. ASSUME NEW c \in net, Org!Renamed(c) PROVE OrgInv'
  <2>f. OrgFew /\ ~Org!Stuck /\ srv \in OrgSrv /\ odd \in {0, 1}
    BY DEF OrgInv
  <2>g. OrgOnName
    BY <1>18, OrgCaller DEF Org!Renamed
  <2>u. /\ ui' \in OrgName /\ ui.page = "name" /\ ui'.page = "name"
        /\ ui'.shown = ui.shown /\ ui'.text = ui.text /\ ui'.saving = FALSE /\ ui'.asking = ui.asking /\ ui'.phrase = ui.phrase /\ ui'.gone = ui.gone /\ ui'.typed = ui.typed /\ ui'.crossed = ui.crossed
    BY <1>18, <2>g, Zenon DEF Org!Renamed, OrgOnName, OrgName
  <2>n. c \in net /\ net' = Org!Overtaken(net \ {c}) \cup {Org!Reading} /\ UNCHANGED odd /\ c.kind = "save"
    BY <1>18 DEF Org!Renamed
  <2>s. srv' \in OrgSrv
    BY <1>18, <2>f, <2>g, OrgKinds DEF Org!Renamed, OrgSrv, OrgOnName
  <2>r. /\ net' \subseteq OrgReads(Org!Names) \cup NameActs /\ OrgFew'
        /\ \A d \in net' : d.kind = "read" /\ d.last => d.sees = None
        /\ \E d \in net' : d.kind = "read" /\ d.last
        /\ \A d \in net \ {c} : d.kind # "read" => d \in net'
    BY <2>f, <2>g, <2>n, OrgReread, OrgKinds, Zenon DEF OrgOnName
  <2>1. srv' \in OrgSrv
    BY <2>s
  <2>2. odd' \in {0, 1}
    BY <2>f, <2>n
  <2>3. (OrgOnName \/ OrgOnTeam \/ OrgOnNew)'
    BY <2>g, <2>u, <2>r, <2>s DEF OrgOnName
  <2>4. OrgFew'
    BY <2>r
  <2>5. ~Org!Stuck'
    BY <2>f, <2>u, <2>n, <2>r DEF Org!Stuck, Org!InFlight
  <2> QED
    BY <2>1, <2>2, <2>3, <2>4, <2>5 DEF OrgInv
<1>19. ASSUME NEW c \in net, Org!NameRead(c) PROVE OrgInv'
  <2>f. OrgFew /\ ~Org!Stuck /\ srv \in OrgSrv /\ odd \in {0, 1}
    BY DEF OrgInv
  <2>g. OrgOnName
    BY <1>19, OrgPage DEF Org!NameRead, Org!At
  <2>n. c \in net /\ net' = net \ {c} /\ UNCHANGED <<srv, odd>> /\ c.kind = "read" /\ c.sees # None
    BY <1>19 DEF Org!NameRead, Org!Ends
  <2>c. c.sees \in SUBSET Org!Names /\ c.last \in BOOLEAN
    BY <2>g, <2>n, OrgKinds DEF OrgOnName
  <2>p. PICK name \in c.sees :
           ui' = [ui EXCEPT !.text = name, !.typed = FALSE, !.crossed = ~c.last,
                            !.shown = IF c.last THEN name ELSE @]
    BY <1>19, Zenon DEF Org!NameRead
  <2>b. (~c.last) \in BOOLEAN /\ name \in Org!Names
    BY <2>c
  <2>u. /\ ui' \in OrgName /\ ui.page = "name" /\ ui'.page = "name"
        /\ ui'.saving = ui.saving /\ ui'.gone = ui.gone
        /\ ui'.text = name /\ ui'.crossed = ~c.last /\ (c.last => ui'.shown = name)
    <3>1. CASE c.last
      BY <2>g, <2>b, <2>p, <3>1, Zenon DEF OrgOnName, OrgName
    <3>2. CASE ~c.last
      BY <2>g, <2>b, <2>p, <3>2, Zenon DEF OrgOnName, OrgName
    <3> QED
      BY <3>1, <3>2
  <2>1. srv' \in OrgSrv
    BY <2>f, <2>n
  <2>2. odd' \in {0, 1}
    BY <2>f, <2>n
  <2>3. (OrgOnName \/ OrgOnTeam \/ OrgOnNew)'
    BY <2>g, <2>u, <2>n, Zenon DEF OrgOnName
  <2>4. OrgFew'
    BY <2>f, <2>n, OrgFewer
  <2>5. ~Org!Stuck'
    BY <2>f, <2>u, <2>n DEF Org!Stuck, Org!InFlight
  <2> QED
    BY <2>1, <2>2, <2>3, <2>4, <2>5 DEF OrgInv
<1>20. ASSUME NEW c \in net, Org!Archived(c) PROVE OrgInv'
  <2>f. OrgFew /\ ~Org!Stuck /\ srv \in OrgSrv /\ odd \in {0, 1}
    BY DEF OrgInv
  <2>g. OrgOnName
    BY <1>20, OrgCaller DEF Org!Archived
  <2>u. /\ ui' \in OrgName /\ ui.page = "name" /\ ui'.page = "name"
        /\ ui'.shown = ui.shown /\ ui'.text = ui.text /\ ui'.saving = ui.saving /\ ui'.asking = ui.asking /\ ui'.phrase = ui.phrase /\ ui'.gone = TRUE /\ ui'.typed = ui.typed /\ ui'.crossed = ui.crossed
    BY <1>20, <2>g, Zenon DEF Org!Archived, OrgOnName, OrgName
  <2>n. c \in net /\ net' = {} /\ srv' \in OrgSrv /\ odd' = odd
    BY <1>20, <2>f, Zenon DEF Org!Archived, Org!Ends, OrgSrv
  <2>1. srv' \in OrgSrv
    BY <2>f, <2>n
  <2>2. odd' \in {0, 1}
    BY <2>f, <2>n
  <2>3. (OrgOnName \/ OrgOnTeam \/ OrgOnNew)'
    BY <2>g, <2>u, <2>n DEF OrgOnName
  <2>4. OrgFew'
    BY <2>f, <2>n, OrgFewer
  <2>5. ~Org!Stuck'
    BY <2>f, <2>u, <2>n DEF Org!Stuck, Org!InFlight
  <2> QED
    BY <2>1, <2>2, <2>3, <2>4, <2>5 DEF OrgInv
<1>21. ASSUME NEW c \in net, Org!Gone(c) PROVE OrgInv'
  <2>f. OrgFew /\ ~Org!Stuck /\ srv \in OrgSrv /\ odd \in {0, 1}
    BY DEF OrgInv
  <2>g. OrgOnName
    BY <1>21, OrgPage DEF Org!Gone, Org!At
  <2>u. /\ ui' \in OrgName /\ ui.page = "name" /\ ui'.page = "name"
        /\ ui'.shown = ui.shown /\ ui'.text = ui.text /\ ui'.saving = ui.saving /\ ui'.asking = ui.asking /\ ui'.phrase = ui.phrase /\ ui'.gone = TRUE /\ ui'.typed = ui.typed /\ ui'.crossed = ui.crossed
    BY <1>21, <2>g, Zenon DEF Org!Gone, OrgOnName, OrgName
  <2>n. c \in net /\ net' = {} /\ srv' = srv /\ odd' = odd
    BY <1>21, <2>f DEF Org!Gone, Org!Ends, OrgSrv
  <2>1. srv' \in OrgSrv
    BY <2>f, <2>n
  <2>2. odd' \in {0, 1}
    BY <2>f, <2>n
  <2>3. (OrgOnName \/ OrgOnTeam \/ OrgOnNew)'
    BY <2>g, <2>u, <2>n DEF OrgOnName
  <2>4. OrgFew'
    BY <2>f, <2>n, OrgFewer
  <2>5. ~Org!Stuck'
    BY <2>f, <2>u, <2>n DEF Org!Stuck, Org!InFlight
  <2> QED
    BY <2>1, <2>2, <2>3, <2>4, <2>5 DEF OrgInv
<1>22. ASSUME NEW c \in net, Org!Invited(c) PROVE OrgInv'
  <2>f. OrgFew /\ ~Org!Stuck /\ srv \in OrgSrv /\ odd \in {0, 1}
    BY DEF OrgInv
  <2>g. OrgOnTeam
    BY <1>22, OrgCaller DEF Org!Invited
  <2>u. /\ ui' \in OrgTeam /\ ui.page = "team" /\ ui'.page = "team"
        /\ ui'.list = ui.list /\ ui'.email = None /\ ui'.inviting = FALSE /\ ui'.limit = ui.limit /\ ui'.asked = ui.asked /\ ui'.removing = ui.removing /\ ui'.missed = ui.missed
    BY <1>22, <2>g, Zenon DEF Org!Invited, OrgOnTeam, OrgTeam
  <2>n. c \in net /\ net' = Org!Overtaken(net \ {c}) \cup {Org!Reading} /\ UNCHANGED odd /\ c.kind = "invite"
    BY <1>22 DEF Org!Invited, Org!MembersChange
  <2>s. srv' \in OrgSrv
    BY <1>22, <2>f, <2>g, OrgKinds DEF Org!Invited, Org!MembersChange, OrgSrv, OrgOnTeam
  <2>r. /\ net' \subseteq OrgReads(Members) \cup TeamActs /\ OrgFew'
        /\ \A d \in net' : d.kind = "read" /\ d.last => d.sees = None
        /\ \E d \in net' : d.kind = "read" /\ d.last
        /\ \A d \in net \ {c} : d.kind # "read" => d \in net'
    BY <2>f, <2>g, <2>n, OrgReread, OrgKinds, Zenon DEF OrgOnTeam
  <2>1. srv' \in OrgSrv
    BY <2>s
  <2>2. odd' \in {0, 1}
    BY <2>f, <2>n
  <2>3. (OrgOnName \/ OrgOnTeam \/ OrgOnNew)'
    BY <2>g, <2>u, <2>r, <2>s DEF OrgOnTeam
  <2>4. OrgFew'
    BY <2>r
  <2>5. ~Org!Stuck'
    BY <2>f, <2>u, <2>n, <2>r, Zenon DEF Org!Stuck, Org!InFlight
  <2> QED
    BY <2>1, <2>2, <2>3, <2>4, <2>5 DEF OrgInv
<1>23. ASSUME NEW c \in net, Org!MemberRemoved(c) PROVE OrgInv'
  <2>f. OrgFew /\ ~Org!Stuck /\ srv \in OrgSrv /\ odd \in {0, 1}
    BY DEF OrgInv
  <2>g. OrgOnTeam
    BY <1>23, OrgCaller DEF Org!MemberRemoved
  <2>u. /\ ui' \in OrgTeam /\ ui.page = "team" /\ ui'.page = "team"
        /\ ui'.list = ui.list /\ ui'.email = ui.email /\ ui'.inviting = ui.inviting /\ ui'.limit = ui.limit /\ ui'.asked = None /\ ui'.removing = FALSE /\ ui'.missed = ui.missed
    BY <1>23, <2>g, Zenon DEF Org!MemberRemoved, OrgOnTeam, OrgTeam
  <2>n. c \in net /\ net' = Org!Overtaken(net \ {c}) \cup {Org!Reading} /\ UNCHANGED odd /\ c.kind = "remove"
    BY <1>23 DEF Org!MemberRemoved, Org!MembersChange
  <2>s. srv' \in OrgSrv
    BY <1>23, <2>f, <2>g, OrgKinds DEF Org!MemberRemoved, Org!MembersChange, OrgSrv, OrgOnTeam
  <2>r. /\ net' \subseteq OrgReads(Members) \cup TeamActs /\ OrgFew'
        /\ \A d \in net' : d.kind = "read" /\ d.last => d.sees = None
        /\ \E d \in net' : d.kind = "read" /\ d.last
        /\ \A d \in net \ {c} : d.kind # "read" => d \in net'
    BY <2>f, <2>g, <2>n, OrgReread, OrgKinds, Zenon DEF OrgOnTeam
  <2>1. srv' \in OrgSrv
    BY <2>s
  <2>2. odd' \in {0, 1}
    BY <2>f, <2>n
  <2>3. (OrgOnName \/ OrgOnTeam \/ OrgOnNew)'
    BY <2>g, <2>u, <2>r, <2>s DEF OrgOnTeam
  <2>4. OrgFew'
    BY <2>r
  <2>5. ~Org!Stuck'
    BY <2>f, <2>u, <2>n, <2>r, Zenon DEF Org!Stuck, Org!InFlight
  <2> QED
    BY <2>1, <2>2, <2>3, <2>4, <2>5 DEF OrgInv
<1>24. ASSUME NEW c \in net, Org!MembersRead(c) PROVE OrgInv'
  <2>f. OrgFew /\ ~Org!Stuck /\ srv \in OrgSrv /\ odd \in {0, 1}
    BY DEF OrgInv
  <2>g. OrgOnTeam
    BY <1>24, OrgPage DEF Org!MembersRead, Org!At
  <2>n. c \in net /\ net' = net \ {c} /\ UNCHANGED <<srv, odd>> /\ c.kind = "read" /\ c.sees # None
    BY <1>24 DEF Org!MembersRead, Org!Ends
  <2>c. c.sees \in SUBSET Members /\ c.last \in BOOLEAN
    BY <2>g, <2>n, OrgKinds DEF OrgOnTeam
  <2>l. c.last => ui' = [ui EXCEPT !.list = c.sees, !.missed = FALSE]
    BY <1>24 DEF Org!MembersRead
  <2>m. ~c.last => ui' = ui
    BY <1>24 DEF Org!MembersRead
  <2>u. /\ ui' \in OrgTeam /\ ui.page = "team" /\ ui'.page = "team"
        /\ ui'.inviting = ui.inviting /\ ui'.removing = ui.removing
        /\ c.last => ui'.list = c.sees
    <3>1. CASE c.last
      BY <2>g, <2>c, <2>l, <3>1, ZenonT(40) DEF OrgOnTeam, OrgTeam
    <3>2. CASE ~c.last
      BY <2>g, <2>m, <3>2 DEF OrgOnTeam, OrgTeam
    <3> QED
      BY <3>1, <3>2
  <2>1. srv' \in OrgSrv
    BY <2>f, <2>n
  <2>2. odd' \in {0, 1}
    BY <2>f, <2>n
  <2>3. (OrgOnName \/ OrgOnTeam \/ OrgOnNew)'
    <3>1. CASE c.last
      BY <2>g, <2>n, <2>u, <3>1 DEF OrgOnTeam
    <3>2. CASE ~c.last
      BY <2>g, <2>n, <2>m, <3>2 DEF OrgOnTeam
    <3> QED
      BY <3>1, <3>2
  <2>4. OrgFew'
    BY <2>f, <2>n, OrgFewer
  <2>5. ~Org!Stuck'
    BY <2>f, <2>u, <2>n DEF Org!Stuck, Org!InFlight
  <2> QED
    BY <2>1, <2>2, <2>3, <2>4, <2>5 DEF OrgInv
<1>25. ASSUME NEW c \in net, Org!Created(c) PROVE OrgInv'
  <2>f. OrgFew /\ ~Org!Stuck /\ srv \in OrgSrv /\ odd \in {0, 1}
    BY DEF OrgInv
  <2>g. OrgOnNew
    BY <1>25, OrgCaller DEF Org!Created
  <2>u. /\ ui' \in OrgNew /\ ui.page = "new" /\ ui'.page = "new"
        /\ ui'.used = ui.used /\ ui'.named = ui.named /\ ui'.creating = FALSE /\ ui'.limit = ui.limit /\ ui'.error = ui.error
    BY <1>25, <2>g, Zenon DEF Org!Created, OrgOnNew, OrgNew
  <2>n. c \in net /\ net' = net \ {c} /\ srv' \in OrgSrv /\ odd' = odd /\ c.kind = "create"
    BY <1>25, <2>f DEF Org!Created, Org!Ends, Org!Cap, OrgSrv
  <2>1. srv' \in OrgSrv
    BY <2>f, <2>n
  <2>2. odd' \in {0, 1}
    BY <2>f, <2>n
  <2>3. (OrgOnName \/ OrgOnTeam \/ OrgOnNew)'
    BY <2>g, <2>u, <2>n DEF OrgOnNew
  <2>4. OrgFew'
    BY <2>f, <2>n, OrgFewer
  <2>5. ~Org!Stuck'
    BY <2>f, <2>u, <2>n DEF Org!Stuck, Org!InFlight
  <2> QED
    BY <2>1, <2>2, <2>3, <2>4, <2>5 DEF OrgInv
<1>26. ASSUME NEW c \in net, Org!ReadFails(c) PROVE OrgInv'
  <2>f. OrgFew /\ ~Org!Stuck /\ srv \in OrgSrv /\ odd \in {0, 1} /\ (OrgOnName \/ OrgOnTeam)
    BY <1>26, OrgCaller DEF OrgInv, Org!ReadFails, Org!Fails, Org!Ends
  <2>n. c \in net /\ c.kind = "read" /\ net' = net \ {c} /\ srv' = srv /\ odd > 0 /\ odd' = odd - 1
    BY <1>26 DEF Org!ReadFails, Org!Fails, Org!Ends
  <2>l. ui.page = "team" /\ c.last => ui' = [ui EXCEPT !.missed = TRUE]
    BY <1>26 DEF Org!ReadFails
  <2>m. ~(ui.page = "team" /\ c.last) => ui' = ui
    BY <1>26 DEF Org!ReadFails
  <2>p. OrgOnName \/ OrgOnTeam
    BY <2>f
  <2>1. srv' \in OrgSrv
    BY <2>f, <2>n
  <2>2. odd' \in {0, 1}
    BY <2>f, <2>n
  <2>3. (OrgOnName \/ OrgOnTeam \/ OrgOnNew)'
    <3>1. CASE OrgOnName
      <4>1. ui.page = "name"
        BY <3>1 DEF OrgOnName, OrgName
      <4> QED
        BY <2>m, <2>n, <3>1, <4>1 DEF OrgOnName
    <3>2. CASE OrgOnTeam /\ c.last
      <4>1. ui' \in OrgTeam /\ ui'.missed
        BY <2>l, <3>2, Zenon DEF OrgOnTeam, OrgTeam
      <4> QED
        BY <2>n, <3>2, <4>1 DEF OrgOnTeam
    <3>3. CASE OrgOnTeam /\ ~c.last
      BY <2>m, <2>n, <3>3 DEF OrgOnTeam
    <3> QED
      BY <2>p, <3>1, <3>2, <3>3
  <2>4. OrgFew'
    BY <2>f, <2>n, OrgFewer
  <2>5. ~Org!Stuck'
    <3>1. CASE ui' = ui
      BY <2>f, <2>n, <3>1 DEF Org!Stuck, Org!InFlight
    <3>2. CASE OrgOnTeam /\ ui' = [ui EXCEPT !.missed = TRUE]
      <4>1. /\ ui.page = "team" /\ ui'.page = "team"
            /\ ui'.inviting = ui.inviting /\ ui'.removing = ui.removing
        BY <3>2 DEF OrgOnTeam, OrgTeam
      <4> QED
        BY <2>f, <2>n, <4>1 DEF Org!Stuck, Org!InFlight
    <3> QED
      BY <2>l, <2>m, <3>1, <3>2, OrgPage
  <2> QED
    BY <2>1, <2>2, <2>3, <2>4, <2>5 DEF OrgInv
<1>27. ASSUME NEW c \in net, NEW limit \in BOOLEAN, Org!CallFails(c, limit) PROVE OrgInv'
  <2>f. OrgFew /\ ~Org!Stuck /\ srv \in OrgSrv /\ odd \in {0, 1}
    BY DEF OrgInv
  <2>n. c.kind # "read" /\ net' = net \ {c} /\ srv' = srv /\ (odd' = odd \/ (odd > 0 /\ odd' = odd - 1))
    BY <1>27 DEF Org!CallFails, Org!Fails, Org!Ends
  <2>b. (~limit) \in BOOLEAN
    OBVIOUS
  <2>k1. ASSUME c.kind = "save" PROVE (OrgOnName \/ OrgOnTeam \/ OrgOnNew)' /\ ~Org!Stuck'
    <3>1. OrgOnName /\ ui' = [ui EXCEPT !.saving = FALSE]
      BY <1>27, <2>k1, OrgCaller DEF Org!CallFails
    <3>2. OrgOnName' /\ ui'.page = "name" /\ ~ui'.saving
      BY <2>n, <3>1, Zenon DEF OrgOnName, OrgName
    <3> QED
      BY <3>2 DEF Org!Stuck
  <2>k2. ASSUME c.kind = "delete" PROVE (OrgOnName \/ OrgOnTeam \/ OrgOnNew)' /\ ~Org!Stuck'
    <3>1. OrgOnName /\ ui' = ui
      BY <1>27, <2>k2, OrgCaller DEF Org!CallFails
    <3> QED
      BY <2>f, <2>n, <2>k2, <3>1 DEF OrgOnName, OrgName, Org!Stuck, Org!InFlight
  <2>k3. ASSUME c.kind = "invite" PROVE (OrgOnName \/ OrgOnTeam \/ OrgOnNew)' /\ ~Org!Stuck'
    <3>1. OrgOnTeam /\ ui' = [ui EXCEPT !.inviting = FALSE, !.limit = limit]
      BY <1>27, <2>k3, OrgCaller DEF Org!CallFails
    <3>2. OrgOnTeam' /\ ui.page = "team" /\ ui'.page = "team" /\ ~ui'.inviting /\ ui'.removing = ui.removing
      BY <2>n, <2>k3, <3>1, Zenon DEF OrgOnTeam, OrgTeam
    <3> QED
      BY <2>f, <2>n, <2>k3, <3>2 DEF Org!Stuck, Org!InFlight
  <2>k4. ASSUME c.kind = "remove" PROVE (OrgOnName \/ OrgOnTeam \/ OrgOnNew)' /\ ~Org!Stuck'
    <3>1. OrgOnTeam /\ ui' = [ui EXCEPT !.removing = FALSE]
      BY <1>27, <2>k4, OrgCaller DEF Org!CallFails
    <3>2. OrgOnTeam' /\ ui.page = "team" /\ ui'.page = "team" /\ ~ui'.removing /\ ui'.inviting = ui.inviting
      BY <2>n, <2>k4, <3>1, Zenon DEF OrgOnTeam, OrgTeam
    <3> QED
      BY <2>f, <2>n, <2>k4, <3>2 DEF Org!Stuck, Org!InFlight
  <2>k5. ASSUME c.kind = "create" PROVE (OrgOnName \/ OrgOnTeam \/ OrgOnNew)' /\ ~Org!Stuck'
    <3>1. OrgOnNew /\ ui' = [ui EXCEPT !.creating = FALSE, !.limit = limit, !.error = ~limit]
      BY <1>27, <2>k5, OrgCaller DEF Org!CallFails
    <3>2. OrgOnNew' /\ ui'.page = "new" /\ ~ui'.creating
      BY <2>n, <2>b, <3>1, Zenon DEF OrgOnNew, OrgNew
    <3> QED
      BY <3>2 DEF Org!Stuck
  <2>k. c.kind \in {"save", "delete", "invite", "remove", "create"}
    BY <2>n, OrgCaller
  <2>1. srv' \in OrgSrv
    BY <2>f, <2>n
  <2>2. odd' \in {0, 1}
    BY <2>f, <2>n
  <2>3. (OrgOnName \/ OrgOnTeam \/ OrgOnNew)'
    BY <2>k, <2>k1, <2>k2, <2>k3, <2>k4, <2>k5
  <2>4. OrgFew'
    BY <2>f, <2>n, OrgFewer
  <2>5. ~Org!Stuck'
    BY <2>k, <2>k1, <2>k2, <2>k3, <2>k4, <2>k5
  <2> QED
    BY <2>1, <2>2, <2>3, <2>4, <2>5 DEF OrgInv
<1> QED
  BY <1>1, <1>2, <1>3, <1>4, <1>5, <1>6, <1>7, <1>8, <1>9, <1>10, <1>11, <1>12, <1>13, <1>14, <1>15,
     <1>16, <1>17, <1>18, <1>19, <1>20, <1>21, <1>22, <1>23, <1>24, <1>25, <1>26, <1>27 DEF Org!Next,
     Org!Answer

\* What the invariant says of the screen.
LEMMA OrgHolds ==
    ASSUME OrgInv
    PROVE  Org!TypeOK /\ ~Org!Stuck /\ Org!FieldFollows
<1>1. srv \in OrgSrv /\ srv.count \in 0..Org!Cap /\ OrgFew /\ Org!Cardinality(net) <= MaxCalls
  <2>1. srv \in OrgSrv /\ srv.count \in {0, 1, 2} /\ OrgFew
    BY DEF OrgInv, OrgSrv
  <2>2. srv.count \in 0..Org!Cap
    BY <2>1 DEF Org!Cap
  <2> QED
    BY <2>1, <2>2, OrgCardinality DEF OrgFew
<1>2. CASE OrgOnName
  <2>1. /\ ui.page = "name" /\ {ui.shown, ui.text} \subseteq Org!Names
        /\ ui.phrase \in Org!Names \cup {None}
        /\ {ui.saving, ui.asking, ui.gone, ui.typed, ui.crossed} \subseteq BOOLEAN
    BY <1>2 DEF OrgOnName, OrgName
  <2> QED
    BY <1>1, <1>2, <2>1 DEF OrgInv, OrgOnName, Org!TypeOK, Org!FieldFollows
<1>3. CASE OrgOnTeam
  <2>1. /\ ui.page = "team" /\ ui.list \subseteq Members
        /\ {ui.email, ui.asked} \subseteq Members \cup {None}
        /\ {ui.inviting, ui.removing, ui.limit, ui.missed} \subseteq BOOLEAN
    BY <1>3 DEF OrgOnTeam, OrgTeam
  <2>2. net = {} /\ ~ui.missed /\ ~srv.others => ui.list = srv.members
    BY <1>3 DEF OrgOnTeam
  <2> QED
    BY <1>1, <2>1, <2>2 DEF OrgInv, Org!TypeOK, Org!FieldFollows
<1>4. CASE OrgOnNew
  <2>1. /\ ui.page = "new" /\ ui.used \in {0, 1, 2}
        /\ {ui.named, ui.creating, ui.limit, ui.error} \subseteq BOOLEAN
    BY <1>4 DEF OrgOnNew, OrgNew
  <2>2. ui.used \in 0..Org!Cap
    BY <2>1 DEF Org!Cap
  <2> QED
    BY <1>1, <2>1, <2>2 DEF OrgInv, Org!TypeOK, Org!FieldFollows
<1> QED
  BY <1>2, <1>3, <1>4 DEF OrgInv

\* And so does a step that is not the screen's.
LEMMA OrgSame == ASSUME OrgInv, UNCHANGED vars PROVE OrgInv'
  BY DEF vars, OrgInv, Org!Stuck, OrgFew, OrgOnName, OrgOnNew, OrgOnTeam, Org!InFlight

=============================================================================
