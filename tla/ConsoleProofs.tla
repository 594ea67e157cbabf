---------------------------- MODULE ConsoleProofs ----------------------------
(***************************************************************************)
(* The invariants of the screens of the release gate, and the theorems of  *)
(* the console: whatever screen is open, its state has its type, no button *)
(* stays dead, what is done is what was asked, and what is shown agrees.   *)
(***************************************************************************)
EXTENDS ScreenProofs, WellFoundedInduction

-----------------------------------------------------------------------------
(***************************************************************************)
(* The history of the gate.                                                *)
(***************************************************************************)

HistoryUi == [agent : History!Owners \cup {None}, tab : {"results", "history"},
              key : History!Owners \cup {None}, locked : BOOLEAN,
              cache : [History!Owners -> {None} \cup SUBSET History!Sessions],
              last : History!Owners \cup {None}, selected : History!Sessions \cup {None},
              pending : History!Sessions \cup {None}, loaded : BOOLEAN,
              detail : History!Sessions \cup {None}, deleting : SUBSET History!Sessions,
              clicked : History!Sessions \cup {None}]

HistoryCalls ==
    [kind : {"list"}, of : History!Owners]
      \cup [kind : {"report"}, of : History!Sessions]
      \cup [kind : {"delete"}, of : History!Sessions, rows : SUBSET History!Sessions]

\* What waits for its report, and what is open, was clicked last.
HistoryGood(s) ==
    /\ s \in HistoryUi
    /\ s.pending # None => s.pending = s.clicked
    /\ s.detail # None => s.detail = s.clicked

HistoryInv ==
    /\ HistoryGood(ui)
    /\ net \subseteq HistoryCalls /\ srv \subseteq History!Sessions /\ odd \in {0, 1}
    /\ ~History!Stuck

\* A report that is shown leaves a coherent page.
LEMMA HistoryShows ==
    ASSUME NEW s, HistoryGood(s)
    PROVE  HistoryGood(History!Shows(s)) /\ History!Shows(s).deleting = s.deleting
<1> DEFINE o == History!Opened(s)
           t == [s EXCEPT !.detail = o, !.pending = None, !.selected = None, !.loaded = FALSE]
<1>1. CASE History!Wanted(s)
  <2>1. History!Shows(s) = t /\ s.selected = s.clicked
    BY <1>1 DEF History!Shows, History!Wanted, HistoryGood
  <2>o. o \in {s.detail, s.selected} /\ o \in History!Sessions \cup {None}
    BY DEF History!Opened, HistoryGood, HistoryUi
  <2> HIDE DEF o
  <2>2. /\ t \in HistoryUi /\ t.pending = None /\ t.detail \in {s.detail, s.selected}
        /\ t.clicked = s.clicked /\ t.deleting = s.deleting
    BY <2>o, Zenon DEF HistoryGood, HistoryUi
  <2> HIDE DEF t
  <2> QED
    BY <2>1, <2>2 DEF HistoryGood
<1>2. CASE ~History!Wanted(s)
  BY <1>2 DEF History!Shows
<1> QED
  BY <1>1, <1>2

\* The rows on screen are sessions.
LEMMA HistoryRows == ASSUME HistoryInv PROVE History!Rows \in SUBSET History!Sessions
<1>1. ui \in HistoryUi
  BY DEF HistoryInv, HistoryGood
<1>2. CASE History!Known
  BY <1>1, <1>2 DEF History!Rows, History!Known, HistoryUi
<1>3. CASE ~History!Known
  BY <1>1, <1>3 DEF History!Rows, History!Cached, HistoryUi
<1> QED
  BY <1>2, <1>3

\* The invariant holds when the screen is opened.
LEMMA HistoryInit == ASSUME History!Init PROVE HistoryInv
<1>1. ui \in HistoryUi
  BY DEF History!Init, HistoryUi
<1>2. ui.pending = None /\ ui.detail = None /\ ui.deleting = {} /\ net = {} /\ odd = 1
  BY DEF History!Init
<1>3. srv \subseteq History!Sessions
  BY DEF History!Init
<1> QED
  BY <1>1, <1>2, <1>3 DEF HistoryInv, HistoryGood, History!Stuck

\* Every step of the screen keeps the invariant.
LEMMA HistoryStep == ASSUME HistoryInv, History!Next PROVE HistoryInv'
<1>1. ASSUME NEW a \in History!Owners \cup {None}, History!Choose(a) PROVE HistoryInv'
  <2>u. ui' \in HistoryUi /\ ui'.pending = None /\ ui'.detail = None /\ ui'.clicked = None /\ ui'.deleting = ui.deleting
    <3> DEFINE k == History!LastKey
    <3>1. ui \in HistoryUi
      BY DEF HistoryInv, HistoryGood
    <3>2. k \in History!Owners \cup {None}
      BY <3>1 DEF History!LastKey, HistoryUi
    <3>3. ui' = [ui EXCEPT !.agent = a, !.tab = "results", !.key = None, !.last = k, !.detail = None,
                           !.pending = None, !.selected = None, !.loaded = FALSE, !.clicked = None]
      BY <1>1, <3>1 DEF History!Choose, History!GivenUp, HistoryUi
    <3> HIDE DEF k
    <3>4. ui' \in HistoryUi
      BY <3>1, <3>2, <3>3, Zenon DEF HistoryUi
    <3> QED
      BY <3>1, <3>3, <3>4, Zenon DEF HistoryUi
  <2>1. HistoryGood(ui)'
    BY <2>u DEF HistoryInv, HistoryGood
  <2>2. net' \subseteq HistoryCalls
    BY <1>1, <2>u DEF History!Choose, HistoryInv
  <2>3. srv' \subseteq History!Sessions
    BY <1>1, <2>u DEF History!Choose, HistoryInv
  <2>4. odd' \in {0, 1}
    BY <1>1, <2>u DEF History!Choose, HistoryInv
  <2>5. ~History!Stuck'
    BY <1>1, <2>u DEF History!Choose, HistoryInv, History!Stuck
  <2> QED
    BY <2>1, <2>2, <2>3, <2>4, <2>5 DEF HistoryInv
<1>2. ASSUME NEW t \in {"results", "history"}, History!OpenTab(t) PROVE HistoryInv'
  <2>u. ui' \in HistoryUi /\ ui'.pending \in {ui.pending, None} /\ ui'.detail = ui.detail
        /\ ui'.clicked = ui.clicked /\ ui'.deleting = ui.deleting
    <3>1. CASE t = "history"
      BY <1>2, <3>1, Zenon DEF History!OpenTab, HistoryInv, HistoryGood, HistoryUi
    <3>2. CASE t # "history"
      BY <1>2, <3>2, Zenon DEF History!OpenTab, HistoryInv, HistoryGood, HistoryUi
    <3> QED
      BY <3>1, <3>2
  <2>1. HistoryGood(ui)'
    BY <2>u DEF HistoryInv, HistoryGood
  <2>2. net' \subseteq HistoryCalls
    <3>1. History!ListCall(ui') \subseteq HistoryCalls
      BY <2>u DEF History!ListCall, HistoryCalls, HistoryUi, HistoryGood
    <3> QED
      BY <1>2, <3>1 DEF History!OpenTab, HistoryInv
  <2>3. srv' \subseteq History!Sessions
    BY <1>2, <2>u DEF History!OpenTab, HistoryInv
  <2>4. odd' \in {0, 1}
    BY <1>2, <2>u DEF History!OpenTab, HistoryInv
  <2>5. ~History!Stuck'
    <3>1. \A e \in net : e.kind = "delete" => e \in net'
      BY <1>2 DEF History!OpenTab
    <3> QED
      BY <2>u, <3>1 DEF HistoryInv, History!Stuck
  <2> QED
    BY <2>1, <2>2, <2>3, <2>4, <2>5 DEF HistoryInv
<1>3. ASSUME NEW r \in History!Sessions, History!ClickRow(r) PROVE HistoryInv'
  <2>u. HistoryGood(ui') /\ ui'.deleting = ui.deleting
    <3> DEFINE p == History!Pick(r)
               s(b) == [p EXCEPT !.loaded = b]
    <3>1. ui.detail = None
      BY <1>3 DEF History!ClickRow, History!Uncovered
    <3>2. /\ p \in HistoryUi /\ p.pending = r /\ p.clicked = r /\ p.detail = ui.detail
          /\ p.deleting = ui.deleting
      BY Zenon DEF History!Pick, HistoryInv, HistoryGood, HistoryUi
    <3>3. ui' \in {p, s(FALSE), History!Shows(s(TRUE))}
      BY <1>3 DEF History!ClickRow
    <3> HIDE DEF p
    <3>4. \A b \in BOOLEAN : /\ s(b) \in HistoryUi /\ s(b).pending = r /\ s(b).clicked = r
                             /\ s(b).detail = ui.detail /\ s(b).deleting = ui.deleting
      BY <3>2 DEF HistoryUi
    <3> HIDE DEF s
    <3>5. HistoryGood(p) /\ \A b \in BOOLEAN : HistoryGood(s(b))
      BY <3>1, <3>2, <3>4 DEF HistoryGood
    <3> QED
      BY <3>2, <3>3, <3>4, <3>5, HistoryShows, Zenon
  <2>1. HistoryGood(ui)'
    BY <2>u
  <2>2. net' \subseteq HistoryCalls
    <3>1. [kind |-> "report", of |-> r] \in HistoryCalls
      BY DEF HistoryCalls
    <3> QED
      BY <1>3, <3>1 DEF History!ClickRow, History!ReportCall, HistoryInv
  <2>3. srv' \subseteq History!Sessions
    BY <1>3 DEF History!ClickRow, HistoryInv
  <2>4. odd' \in {0, 1}
    BY <1>3 DEF History!ClickRow, HistoryInv
  <2>5. ~History!Stuck'
    <3>1. \A e \in net : e.kind = "delete" => e \in net'
      BY <1>3 DEF History!ClickRow
    <3> QED
      BY <2>u, <3>1 DEF HistoryInv, History!Stuck
  <2> QED
    BY <2>1, <2>2, <2>3, <2>4, <2>5 DEF HistoryInv
<1>4. ASSUME NEW r \in History!Sessions, History!Delete(r) PROVE HistoryInv'
  <2> DEFINE f == History!Forgotten(ui, r)
             d == [kind |-> "delete", of |-> r, rows |-> History!Rows]
             x == History!Rows \ {r}
  <2>r. History!Rows \in SUBSET History!Sessions
    BY HistoryRows
  <2>i. /\ d \in HistoryCalls /\ d.kind = "delete" /\ d.of = r
        /\ net' = History!Unread(ui.key) \cup {d}
    BY <1>4, <2>r DEF History!Delete, HistoryCalls
  <2> HIDE DEF d
  <2>f. /\ f \in HistoryUi /\ f.pending = None /\ f.detail = None /\ f.clicked = ui.clicked
        /\ f.deleting = ui.deleting
    <3>1. CASE ui.selected = r
      BY <3>1, Zenon DEF History!Forgotten, HistoryInv, HistoryGood, HistoryUi
    <3>2. CASE ui.selected # r
      BY <3>2, Zenon DEF History!Forgotten, HistoryInv, HistoryGood, HistoryUi
    <3> QED
      BY <3>1, <3>2
  <2>v. ui' = [f EXCEPT !.deleting = f.deleting \cup {r}, !.cache[ui.key] = x]
    BY <1>4, <2>f DEF History!Delete, HistoryUi
  <2>x. x \in SUBSET History!Sessions
    BY <2>r
  <2> HIDE DEF f, x
  <2>u. /\ ui' \in HistoryUi /\ ui'.pending = None /\ ui'.detail = None /\ ui'.clicked = ui.clicked
        /\ ui'.deleting = ui.deleting \cup {r}
    BY <2>f, <2>v, <2>x, Zenon DEF HistoryUi
  <2>1. HistoryGood(ui)'
    BY <2>u DEF HistoryGood
  <2>2. net' \subseteq HistoryCalls
    BY <2>i DEF HistoryInv, History!Unread
  <2>3. srv' \subseteq History!Sessions
    BY <1>4 DEF History!Delete, HistoryInv
  <2>4. odd' \in {0, 1}
    BY <1>4 DEF History!Delete, HistoryInv
  <2>5. ~History!Stuck'
    <3>1. \A e \in net : e.kind = "delete" => e \in net'
      BY <2>i DEF History!Unread
    <3>2. d \in net'
      BY <2>i
    <3> QED
      BY <2>u, <2>i, <3>1, <3>2 DEF HistoryInv, History!Stuck
  <2> QED
    BY <2>1, <2>2, <2>3, <2>4, <2>5 DEF HistoryInv
<1>5. CASE History!LogsRefreshed
  <2>u. HistoryGood(ui') /\ ui'.deleting = ui.deleting
    BY <1>5, HistoryShows DEF History!LogsRefreshed, HistoryInv
  <2>1. HistoryGood(ui)'
    BY <2>u
  <2>2. net' \subseteq HistoryCalls
    BY <1>5 DEF History!LogsRefreshed, HistoryInv
  <2>3. srv' \subseteq History!Sessions
    BY <1>5 DEF History!LogsRefreshed, HistoryInv
  <2>4. odd' \in {0, 1}
    BY <1>5 DEF History!LogsRefreshed, HistoryInv
  <2>5. ~History!Stuck'
    <3>1. \A e \in net : e.kind = "delete" => e \in net'
      BY <1>5 DEF History!LogsRefreshed
    <3> QED
      BY <2>u, <3>1 DEF HistoryInv, History!Stuck
  <2> QED
    BY <2>1, <2>2, <2>3, <2>4, <2>5 DEF HistoryInv
<1>6. CASE History!Focus
  <2>1. HistoryGood(ui)'
    BY <1>6 DEF History!Focus, HistoryInv, HistoryGood
  <2>2. net' \subseteq HistoryCalls
    <3>1. History!ListCall(ui) \subseteq HistoryCalls
      BY DEF History!ListCall, HistoryCalls, HistoryInv, HistoryGood, HistoryUi
    <3>2. ui.selected # None => History!ReportCall(ui.selected) \subseteq HistoryCalls
      BY DEF History!ReportCall, HistoryCalls, HistoryInv, HistoryGood, HistoryUi
    <3> QED
      BY <1>6, <3>1, <3>2 DEF History!Focus, HistoryInv
  <2>3. srv' \subseteq History!Sessions
    BY <1>6 DEF History!Focus, HistoryInv
  <2>4. odd' \in {0, 1}
    BY <1>6 DEF History!Focus, HistoryInv
  <2>5. ~History!Stuck'
    <3>1. UNCHANGED ui /\ net \subseteq net'
      BY <1>6 DEF History!Focus
    <3> QED
      BY <3>1 DEF HistoryInv, History!Stuck
  <2> QED
    BY <2>1, <2>2, <2>3, <2>4, <2>5 DEF HistoryInv
<1>7. CASE History!CloseDetail
  <2>u. ui' \in HistoryUi /\ ui'.pending = ui.pending /\ ui'.detail = None /\ ui'.clicked = ui.clicked /\ ui'.deleting = ui.deleting
    BY <1>7 DEF History!CloseDetail, HistoryInv, HistoryGood, HistoryUi
  <2>1. HistoryGood(ui)'
    BY <2>u DEF HistoryInv, HistoryGood
  <2>2. net' \subseteq HistoryCalls
    BY <1>7, <2>u DEF History!CloseDetail, HistoryInv
  <2>3. srv' \subseteq History!Sessions
    BY <1>7, <2>u DEF History!CloseDetail, HistoryInv
  <2>4. odd' \in {0, 1}
    BY <1>7, <2>u DEF History!CloseDetail, HistoryInv
  <2>5. ~History!Stuck'
    BY <1>7, <2>u DEF History!CloseDetail, HistoryInv, History!Stuck
  <2> QED
    BY <2>1, <2>2, <2>3, <2>4, <2>5 DEF HistoryInv
<1>8. CASE History!RunStarts
  <2>u. ui' \in HistoryUi /\ ui'.pending = ui.pending /\ ui'.detail = ui.detail /\ ui'.clicked = ui.clicked /\ ui'.deleting = ui.deleting
    BY <1>8, Zenon DEF History!RunStarts, HistoryInv, HistoryGood, HistoryUi
  <2>1. HistoryGood(ui)'
    BY <2>u DEF HistoryInv, HistoryGood
  <2>2. net' \subseteq HistoryCalls
    BY <1>8, <2>u DEF History!RunStarts, HistoryInv
  <2>3. srv' \subseteq History!Sessions
    BY <1>8, <2>u DEF History!RunStarts, HistoryInv
  <2>4. odd' \in {0, 1}
    BY <1>8, <2>u DEF History!RunStarts, HistoryInv
  <2>5. ~History!Stuck'
    BY <1>8, <2>u DEF History!RunStarts, HistoryInv, History!Stuck
  <2> QED
    BY <2>1, <2>2, <2>3, <2>4, <2>5 DEF HistoryInv
<1>9. CASE History!RunEnds
  <2>u. HistoryGood(ui') /\ ui'.deleting = ui.deleting
    <3> DEFINE s == [ui EXCEPT !.locked = FALSE]
               t == [ui EXCEPT !.locked = FALSE, !.detail = None]
    <3>1. /\ s \in HistoryUi /\ s.pending = ui.pending /\ s.detail = ui.detail /\ s.clicked = ui.clicked
          /\ s.deleting = ui.deleting
      BY Zenon DEF HistoryInv, HistoryGood, HistoryUi
    <3>2. /\ t \in HistoryUi /\ t.pending = ui.pending /\ t.detail = None /\ t.clicked = ui.clicked
          /\ t.deleting = ui.deleting
      BY Zenon DEF HistoryInv, HistoryGood, HistoryUi
    <3>3. ui' \in {s, t}
      BY <1>9 DEF History!RunEnds
    <3> HIDE DEF s, t
    <3> QED
      BY <3>1, <3>2, <3>3 DEF HistoryInv, HistoryGood
  <2>1. HistoryGood(ui)'
    BY <2>u
  <2>2. net' \subseteq HistoryCalls
    <3>1. History!ListCall(ui') \subseteq HistoryCalls
      BY <2>u DEF History!ListCall, HistoryCalls, HistoryUi, HistoryGood
    <3> QED
      BY <1>9, <3>1 DEF History!RunEnds, HistoryInv
  <2>3. srv' \subseteq History!Sessions
    BY <1>9 DEF History!RunEnds, HistoryInv
  <2>4. odd' \in {0, 1}
    BY <1>9 DEF History!RunEnds, HistoryInv
  <2>5. ~History!Stuck'
    <3>1. \A e \in net : e.kind = "delete" => e \in net'
      BY <1>9 DEF History!RunEnds
    <3> QED
      BY <2>u, <3>1 DEF HistoryInv, History!Stuck
  <2> QED
    BY <2>1, <2>2, <2>3, <2>4, <2>5 DEF HistoryInv
<1>10. ASSUME NEW c \in net, History!ReportArrives(c) PROVE HistoryInv'
  <2>u. HistoryGood(ui') /\ ui'.deleting = ui.deleting
    <3> DEFINE s == [ui EXCEPT !.loaded = TRUE]
    <3>1. s \in HistoryUi /\ s.pending = ui.pending /\ s.detail = ui.detail /\ s.clicked = ui.clicked
          /\ s.deleting = ui.deleting
      BY Zenon DEF HistoryInv, HistoryGood, HistoryUi
    <3>2. ui' \in {ui, History!Shows(s)}
      BY <1>10 DEF History!ReportArrives
    <3> HIDE DEF s
    <3>3. HistoryGood(s)
      BY <3>1 DEF HistoryInv, HistoryGood
    <3> QED
      BY <3>1, <3>2, <3>3, HistoryShows DEF HistoryInv
  <2>1. HistoryGood(ui)'
    BY <2>u
  <2>2. net' \subseteq HistoryCalls
    BY <1>10 DEF History!ReportArrives, HistoryInv
  <2>3. srv' \subseteq History!Sessions
    BY <1>10 DEF History!ReportArrives, HistoryInv
  <2>4. odd' \in {0, 1}
    BY <1>10 DEF History!ReportArrives, HistoryInv
  <2>5. ~History!Stuck'
    <3>1. \A e \in net : e.kind = "delete" => e \in net'
      BY <1>10 DEF History!ReportArrives
    <3> QED
      BY <2>u, <3>1 DEF HistoryInv, History!Stuck
  <2> QED
    BY <2>1, <2>2, <2>3, <2>4, <2>5 DEF HistoryInv
<1>11. ASSUME NEW c \in net, History!ReportFails(c) PROVE HistoryInv'
  <2>u. HistoryGood(ui') /\ ui'.deleting = ui.deleting
    <3> DEFINE s == [ui EXCEPT !.pending = None, !.selected = None, !.loaded = FALSE]
    <3>1. s \in HistoryUi /\ s.pending = None /\ s.detail = ui.detail /\ s.clicked = ui.clicked
          /\ s.deleting = ui.deleting
      BY Zenon DEF HistoryInv, HistoryGood, HistoryUi
    <3>2. ui' \in {ui, s}
      BY <1>11 DEF History!ReportFails
    <3> HIDE DEF s
    <3> QED
      BY <3>1, <3>2 DEF HistoryInv, HistoryGood
  <2>1. HistoryGood(ui)'
    BY <2>u
  <2>2. net' \subseteq HistoryCalls
    BY <1>11 DEF History!ReportFails, HistoryInv
  <2>3. srv' \subseteq History!Sessions
    BY <1>11 DEF History!ReportFails, HistoryInv
  <2>4. odd' \in {0, 1}
    BY <1>11 DEF History!ReportFails, HistoryInv
  <2>5. ~History!Stuck'
    <3>1. \A e \in net : e.kind = "delete" => e \in net'
      BY <1>11 DEF History!ReportFails
    <3> QED
      BY <2>u, <3>1 DEF HistoryInv, History!Stuck
  <2> QED
    BY <2>1, <2>2, <2>3, <2>4, <2>5 DEF HistoryInv
<1>12. ASSUME NEW c \in net, History!ListArrives(c) PROVE HistoryInv'
  <2>c. c.of \in History!Owners /\ History!Retained(c.of) \in SUBSET History!Sessions
    BY <1>12 DEF History!ListArrives, History!Retained, HistoryInv, HistoryCalls
  <2>u. ui' \in HistoryUi /\ ui'.pending = ui.pending /\ ui'.detail = ui.detail /\ ui'.clicked = ui.clicked /\ ui'.deleting = ui.deleting
    BY <1>12, <2>c DEF History!ListArrives, HistoryInv, HistoryGood, HistoryUi
  <2>1. HistoryGood(ui)'
    BY <2>u DEF HistoryInv, HistoryGood
  <2>2. net' \subseteq HistoryCalls
    BY <1>12, <2>u DEF History!ListArrives, HistoryInv
  <2>3. srv' \subseteq History!Sessions
    BY <1>12, <2>u DEF History!ListArrives, HistoryInv
  <2>4. odd' \in {0, 1}
    BY <1>12, <2>u DEF History!ListArrives, HistoryInv
  <2>5. ~History!Stuck'
    <3>1. \A e \in net : e.kind = "delete" => e \in net'
      BY <1>12 DEF History!ListArrives
    <3> QED
      BY <2>u, <3>1 DEF HistoryInv, History!Stuck
  <2> QED
    BY <2>1, <2>2, <2>3, <2>4, <2>5 DEF HistoryInv
<1>13. ASSUME NEW c \in net, History!DeleteDone(c) PROVE HistoryInv'
  <2> DEFINE x == {r \in srv' : Owner[r] = ui.key}
             f == IF ui.key = None THEN ui ELSE [ui EXCEPT !.cache[ui.key] = x]
  <2>c. c \in HistoryCalls /\ c.kind = "delete"
    BY <1>13 DEF HistoryInv, History!DeleteDone
  <2>x. x \in SUBSET History!Sessions /\ srv' \subseteq srv
    BY <1>13, <2>c DEF History!DeleteDone, HistoryCalls, HistoryInv
  <2>v. ui' = History!Unmarked(f, c.of)
    BY <1>13 DEF History!DeleteDone
  <2> HIDE DEF x
  <2>f. /\ f \in HistoryUi /\ f.pending = ui.pending /\ f.detail = ui.detail /\ f.clicked = ui.clicked
        /\ f.deleting = ui.deleting
    BY <2>x DEF HistoryInv, HistoryGood, HistoryUi
  <2> HIDE DEF f
  <2>u. /\ ui' \in HistoryUi /\ ui'.pending = ui.pending /\ ui'.detail = ui.detail
        /\ ui'.clicked = ui.clicked /\ ui'.deleting = ui.deleting \ {c.of}
    BY <2>f, <2>v DEF History!Unmarked, HistoryUi
  <2>1. HistoryGood(ui)'
    BY <2>u DEF HistoryInv, HistoryGood
  <2>2. net' \subseteq HistoryCalls
    BY <1>13 DEF History!DeleteDone, History!Unread, HistoryInv
  <2>3. srv' \subseteq History!Sessions
    BY <2>x DEF HistoryInv
  <2>4. odd' \in {0, 1}
    BY <1>13 DEF History!DeleteDone, History!Unread, HistoryInv
  <2>5. ~History!Stuck'
    <3>1. \A e \in net : e.kind = "delete" /\ e # c => e \in net'
      BY <1>13 DEF History!DeleteDone, History!Unread
    <3> QED
      BY <2>u, <3>1 DEF HistoryInv, History!Stuck
  <2> QED
    BY <2>1, <2>2, <2>3, <2>4, <2>5 DEF HistoryInv
<1>14. ASSUME NEW c \in net, History!DeleteFails(c) PROVE HistoryInv'
  <2> DEFINE x == c.rows
             f == IF ui.key = None THEN ui ELSE [ui EXCEPT !.cache[ui.key] = x]
  <2>c. c \in HistoryCalls /\ c.kind = "delete"
    BY <1>14 DEF HistoryInv, History!DeleteFails
  <2>x. x \in SUBSET History!Sessions /\ srv' \subseteq srv
    BY <1>14, <2>c DEF History!DeleteFails, HistoryCalls, HistoryInv
  <2>v. ui' = History!Unmarked(f, c.of)
    BY <1>14 DEF History!DeleteFails
  <2> HIDE DEF x
  <2>f. /\ f \in HistoryUi /\ f.pending = ui.pending /\ f.detail = ui.detail /\ f.clicked = ui.clicked
        /\ f.deleting = ui.deleting
    BY <2>x DEF HistoryInv, HistoryGood, HistoryUi
  <2> HIDE DEF f
  <2>u. /\ ui' \in HistoryUi /\ ui'.pending = ui.pending /\ ui'.detail = ui.detail
        /\ ui'.clicked = ui.clicked /\ ui'.deleting = ui.deleting \ {c.of}
    BY <2>f, <2>v DEF History!Unmarked, HistoryUi
  <2>1. HistoryGood(ui)'
    BY <2>u DEF HistoryInv, HistoryGood
  <2>2. net' \subseteq HistoryCalls
    BY <1>14 DEF History!DeleteFails, History!Unread, HistoryInv
  <2>3. srv' \subseteq History!Sessions
    BY <2>x DEF HistoryInv
  <2>4. odd' \in {0, 1}
    BY <1>14 DEF History!DeleteFails, History!Unread, HistoryInv
  <2>5. ~History!Stuck'
    <3>1. \A e \in net : e.kind = "delete" /\ e # c => e \in net'
      BY <1>14 DEF History!DeleteFails, History!Unread
    <3> QED
      BY <2>u, <3>1 DEF HistoryInv, History!Stuck
  <2> QED
    BY <2>1, <2>2, <2>3, <2>4, <2>5 DEF HistoryInv
<1> QED
  BY <1>1, <1>2, <1>3, <1>4, <1>5, <1>6, <1>7, <1>8, <1>9, <1>10, <1>11, <1>12, <1>13, <1>14 DEF History!Next

\* What the invariant says of the screen.
LEMMA HistoryHolds == ASSUME HistoryInv PROVE History!TypeOK /\ History!OpensClicked
  BY DEF HistoryInv, HistoryGood, HistoryUi, History!TypeOK, History!OpensClicked

\* And so does a step that is not the screen's.
LEMMA HistorySame == ASSUME HistoryInv, UNCHANGED vars PROVE HistoryInv'
  BY DEF vars, HistoryInv, History!Stuck

-----------------------------------------------------------------------------
(***************************************************************************)
(* The drawing of the map.                                                 *)
(***************************************************************************)

GraphUi == [map : {"live", "gate"}, agents : SUBSET Agents, nodes : Graph!Layouts,
            history : Seq(Graph!Layouts), index : Nat, saved : Graph!Layouts,
            selected : Agents \cup {None}, drag : Agents \cup {None}, click : Agents \cup {None},
            recent : BOOLEAN, commit : BOOLEAN]

\* Every layout that is kept shows the agents of the list, or none at all;
\* a drop is recent until its click has come.
GraphGood(s) ==
    /\ s \in GraphUi
    /\ s.index <= Len(s.history) /\ Len(s.history) <= HistoryCap
    /\ \A i \in 1..Len(s.history) : DOMAIN s.history[i] \in {s.agents, {}}
    /\ DOMAIN s.nodes \in {s.agents, {}}
    /\ s.click # None => s.recent

GraphInv == GraphGood(ui) /\ srv \in SUBSET Agents

\* A layout places some of the agents.
LEMMA GraphLayouts ==
    /\ \A f \in Graph!Layouts : DOMAIN f \in SUBSET Agents /\ f \in [DOMAIN f -> Graph!Places]
    /\ \A A \in SUBSET Agents : [A -> Graph!Places] \subseteq Graph!Layouts
    /\ Graph!Nothing \in Graph!Layouts /\ DOMAIN Graph!Nothing = {}
<1>1. \A A \in SUBSET Agents : [A -> Graph!Places] \subseteq Graph!Layouts
  BY DEF Graph!Layouts
<1>2. \A f \in Graph!Layouts : DOMAIN f \in SUBSET Agents /\ f \in [DOMAIN f -> Graph!Places]
  <2> SUFFICES ASSUME NEW f \in Graph!Layouts
               PROVE  DOMAIN f \in SUBSET Agents /\ f \in [DOMAIN f -> Graph!Places]
    OBVIOUS
  <2>1. PICK A \in SUBSET Agents : f \in [A -> Graph!Places]
    BY DEF Graph!Layouts
  <2>2. DOMAIN f = A
    BY <2>1
  <2> QED
    BY <2>1, <2>2
<1>3. Graph!Nothing \in [{} -> Graph!Places] /\ DOMAIN Graph!Nothing = {}
  BY DEF Graph!Nothing
<1>4. {} \in SUBSET Agents
  OBVIOUS
<1> QED
  BY <1>1, <1>2, <1>3, <1>4, Zenon

\* A history that is reset is good, and empty.
LEMMA GraphReset == ASSUME ConsoleAssumption, NEW s, GraphGood(s)
                    PROVE  GraphGood(Graph!Reset(s)) /\ Graph!Reset(s).history = <<>>
<1> DEFINE t == Graph!Reset(s)
<1>1. <<>> \in Seq(Graph!Layouts) /\ 0 \in Nat /\ Len(<<>>) = 0
  OBVIOUS
<1>2. t \in GraphUi
  BY <1>1, Zenon DEF Graph!Reset, GraphGood, GraphUi
<1>3. /\ t.history = <<>> /\ t.index = 0 /\ t.nodes = s.nodes /\ t.agents = s.agents
      /\ t.click = s.click /\ t.recent = s.recent
  BY DEF Graph!Reset, GraphGood, GraphUi
<1> HIDE DEF t
<1>4. t.index <= Len(t.history) /\ Len(t.history) <= HistoryCap
  BY <1>1, <1>3 DEF ConsoleAssumption
<1>5. \A i \in 1..Len(t.history) : DOMAIN t.history[i] \in {t.agents, {}}
  BY <1>1, <1>3
<1> QED
  BY <1>2, <1>3, <1>4, <1>5 DEF GraphGood, t

\* A state that is kept in the history leaves it good.
LEMMA GraphKept == ASSUME NEW s, GraphGood(s) PROVE GraphGood(Graph!Kept(s))
<1> DEFINE t == Graph!Kept(s)
<1>1. /\ t \in GraphUi /\ t.history = s.history /\ t.index = s.index /\ t.nodes = s.nodes
      /\ t.agents = s.agents /\ t.click = s.click /\ t.recent = s.recent
  BY DEF Graph!Kept, GraphGood, GraphUi
<1> HIDE DEF t
<1> QED
  BY <1>1 DEF GraphGood, t

\* A layout more, in place of what could be redone, and one less at the limit.
LEMMA GraphCommitted ==
    ASSUME ConsoleAssumption, NEW s, GraphGood(s) PROVE GraphGood(Graph!Committed(s))
<1> DEFINE h == s.history
           n == s.index
           b == SubSeq(h, 1, n)
           c == Append(b, s.nodes)
           d == Graph!Cut(c)
           m == IF n + 1 > HistoryCap THEN HistoryCap ELSE n + 1
           t == Graph!Committed(s)
<1>1. /\ h \in Seq(Graph!Layouts) /\ n \in Nat /\ n <= Len(h) /\ Len(h) <= HistoryCap
      /\ HistoryCap \in Nat \ {0} /\ s.nodes \in Graph!Layouts
      /\ \A i \in 1..Len(h) : DOMAIN h[i] \in {s.agents, {}}
  BY DEF GraphGood, GraphUi, ConsoleAssumption
<1>2. DOMAIN s.nodes \in {s.agents, {}}
  BY DEF GraphGood
<1>t. t = [s EXCEPT !.history = d, !.index = m]
  BY DEF Graph!Committed
<1> HIDE DEF h, n, t
<1>3. b \in Seq(Graph!Layouts) /\ Len(b) = n /\ \A i \in 1..n : b[i] = h[i]
  BY <1>1
<1> HIDE DEF b
<1>4. c \in Seq(Graph!Layouts) /\ Len(c) = n + 1 /\ \A i \in 1..(n + 1) : DOMAIN c[i] \in {s.agents, {}}
  <2>1. c \in Seq(Graph!Layouts) /\ Len(c) = n + 1 /\ c[n + 1] = s.nodes
    BY <1>1, <1>3
  <2>2. ASSUME NEW i \in 1..n PROVE DOMAIN c[i] \in {s.agents, {}}
    <3>1. c[i] = b[i] /\ b[i] = h[i] /\ i \in 1..Len(h)
      BY <1>1, <1>3
    <3> QED
      BY <1>1, <3>1
  <2> HIDE DEF c
  <2>3. ASSUME NEW i \in 1..(n + 1) PROVE i = n + 1 \/ i \in 1..n
    BY <1>1
  <2> QED
    BY <1>2, <2>1, <2>2, <2>3
<1> HIDE DEF c
<1>5. d \in Seq(Graph!Layouts) /\ Len(d) = m /\ \A i \in 1..m : DOMAIN d[i] \in {s.agents, {}}
  <2>1. CASE n + 1 <= HistoryCap
    <3>1. d = c /\ m = n + 1
      BY <1>1, <1>4, <2>1 DEF Graph!Cut
    <3> QED
      BY <1>4, <3>1
  <2>2. CASE n + 1 > HistoryCap
    <3>1. n = HistoryCap /\ m = HistoryCap
      BY <1>1, <2>2
    <3>2. d = SubSeq(c, Len(c) - HistoryCap + 1, Len(c))
      BY <1>4, <2>2, Zenon DEF Graph!Cut
    <3>3. d = SubSeq(c, 2, n + 1)
      <4>1. Len(c) - HistoryCap + 1 = 2
        BY <1>1, <1>4, <3>1
      <4> QED
        BY <1>4, <3>2, <4>1, Zenon
    <3> HIDE DEF d
    <3>4. d \in Seq(Graph!Layouts) /\ Len(d) = n /\ \A i \in 1..n : d[i] = c[i + 1]
      BY <1>1, <1>4, <3>3
    <3>5. ASSUME NEW i \in 1..n PROVE DOMAIN d[i] \in {s.agents, {}}
      <4>1. i + 1 \in 1..(n + 1) /\ d[i] = c[i + 1]
        BY <1>1, <3>4
      <4> QED
        BY <1>4, <4>1
    <3> QED
      BY <3>1, <3>4, <3>5
  <2> QED
    BY <1>1, <2>1, <2>2
<1>6. m \in Nat /\ m <= HistoryCap
  BY <1>1
<1> HIDE DEF d, m
<1>7. /\ t \in GraphUi /\ t.history = d /\ t.index = m /\ t.nodes = s.nodes
      /\ t.agents = s.agents /\ t.click = s.click /\ t.recent = s.recent
  BY <1>t, <1>5, <1>6, Zenon DEF GraphGood, GraphUi
<1>8. t.index <= Len(t.history) /\ Len(t.history) <= HistoryCap
  BY <1>5, <1>6, <1>7
<1>9. \A i \in 1..Len(t.history) : DOMAIN t.history[i] \in {t.agents, {}}
  BY <1>5, <1>7
<1>10. GraphGood(t)
  BY <1>7, <1>8, <1>9 DEF GraphGood
<1> QED
  BY <1>10 DEF t

\* A gesture that begins leaves the history good.
LEMMA GraphBegun ==
    ASSUME ConsoleAssumption, NEW s, GraphGood(s) PROVE GraphGood(Graph!Begun(s))
<1> DEFINE one == <<s.nodes>>
           t == [s EXCEPT !.history = one, !.index = 1]
<1>1. s.nodes \in Graph!Layouts /\ DOMAIN s.nodes \in {s.agents, {}} /\ HistoryCap \in Nat \ {0}
  BY DEF GraphGood, GraphUi, ConsoleAssumption
<1>2. one \in Seq(Graph!Layouts) /\ Len(one) = 1 /\ one[1] = s.nodes
  BY <1>1
<1>3. Graph!Begun(s) = s \/ Graph!Begun(s) = t
  BY DEF Graph!Begun
<1> HIDE DEF one
<1>4. 1 \in Nat
  OBVIOUS
<1>5. /\ t \in GraphUi /\ t.history = one /\ t.index = 1 /\ t.nodes = s.nodes
      /\ t.agents = s.agents /\ t.click = s.click /\ t.recent = s.recent
  BY <1>2, <1>4, Zenon DEF GraphGood, GraphUi
<1> HIDE DEF t
<1>5a. t.index = 1 /\ Len(t.history) = 1 /\ t.history[1] = s.nodes /\ t.agents = s.agents
  BY <1>2, <1>5
<1>6. t.index <= Len(t.history) /\ Len(t.history) <= HistoryCap
  <2>1. 1 <= HistoryCap
    BY <1>1
  <2> QED
    BY <1>5a, <2>1
<1>7. \A i \in 1..Len(t.history) : DOMAIN t.history[i] \in {t.agents, {}}
  <2>1. ASSUME NEW i \in 1..Len(t.history) PROVE i = 1
    BY <1>5a
  <2> QED
    BY <1>1, <1>5a, <2>1
<1>8. GraphGood(t)
  BY <1>5, <1>6, <1>7 DEF GraphGood
<1> QED
  BY <1>3, <1>8

\* The invariant holds when the screen is opened.
LEMMA GraphInit == ASSUME ConsoleAssumption, Graph!Init PROVE GraphInv
<1>1. PICK map \in {"live", "gate"} :
         ui = [map |-> map, agents |-> {}, nodes |-> Graph!Nothing, history |-> <<>>, index |-> 0,
               saved |-> Graph!Nothing, selected |-> None,
               drag |-> None, click |-> None, recent |-> FALSE, commit |-> FALSE]
  BY Zenon DEF Graph!Init
<1>2. <<>> \in Seq(Graph!Layouts) /\ 0 \in Nat /\ Len(<<>>) = 0
  OBVIOUS
<1>3. ui \in GraphUi
  BY <1>1, <1>2, GraphLayouts DEF GraphUi
<1>4. ui.index <= Len(ui.history) /\ Len(ui.history) <= HistoryCap
  BY <1>1, <1>2 DEF ConsoleAssumption
<1>5. \A i \in 1..Len(ui.history) : DOMAIN ui.history[i] \in {ui.agents, {}}
  BY <1>1, <1>2
<1>6. DOMAIN ui.nodes \in {ui.agents, {}} /\ ui.click = None
  BY <1>1, GraphLayouts
<1>7. srv \in SUBSET Agents
  BY DEF Graph!Init
<1> QED
  BY <1>3, <1>4, <1>5, <1>6, <1>7 DEF GraphInv, GraphGood

\* Every step of the screen keeps the invariant.
LEMMA GraphStep == ASSUME ConsoleAssumption, GraphInv, Graph!Next PROVE GraphInv'
<1>1. CASE Graph!Sync
  <2>1. GraphGood(ui')
    <3>1. CASE srv = {} /\ ui' = Graph!Reset([ui EXCEPT !.agents = {}, !.nodes = Graph!Nothing])
      <4> DEFINE s == [ui EXCEPT !.agents = {}, !.nodes = Graph!Nothing]
                 r == Graph!Reset(s)
      <4>1. /\ s \in GraphUi /\ s.nodes = Graph!Nothing /\ s.agents = {} /\ s.click = ui.click
            /\ s.recent = ui.recent
        BY GraphLayouts, Zenon DEF GraphInv, GraphGood, GraphUi
      <4> HIDE DEF s
      <4>2. <<>> \in Seq(Graph!Layouts) /\ 0 \in Nat /\ Len(<<>>) = 0
        OBVIOUS
      <4>3. /\ r \in GraphUi /\ r.nodes = Graph!Nothing /\ r.agents = {} /\ r.click = ui.click
            /\ r.recent = ui.recent /\ r.history = <<>> /\ r.index = 0
        BY <4>1, <4>2, Zenon DEF Graph!Reset, GraphUi
      <4> HIDE DEF r
      <4>4. r.index <= Len(r.history) /\ Len(r.history) <= HistoryCap
        BY <4>2, <4>3 DEF ConsoleAssumption
      <4>5. \A i \in 1..Len(r.history) : DOMAIN r.history[i] \in {r.agents, {}}
        BY <4>2, <4>3
      <4>6. GraphGood(r)
        BY <4>3, <4>4, <4>5, GraphLayouts DEF GraphInv, GraphGood
      <4> QED
        BY <3>1, <4>6 DEF r, s
    <3>2. CASE srv # {} /\ ui' = Graph!Begun(Graph!Placed(Graph!Forgets(ui, srv), srv))
      <4> DEFINE f == Graph!Forgets(ui, srv)
                 l == [a \in srv |-> Graph!PlaceOf(a)]
                 s == [f EXCEPT !.agents = srv, !.nodes = l]
      <4>1. GraphGood(f)
        BY GraphReset DEF Graph!Forgets, GraphInv
      <4>2. \A i \in 1..Len(f.history) : DOMAIN f.history[i] \in {srv, {}}
        <5>1. CASE ui.agents # {} /\ ui.agents # srv
          <6>1. f.history = <<>>
            BY <5>1, GraphReset DEF Graph!Forgets, GraphInv
          <6> QED
            BY <6>1
        <5>2. CASE ui.agents \in {{}, srv}
          <6>1. f = ui
            BY <5>2 DEF Graph!Forgets
          <6> QED
            BY <6>1, <5>2, Zenon DEF GraphInv, GraphGood
        <5> QED
          BY <5>1, <5>2
      <4>3. ui.nodes \in Graph!Layouts /\ ui.saved \in Graph!Layouts
        BY DEF GraphInv, GraphGood, GraphUi
      <4>4. l \in [srv -> Graph!Places]
        <5> SUFFICES ASSUME NEW a \in srv PROVE Graph!PlaceOf(a) \in Graph!Places
          OBVIOUS
        <5>1. /\ ui.nodes \in [DOMAIN ui.nodes -> Graph!Places]
              /\ ui.saved \in [DOMAIN ui.saved -> Graph!Places]
          BY <4>3, GraphLayouts
        <5> QED
          BY <5>1 DEF Graph!PlaceOf, Graph!Places
      <4>5. l \in Graph!Layouts /\ DOMAIN l = srv /\ srv \in SUBSET Agents
        BY <4>4, GraphLayouts, Zenon DEF GraphInv
      <4> HIDE DEF l, f
      <4>6. /\ s \in GraphUi /\ s.nodes = l /\ s.agents = srv /\ s.click = f.click
            /\ s.recent = f.recent /\ s.history = f.history /\ s.index = f.index
        BY <4>1, <4>5, Zenon DEF GraphGood, GraphUi
      <4> HIDE DEF s
      <4>7. GraphGood(s)
        BY <4>1, <4>2, <4>5, <4>6, Zenon DEF GraphGood
      <4>8. ui' = Graph!Begun(s)
        BY <3>2 DEF Graph!Placed, s, f, l
      <4> QED
        BY <4>7, <4>8, GraphBegun
    <3> QED
      BY <1>1, <3>1, <3>2 DEF Graph!Sync
  <2>2. srv' \in SUBSET Agents
    BY <1>1 DEF Graph!Sync, GraphInv
  <2> QED
    BY <2>1, <2>2 DEF GraphInv
<1>2. CASE Graph!OthersAct
  <2>1. GraphGood(ui')
    BY <1>2 DEF Graph!OthersAct, GraphInv
  <2>2. srv' \in SUBSET Agents
    BY <1>2 DEF Graph!OthersAct, GraphInv
  <2> QED
    BY <2>1, <2>2 DEF GraphInv
<1>3. CASE Graph!PurgeDone
  <2>1. GraphGood(ui')
    BY <1>3, GraphReset DEF Graph!PurgeDone, GraphInv
  <2>2. srv' \in SUBSET Agents
    BY <1>3 DEF Graph!PurgeDone, GraphInv
  <2> QED
    BY <2>1, <2>2 DEF GraphInv
<1>4. CASE Graph!Drop
  <2>1. GraphGood(ui')
    <3>1. /\ ui' \in GraphUi /\ ui'.history = ui.history /\ ui'.index = ui.index
          /\ DOMAIN ui'.nodes = DOMAIN ui.nodes /\ ui'.agents = ui.agents
          /\ ui'.click # None => ui'.recent
      BY <1>4, Zenon DEF Graph!Drop, GraphInv, GraphGood, GraphUi
    <3> QED
      BY <3>1 DEF GraphInv, GraphGood
  <2>2. srv' \in SUBSET Agents
    BY <1>4 DEF Graph!Drop, GraphInv
  <2> QED
    BY <2>1, <2>2 DEF GraphInv
<1>5. CASE Graph!CommitDrop
  <2>1. GraphGood(ui')
    <3> DEFINE s == [ui EXCEPT !.commit = FALSE]
    <3>1. /\ s \in GraphUi /\ s.history = ui.history /\ s.index = ui.index
          /\ s.nodes = ui.nodes /\ s.agents = ui.agents /\ s.click = ui.click /\ s.recent = ui.recent
      BY Zenon DEF GraphInv, GraphGood, GraphUi
    <3>2. ui' = Graph!Kept(Graph!Committed(s))
      BY <1>5 DEF Graph!CommitDrop
    <3> HIDE DEF s
    <3>3. GraphGood(s)
      BY <3>1 DEF GraphInv, GraphGood
    <3> QED
      BY <3>2, <3>3, GraphCommitted, GraphKept
  <2>2. srv' \in SUBSET Agents
    BY <1>5 DEF Graph!CommitDrop, GraphInv
  <2> QED
    BY <2>1, <2>2 DEF GraphInv
<1>6. CASE Graph!ClickOfDrop
  <2>1. GraphGood(ui')
    <3>1. /\ ui' \in GraphUi /\ ui'.history = ui.history /\ ui'.index = ui.index
          /\ DOMAIN ui'.nodes = DOMAIN ui.nodes /\ ui'.agents = ui.agents
          /\ ui'.click # None => ui'.recent
      BY <1>6, Zenon DEF Graph!ClickOfDrop, Graph!Select, GraphInv, GraphGood, GraphUi
    <3> QED
      BY <3>1 DEF GraphInv, GraphGood
  <2>2. srv' \in SUBSET Agents
    BY <1>6 DEF Graph!ClickOfDrop, GraphInv
  <2> QED
    BY <2>1, <2>2 DEF GraphInv
<1>7. CASE Graph!WindowEnds
  <2>1. GraphGood(ui')
    <3>1. /\ ui' \in GraphUi /\ ui'.history = ui.history /\ ui'.index = ui.index
          /\ DOMAIN ui'.nodes = DOMAIN ui.nodes /\ ui'.agents = ui.agents
          /\ ui'.click # None => ui'.recent
      BY <1>7, Zenon DEF Graph!WindowEnds, GraphInv, GraphGood, GraphUi
    <3> QED
      BY <3>1 DEF GraphInv, GraphGood
  <2>2. srv' \in SUBSET Agents
    BY <1>7 DEF Graph!WindowEnds, GraphInv
  <2> QED
    BY <2>1, <2>2 DEF GraphInv
<1>8. CASE Graph!Deselect
  <2>1. GraphGood(ui')
    <3>1. /\ ui' \in GraphUi /\ ui'.history = ui.history /\ ui'.index = ui.index
          /\ DOMAIN ui'.nodes = DOMAIN ui.nodes /\ ui'.agents = ui.agents
          /\ ui'.click # None => ui'.recent
      BY <1>8 DEF Graph!Deselect, GraphInv, GraphGood, GraphUi
    <3> QED
      BY <3>1 DEF GraphInv, GraphGood
  <2>2. srv' \in SUBSET Agents
    BY <1>8 DEF Graph!Deselect, GraphInv
  <2> QED
    BY <2>1, <2>2 DEF GraphInv
<1>9. CASE Graph!AutoLayout
  <2>1. GraphGood(ui')
    <3> DEFINE l == Graph!Grid(DOMAIN ui.nodes)
               s == [ui EXCEPT !.nodes = l]
    <3>1. ui.nodes \in Graph!Layouts /\ ui' = Graph!Kept(Graph!Committed(s))
      BY <1>9 DEF Graph!AutoLayout, GraphInv, GraphGood, GraphUi
    <3>2. DOMAIN ui.nodes \in SUBSET Agents
      BY <3>1, GraphLayouts
    <3>3. l \in [DOMAIN ui.nodes -> Graph!Places] /\ DOMAIN l = DOMAIN ui.nodes
      BY DEF Graph!Grid, Graph!Places
    <3>4. l \in Graph!Layouts
      BY <3>2, <3>3, GraphLayouts
    <3> HIDE DEF l
    <3>5. /\ s \in GraphUi /\ s.history = ui.history /\ s.index = ui.index
          /\ s.nodes = l /\ s.agents = ui.agents /\ s.click = ui.click /\ s.recent = ui.recent
      BY <3>4 DEF GraphInv, GraphGood, GraphUi
    <3> HIDE DEF s
    <3>6. GraphGood(s)
      BY <3>3, <3>5 DEF GraphInv, GraphGood
    <3> QED
      BY <3>1, <3>6, GraphCommitted, GraphKept
  <2>2. srv' \in SUBSET Agents
    BY <1>9 DEF Graph!AutoLayout, GraphInv
  <2> QED
    BY <2>1, <2>2 DEF GraphInv
<1>10. CASE Graph!Undo
  <2>1. GraphGood(ui')
    <3> DEFINE i == ui.index - 1
    <3>1. i \in 1..Len(ui.history) /\ i \in Nat /\ ui' = [ui EXCEPT !.index = i, !.nodes = ui.history[i]]
      BY <1>10 DEF Graph!Undo, Graph!Step, GraphInv, GraphGood, GraphUi
    <3> HIDE DEF i
    <3>2. ui.history[i] \in Graph!Layouts /\ DOMAIN ui.history[i] \in {ui.agents, {}} /\ i <= Len(ui.history)
      BY <3>1 DEF GraphInv, GraphGood, GraphUi
    <3>3. /\ ui' \in GraphUi /\ ui'.history = ui.history /\ ui'.index = i
          /\ ui'.nodes = ui.history[i] /\ ui'.agents = ui.agents /\ ui'.click = ui.click /\ ui'.recent = ui.recent
      BY <3>1, <3>2, Zenon DEF GraphInv, GraphGood, GraphUi
    <3> QED
      BY <3>2, <3>3 DEF GraphInv, GraphGood
  <2>2. srv' \in SUBSET Agents
    BY <1>10 DEF Graph!Undo, GraphInv
  <2> QED
    BY <2>1, <2>2 DEF GraphInv
<1>11. CASE Graph!Redo
  <2>1. GraphGood(ui')
    <3> DEFINE i == ui.index + 1
    <3>1. i \in 1..Len(ui.history) /\ i \in Nat /\ ui' = [ui EXCEPT !.index = i, !.nodes = ui.history[i]]
      BY <1>11 DEF Graph!Redo, Graph!Step, GraphInv, GraphGood, GraphUi
    <3> HIDE DEF i
    <3>2. ui.history[i] \in Graph!Layouts /\ DOMAIN ui.history[i] \in {ui.agents, {}} /\ i <= Len(ui.history)
      BY <3>1 DEF GraphInv, GraphGood, GraphUi
    <3>3. /\ ui' \in GraphUi /\ ui'.history = ui.history /\ ui'.index = i
          /\ ui'.nodes = ui.history[i] /\ ui'.agents = ui.agents /\ ui'.click = ui.click /\ ui'.recent = ui.recent
      BY <3>1, <3>2, Zenon DEF GraphInv, GraphGood, GraphUi
    <3> QED
      BY <3>2, <3>3 DEF GraphInv, GraphGood
  <2>2. srv' \in SUBSET Agents
    BY <1>11 DEF Graph!Redo, GraphInv
  <2> QED
    BY <2>1, <2>2 DEF GraphInv
<1>12. ASSUME NEW a \in Agents, Graph!Click(a) PROVE GraphInv'
  <2>1. GraphGood(ui')
    <3>1. /\ ui' \in GraphUi /\ ui'.history = ui.history /\ ui'.index = ui.index
          /\ DOMAIN ui'.nodes = DOMAIN ui.nodes /\ ui'.agents = ui.agents
          /\ ui'.click # None => ui'.recent
      BY <1>12, Zenon DEF Graph!Click, Graph!Select, GraphInv, GraphGood, GraphUi
    <3> QED
      BY <3>1 DEF GraphInv, GraphGood
  <2>2. srv' \in SUBSET Agents
    BY <1>12 DEF Graph!Click, GraphInv
  <2> QED
    BY <2>1, <2>2 DEF GraphInv
<1>13. ASSUME NEW a \in Agents, NEW p \in Graph!Places, Graph!Drag(a, p) PROVE GraphInv'
  <2>1. GraphGood(ui')
    <3> DEFINE l == [ui.nodes EXCEPT ![a] = p]
    <3>1. ui.nodes \in Graph!Layouts /\ ui' = [ui EXCEPT !.drag = a, !.nodes = l]
      BY <1>13 DEF Graph!Drag, GraphInv, GraphGood, GraphUi
    <3>2. DOMAIN ui.nodes \in SUBSET Agents /\ ui.nodes \in [DOMAIN ui.nodes -> Graph!Places]
      BY <3>1, GraphLayouts
    <3>3. l \in [DOMAIN ui.nodes -> Graph!Places] /\ DOMAIN l = DOMAIN ui.nodes
      BY <3>2, Zenon
    <3>4. l \in Graph!Layouts
      BY <3>2, <3>3, GraphLayouts, Zenon
    <3> HIDE DEF l
    <3>5. /\ ui' \in GraphUi /\ ui'.history = ui.history /\ ui'.index = ui.index
          /\ ui'.nodes = l /\ ui'.agents = ui.agents /\ ui'.click = ui.click /\ ui'.recent = ui.recent
      BY <3>1, <3>4, Zenon DEF GraphInv, GraphGood, GraphUi
    <3> QED
      BY <3>3, <3>5 DEF GraphInv, GraphGood
  <2>2. srv' \in SUBSET Agents
    BY <1>13 DEF Graph!Drag, GraphInv
  <2> QED
    BY <2>1, <2>2 DEF GraphInv
<1> QED
  BY <1>1, <1>2, <1>3, <1>4, <1>5, <1>6, <1>7, <1>8, <1>9, <1>10, <1>11, <1>12, <1>13 DEF Graph!Next

\* What the invariant says of the screen.
LEMMA GraphHolds == ASSUME ConsoleAssumption, GraphInv PROVE Graph!TypeOK /\ Graph!Undoable
<1>1. /\ ui.history \in Seq(Graph!Layouts) /\ ui.index \in Nat /\ HistoryCap \in Nat
      /\ ui.index <= Len(ui.history) /\ Len(ui.history) <= HistoryCap
  BY DEF GraphInv, GraphGood, GraphUi, ConsoleAssumption
<1>2. DOMAIN ui.history = 1..Len(ui.history) /\ Len(ui.history) \in Nat
  BY <1>1
<1>3. \A i \in DOMAIN ui.history : ui.history[i] \in Graph!Layouts
  BY <1>1
<1>4. ui.index \in 0..HistoryCap
  BY <1>1, <1>2
<1> QED
  BY <1>1, <1>2, <1>3, <1>4 DEF GraphInv, GraphGood, GraphUi, Graph!TypeOK, Graph!Undoable

\* A click that comes with a drop comes while the drop is recent.
LEMMA GraphDrops == ASSUME GraphInv, Graph!Next PROVE Graph!DropSelectsNone
<1> SUFFICES ASSUME ui.click # None PROVE ui'.selected \in {ui.selected, None}
  BY DEF Graph!DropSelectsNone
<1>1. ui \in GraphUi /\ ui.recent
  BY DEF GraphInv, GraphGood
<1>2. \A s : s \in GraphUi => Graph!Reset(s).selected = s.selected
  BY DEF Graph!Reset, GraphUi
<1>3. CASE Graph!Sync
  <2>1. CASE ui' = Graph!Reset([ui EXCEPT !.agents = {}, !.nodes = Graph!Nothing])
    BY <1>1, <2>1 DEF Graph!Reset, GraphUi
  <2>2. CASE ui' = Graph!Begun(Graph!Placed(Graph!Forgets(ui, srv), srv))
    <3> DEFINE f == Graph!Forgets(ui, srv)
               p == Graph!Placed(f, srv)
    <3>1. f.selected = ui.selected /\ "history" \in DOMAIN f /\ "index" \in DOMAIN f
      BY <1>1 DEF Graph!Forgets, Graph!Reset, GraphUi
    <3>2. p.selected = f.selected
      BY <3>1 DEF Graph!Placed
    <3> HIDE DEF f, p
    <3>3. ui' = Graph!Begun(p)
      BY <2>2 DEF f, p
    <3>4. Graph!Begun(p).selected = p.selected
      BY DEF Graph!Begun
    <3> QED
      BY <3>1, <3>2, <3>3, <3>4
  <2> QED
    BY <1>3, <2>1, <2>2 DEF Graph!Sync
<1>4. CASE Graph!PurgeDone
  BY <1>1, <1>2, <1>4 DEF Graph!PurgeDone
<1>5. CASE Graph!CommitDrop
  <2> DEFINE s == [ui EXCEPT !.commit = FALSE]
             c == Graph!Committed(s)
  <2>1. s.selected = ui.selected
    BY <1>1 DEF GraphUi
  <2> HIDE DEF s
  <2>2. c.selected = s.selected
    BY DEF Graph!Committed
  <2> HIDE DEF c
  <2>3. ui' = Graph!Kept(c)
    BY <1>5 DEF Graph!CommitDrop, s, c
  <2>4. Graph!Kept(c).selected = c.selected
    BY DEF Graph!Kept
  <2> QED
    BY <2>1, <2>2, <2>3, <2>4
<1>6. CASE Graph!AutoLayout
  <2> DEFINE s == [ui EXCEPT !.nodes = Graph!Grid(DOMAIN @)]
             c == Graph!Committed(s)
  <2>1. s.selected = ui.selected
    BY <1>1 DEF GraphUi
  <2> HIDE DEF s
  <2>2. c.selected = s.selected
    BY DEF Graph!Committed
  <2> HIDE DEF c
  <2>3. ui' = Graph!Kept(c)
    BY <1>6 DEF Graph!AutoLayout, s, c
  <2>4. Graph!Kept(c).selected = c.selected
    BY DEF Graph!Kept
  <2> QED
    BY <2>1, <2>2, <2>3, <2>4
<1>7. CASE Graph!ClickOfDrop
  BY <1>1, <1>7 DEF Graph!ClickOfDrop, Graph!Select, GraphUi
<1>8. CASE Graph!Deselect
  BY <1>1, <1>8 DEF Graph!Deselect, GraphUi
<1>9. CASE Graph!Undo
  BY <1>1, <1>9 DEF Graph!Undo, Graph!Step, GraphUi
<1>10. CASE Graph!Redo
  BY <1>1, <1>10 DEF Graph!Redo, Graph!Step, GraphUi
<1>11. CASE Graph!OthersAct \/ Graph!Drop \/ Graph!WindowEnds
  BY <1>1, <1>11, Zenon DEF Graph!OthersAct, Graph!Drop, Graph!WindowEnds, GraphUi
<1>12. ASSUME NEW a \in Agents, Graph!Click(a) PROVE ui'.selected \in {ui.selected, None}
  BY <1>12 DEF Graph!Click
<1>13. ASSUME NEW a \in Agents, NEW p \in Graph!Places, Graph!Drag(a, p)
       PROVE  ui'.selected \in {ui.selected, None}
  BY <1>1, <1>13 DEF Graph!Drag, GraphUi
<1> QED
  BY <1>3, <1>4, <1>5, <1>6, <1>7, <1>8, <1>9, <1>10, <1>11, <1>12, <1>13 DEF Graph!Next

\* And so does a step that is not the screen's.
LEMMA GraphSame == ASSUME GraphInv, UNCHANGED vars PROVE GraphInv'
  BY DEF vars, GraphInv

-----------------------------------------------------------------------------
(***************************************************************************)
(* What the next run of the gate will replay.                              *)
(***************************************************************************)

InputsUi == [agent : Inputs!Owners \cup {None}, logs : Seq(Inputs!Logged),
             sets : SUBSET DOMAIN Contents, source : {"recent", "datasets"},
             rich : SUBSET Inputs!Logged, opened : SUBSET DOMAIN Contents,
             rep : Inputs!Logged \cup {None}, shared : Inputs!Owners \cup {None},
             per : SUBSET Inputs!Logged,
             hyd : {None} \cup (Seq(Inputs!Logged) \X (Inputs!Logged \cup {None})),
             global : Inputs!Owners \cup {None}, ctx : SUBSET Inputs!Logged,
             busy : BOOLEAN, locked : BOOLEAN, edits : {0, 1}]

InputsCalls ==
    [kind : {"pool"}, of : Inputs!Owners]
      \cup [kind : {"sets"}, of : SUBSET DOMAIN Contents]
      \cup [kind : {"context"}, all : BOOLEAN, of : (SUBSET Inputs!Logged) \ {{}}]

\* What is ticked, of one kind, and the shared fields are of the agent.
InputsOwn(s) ==
    /\ s \in InputsUi
    /\ s.agent = None => s.logs = <<>> /\ s.sets = {}
    /\ \A i \in Inputs!ToSet(s.logs) : Owner[i] = s.agent
    /\ \A d \in s.sets : Inputs!Holder(d) = s.agent
    /\ s.shared \in {s.agent, None}
    /\ IF s.source = "recent" THEN s.sets = {} ELSE s.logs = <<>>

\* And the fields of logs are for logs of the run.
InputsGood(s) == InputsOwn(s) /\ s.per \subseteq Inputs!ToSet(Inputs!Selected(s))

InputsInv ==
    /\ InputsGood(ui)
    /\ net \subseteq InputsCalls /\ srv = Inputs!Logged /\ odd \in {0, 1}
    /\ ~Inputs!Stuck

\* A number of elements, under two names.
LEMMA InputsCardinality == \A S : Inputs!Cardinality(S) = Cardinality(S)
  BY DEF Inputs!Cardinality, Cardinality

\* In a finite set of numbers every rank from the greatest down is taken.
LEMMA Ranks ==
    ASSUME NEW S \in SUBSET Nat, IsFiniteSet(S)
    PROVE  \A k \in 1..Cardinality(S) : \E i \in S : Cardinality({j \in S : j > i}) = k - 1
<1> DEFINE above(i) == {j \in S : j > i}
           n == Cardinality(S)
           T == 0..(n - 1)
           f == [i \in S |-> Cardinality(above(i))]
<1>1. n \in Nat
  BY FS_CardinalityType
<1>2. \A i \in S : IsFiniteSet(above(i)) /\ Cardinality(above(i)) \in Nat
  BY FS_Subset, FS_CardinalityType
<1>3. ASSUME NEW i \in S, NEW j \in S, i < j PROVE Cardinality(above(j)) < Cardinality(above(i))
  <2>1. above(j) \in SUBSET above(i) /\ above(j) # above(i)
    <3>1. j \in above(i) /\ j \notin above(j)
      BY <1>3
    <3>2. \A x \in above(j) : x \in above(i)
      BY <1>3
    <3> QED
      BY <3>1, <3>2, Zenon
  <2>2. Cardinality(above(j)) <= Cardinality(above(i)) /\ Cardinality(above(j)) # Cardinality(above(i))
    BY <1>2, <2>1, FS_Subset
  <2> QED
    BY <1>2, <2>2
<1>4. \A i \in S : Cardinality(above(i)) \in T
  <2> SUFFICES ASSUME NEW i \in S PROVE Cardinality(above(i)) \in T
    OBVIOUS
  <2>1. above(i) \in SUBSET S /\ i \notin above(i)
    OBVIOUS
  <2>2. Cardinality(above(i)) <= n /\ Cardinality(above(i)) # n
    BY <2>1, FS_Subset
  <2> QED
    BY <1>1, <1>2, <2>2
<1>5. f \in Injection(S, T)
  <2> HIDE DEF above
  <2>1. f \in [S -> T]
    BY <1>4
  <2>2. ASSUME NEW i \in S, NEW j \in S, f[i] = f[j] PROVE i = j
    <3>1. ~(i < j) /\ ~(j < i)
      BY <1>2, <1>3, <2>2
    <3> QED
      BY <3>1
  <2> HIDE DEF f, T
  <2> QED
    BY <2>1, <2>2 DEF Injection, IsInjective
<1>6. IsFiniteSet(T) /\ Cardinality(T) = n
  <2>1. 0 \in Int /\ n - 1 \in Int
    BY <1>1
  <2>2. IsFiniteSet(T) /\ Cardinality(T) = IF 0 > n - 1 THEN 0 ELSE n - 1 - 0 + 1
    BY <2>1, FS_Interval
  <2> QED
    BY <1>1, <2>2
<1>7. f \in Surjection(S, T)
  <2> HIDE DEF f, T
  <2> QED
    BY <1>5, <1>6, FS_Injection
<1> SUFFICES ASSUME NEW k \in 1..n PROVE \E i \in S : f[i] = k - 1
  OBVIOUS
<1>8. k - 1 \in T
  BY <1>1
<1> HIDE DEF f, T
<1> QED
  BY <1>7, <1>8 DEF Surjection

\* The newest first of a set of logs is a sequence of them, headed by the
\* newest.
LEMMA InputsNewest ==
    ASSUME ConsoleAssumption, NEW S \in SUBSET Inputs!Logged
    PROVE  Inputs!Newest(S) \in Seq(Inputs!Logged) /\ (S # {} => \E i \in S : \A j \in S : i >= j)
<1>1. IsFiniteSet(S) /\ S \in SUBSET Nat
  BY FS_Subset DEF ConsoleAssumption, Inputs!Logged
<1>2. \A k \in 1..Cardinality(S) : \E i \in S : Cardinality({j \in S : j > i}) = k - 1
  BY <1>1, Ranks
<1>3. Cardinality(S) \in Nat
  BY <1>1, FS_CardinalityType
<1> DEFINE n == Inputs!Cardinality(S)
           g == [k \in 1..n |-> CHOOSE i \in S : Inputs!Cardinality({j \in S : j > i}) = k - 1]
<1>4. g = Inputs!Newest(S)
  BY DEF Inputs!Newest
<1>5. n \in Nat /\ \A k \in 1..n : \E i \in S : Inputs!Cardinality({j \in S : j > i}) = k - 1
  BY <1>2, <1>3, InputsCardinality, Zenon
<1>6. g \in Seq(Inputs!Logged)
  <2> HIDE DEF n
  <2>1. g \in [1..n -> Inputs!Logged]
    BY <1>5, Zenon
  <2> HIDE DEF g
  <2> QED
    BY <1>5, <2>1
<1>7. ASSUME S # {} PROVE \E i \in S : \A j \in S : i >= j
  <2>1. Cardinality(S) # 0
    BY <1>1, <1>7, FS_EmptySet
  <2>2. 1 \in 1..Cardinality(S)
    BY <1>3, <2>1
  <2>3. PICK i \in S : Cardinality({j \in S : j > i}) = 1 - 1
    BY <1>2, <2>2, Zenon
  <2> DEFINE T == {j \in S : j > i}
  <2>f. IsFiniteSet(T) /\ Cardinality(T) = 0
    BY <1>1, <2>3, FS_Subset
  <2>4. T = {}
    <3> HIDE DEF T
    <3> QED
      BY <2>f, FS_EmptySet
  <2> QED
    BY <1>1, <2>4
<1> QED
  BY <1>4, <1>6, <1>7, Zenon

\* What is selected is of the logs, and its representative is one of them.
LEMMA InputsSelected ==
    ASSUME ConsoleAssumption, NEW s \in InputsUi
    PROVE  /\ Inputs!Selected(s) \in Seq(Inputs!Logged)
           /\ Inputs!ToSet(Inputs!Selected(s)) \in SUBSET Inputs!Logged
           /\ Inputs!Rep(s) \in Inputs!Logged \cup {None}
           /\ Inputs!Selected(s) # <<>> => /\ Inputs!ToSet(Inputs!Selected(s)) # {}
                                           /\ Inputs!Rep(s) \in Inputs!Logged
           /\ Inputs!Choice(s) \in Seq(Inputs!Logged) \X (Inputs!Logged \cup {None})
<1> DEFINE q == Inputs!Selected(s)
           ids == Inputs!ToSet(q)
           chosen == {i \in Inputs!Logged : \E d \in s.sets : i \in Contents[d]}
<1>1. q \in Seq(Inputs!Logged)
  <2>1. Inputs!Newest(chosen) \in Seq(Inputs!Logged)
    BY InputsNewest
  <2>2. s.logs \in Seq(Inputs!Logged) /\ <<>> \in Seq(Inputs!Logged)
    BY DEF InputsUi
  <2> QED
    BY <2>1, <2>2, Zenon DEF Inputs!Selected
<1> HIDE DEF q, chosen
<1>2. ids \in SUBSET Inputs!Logged
  BY <1>1 DEF Inputs!ToSet
<1>3. q # <<>> => ids # {}
  <2>1. q # <<>> => 1 \in DOMAIN q
    BY <1>1, EmptySeq, LenProperties
  <2> QED
    BY <2>1 DEF Inputs!ToSet
<1>4. Inputs!Rep(s) = IF s.rep \in ids THEN s.rep
                      ELSE IF ids = {} THEN None ELSE CHOOSE i \in ids : \A j \in ids : i >= j
  BY DEF Inputs!Rep, q
<1> HIDE DEF ids
<1>5. ids # {} => (CHOOSE i \in ids : \A j \in ids : i >= j) \in ids
  BY <1>2, InputsNewest, Zenon
<1>6. Inputs!Rep(s) \in Inputs!Logged \cup {None} /\ (ids # {} => Inputs!Rep(s) \in Inputs!Logged)
  BY <1>2, <1>4, <1>5
<1>7. Inputs!Choice(s) = <<q, Inputs!Rep(s)>>
  BY DEF Inputs!Choice, q
<1> QED
  BY <1>1, <1>2, <1>3, <1>6, <1>7 DEF q, ids

\* Choices that are pruned to those of the agent are good.
LEMMA InputsPruned ==
    ASSUME ConsoleAssumption, NEW s, InputsOwn(s)
    PROVE  InputsGood(Inputs!Pruned(s)) /\ Inputs!Pruned(s).busy = s.busy
<1> DEFINE ids == Inputs!ToSet(Inputs!Selected(s))
           p == s.per \cap ids
           x == s.ctx \cap ids
           r == IF s.rep \in ids THEN s.rep ELSE None
           t == [s EXCEPT !.per = p, !.ctx = x, !.rep = r]
<1>1. s \in InputsUi
  BY DEF InputsOwn
<1>2. p \in SUBSET Inputs!Logged /\ x \in SUBSET Inputs!Logged /\ r \in Inputs!Logged \cup {None}
  BY <1>1 DEF InputsUi
<1>3. Inputs!Pruned(s) = t
  BY <1>1, Zenon DEF Inputs!Pruned, InputsUi
<1>4. p \subseteq ids
  OBVIOUS
<1> HIDE DEF p, x, r, ids
<1>5. /\ t \in InputsUi /\ t.agent = s.agent /\ t.logs = s.logs /\ t.sets = s.sets /\ t.source = s.source
      /\ t.opened = s.opened /\ t.shared = s.shared /\ t.per = p /\ t.busy = s.busy
  BY <1>1, <1>2, Zenon DEF InputsUi
<1> HIDE DEF t
<1>6. Inputs!Selected(t) = Inputs!Selected(s)
  BY <1>5 DEF Inputs!Selected
<1>7. InputsOwn(t)
  BY <1>5 DEF InputsOwn
<1> QED
  BY <1>3, <1>4, <1>5, <1>6, <1>7 DEF InputsGood, ids

\* The seeding of the fields keeps the choices good.
LEMMA InputsSeeded ==
    ASSUME ConsoleAssumption, NEW s, InputsGood(s)
    PROVE  InputsGood(Inputs!Seeded(s)) /\ Inputs!Seeded(s).busy = s.busy
<1> DEFINE ids == Inputs!ToSet(Inputs!Selected(s))
           x == ids \cap s.rich
           h == Inputs!Choice(s)
           t == [s EXCEPT !.shared = s.agent, !.per = ids, !.ctx = x, !.hyd = h]
<1>1. s \in InputsUi /\ InputsOwn(s)
  BY DEF InputsGood, InputsOwn
<1>2. /\ ids \in SUBSET Inputs!Logged /\ x \in SUBSET Inputs!Logged
      /\ h \in {None} \cup (Seq(Inputs!Logged) \X (Inputs!Logged \cup {None}))
  BY <1>1, InputsSelected
<1>3. Inputs!Seeded(s) \in {s, t}
  BY DEF Inputs!Seeded
<1> HIDE DEF ids, x, h
<1>4. s.agent \in Inputs!Owners \cup {None}
  BY <1>1 DEF InputsUi
<1>5. /\ t \in InputsUi /\ t.agent = s.agent /\ t.logs = s.logs /\ t.sets = s.sets /\ t.source = s.source
      /\ t.opened = s.opened /\ t.shared = s.agent /\ t.per = ids /\ t.busy = s.busy
  BY <1>1, <1>2, <1>4, Zenon DEF InputsUi
<1> HIDE DEF t
<1>6. Inputs!Selected(t) = Inputs!Selected(s)
  BY <1>5 DEF Inputs!Selected
<1>7. InputsOwn(t)
  BY <1>1, <1>5 DEF InputsOwn
<1>8. InputsGood(t)
  BY <1>5, <1>6, <1>7 DEF InputsGood, ids
<1> QED
  BY <1>3, <1>5, <1>8

\* A choice is pruned and then seeds the fields.
LEMMA InputsChosen ==
    ASSUME ConsoleAssumption, NEW s, InputsOwn(s)
    PROVE  InputsGood(Inputs!Chosen(s)) /\ Inputs!Chosen(s).busy = s.busy
<1> DEFINE p == Inputs!Pruned(s)
<1>1. InputsGood(p) /\ p.busy = s.busy
  BY InputsPruned
<1>2. Inputs!Chosen(s) = Inputs!Seeded(p)
  BY DEF Inputs!Chosen
<1> HIDE DEF p
<1> QED
  BY <1>1, <1>2, InputsSeeded

\* A log is ticked, or not ticked any more.
LEMMA InputsFlip ==
    ASSUME NEW X, NEW q \in Seq(X), NEW i \in X
    PROVE  /\ Inputs!Flip(q, i) \in Seq(X)
           /\ Inputs!ToSet(Inputs!Flip(q, i)) \subseteq Inputs!ToSet(q) \cup {i}
<1>1. CASE i \in Inputs!ToSet(q)
  <2> DEFINE k == CHOOSE j \in DOMAIN q : q[j] = i
             n == Len(q)
             a == SubSeq(q, 1, k - 1)
             b == SubSeq(q, k + 1, n)
  <2>1. k \in 1..n /\ n \in Nat
    BY <1>1 DEF Inputs!ToSet
  <2>2. Inputs!Flip(q, i) = a \o b
    BY <1>1, Zenon DEF Inputs!Flip, Inputs!RemoveAt
  <2> HIDE DEF k
  <2>3. a \in Seq(X) /\ Len(a) = k - 1 /\ \A j \in 1..(k - 1) : a[j] = q[j]
    BY <2>1
  <2>4. b \in Seq(X) /\ Len(b) = n - k /\ \A j \in 1..(n - k) : b[j] = q[k + j]
    BY <2>1
  <2> HIDE DEF a, b
  <2>5. a \o b \in Seq(X)
    BY <2>3, <2>4
  <2>6. \A j \in 1..Len(a) : a[j] \in Inputs!ToSet(q)
    BY <2>1, <2>3 DEF Inputs!ToSet
  <2>7. \A j \in 1..Len(b) : b[j] \in Inputs!ToSet(q)
    BY <2>1, <2>4 DEF Inputs!ToSet
  <2>8. ASSUME NEW j, j \in 1..Len(a \o b) PROVE (a \o b)[j] \in Inputs!ToSet(q)
    <3>1. Len(a \o b) = Len(a) + Len(b) /\ Len(a) \in Nat /\ Len(b) \in Nat
      BY <2>3, <2>4, ConcatProperties, LenProperties, Zenon
    <3>2. CASE j <= Len(a)
      <4>1. (a \o b)[j] = a[j] /\ j \in 1..Len(a)
        BY ONLY <2>3, <2>4, <2>8, <3>1, <3>2, ConcatProperties
      <4> QED
        BY <2>6, <4>1
    <3>3. CASE j > Len(a)
      <4>1. (a \o b)[j] = b[j - Len(a)] /\ j - Len(a) \in 1..Len(b)
        <5>1. (a \o b)[j] = IF j <= Len(a) THEN a[j] ELSE b[j - Len(a)]
          BY ONLY <2>3, <2>4, <2>8, <3>1, ConcatProperties
        <5>2. j \in Int /\ j <= Len(a) + Len(b)
          BY ONLY <2>8, <3>1
        <5> QED
          BY ONLY <3>1, <3>3, <5>1, <5>2
      <4> QED
        BY <2>7, <4>1
    <3>4. j \in Int /\ Len(a) \in Int
      BY ONLY <2>8, <3>1
    <3>5. j <= Len(a) \/ j > Len(a)
      BY ONLY <3>4
    <3> QED
      BY ONLY <3>2, <3>3, <3>5, Zenon
  <2>9. Inputs!ToSet(a \o b) \subseteq Inputs!ToSet(q)
    <3>1. DOMAIN (a \o b) = 1..Len(a \o b)
      BY <2>5
    <3> QED
      BY <2>8, <3>1 DEF Inputs!ToSet
  <2> QED
    BY <2>2, <2>5, <2>9
<1>2. CASE i \notin Inputs!ToSet(q)
  <2>1. Inputs!Flip(q, i) = Append(q, i)
    BY <1>2 DEF Inputs!Flip
  <2>2. Append(q, i) \in Seq(X) /\ Len(Append(q, i)) = Len(q) + 1 /\ Len(q) \in Nat
    OBVIOUS
  <2>3. DOMAIN Append(q, i) = 1..(Len(q) + 1) /\ DOMAIN q = 1..Len(q)
    BY <2>2
  <2>4. \A j \in 1..(Len(q) + 1) : Append(q, i)[j] = i \/ (j \in 1..Len(q) /\ Append(q, i)[j] = q[j])
    BY <2>2
  <2> QED
    BY <2>1, <2>2, <2>3, <2>4 DEF Inputs!ToSet
<1> QED
  BY <1>1, <1>2

\* One more field is edited, and nothing else changes.
LEMMA InputsEdited ==
    ASSUME ui \in InputsUi, ui.edits > 0
    PROVE  /\ Inputs!Edited \in InputsUi
           /\ Inputs!Edited.agent = ui.agent /\ Inputs!Edited.logs = ui.logs /\ Inputs!Edited.sets = ui.sets
           /\ Inputs!Edited.source = ui.source /\ Inputs!Edited.opened = ui.opened
           /\ Inputs!Edited.shared = ui.shared /\ Inputs!Edited.per = ui.per
           /\ Inputs!Edited.busy = ui.busy
<1> DEFINE n == ui.edits - 1
<1>1. n \in {0, 1}
  BY DEF InputsUi
<1>2. Inputs!Edited = [ui EXCEPT !.edits = n]
  BY DEF Inputs!Edited, InputsUi
<1> HIDE DEF n
<1> QED
  BY <1>1, <1>2 DEF InputsUi

\* The invariant holds when the screen is opened.
LEMMA InputsInit == ASSUME ConsoleAssumption, Inputs!Init PROVE InputsInv
<1>1. <<>> \in Seq(Inputs!Logged) /\ Inputs!ToSet(<<>>) = {}
  BY DEF Inputs!ToSet
<1>2. ui \in InputsUi
  BY <1>1 DEF Inputs!Init, InputsUi
<1>3. /\ ui.logs = <<>> /\ ui.sets = {} /\ ui.shared = None /\ ui.source = "recent" /\ ui.per = {}
      /\ ui.busy = FALSE /\ net = {} /\ odd = 1 /\ srv = Inputs!Logged
  BY DEF Inputs!Init
<1> QED
  BY <1>1, <1>2, <1>3 DEF InputsInv, InputsGood, InputsOwn, Inputs!Stuck

\* Every step of the screen keeps the invariant.
LEMMA InputsStep == ASSUME ConsoleAssumption, InputsInv, Inputs!Next PROVE InputsInv'
<1>1. CASE Inputs!Back
  <2>1. InputsGood(ui)'
    <3>1. ui \in InputsUi /\ <<>> \in Seq(Inputs!Logged)
      BY DEF InputsInv, InputsGood, InputsOwn
    <3>2. /\ ui' \in InputsUi /\ ui'.agent = None /\ ui'.logs = <<>> /\ ui'.sets = {}
          /\ ui'.shared = None /\ ui'.per = {}
      BY <1>1, <3>1, Zenon DEF Inputs!Back, Inputs!LeftPage, Inputs!Left, Inputs!Recorded, Inputs!Bare, InputsUi
    <3>3. Inputs!ToSet(<<>>) = {}
      BY DEF Inputs!ToSet
    <3> QED
      BY <3>2, <3>3 DEF InputsGood, InputsOwn
  <2>2. net' \subseteq InputsCalls
    BY <1>1 DEF Inputs!Back, Inputs!LeftPage, Inputs!Left, Inputs!Recorded, Inputs!Bare, InputsInv
  <2>3. srv' = Inputs!Logged
    BY <1>1 DEF Inputs!Back, Inputs!LeftPage, Inputs!Left, Inputs!Recorded, Inputs!Bare, InputsInv
  <2>4. odd' \in {0, 1}
    BY <1>1 DEF Inputs!Back, Inputs!LeftPage, Inputs!Left, Inputs!Recorded, Inputs!Bare, InputsInv
  <2>5. ~Inputs!Stuck'
    BY <1>1 DEF Inputs!Back, Inputs!LeftPage, Inputs!Left, Inputs!Recorded, Inputs!Bare, InputsInv,
       InputsGood, InputsOwn, InputsUi, Inputs!Stuck
  <2> QED
    BY <2>1, <2>2, <2>3, <2>4, <2>5 DEF InputsInv
<1>2. CASE Inputs!EditShared
  <2>1. InputsGood(ui)'
    <3>1. /\ ui \in InputsUi /\ InputsOwn(ui) /\ ui.per \subseteq Inputs!ToSet(Inputs!Selected(ui))
      BY DEF InputsInv, InputsGood, InputsOwn
    <3>2. /\ ui' \in InputsUi /\ ui'.agent = ui.agent /\ ui'.logs = ui.logs /\ ui'.sets = ui.sets /\ ui'.source = ui.source /\ ui'.opened = ui.opened /\ ui'.per = ui.per /\ ui'.busy = ui.busy /\ ui'.shared \in {ui.agent, None}
      BY <1>2, <3>1, InputsEdited, ZenonT(40) DEF Inputs!EditShared, Inputs!Edits, InputsUi
    <3>3. Inputs!Selected(ui') = Inputs!Selected(ui)
      BY <3>2 DEF Inputs!Selected
    <3> QED
      BY <3>1, <3>2, <3>3 DEF InputsGood, InputsOwn
  <2>2. net' \subseteq InputsCalls
    BY <1>2 DEF Inputs!EditShared, Inputs!Edited, InputsInv
  <2>3. srv' = Inputs!Logged
    BY <1>2 DEF Inputs!EditShared, Inputs!Edited, InputsInv
  <2>4. odd' \in {0, 1}
    BY <1>2 DEF Inputs!EditShared, Inputs!Edited, InputsInv
  <2>5. ~Inputs!Stuck'
    <3>1. ui'.busy = ui.busy
      BY <1>2, InputsEdited DEF Inputs!EditShared, InputsInv, InputsGood, InputsOwn, InputsUi
    <3> QED
      BY <1>2, <3>1 DEF Inputs!EditShared, InputsInv, Inputs!Stuck
  <2> QED
    BY <2>1, <2>2, <2>3, <2>4, <2>5 DEF InputsInv
<1>3. CASE Inputs!LoadFile
  <2>1. InputsGood(ui)'
    <3>1. /\ ui \in InputsUi /\ InputsOwn(ui) /\ ui.per \subseteq Inputs!ToSet(Inputs!Selected(ui))
      BY DEF InputsInv, InputsGood, InputsOwn
    <3>2. CASE ui' = [Inputs!Edited EXCEPT !.shared = ui.agent]
      <4>1. /\ ui' \in InputsUi /\ ui'.agent = ui.agent /\ ui'.logs = ui.logs /\ ui'.sets = ui.sets
            /\ ui'.source = ui.source /\ ui'.opened = ui.opened /\ ui'.shared = ui.agent /\ ui'.per = ui.per
        BY <1>3, <3>1, <3>2, InputsEdited, ZenonT(40) DEF Inputs!LoadFile, InputsUi
      <4>2. Inputs!Selected(ui') = Inputs!Selected(ui)
        BY <4>1 DEF Inputs!Selected
      <4> QED
        BY <3>1, <4>1, <4>2 DEF InputsGood, InputsOwn
    <3>3. ASSUME NEW i \in Inputs!ToSet(Inputs!Selected(ui)), ui' = [Inputs!Edited EXCEPT !.per = @ \cup {i}]
          PROVE  InputsGood(ui')
      <4>s. i \in Inputs!Logged
        BY <3>1, InputsSelected
      <4>1. /\ ui' \in InputsUi /\ ui'.agent = ui.agent /\ ui'.logs = ui.logs /\ ui'.sets = ui.sets
            /\ ui'.source = ui.source /\ ui'.opened = ui.opened /\ ui'.shared = ui.shared
            /\ ui'.per = ui.per \cup {i}
        BY <1>3, <3>1, <3>3, <4>s, InputsEdited, ZenonT(40) DEF Inputs!LoadFile, InputsUi
      <4>2. Inputs!Selected(ui') = Inputs!Selected(ui)
        BY <4>1 DEF Inputs!Selected
      <4> QED
        BY <3>1, <4>1, <4>2 DEF InputsGood, InputsOwn
    <3> QED
      BY <1>3, <3>2, <3>3 DEF Inputs!LoadFile
  <2>2. net' \subseteq InputsCalls
    BY <1>3, Zenon DEF Inputs!LoadFile, Inputs!Edited, InputsInv
  <2>3. srv' = Inputs!Logged
    BY <1>3, Zenon DEF Inputs!LoadFile, Inputs!Edited, InputsInv
  <2>4. odd' \in {0, 1}
    BY <1>3, Zenon DEF Inputs!LoadFile, Inputs!Edited, InputsInv
  <2>5. ~Inputs!Stuck'
    <3>1. ui'.busy = ui.busy
      BY <1>3, InputsEdited DEF Inputs!LoadFile, InputsInv, InputsGood, InputsOwn, InputsUi
    <3> QED
      BY <1>3, <3>1 DEF Inputs!LoadFile, InputsInv, Inputs!Stuck
  <2> QED
    BY <2>1, <2>2, <2>3, <2>4, <2>5 DEF InputsInv
<1>4. CASE Inputs!ClearAll
  <2>1. InputsGood(ui)'
    <3>1. /\ ui \in InputsUi /\ InputsOwn(ui) /\ ui.per \subseteq Inputs!ToSet(Inputs!Selected(ui))
      BY DEF InputsInv, InputsGood, InputsOwn
    <3>2. /\ ui' \in InputsUi /\ ui'.agent = ui.agent /\ ui'.logs = ui.logs /\ ui'.sets = ui.sets /\ ui'.source = ui.source /\ ui'.opened = ui.opened /\ ui'.busy = ui.busy /\ ui'.shared = None /\ ui'.per = {}
      BY <1>4, <3>1, Zenon DEF Inputs!ClearAll, Inputs!Edits, Inputs!Bare, InputsUi
    <3>3. Inputs!Selected(ui') = Inputs!Selected(ui)
      BY <3>2 DEF Inputs!Selected
    <3> QED
      BY <3>1, <3>2, <3>3 DEF InputsGood, InputsOwn
  <2>2. net' \subseteq InputsCalls
    BY <1>4 DEF Inputs!ClearAll, Inputs!Bare, InputsInv
  <2>3. srv' = Inputs!Logged
    BY <1>4 DEF Inputs!ClearAll, Inputs!Bare, InputsInv
  <2>4. odd' \in {0, 1}
    BY <1>4 DEF Inputs!ClearAll, Inputs!Bare, InputsInv
  <2>5. ~Inputs!Stuck'
    BY <1>4 DEF Inputs!ClearAll, Inputs!Bare, InputsInv, InputsGood, InputsOwn, InputsUi, Inputs!Stuck
  <2> QED
    BY <2>1, <2>2, <2>3, <2>4, <2>5 DEF InputsInv
<1>5. CASE Inputs!ResetShared
  <2>1. InputsGood(ui)'
    <3>1. /\ ui \in InputsUi /\ InputsOwn(ui) /\ ui.per \subseteq Inputs!ToSet(Inputs!Selected(ui))
      BY DEF InputsInv, InputsGood, InputsOwn
    <3>2. /\ ui' \in InputsUi /\ ui'.agent = ui.agent /\ ui'.logs = ui.logs /\ ui'.sets = ui.sets /\ ui'.source = ui.source /\ ui'.opened = ui.opened /\ ui'.per = ui.per /\ ui'.busy = ui.busy /\ ui'.shared = ui.agent
      BY <1>5, <3>1, Zenon DEF Inputs!ResetShared, Inputs!Edits, Inputs!Resettable, InputsUi
    <3>3. Inputs!Selected(ui') = Inputs!Selected(ui)
      BY <3>2 DEF Inputs!Selected
    <3> QED
      BY <3>1, <3>2, <3>3 DEF InputsGood, InputsOwn
  <2>2. net' \subseteq InputsCalls
    BY <1>5 DEF Inputs!ResetShared, InputsInv
  <2>3. srv' = Inputs!Logged
    BY <1>5 DEF Inputs!ResetShared, InputsInv
  <2>4. odd' \in {0, 1}
    BY <1>5 DEF Inputs!ResetShared, InputsInv
  <2>5. ~Inputs!Stuck'
    BY <1>5 DEF Inputs!ResetShared, InputsInv, InputsGood, InputsOwn, InputsUi, Inputs!Stuck
  <2> QED
    BY <2>1, <2>2, <2>3, <2>4, <2>5 DEF InputsInv
<1>6. CASE Inputs!ResetPer
  <2>1. InputsGood(ui)'
    <3>s. Inputs!ToSet(Inputs!Selected(ui)) \in SUBSET Inputs!Logged
      BY InputsSelected DEF InputsInv, InputsGood, InputsOwn
    <3>1. /\ ui \in InputsUi /\ InputsOwn(ui) /\ ui.per \subseteq Inputs!ToSet(Inputs!Selected(ui))
      BY DEF InputsInv, InputsGood, InputsOwn
    <3>2. /\ ui' \in InputsUi /\ ui'.agent = ui.agent /\ ui'.logs = ui.logs /\ ui'.sets = ui.sets /\ ui'.source = ui.source /\ ui'.opened = ui.opened /\ ui'.shared = ui.shared /\ ui'.busy = ui.busy /\ ui'.per = Inputs!ToSet(Inputs!Selected(ui))
      <4> DEFINE r == Inputs!ToSet(Inputs!Selected(ui))
      <4>1. ui.hyd[1] = Inputs!Selected(ui)
        BY <1>6 DEF Inputs!ResetPer, Inputs!Resettable, Inputs!Choice
      <4>2. ui' = [ui EXCEPT !.per = r]
        BY <1>6, <4>1 DEF Inputs!ResetPer
      <4> HIDE DEF r
      <4>3. ui' \in InputsUi
        BY <3>1, <3>s, <4>2, Zenon DEF InputsUi, r
      <4>4. r = Inputs!ToSet(Inputs!Selected(ui))
        BY DEF r
      <4> QED
        BY <3>1, <4>2, <4>3, <4>4, Zenon DEF InputsUi
    <3>3. Inputs!Selected(ui') = Inputs!Selected(ui)
      BY <3>2 DEF Inputs!Selected
    <3> QED
      BY <3>1, <3>2, <3>3 DEF InputsGood, InputsOwn
  <2>2. net' \subseteq InputsCalls
    BY <1>6 DEF Inputs!ResetPer, InputsInv
  <2>3. srv' = Inputs!Logged
    BY <1>6 DEF Inputs!ResetPer, InputsInv
  <2>4. odd' \in {0, 1}
    BY <1>6 DEF Inputs!ResetPer, InputsInv
  <2>5. ~Inputs!Stuck'
    BY <1>6 DEF Inputs!ResetPer, InputsInv, InputsGood, InputsOwn, InputsUi, Inputs!Stuck
  <2> QED
    BY <2>1, <2>2, <2>3, <2>4, <2>5 DEF InputsInv
<1>7. CASE Inputs!ResetContext
  <2>1. InputsGood(ui)'
    <3>s. Inputs!ToSet(Inputs!Selected(ui)) \in SUBSET Inputs!Logged
      BY InputsSelected DEF InputsInv, InputsGood, InputsOwn
    <3>1. /\ ui \in InputsUi /\ InputsOwn(ui) /\ ui.per \subseteq Inputs!ToSet(Inputs!Selected(ui))
      BY DEF InputsInv, InputsGood, InputsOwn
    <3>2. /\ ui' \in InputsUi /\ ui'.agent = ui.agent /\ ui'.logs = ui.logs /\ ui'.sets = ui.sets /\ ui'.source = ui.source /\ ui'.opened = ui.opened /\ ui'.shared = ui.shared /\ ui'.per = ui.per /\ ui'.busy = ui.busy
      <4> DEFINE r == Inputs!ToSet(Inputs!Selected(ui))
      <4>1. ui.hyd[1] = Inputs!Selected(ui)
        BY <1>7 DEF Inputs!ResetContext, Inputs!Resettable, Inputs!Choice
      <4>2. ui' = [ui EXCEPT !.ctx = r]
        BY <1>7, <4>1 DEF Inputs!ResetContext
      <4> HIDE DEF r
      <4>3. ui' \in InputsUi
        BY <3>1, <3>s, <4>2, Zenon DEF InputsUi, r
      <4>4. r = Inputs!ToSet(Inputs!Selected(ui))
        BY DEF r
      <4> QED
        BY <3>1, <4>2, <4>3, <4>4, Zenon DEF InputsUi
    <3>3. Inputs!Selected(ui') = Inputs!Selected(ui)
      BY <3>2 DEF Inputs!Selected
    <3> QED
      BY <3>1, <3>2, <3>3 DEF InputsGood, InputsOwn
  <2>2. net' \subseteq InputsCalls
    BY <1>7 DEF Inputs!ResetContext, InputsInv
  <2>3. srv' = Inputs!Logged
    BY <1>7 DEF Inputs!ResetContext, InputsInv
  <2>4. odd' \in {0, 1}
    BY <1>7 DEF Inputs!ResetContext, InputsInv
  <2>5. ~Inputs!Stuck'
    BY <1>7 DEF Inputs!ResetContext, InputsInv, InputsGood, InputsOwn, InputsUi, Inputs!Stuck
  <2> QED
    BY <2>1, <2>2, <2>3, <2>4, <2>5 DEF InputsInv
<1>8. CASE Inputs!TypeContext
  <2>1. InputsGood(ui)'
    <3>1. /\ ui \in InputsUi /\ InputsOwn(ui) /\ ui.per \subseteq Inputs!ToSet(Inputs!Selected(ui))
      BY DEF InputsInv, InputsGood, InputsOwn
    <3>2. /\ ui' \in InputsUi /\ ui'.agent = ui.agent /\ ui'.logs = ui.logs /\ ui'.sets = ui.sets
          /\ ui'.source = ui.source /\ ui'.opened = ui.opened /\ ui'.shared = ui.shared /\ ui'.per = ui.per
      <4>1. CASE ui' = [Inputs!Edited EXCEPT !.global = ui.agent]
        BY <1>8, <3>1, <4>1, InputsEdited, ZenonT(40) DEF Inputs!TypeContext, Inputs!Edits, InputsUi
      <4>2. ASSUME NEW x \in SUBSET Inputs!Logged, ui' = [Inputs!Edited EXCEPT !.ctx = x]
            PROVE  /\ ui' \in InputsUi /\ ui'.agent = ui.agent /\ ui'.logs = ui.logs /\ ui'.sets = ui.sets
                   /\ ui'.source = ui.source /\ ui'.opened = ui.opened /\ ui'.shared = ui.shared
                   /\ ui'.per = ui.per
        BY <1>8, <3>1, <4>2, InputsEdited, ZenonT(40) DEF Inputs!TypeContext, InputsUi
      <4>3. Inputs!ToSet(Inputs!Selected(ui)) \in SUBSET Inputs!Logged /\ ui.ctx \in SUBSET Inputs!Logged
        BY <3>1, InputsSelected DEF InputsUi
      <4> QED
        BY <1>8, <4>1, <4>2, <4>3 DEF Inputs!TypeContext
    <3>3. Inputs!Selected(ui') = Inputs!Selected(ui)
      BY <3>2 DEF Inputs!Selected
    <3> QED
      BY <3>1, <3>2, <3>3 DEF InputsGood, InputsOwn
  <2>2. net' \subseteq InputsCalls
    BY <1>8, Zenon DEF Inputs!TypeContext, Inputs!Edited, InputsInv
  <2>3. srv' = Inputs!Logged
    BY <1>8, Zenon DEF Inputs!TypeContext, Inputs!Edited, InputsInv
  <2>4. odd' \in {0, 1}
    BY <1>8, Zenon DEF Inputs!TypeContext, Inputs!Edited, InputsInv
  <2>5. ~Inputs!Stuck'
    <3>1. ui'.busy = ui.busy
      BY <1>8, InputsEdited DEF Inputs!TypeContext, InputsInv, InputsGood, InputsOwn, InputsUi
    <3> QED
      BY <1>8, <3>1 DEF Inputs!TypeContext, InputsInv, Inputs!Stuck
  <2> QED
    BY <2>1, <2>2, <2>3, <2>4, <2>5 DEF InputsInv
<1>9. CASE Inputs!LoadContext
  <2>1. InputsGood(ui)'
    <3>1. /\ ui \in InputsUi /\ InputsOwn(ui) /\ ui.per \subseteq Inputs!ToSet(Inputs!Selected(ui))
      BY DEF InputsInv, InputsGood, InputsOwn
    <3>2. /\ ui' \in InputsUi /\ ui'.agent = ui.agent /\ ui'.logs = ui.logs /\ ui'.sets = ui.sets /\ ui'.source = ui.source /\ ui'.opened = ui.opened /\ ui'.shared = ui.shared /\ ui'.per = ui.per
      BY <1>9, <3>1, InputsEdited, ZenonT(40) DEF Inputs!LoadContext, Inputs!Edits, InputsUi
    <3>3. Inputs!Selected(ui') = Inputs!Selected(ui)
      BY <3>2 DEF Inputs!Selected
    <3> QED
      BY <3>1, <3>2, <3>3 DEF InputsGood, InputsOwn
  <2>2. net' \subseteq InputsCalls
    <3>1. PICK all \in BOOLEAN : net' = net \cup {[kind |-> "context", all |-> all,
                of |-> IF all THEN {Inputs!Rep(ui)} ELSE Inputs!ToSet(Inputs!Selected(ui))]}
      BY <1>9, Zenon DEF Inputs!LoadContext
    <3> DEFINE x == IF all THEN {Inputs!Rep(ui)} ELSE Inputs!ToSet(Inputs!Selected(ui))
    <3>2. x \in (SUBSET Inputs!Logged) \ {{}}
      BY <1>9, InputsSelected DEF Inputs!LoadContext, InputsInv, InputsGood, InputsOwn
    <3> HIDE DEF x
    <3>3. [kind |-> "context", all |-> all, of |-> x] \in InputsCalls
      BY <3>2 DEF InputsCalls
    <3> QED
      BY <3>1, <3>3, Zenon DEF x, InputsInv
  <2>3. srv' = Inputs!Logged
    BY <1>9 DEF Inputs!LoadContext, Inputs!Edited, InputsInv
  <2>4. odd' \in {0, 1}
    BY <1>9 DEF Inputs!LoadContext, Inputs!Edited, InputsInv
  <2>5. ~Inputs!Stuck'
    <3>1. \E e \in net' : e.kind = "context"
      <4>1. PICK all \in BOOLEAN : net' = net \cup {[kind |-> "context", all |-> all,
                of |-> IF all THEN {Inputs!Rep(ui)} ELSE Inputs!ToSet(Inputs!Selected(ui))]}
        BY <1>9, Zenon DEF Inputs!LoadContext
      <4> DEFINE e == [kind |-> "context", all |-> all,
                of |-> IF all THEN {Inputs!Rep(ui)} ELSE Inputs!ToSet(Inputs!Selected(ui))]
      <4>2. e \in net' /\ e.kind = "context"
        BY <4>1
      <4> QED
        BY <4>2
    <3> QED
      BY <3>1 DEF Inputs!Stuck
  <2> QED
    BY <2>1, <2>2, <2>3, <2>4, <2>5 DEF InputsInv
<1>10. CASE Inputs!RunStarts
  <2>1. InputsGood(ui)'
    <3>1. /\ ui \in InputsUi /\ InputsOwn(ui) /\ ui.per \subseteq Inputs!ToSet(Inputs!Selected(ui))
      BY DEF InputsInv, InputsGood, InputsOwn
    <3>2. /\ ui' \in InputsUi /\ ui'.agent = ui.agent /\ ui'.logs = ui.logs /\ ui'.sets = ui.sets /\ ui'.source = ui.source /\ ui'.opened = ui.opened /\ ui'.shared = ui.shared /\ ui'.per = ui.per /\ ui'.busy = ui.busy
      BY <1>10, <3>1, Zenon DEF Inputs!RunStarts, InputsUi
    <3>3. Inputs!Selected(ui') = Inputs!Selected(ui)
      BY <3>2 DEF Inputs!Selected
    <3> QED
      BY <3>1, <3>2, <3>3 DEF InputsGood, InputsOwn
  <2>2. net' \subseteq InputsCalls
    BY <1>10 DEF Inputs!RunStarts, InputsInv
  <2>3. srv' = Inputs!Logged
    BY <1>10 DEF Inputs!RunStarts, InputsInv
  <2>4. odd' \in {0, 1}
    BY <1>10 DEF Inputs!RunStarts, InputsInv
  <2>5. ~Inputs!Stuck'
    BY <1>10 DEF Inputs!RunStarts, InputsInv, InputsGood, InputsOwn, InputsUi, Inputs!Stuck
  <2> QED
    BY <2>1, <2>2, <2>3, <2>4, <2>5 DEF InputsInv
<1>11. CASE Inputs!RunEnds
  <2>b. InputsGood(ui') /\ (ui'.busy => ui.busy)
    <3> DEFINE s == [ui EXCEPT !.locked = FALSE]
               t == Inputs!Recorded(Inputs!Bare(s))
    <3>1. ui \in InputsUi /\ InputsOwn(ui) /\ ui.per \subseteq Inputs!ToSet(Inputs!Selected(ui))
      BY DEF InputsInv, InputsGood, InputsOwn
    <3>2. ui' = s \/ ui' = Inputs!Seeded(t)
      BY <1>11 DEF Inputs!RunEnds
    <3>3. /\ s \in InputsUi /\ s.agent = ui.agent /\ s.logs = ui.logs /\ s.sets = ui.sets /\ s.source = ui.source
          /\ s.shared = ui.shared /\ s.per = ui.per /\ s.opened = ui.opened /\ s.busy = ui.busy
      BY <3>1, Zenon DEF InputsUi
    <3> HIDE DEF s
    <3>4. /\ t \in InputsUi /\ t.agent = s.agent /\ t.logs = s.logs /\ t.sets = s.sets /\ t.source = s.source
          /\ t.shared = None /\ t.per = {} /\ t.opened = s.opened /\ t.busy = FALSE
      BY <3>3, Zenon DEF InputsUi, Inputs!Recorded, Inputs!Bare
    <3> HIDE DEF t
    <3>5. Inputs!Selected(s) = Inputs!Selected(ui)
      BY <3>3 DEF Inputs!Selected
    <3>6. InputsGood(s)
      BY <3>1, <3>3, <3>5 DEF InputsGood, InputsOwn
    <3>7. InputsGood(t)
      BY <3>1, <3>3, <3>4 DEF InputsGood, InputsOwn
    <3> QED
      BY <3>2, <3>3, <3>4, <3>6, <3>7, InputsSeeded
  <2>1. InputsGood(ui)'
    BY <2>b
  <2>2. net' \subseteq InputsCalls
    BY <1>11 DEF Inputs!RunEnds, InputsInv
  <2>3. srv' = Inputs!Logged
    BY <1>11 DEF Inputs!RunEnds, InputsInv
  <2>4. odd' \in {0, 1}
    BY <1>11 DEF Inputs!RunEnds, InputsInv
  <2>5. ~Inputs!Stuck'
    <3>1. \A e \in net : e.kind = "context" => e \in net'
      BY <1>11 DEF Inputs!RunEnds
    <3> QED
      BY <2>b, <3>1 DEF InputsInv, Inputs!Stuck
  <2> QED
    BY <2>1, <2>2, <2>3, <2>4, <2>5 DEF InputsInv
<1>12. ASSUME NEW a \in Inputs!Owners, Inputs!Enter(a) PROVE InputsInv'
  <2>1. InputsGood(ui)'
    <3>1. ui \in InputsUi /\ ui.agent = None /\ ui.logs = <<>> /\ ui.sets = {}
      BY <1>12 DEF Inputs!Enter, InputsInv, InputsGood, InputsOwn
    <3>2. /\ ui' \in InputsUi /\ ui'.agent = a /\ ui'.logs = <<>> /\ ui'.sets = {}
          /\ ui'.shared = None /\ ui'.per = {}
      BY <1>12, <3>1, Zenon DEF Inputs!Enter, Inputs!Left, Inputs!Recorded, Inputs!Bare, InputsUi
    <3>3. Inputs!ToSet(<<>>) = {}
      BY DEF Inputs!ToSet
    <3> QED
      BY <3>2, <3>3 DEF InputsGood, InputsOwn
  <2>2. net' \subseteq InputsCalls
    <3>1. [kind |-> "pool", of |-> a] \in InputsCalls
      BY DEF InputsCalls
    <3> QED
      BY <1>12, <3>1 DEF Inputs!Enter, Inputs!Read, InputsInv
  <2>3. srv' = Inputs!Logged
    BY <1>12 DEF Inputs!Enter, Inputs!Left, Inputs!Recorded, Inputs!Bare, InputsInv
  <2>4. odd' \in {0, 1}
    BY <1>12 DEF Inputs!Enter, Inputs!Left, Inputs!Recorded, Inputs!Bare, InputsInv
  <2>5. ~Inputs!Stuck'
    BY <1>12 DEF Inputs!Enter, Inputs!Left, Inputs!Recorded, Inputs!Bare, InputsInv, InputsGood,
       InputsOwn, InputsUi, Inputs!Stuck
  <2> QED
    BY <2>1, <2>2, <2>3, <2>4, <2>5 DEF InputsInv
<1>13. ASSUME NEW i \in Inputs!Logged, Inputs!TickLog(i) PROVE InputsInv'
  <2>b. InputsGood(ui') /\ (ui'.busy => ui.busy)
    <3> DEFINE q == Inputs!Flip(ui.logs, i)
               s == [ui EXCEPT !.logs = q, !.source = "recent", !.sets = {}]
    <3>1. ui \in InputsUi /\ InputsOwn(ui) /\ ui.logs \in Seq(Inputs!Logged)
      BY DEF InputsInv, InputsGood, InputsOwn, InputsUi
    <3>2. q \in Seq(Inputs!Logged) /\ Inputs!ToSet(q) \subseteq Inputs!ToSet(ui.logs) \cup {i}
      BY <3>1, InputsFlip
    <3>3. ui' = Inputs!Chosen(s) /\ ui.agent = Owner[i] /\ Owner[i] \in Inputs!Owners
      BY <1>13, <3>1 DEF Inputs!TickLog, Inputs!Owners, InputsUi
    <3> HIDE DEF q
    <3>4. /\ s \in InputsUi /\ s.agent = ui.agent /\ s.logs = q /\ s.sets = {} /\ s.source = "recent"
          /\ s.shared = ui.shared /\ s.busy = ui.busy
      BY <3>1, <3>2, Zenon DEF InputsUi
    <3> HIDE DEF s
    <3>5. InputsOwn(s)
      <4>1. s.agent # None
        BY <3>3, <3>4 DEF ConsoleAssumption, Inputs!Owners, Inputs!Logged
      <4> QED
        BY <3>1, <3>2, <3>3, <3>4, <4>1 DEF InputsOwn
    <3> QED
      BY <3>3, <3>4, <3>5, InputsChosen
  <2>1. InputsGood(ui)'
    BY <2>b
  <2>2. net' \subseteq InputsCalls
    BY <1>13 DEF Inputs!TickLog, InputsInv
  <2>3. srv' = Inputs!Logged
    BY <1>13 DEF Inputs!TickLog, InputsInv
  <2>4. odd' \in {0, 1}
    BY <1>13 DEF Inputs!TickLog, InputsInv
  <2>5. ~Inputs!Stuck'
    <3>1. \A e \in net : e.kind = "context" => e \in net'
      BY <1>13 DEF Inputs!TickLog
    <3> QED
      BY <2>b, <3>1 DEF InputsInv, Inputs!Stuck
  <2> QED
    BY <2>1, <2>2, <2>3, <2>4, <2>5 DEF InputsInv
<1>14. ASSUME NEW i \in Inputs!Logged, Inputs!PickRep(i) PROVE InputsInv'
  <2>b. InputsGood(ui') /\ (ui'.busy => ui.busy)
    <3> DEFINE s == [ui EXCEPT !.rep = i]
    <3>1. /\ ui \in InputsUi /\ InputsOwn(ui) /\ ui.per \subseteq Inputs!ToSet(Inputs!Selected(ui))
      BY DEF InputsInv, InputsGood, InputsOwn
    <3>2. s \in InputsUi /\ s.agent = ui.agent /\ s.logs = ui.logs /\ s.sets = ui.sets /\ s.source = ui.source /\ s.opened = ui.opened /\ s.shared = ui.shared /\ s.per = ui.per /\ s.busy = ui.busy
      BY <1>14, <3>1 DEF Inputs!PickRep, Inputs!Edits, InputsUi
    <3>e. ui' = Inputs!Seeded(s)
      BY <1>14 DEF Inputs!PickRep, Inputs!Edits
    <3> HIDE DEF s
    <3>3. Inputs!Selected(s) = Inputs!Selected(ui)
      BY <3>2 DEF Inputs!Selected
    <3>4. InputsGood(s)
      BY <3>1, <3>2, <3>3 DEF InputsGood, InputsOwn
    <3> QED
      BY <3>e, <3>2, <3>4, InputsSeeded
  <2>1. InputsGood(ui)'
    BY <2>b
  <2>2. net' \subseteq InputsCalls
    BY <1>14 DEF Inputs!PickRep, InputsInv
  <2>3. srv' = Inputs!Logged
    BY <1>14 DEF Inputs!PickRep, InputsInv
  <2>4. odd' \in {0, 1}
    BY <1>14 DEF Inputs!PickRep, InputsInv
  <2>5. ~Inputs!Stuck'
    <3>1. \A e \in net : e.kind = "context" => e \in net'
      BY <1>14 DEF Inputs!PickRep
    <3> QED
      BY <2>b, <3>1 DEF InputsInv, Inputs!Stuck
  <2> QED
    BY <2>1, <2>2, <2>3, <2>4, <2>5 DEF InputsInv
<1>15. ASSUME NEW i \in Inputs!Logged, Inputs!EditPer(i) PROVE InputsInv'
  <2>1. InputsGood(ui)'
    <3> DEFINE e == Inputs!Edited
    <3>1. /\ ui \in InputsUi /\ InputsOwn(ui) /\ ui.per \subseteq Inputs!ToSet(Inputs!Selected(ui))
      BY DEF InputsInv, InputsGood, InputsOwn
    <3>2. i \in Inputs!ToSet(Inputs!Selected(ui)) /\ i \in Inputs!Logged /\ ui.edits > 0
      BY <1>15 DEF Inputs!EditPer
    <3>3. PICK p \in {ui.per \ {i}, ui.per \cup {i}} : ui' = [e EXCEPT !.per = p]
      BY <1>15, Zenon DEF Inputs!EditPer
    <3>4. p \in SUBSET Inputs!Logged /\ p \subseteq ui.per \cup {i}
      BY <3>1, <3>2 DEF InputsUi
    <3>5. /\ e \in InputsUi /\ e.agent = ui.agent /\ e.logs = ui.logs /\ e.sets = ui.sets
          /\ e.source = ui.source /\ e.opened = ui.opened /\ e.shared = ui.shared
      BY <3>1, <3>2, InputsEdited
    <3> HIDE DEF e
    <3>6. /\ ui' \in InputsUi /\ ui'.agent = ui.agent /\ ui'.logs = ui.logs /\ ui'.sets = ui.sets
          /\ ui'.source = ui.source /\ ui'.opened = ui.opened /\ ui'.shared = ui.shared /\ ui'.per = p
      BY <3>3, <3>4, <3>5, Zenon DEF InputsUi
    <3>7. Inputs!Selected(ui') = Inputs!Selected(ui)
      BY <3>6 DEF Inputs!Selected
    <3> QED
      BY <3>1, <3>2, <3>4, <3>6, <3>7 DEF InputsGood, InputsOwn
  <2>2. net' \subseteq InputsCalls
    BY <1>15 DEF Inputs!EditPer, Inputs!Edited, InputsInv
  <2>3. srv' = Inputs!Logged
    BY <1>15 DEF Inputs!EditPer, Inputs!Edited, InputsInv
  <2>4. odd' \in {0, 1}
    BY <1>15 DEF Inputs!EditPer, Inputs!Edited, InputsInv
  <2>5. ~Inputs!Stuck'
    <3>1. ui'.busy = ui.busy
      BY <1>15, InputsEdited DEF Inputs!EditPer, InputsInv, InputsGood, InputsOwn, InputsUi
    <3> QED
      BY <1>15, <3>1 DEF Inputs!EditPer, InputsInv, Inputs!Stuck
  <2> QED
    BY <2>1, <2>2, <2>3, <2>4, <2>5 DEF InputsInv
<1>16. ASSUME NEW d \in DOMAIN Contents, Inputs!TickSet(d) PROVE InputsInv'
  <2>b. InputsGood(ui') /\ (ui'.busy => ui.busy)
    <3> DEFINE t == IF d \in ui.sets THEN ui.sets \ {d} ELSE ui.sets \cup {d}
               s == [ui EXCEPT !.sets = t, !.source = "datasets", !.logs = <<>>]
    <3>1. ui \in InputsUi /\ InputsOwn(ui) /\ <<>> \in Seq(Inputs!Logged)
      BY DEF InputsInv, InputsGood, InputsOwn
    <3>2. t \in SUBSET DOMAIN Contents /\ t \subseteq ui.sets \cup {d}
      BY <3>1 DEF InputsUi
    <3>3. ui' = Inputs!Chosen(s) /\ ui.agent = Inputs!Holder(d) /\ ui.agent # None
      BY <1>16 DEF Inputs!TickSet
    <3> HIDE DEF t
    <3>4. /\ s \in InputsUi /\ s.agent = ui.agent /\ s.logs = <<>> /\ s.sets = t /\ s.source = "datasets"
          /\ s.shared = ui.shared /\ s.busy = ui.busy
      BY <3>1, <3>2, Zenon DEF InputsUi
    <3> HIDE DEF s
    <3>5. InputsOwn(s)
      <4>1. s.agent # None
        BY <3>3, <3>4
      <4>2. Inputs!ToSet(<<>>) = {}
        BY DEF Inputs!ToSet
      <4> QED
        BY <3>1, <3>2, <3>3, <3>4, <4>1, <4>2 DEF InputsOwn
    <3> QED
      BY <3>3, <3>4, <3>5, InputsChosen
  <2>1. InputsGood(ui)'
    BY <2>b
  <2>2. net' \subseteq InputsCalls
    <3> DEFINE t == IF d \in ui.sets THEN ui.sets \ {d} ELSE ui.sets \cup {d}
    <3>1. t \in SUBSET DOMAIN Contents
      BY DEF InputsInv, InputsGood, InputsOwn, InputsUi
    <3>2. net' \subseteq net \cup {[kind |-> "sets", of |-> t]}
      BY <1>16 DEF Inputs!TickSet
    <3> HIDE DEF t
    <3>3. [kind |-> "sets", of |-> t] \in InputsCalls
      BY <3>1 DEF InputsCalls
    <3> QED
      BY <3>2, <3>3 DEF InputsInv
  <2>3. srv' = Inputs!Logged
    BY <1>16 DEF Inputs!TickSet, InputsInv
  <2>4. odd' \in {0, 1}
    BY <1>16 DEF Inputs!TickSet, InputsInv
  <2>5. ~Inputs!Stuck'
    <3>1. \A e \in net : e.kind = "context" => e \in net'
      BY <1>16 DEF Inputs!TickSet
    <3> QED
      BY <2>b, <3>1 DEF InputsInv, Inputs!Stuck
  <2> QED
    BY <2>1, <2>2, <2>3, <2>4, <2>5 DEF InputsInv
<1>17. ASSUME NEW c \in net, Inputs!PoolArrives(c) PROVE InputsInv'
  <2>b. InputsGood(ui') /\ (ui'.busy => ui.busy)
    <3> DEFINE s == [ui EXCEPT !.rich = @ \cup Inputs!Captured(c.of)]
    <3>1. /\ ui \in InputsUi /\ InputsOwn(ui) /\ ui.per \subseteq Inputs!ToSet(Inputs!Selected(ui))
      BY DEF InputsInv, InputsGood, InputsOwn
    <3>c. Inputs!Captured(c.of) \subseteq Inputs!Logged
      BY DEF Inputs!Captured, InputsInv
    <3>2. s \in InputsUi /\ s.agent = ui.agent /\ s.logs = ui.logs /\ s.sets = ui.sets /\ s.source = ui.source /\ s.opened = ui.opened /\ s.shared = ui.shared /\ s.per = ui.per /\ s.busy = ui.busy
      BY <1>17, <3>1, <3>c DEF Inputs!PoolArrives, Inputs!Captured, InputsUi
    <3>e. ui' = Inputs!Seeded(s)
      BY <1>17 DEF Inputs!PoolArrives, Inputs!Captured
    <3> HIDE DEF s
    <3>3. Inputs!Selected(s) = Inputs!Selected(ui)
      BY <3>2 DEF Inputs!Selected
    <3>4. InputsGood(s)
      BY <3>1, <3>2, <3>3 DEF InputsGood, InputsOwn
    <3> QED
      BY <3>e, <3>2, <3>4, InputsSeeded
  <2>1. InputsGood(ui)'
    BY <2>b
  <2>2. net' \subseteq InputsCalls
    BY <1>17 DEF Inputs!PoolArrives, InputsInv
  <2>3. srv' = Inputs!Logged
    BY <1>17 DEF Inputs!PoolArrives, InputsInv
  <2>4. odd' \in {0, 1}
    BY <1>17 DEF Inputs!PoolArrives, InputsInv
  <2>5. ~Inputs!Stuck'
    <3>1. \A e \in net : e.kind = "context" => e \in net'
      BY <1>17 DEF Inputs!PoolArrives
    <3> QED
      BY <2>b, <3>1 DEF InputsInv, Inputs!Stuck
  <2> QED
    BY <2>1, <2>2, <2>3, <2>4, <2>5 DEF InputsInv
<1>18. ASSUME NEW c \in net, Inputs!SetsArrive(c) PROVE InputsInv'
  <2>b. InputsGood(ui') /\ (ui'.busy => ui.busy)
    <3> DEFINE o == ui.opened \cup c.of
               r == ui.rich \cup UNION {Contents[e] : e \in c.of}
               s == [ui EXCEPT !.opened = o, !.rich = r]
    <3>1. ui \in InputsUi /\ InputsOwn(ui) /\ ui.per \subseteq Inputs!ToSet(Inputs!Selected(ui))
      BY DEF InputsInv, InputsGood, InputsOwn
    <3>2. c.of \in SUBSET DOMAIN Contents
      BY <1>18 DEF InputsInv, InputsCalls, Inputs!SetsArrive
    <3>3. o \in SUBSET DOMAIN Contents /\ r \in SUBSET Inputs!Logged
      BY <3>1, <3>2 DEF InputsUi, ConsoleAssumption, Inputs!Logged
    <3>4. ui' = IF ui.source = "datasets" /\ ui.sets = c.of THEN Inputs!Chosen(s) ELSE s
      BY <1>18, <3>1 DEF Inputs!SetsArrive, InputsUi
    <3>5. ui.opened \subseteq o
      OBVIOUS
    <3> HIDE DEF o, r
    <3>6. /\ s \in InputsUi /\ s.agent = ui.agent /\ s.logs = ui.logs /\ s.sets = ui.sets /\ s.source = ui.source
          /\ s.shared = ui.shared /\ s.per = ui.per /\ s.busy = ui.busy /\ s.opened = o
      BY <3>1, <3>3, Zenon DEF InputsUi
    <3> HIDE DEF s
    <3>7. InputsOwn(s)
      BY <3>1, <3>6 DEF InputsOwn
    <3>8. s.per \subseteq Inputs!ToSet(Inputs!Selected(s))
      <4>1. CASE s.source # "recent" /\ ~(ui.sets \subseteq ui.opened)
        <5>1. Inputs!Selected(ui) = <<>>
          BY <3>6, <4>1 DEF Inputs!Selected
        <5>2. Inputs!ToSet(<<>>) = {}
          BY DEF Inputs!ToSet
        <5> QED
          BY <3>1, <3>6, <5>1, <5>2
      <4>2. CASE s.source = "recent" \/ ui.sets \subseteq ui.opened
        <5>1. Inputs!Selected(s) = Inputs!Selected(ui)
          BY <3>5, <3>6, <4>2 DEF Inputs!Selected
        <5> QED
          BY <3>1, <3>6, <5>1
      <4> QED
        BY <4>1, <4>2
    <3> QED
      BY <3>4, <3>6, <3>7, <3>8, InputsChosen DEF InputsGood
  <2>1. InputsGood(ui)'
    BY <2>b
  <2>2. net' \subseteq InputsCalls
    BY <1>18 DEF Inputs!SetsArrive, InputsInv
  <2>3. srv' = Inputs!Logged
    BY <1>18 DEF Inputs!SetsArrive, InputsInv
  <2>4. odd' \in {0, 1}
    BY <1>18 DEF Inputs!SetsArrive, InputsInv
  <2>5. ~Inputs!Stuck'
    <3>1. \A e \in net : e.kind = "context" => e \in net'
      BY <1>18 DEF Inputs!SetsArrive
    <3> QED
      BY <2>b, <3>1 DEF InputsInv, Inputs!Stuck
  <2> QED
    BY <2>1, <2>2, <2>3, <2>4, <2>5 DEF InputsInv
<1>19. ASSUME NEW c \in net, Inputs!ContextArrives(c) PROVE InputsInv'
  <2>1. InputsGood(ui)'
    <3>1. /\ ui \in InputsUi /\ InputsOwn(ui) /\ ui.per \subseteq Inputs!ToSet(Inputs!Selected(ui))
          /\ c.of \in SUBSET Inputs!Logged /\ c.of # {}
      BY <1>19 DEF InputsInv, InputsGood, InputsOwn, InputsCalls, Inputs!ContextArrives
    <3>2. /\ ui' \in InputsUi /\ ui'.agent = ui.agent /\ ui'.logs = ui.logs /\ ui'.sets = ui.sets
          /\ ui'.source = ui.source /\ ui'.opened = ui.opened /\ ui'.shared = ui.shared /\ ui'.per = ui.per
      <4>1. CASE c.all
        <5> DEFINE o == Owner[CHOOSE i \in c.of : TRUE]
        <5>1. o \in Inputs!Owners
          BY <3>1, Zenon DEF Inputs!Owners
        <5>2. ui' = [[ui EXCEPT !.global = o] EXCEPT !.busy = FALSE]
          BY <1>19, <4>1 DEF Inputs!ContextArrives, Inputs!Loaded
        <5> HIDE DEF o
        <5> QED
          BY <3>1, <5>1, <5>2, Zenon DEF InputsUi
      <4>2. CASE ~c.all
        BY <1>19, <3>1, <4>2, ZenonT(40) DEF Inputs!ContextArrives, Inputs!Loaded, InputsUi
      <4> QED
        BY <4>1, <4>2
    <3>3. Inputs!Selected(ui') = Inputs!Selected(ui)
      BY <3>2 DEF Inputs!Selected
    <3> QED
      BY <3>1, <3>2, <3>3 DEF InputsGood, InputsOwn
  <2>2. net' \subseteq InputsCalls
    BY <1>19 DEF Inputs!ContextArrives, Inputs!Loaded, InputsInv
  <2>3. srv' = Inputs!Logged
    BY <1>19 DEF Inputs!ContextArrives, Inputs!Loaded, InputsInv
  <2>4. odd' \in {0, 1}
    BY <1>19 DEF Inputs!ContextArrives, Inputs!Loaded, InputsInv
  <2>5. ~Inputs!Stuck'
    BY <1>19 DEF Inputs!ContextArrives, Inputs!Loaded, InputsInv, InputsGood, InputsOwn, InputsUi,
       Inputs!Stuck
  <2> QED
    BY <2>1, <2>2, <2>3, <2>4, <2>5 DEF InputsInv
<1>20. ASSUME NEW c \in net, Inputs!ContextFails(c) PROVE InputsInv'
  <2>1. InputsGood(ui)'
    <3>1. /\ ui \in InputsUi /\ InputsOwn(ui) /\ ui.per \subseteq Inputs!ToSet(Inputs!Selected(ui))
      BY DEF InputsInv, InputsGood, InputsOwn
    <3>2. /\ ui' \in InputsUi /\ ui'.agent = ui.agent /\ ui'.logs = ui.logs /\ ui'.sets = ui.sets /\ ui'.source = ui.source /\ ui'.opened = ui.opened /\ ui'.shared = ui.shared /\ ui'.per = ui.per
      BY <1>20, <3>1, Zenon DEF Inputs!ContextFails, Inputs!Loaded, InputsUi
    <3>3. Inputs!Selected(ui') = Inputs!Selected(ui)
      BY <3>2 DEF Inputs!Selected
    <3> QED
      BY <3>1, <3>2, <3>3 DEF InputsGood, InputsOwn
  <2>2. net' \subseteq InputsCalls
    BY <1>20 DEF Inputs!ContextFails, Inputs!Loaded, InputsInv
  <2>3. srv' = Inputs!Logged
    BY <1>20 DEF Inputs!ContextFails, Inputs!Loaded, InputsInv
  <2>4. odd' \in {0, 1}
    BY <1>20 DEF Inputs!ContextFails, Inputs!Loaded, InputsInv
  <2>5. ~Inputs!Stuck'
    BY <1>20 DEF Inputs!ContextFails, Inputs!Loaded, InputsInv, InputsGood, InputsOwn, InputsUi, Inputs!Stuck
  <2> QED
    BY <2>1, <2>2, <2>3, <2>4, <2>5 DEF InputsInv
<1> QED
  BY <1>1, <1>2, <1>3, <1>4, <1>5, <1>6, <1>7, <1>8, <1>9, <1>10, <1>11, <1>12, <1>13, <1>14, <1>15,
     <1>16, <1>17, <1>18, <1>19, <1>20 DEF Inputs!Next

\* What the invariant says of the screen.
LEMMA InputsHolds ==
    ASSUME ConsoleAssumption, InputsInv PROVE Inputs!TypeOK /\ Inputs!OfItsAgent /\ Inputs!OneKind
<1>1. ui \in InputsUi /\ InputsOwn(ui) /\ ui.per \subseteq Inputs!ToSet(Inputs!Selected(ui))
  BY DEF InputsInv, InputsGood, InputsOwn
<1>2. ui.edits \in 0..1
  BY <1>1 DEF InputsUi
<1> QED
  BY <1>1, <1>2 DEF InputsUi, InputsOwn, Inputs!TypeOK, Inputs!OfItsAgent, Inputs!OneKind

\* And so does a step that is not the screen's.
LEMMA InputsSame == ASSUME InputsInv, UNCHANGED vars PROVE InputsInv'
  BY DEF vars, InputsInv, Inputs!Stuck

-----------------------------------------------------------------------------
(***************************************************************************)
(* The review of the attempts.                                             *)
(***************************************************************************)

ReviewUi == [open : BOOLEAN, tab : {"review", "debug"}, index : Nat, menu : BOOLEAN, failedOnly : BOOLEAN,
             input : BOOLEAN, removed : BOOLEAN, tools : BOOLEAN, full : BOOLEAN,
             at : {None, "diff", "details", "tools", "nowhere"}]

\* A report has an attempt at least, and sets and checks what there is.
ReviewReport ==
    /\ Len(srv.attempts) \in Nat /\ Len(srv.attempts) > 0
    /\ DOMAIN srv.attempts = 1..Len(srv.attempts)
    /\ srv.config \subseteq Review!Checks /\ srv.set \subseteq Review!Settings

\* The one jump that leads nowhere.
ReviewNowhere == srv.set = {"model"} /\ ~Review!HasAdditionalDetails

ReviewInv ==
    /\ ReviewReport /\ ui \in ReviewUi /\ net = {} /\ odd = 0
    /\ ui.index \in DOMAIN srv.attempts
    /\ ui.failedOnly => Len(srv.attempts) > 1
    /\ ui.at = "nowhere" => ReviewNowhere

ReviewAssumption == None # "nowhere"

\* A report has the attempts it is made of.
LEMMA ReviewMade ==
    ASSUME NEW n \in Nat, n > 0, NEW A, srv.attempts \in [1..n -> A],
           srv.config \in SUBSET Review!Checks, srv.set \in SUBSET Review!Settings
    PROVE  ReviewReport
<1>1. Len(srv.attempts) = n /\ DOMAIN srv.attempts = 1..n
  OBVIOUS
<1> QED
  BY <1>1 DEF ReviewReport

\* And so has one of a single attempt.
LEMMA ReviewMadeOne ==
    ASSUME NEW A, srv.attempts \in [1..1 -> A],
           srv.config \in SUBSET Review!Checks, srv.set \in SUBSET Review!Settings
    PROVE  ReviewReport
<1>1. Len(srv.attempts) = 1 /\ DOMAIN srv.attempts = 1..1
  OBVIOUS
<1> QED
  BY <1>1 DEF ReviewReport

\* Every report a review is opened with is one.
LEMMA ReviewReports ==
    ASSUME ConsoleAssumption, srv \in Review!Verdicts \cup Review!Setups \cup Review!Comparisons \cup Review!Walks
    PROVE  ReviewReport
<1>1. CASE srv \in Review!Verdicts
  <2>1. PICK A : /\ srv.attempts \in [1..1 -> A] /\ srv.config \in SUBSET Review!Checks
                 /\ srv.set \in SUBSET Review!Settings
    BY <1>1, Zenon DEF Review!Verdicts, Review!Report
  <2> QED
    BY <2>1, ReviewMadeOne
<1>2. CASE srv \in Review!Setups
  <2>1. PICK A : /\ srv.attempts \in [1..1 -> A] /\ srv.config \in SUBSET Review!Checks
                 /\ srv.set \in SUBSET Review!Settings
    BY <1>2 DEF Review!Setups, Review!Report
  <2> QED
    BY <2>1, ReviewMadeOne
<1>3. CASE srv \in Review!Comparisons
  <2>1. PICK A : /\ srv.attempts \in [1..1 -> A] /\ srv.config \in SUBSET Review!Checks
                 /\ srv.set \in SUBSET Review!Settings
    BY <1>3 DEF Review!Comparisons, Review!Report
  <2> QED
    BY <2>1, ReviewMadeOne
<1>4. CASE srv \in Review!Walks
  <2> DEFINE A == {Review!Plain, Review!Failing}
  <2>1. /\ srv.attempts \in UNION {[1..n -> A] : n \in 2..MaxAttempts}
        /\ srv.config \in SUBSET Review!Checks /\ srv.set \in SUBSET Review!Settings
    BY <1>4 DEF Review!Walks, Review!Report
  <2> HIDE DEF A
  <2>2. PICK n \in 2..MaxAttempts : srv.attempts \in [1..n -> A]
    BY <2>1, Zenon
  <2>3. n \in Nat /\ n > 0
    BY ConsoleAssumption DEF ConsoleAssumption
  <2> QED
    BY <2>1, <2>2, <2>3, ReviewMade, Zenon
<1> QED
  BY <1>1, <1>2, <1>3, <1>4

\* The invariant holds when the screen is opened.
LEMMA ReviewInit == ASSUME ConsoleAssumption, ReviewAssumption, Review!Init PROVE ReviewInv
<1>1. ReviewReport /\ net = {} /\ odd = 0
  BY ReviewReports DEF Review!Init
<1>2. ui \in ReviewUi /\ ui.index = 1 /\ ~ui.failedOnly /\ ui.at = None
  BY DEF Review!Init, Review!Closed, ReviewUi
<1>3. 1 \in DOMAIN srv.attempts
  BY <1>1 DEF ReviewReport
<1> QED
  BY <1>1, <1>2, <1>3 DEF ReviewInv, ReviewAssumption

\* What is derived of an attempt depends on the report and the attempt only.
LEMMA ReviewDerived ==
    ASSUME srv' = srv, ui'.index = ui.index
    PROVE  Review!HasAdditionalDetails' <=> Review!HasAdditionalDetails
<1>1. Review!Attempt' = Review!Attempt
  BY DEF Review!Attempt
<1>2. Review!GateConfidence' = Review!GateConfidence
  BY <1>1 DEF Review!GateConfidence
<1>3. Review!AttentionItems' = Review!AttentionItems
  BY <1>1, <1>2 DEF Review!AttentionItems
<1>4. Review!HasToolBehaviorDetails' <=> Review!HasToolBehaviorDetails
  BY <1>1 DEF Review!HasToolBehaviorDetails, Review!IsToolDriven
<1>5. Review!HasConfigurationChanges' <=> Review!HasConfigurationChanges
  BY DEF Review!HasConfigurationChanges
<1> QED
  BY <1>3, <1>4, <1>5 DEF Review!HasAdditionalDetails

\* A step that stays where it is.
LEMMA ReviewStays ==
    ASSUME ReviewInv, Review!Still, ui' \in ReviewUi, ui'.index = ui.index, ui'.at = ui.at,
           ui'.failedOnly => Len(srv.attempts) > 1
    PROVE  ReviewInv'
<1>1. UNCHANGED <<net, srv, odd>>
  BY DEF Review!Still
<1>2. ui'.at = "nowhere" => ReviewNowhere'
  BY <1>1, ReviewDerived DEF ReviewInv, ReviewNowhere
<1> QED
  BY <1>1, <1>2 DEF ReviewInv, ReviewReport

\* A step that goes to an attempt.
LEMMA ReviewGoes ==
    ASSUME ReviewAssumption, ReviewInv, Review!Still, ui' \in ReviewUi, ui'.index \in DOMAIN srv.attempts, ui'.at = None,
           ui'.failedOnly => Len(srv.attempts) > 1
    PROVE  ReviewInv'
<1>1. UNCHANGED <<net, srv, odd>>
  BY DEF Review!Still
<1> QED
  BY <1>1 DEF ReviewInv, ReviewReport, ReviewAssumption

\* Another attempt is one of the report.
LEMMA ReviewGoTo ==
    ASSUME ReviewAssumption, ReviewInv, NEW i \in DOMAIN srv.attempts, NEW m \in BOOLEAN, Review!GoTo(i, m)
    PROVE  ReviewInv'
<1>1. i \in Nat /\ ui \in ReviewUi /\ Review!Still
  BY DEF ReviewInv, ReviewReport, Review!GoTo
<1>2. ui' \in ReviewUi /\ ui'.index = i /\ ui'.at = None /\ ui'.failedOnly = ui.failedOnly
  <2>1. CASE i = ui.index
    BY <1>1, <2>1, Zenon DEF Review!GoTo, ReviewUi
  <2>2. CASE i # ui.index
    BY <1>1, <2>2, Zenon DEF Review!GoTo, ReviewUi
  <2> QED
    BY <2>1, <2>2
<1> QED
  BY <1>1, <1>2, ReviewGoes DEF ReviewInv

\* A row of the setup leads to a section there is, but for one.
LEMMA ReviewLands ==
    ASSUME ReviewInv, Review!On("review"), NEW r \in Review!InputSetupRows
    PROVE  /\ Review!ScrollTo(r.to) \in {"details", "tools", "nowhere"}
           /\ Review!ScrollTo(r.to) = "nowhere" => ReviewNowhere
<1>1. CASE r.to = "tools" /\ Review!HasToolBehaviorDetails
  <2>1. Review!HasAdditionalDetails
    BY <1>1 DEF Review!HasAdditionalDetails
  <2>2. "tools" \in Review!Sections
    BY <1>1, <2>1 DEF Review!Sections, Review!On
  <2> QED
    BY <1>1, <2>2 DEF Review!ScrollTo
<1>2. CASE r.to = "details" /\ srv.set # {}
  <2>1. CASE Review!HasAdditionalDetails
    <3>1. "details" \in Review!Sections
      BY <2>1 DEF Review!Sections, Review!On
    <3> QED
      BY <1>2, <3>1 DEF Review!ScrollTo
  <2>2. CASE ~Review!HasAdditionalDetails
    <3>1. srv.set \cap {"prompt", "sampling", "fields", "context"} = {}
      BY <2>2 DEF Review!HasAdditionalDetails, Review!HasConfigurationChanges
    <3>2. srv.set \subseteq {"prompt", "model", "sampling", "fields", "context"}
      BY DEF ReviewInv, ReviewReport, Review!Settings
    <3>3. srv.set = {"model"}
      BY <1>2, <3>1, <3>2
    <3> QED
      BY <1>2, <2>2, <3>3 DEF ReviewNowhere, Review!ScrollTo
  <2> QED
    BY <2>1, <2>2
<1>3. (r.to = "details" /\ srv.set # {}) \/ (r.to = "tools" /\ Review!HasToolBehaviorDetails)
  <2>1. CASE r \in {[row |-> s, to |-> "details"] : s \in srv.set}
    BY <2>1
  <2>2. CASE Review!HasToolBehaviorDetails /\ r = [row |-> "tools", to |-> "tools"]
    BY <2>2
  <2> QED
    BY <2>1, <2>2 DEF Review!InputSetupRows
<1> QED
  BY <1>1, <1>2, <1>3

\* Every step of the screen keeps the invariant.
LEMMA ReviewStep == ASSUME ReviewAssumption, ReviewInv, Review!Next PROVE ReviewInv'
<1>1. ASSUME NEW i \in DOMAIN srv.attempts, Review!OpenAt(i) PROVE ReviewInv'
  <2>1. i \in Nat /\ Review!Still
    BY <1>1 DEF ReviewInv, ReviewReport, Review!OpenAt
  <2>2. ui' \in ReviewUi /\ ui'.index = i /\ ui'.at = None /\ ~ui'.failedOnly
    BY <1>1, <2>1, Zenon DEF Review!OpenAt, Review!Closed, ReviewUi
  <2> QED
    BY <2>1, <2>2, ReviewGoes
<1>2. ASSUME NEW i \in DOMAIN srv.attempts, Review!Choose(i) PROVE ReviewInv'
  <2>1. Review!GoTo(i, FALSE)
    BY <1>2, Zenon DEF Review!Choose
  <2> QED
    BY <2>1, ReviewGoTo, Zenon
<1>3. CASE Review!Close
  <2>1. ui \in ReviewUi /\ Review!Still
    BY <1>3 DEF ReviewInv, Review!Close
  <2>2. FALSE \in BOOLEAN
    OBVIOUS
  <2>3. /\ ui' \in ReviewUi /\ ui'.index = ui.index /\ ui'.at = ui.at
        /\ ui'.failedOnly => Len(srv.attempts) > 1
    BY <1>3, <2>1, <2>2, Zenon DEF Review!Close, Review!Browsing, ReviewInv, ReviewUi
  <2> QED
    BY <2>1, <2>3, ReviewStays
<1>4. CASE Review!Previous
  <2>1. Review!GoTo(ui.index - 1, ui.menu) /\ ui.menu \in BOOLEAN
    BY <1>4 DEF Review!Previous, ReviewInv, ReviewUi
  <2>2. ui.index - 1 \in DOMAIN srv.attempts
    BY <1>4 DEF Review!Previous, ReviewInv, ReviewReport
  <2> QED
    BY <2>1, <2>2, ReviewGoTo
<1>5. CASE Review!NextOne
  <2>1. Review!GoTo(ui.index + 1, ui.menu) /\ ui.menu \in BOOLEAN
    BY <1>5 DEF Review!NextOne, ReviewInv, ReviewUi
  <2>2. ui.index + 1 \in DOMAIN srv.attempts
    BY <1>5 DEF Review!NextOne, ReviewInv, ReviewReport
  <2> QED
    BY <2>1, <2>2, ReviewGoTo
<1>6. CASE Review!ToggleMenu
  <2>1. ui \in ReviewUi /\ Review!Still
    BY <1>6 DEF ReviewInv, Review!ToggleMenu
  <2>2. (~ui.menu) \in BOOLEAN
    OBVIOUS
  <2>3. /\ ui' \in ReviewUi /\ ui'.index = ui.index /\ ui'.at = ui.at
        /\ ui'.failedOnly => Len(srv.attempts) > 1
    BY <1>6, <2>1, <2>2, Zenon DEF Review!ToggleMenu, Review!Browsing, ReviewInv, ReviewUi
  <2> QED
    BY <2>1, <2>3, ReviewStays
<1>7. CASE Review!ToggleFailedOnly
  <2>1. ui \in ReviewUi /\ Review!Still
    BY <1>7 DEF ReviewInv, Review!ToggleFailedOnly
  <2>2. (~ui.failedOnly) \in BOOLEAN
    OBVIOUS
  <2>3. /\ ui' \in ReviewUi /\ ui'.index = ui.index /\ ui'.at = ui.at
        /\ ui'.failedOnly => Len(srv.attempts) > 1
    BY <1>7, <2>1, <2>2, Zenon DEF Review!ToggleFailedOnly, Review!Browsing, ReviewInv, ReviewUi
  <2> QED
    BY <2>1, <2>3, ReviewStays
<1>8. ASSUME NEW tab \in {"review", "debug"}, Review!PickTab(tab) PROVE ReviewInv'
  <2>1. ui \in ReviewUi /\ Review!Still
    BY <1>8 DEF ReviewInv, Review!PickTab
  <2>2. ui' \in ReviewUi /\ ui'.index = ui.index /\ ui'.at = None /\ ui'.failedOnly = ui.failedOnly
    BY <1>8, <2>1, Zenon DEF Review!PickTab, ReviewUi
  <2> QED
    BY <2>1, <2>2, ReviewGoes DEF ReviewInv
<1>9. CASE Review!ToggleInput
  <2>1. ui \in ReviewUi /\ Review!Still
    BY <1>9 DEF ReviewInv, Review!ToggleInput
  <2>2. (~ui.input) \in BOOLEAN
    OBVIOUS
  <2>3. /\ ui' \in ReviewUi /\ ui'.index = ui.index /\ ui'.at = ui.at
        /\ ui'.failedOnly => Len(srv.attempts) > 1
    BY <1>9, <2>1, <2>2, Zenon DEF Review!ToggleInput, Review!Browsing, ReviewInv, ReviewUi
  <2> QED
    BY <2>1, <2>3, ReviewStays
<1>10. CASE Review!ToggleFull
  <2>1. ui \in ReviewUi /\ Review!Still
    BY <1>10 DEF ReviewInv, Review!ToggleFull
  <2>2. (~ui.full) \in BOOLEAN
    OBVIOUS
  <2>3. /\ ui' \in ReviewUi /\ ui'.index = ui.index /\ ui'.at = ui.at
        /\ ui'.failedOnly => Len(srv.attempts) > 1
    BY <1>10, <2>1, <2>2, Zenon DEF Review!ToggleFull, Review!Browsing, ReviewInv, ReviewUi
  <2> QED
    BY <2>1, <2>3, ReviewStays
<1>11. CASE Review!ToggleRemoved
  <2>1. ui \in ReviewUi /\ Review!Still
    BY <1>11 DEF ReviewInv, Review!ToggleRemoved
  <2>2. (~ui.removed) \in BOOLEAN
    OBVIOUS
  <2>3. /\ ui' \in ReviewUi /\ ui'.index = ui.index /\ ui'.at = ui.at
        /\ ui'.failedOnly => Len(srv.attempts) > 1
    BY <1>11, <2>1, <2>2, Zenon DEF Review!ToggleRemoved, Review!Browsing, ReviewInv, ReviewUi
  <2> QED
    BY <2>1, <2>3, ReviewStays
<1>12. CASE Review!ToggleTools
  <2>1. ui \in ReviewUi /\ Review!Still
    BY <1>12 DEF ReviewInv, Review!ToggleTools
  <2>2. (~ui.tools) \in BOOLEAN
    OBVIOUS
  <2>3. /\ ui' \in ReviewUi /\ ui'.index = ui.index /\ ui'.at = ui.at
        /\ ui'.failedOnly => Len(srv.attempts) > 1
    BY <1>12, <2>1, <2>2, Zenon DEF Review!ToggleTools, Review!Browsing, ReviewInv, ReviewUi
  <2> QED
    BY <2>1, <2>3, ReviewStays
<1>13. ASSUME NEW r \in Review!InputSetupRows, Review!JumpTo(r) PROVE ReviewInv'
  <2>1. /\ ui \in ReviewUi /\ Review!Still /\ Review!On("review")
        /\ ui' = [ui EXCEPT !.at = Review!ScrollTo(r.to), !.tools = @ \/ r.to = "tools"]
    BY <1>13 DEF ReviewInv, Review!JumpTo
  <2>2. /\ Review!ScrollTo(r.to) \in {"details", "tools", "nowhere"}
        /\ Review!ScrollTo(r.to) = "nowhere" => ReviewNowhere
    BY <2>1, ReviewLands
  <2>3. (ui.tools \/ r.to = "tools") \in BOOLEAN
    OBVIOUS
  <2>4. /\ ui' \in ReviewUi /\ ui'.index = ui.index /\ ui'.at = Review!ScrollTo(r.to)
        /\ ui'.failedOnly = ui.failedOnly
    BY <2>1, <2>2, <2>3, Zenon DEF ReviewUi
  <2>5. UNCHANGED <<net, srv, odd>> /\ (ReviewNowhere => ReviewNowhere')
    BY <2>1, <2>4, ReviewDerived DEF Review!Still, ReviewNowhere
  <2> QED
    BY <2>2, <2>4, <2>5 DEF ReviewInv, ReviewReport
<1>14. CASE Review!JumpToReply
  <2>1. Review!ScrollTo("diff") = "diff" /\ Review!Still /\ ui \in ReviewUi
    BY <1>14 DEF Review!JumpToReply, Review!ScrollTo, Review!Sections, Review!On, ReviewInv
  <2>2. /\ ui' \in ReviewUi /\ ui'.index = ui.index /\ ui'.at = "diff"
        /\ ui'.failedOnly = ui.failedOnly
    BY <1>14, <2>1 DEF Review!JumpToReply, ReviewUi
  <2> QED
    BY <2>1, <2>2 DEF ReviewInv, ReviewReport, Review!Still
<1> QED
  BY <1>1, <1>2, <1>3, <1>4, <1>5, <1>6, <1>7, <1>8, <1>9, <1>10, <1>11, <1>12, <1>13, <1>14 DEF Review!Next

\* A failed attempt has something to say for it, and a passed one nothing.
LEMMA ReviewTells == ASSUME ReviewInv PROVE Review!TellsWhy
<1> DEFINE told == Review!FailedSignals # {} \/ Review!AttentionItems \cap {"policy", "provider-warning"} # {}
           unconfigured == {c \in Review!Checks \ srv.config : Review!Attempt.checks[c] = "fail"}
<1>1. srv.config \subseteq Review!Checks
  BY DEF ReviewInv, ReviewReport
<1>2. Review!AttentionItems \cap {"policy", "provider-warning"} # {} <=> Review!Attempt.policy \/ Review!Attempt.error
  BY DEF Review!AttentionItems
<1>3. CASE Review!Passed(Review!Attempt)
  <2>1. ~Review!Attempt.policy /\ ~Review!Attempt.error
    BY <1>3 DEF Review!Passed
  <2>2. Review!FailedSignals = {}
    BY <1>1, <1>3 DEF Review!Passed, Review!FailedSignals, Review!CheckRows
  <2> QED
    BY <1>2, <1>3, <2>1, <2>2 DEF Review!TellsWhy
<1>4. CASE ~Review!Passed(Review!Attempt)
  <2>1. CASE Review!Attempt.policy \/ Review!Attempt.error
    BY <1>2, <1>4, <2>1 DEF Review!TellsWhy
  <2>2. ASSUME NEW c \in Review!Checks, Review!Attempt.checks[c] = "fail"
        PROVE  Review!FailedSignals # {} \/ unconfigured # {}
    <3>1. CASE c \in Review!CheckRows
      BY <2>2, <3>1 DEF Review!FailedSignals
    <3>2. CASE c \notin Review!CheckRows
      <4>1. c \notin srv.config
        BY <3>2 DEF Review!CheckRows
      <4> QED
        BY <2>2, <4>1
    <3> QED
      BY <3>1, <3>2
  <2>3. (Review!Attempt.policy \/ Review!Attempt.error) \/ \E c \in Review!Checks : Review!Attempt.checks[c] = "fail"
    BY <1>4 DEF Review!Passed
  <2>4. told \/ unconfigured # {}
    BY <1>2, <2>2, <2>3
  <2> QED
    BY <1>4, <2>4 DEF Review!TellsWhy
<1> QED
  BY <1>3, <1>4

\* What the invariant says of the screen.
LEMMA ReviewHolds ==
    ASSUME ReviewInv
    PROVE  Review!TypeOK /\ Review!TellsWhy /\ Review!JumpsLand
<1>1. Review!TypeOK
  BY DEF ReviewInv, ReviewUi, Review!TypeOK
<1>2. Review!JumpsLand
  BY DEF ReviewInv, ReviewNowhere, Review!JumpsLand
<1> QED
  BY <1>1, <1>2, ReviewTells

\* And so does a step that is not the screen's.
LEMMA ReviewSame == ASSUME ReviewInv, UNCHANGED vars PROVE ReviewInv'
  BY DEF vars, ReviewInv, ReviewNowhere, ReviewReport, Review!HasAdditionalDetails,
     Review!AttentionItems, Review!HasConfigurationChanges, Review!HasToolBehaviorDetails,
     Review!Attempt, Review!GateConfidence, Review!IsToolDriven

-----------------------------------------------------------------------------
(***************************************************************************)
(* The difference of two replies.  The tables it is read off are recursive *)
(* functions: a set of numbers has a least element, so a table whose cells *)
(* are made of cells of smaller weight exists, and what every cell has     *)
(* when those of smaller weight have it, all have.                         *)
(***************************************************************************)

(* A set of numbers that is not empty has a least one. *)
LEMMA Least ==
    ASSUME NEW T \in SUBSET Nat, T # {}
    PROVE  \E k \in T : \A j \in T : k <= j
<1>1. PICK k \in T : \A j \in T : ~(<<j, k>> \in OpToRel(<, Nat))
  BY NatLessThanWellFounded, WFMin, Zenon
<1>2. \A j \in T : j \in Nat /\ k \in Nat
  OBVIOUS
<1>3. \A j \in T : ~(j < k)
  BY <1>1, <1>2, Zenon DEF OpToRel
<1> QED
  BY <1>2, <1>3

\* A cell is good when all those of smaller weight are.
GoesUp(D, w, Good) == \A x \in D : (\A y \in D : w[y] < w[x] => y \in Good) => x \in Good

\* F makes tables, and a cell of what it makes depends on cells of smaller weight.
LooksDown(D, V, F, w, N) ==
    /\ F \in [[D -> V] -> [D -> V]] /\ w \in [D -> Nat] /\ N \in Nat
    /\ \A x \in D : w[x] <= N
    /\ [D -> V] # {}
    /\ \A g, h \in [D -> V] : \A x \in D :
          (\A y \in D : w[y] < w[x] => g[y] = h[y]) => F[g][x] = F[h][x]

Settles(D, V, F) == \E g \in [D -> V] : F[g] = g

(* A table whose cells are made of cells of smaller weight exists.         *)
LEMMA Tables ==
    ASSUME NEW D, NEW V, NEW F, NEW w, NEW N, LooksDown(D, V, F, w, N)
    PROVE  Settles(D, V, F)
<1>0. /\ F \in [[D -> V] -> [D -> V]] /\ w \in [D -> Nat] /\ N \in Nat
      /\ \A x \in D : w[x] <= N
  BY DEF LooksDown
<1>g. PICK g0 \in [D -> V] : TRUE
  BY DEF LooksDown
<1> DEFINE Upto(g, k) == \A x \in D : w[x] < k => F[g][x] = g[x]
           T == {k \in Nat : ~\E g \in [D -> V] : Upto(g, k)}
<1>1. T = {}
  <2> SUFFICES ASSUME T # {} PROVE FALSE
    OBVIOUS
  <2>1. T \in SUBSET Nat
    OBVIOUS
  <2>2. PICK k \in T : \A j \in T : k <= j
    BY <2>1, Least
  <2>3. k # 0
    <3>1. ASSUME k = 0 PROVE Upto(g0, k)
      <4>1. \A x \in D : w[x] \in Nat
        BY <1>0
      <4> QED
        BY <3>1, <4>1
    <3> QED
      BY <1>g, <3>1
  <2>4. k - 1 \in Nat /\ k - 1 \notin T
    BY <2>1, <2>2, <2>3
  <2>5. PICK g \in [D -> V] : Upto(g, k - 1)
    BY <2>4
  <2>6. F[g] \in [D -> V]
    BY <1>0
  <2>7. ASSUME NEW x \in D, w[x] < k PROVE F[F[g]][x] = F[g][x]
    <3>1. ASSUME NEW y \in D, w[y] < w[x] PROVE F[g][y] = g[y]
      <4>1. w[y] \in Nat /\ w[x] \in Nat /\ k \in Nat
        BY <1>0
      <4>2. w[y] < k - 1
        BY <2>7, <3>1, <4>1
      <4> QED
        BY <2>5, <4>2
    <3> QED
      BY <2>6, <3>1 DEF LooksDown
  <2> QED
    BY <2>6, <2>7
<1>2. PICK g \in [D -> V] : Upto(g, N + 1)
  <2> HIDE DEF Upto
  <2>1. N + 1 \in Nat
    BY <1>0
  <2> QED
    BY <1>1, <2>1
<1>3. ASSUME NEW x \in D PROVE F[g][x] = g[x]
  <2>1. w[x] \in Nat /\ w[x] <= N
    BY <1>0
  <2>2. w[x] < N + 1
    BY <1>0, <2>1
  <2> QED
    BY <1>2, <2>2, Zenon
<1>4. F[g] \in [D -> V]
  BY <1>0
<1> QED
  BY <1>3, <1>4 DEF Settles

(* What every cell has when all those of smaller weight have it, all have. *)
LEMMA Cellwise ==
    ASSUME NEW D, NEW w \in [D -> Nat], NEW Good \in SUBSET D, GoesUp(D, w, Good)
    PROVE  Good = D
<1> DEFINE T == {k \in Nat : \E x \in D \ Good : w[x] = k}
<1>1. T = {}
  <2> SUFFICES ASSUME T # {} PROVE FALSE
    OBVIOUS
  <2>1. T \in SUBSET Nat
    OBVIOUS
  <2>2. PICK k \in T : \A j \in T : k <= j
    BY <2>1, Least
  <2>3. PICK x \in D \ Good : w[x] = k
    OBVIOUS
  <2>4. ASSUME NEW y \in D, w[y] < w[x] PROVE y \in Good
    <3>1. w[y] \in Nat /\ w[x] \in Nat
      OBVIOUS
    <3>2. w[y] \notin T
      BY <2>2, <2>3, <2>4, <3>1
    <3> QED
      BY <3>1, <3>2
  <2> QED
    BY <2>3, <2>4 DEF GoesUp
<1> QED
  BY <1>1

-----------------------------------------------------------------------------
\* The cells of the two tables, and how much of the two texts lies behind one.
Cells(a, b) == (1..Len(a) + 1) \X (1..Len(b) + 1)
Rest(a, b) == [p \in Cells(a, b) |-> (Len(a) + 1 - p[1]) + (Len(b) + 1 - p[2])]

\* The rests of two texts get shorter towards their ends.
LEMMA Rests ==
    ASSUME NEW S, NEW a \in Seq(S), NEW b \in Seq(S)
    PROVE  /\ Rest(a, b) \in [Cells(a, b) -> Nat]
           /\ \A p \in Cells(a, b) : Rest(a, b)[p] <= Len(a) + Len(b)
           /\ \A i \in 1..Len(a), j \in 1..Len(b) + 1 :
                /\ <<i, j>> \in Cells(a, b) /\ <<i + 1, j>> \in Cells(a, b)
                /\ Rest(a, b)[<<i + 1, j>>] < Rest(a, b)[<<i, j>>]
           /\ \A i \in 1..Len(a) + 1, j \in 1..Len(b) :
                /\ <<i, j>> \in Cells(a, b) /\ <<i, j + 1>> \in Cells(a, b)
                /\ Rest(a, b)[<<i, j + 1>>] < Rest(a, b)[<<i, j>>]
           /\ \A i \in 1..Len(a), j \in 1..Len(b) :
                /\ <<i + 1, j + 1>> \in Cells(a, b)
                /\ Rest(a, b)[<<i + 1, j + 1>>] < Rest(a, b)[<<i, j>>]
<1>0. Len(a) \in Nat /\ Len(b) \in Nat
  OBVIOUS
<1>1. ASSUME NEW p \in Cells(a, b) PROVE Rest(a, b)[p] \in Nat /\ Rest(a, b)[p] <= Len(a) + Len(b)
  <2>1. p[1] \in 1..Len(a) + 1 /\ p[2] \in 1..Len(b) + 1
    BY DEF Cells
  <2>2. Rest(a, b)[p] = (Len(a) + 1 - p[1]) + (Len(b) + 1 - p[2])
    BY DEF Rest
  <2> QED
    BY <1>0, <2>1, <2>2
<1>2. Rest(a, b) \in [Cells(a, b) -> Nat]
  <2>1. Rest(a, b) = [p \in Cells(a, b) |-> Rest(a, b)[p]]
    BY DEF Rest
  <2> QED
    BY <1>1, <2>1
<1>3. ASSUME NEW i \in 1..Len(a) + 1, NEW j \in 1..Len(b) + 1
      PROVE  <<i, j>> \in Cells(a, b) /\ Rest(a, b)[<<i, j>>] = (Len(a) + 1 - i) + (Len(b) + 1 - j)
  BY DEF Rest, Cells
<1>4. ASSUME NEW i \in 1..Len(a) PROVE i \in 1..Len(a) + 1 /\ i + 1 \in 1..Len(a) + 1 /\ i \in Nat
  BY <1>0
<1>5. ASSUME NEW j \in 1..Len(b) PROVE j \in 1..Len(b) + 1 /\ j + 1 \in 1..Len(b) + 1 /\ j \in Nat
  BY <1>0
<1>6. ASSUME NEW i \in 1..Len(a), NEW j \in 1..Len(b) + 1
      PROVE  /\ <<i, j>> \in Cells(a, b) /\ <<i + 1, j>> \in Cells(a, b)
             /\ Rest(a, b)[<<i + 1, j>>] < Rest(a, b)[<<i, j>>]
  <2>1. /\ Rest(a, b)[<<i, j>>] = (Len(a) + 1 - i) + (Len(b) + 1 - j)
        /\ Rest(a, b)[<<i + 1, j>>] = (Len(a) + 1 - (i + 1)) + (Len(b) + 1 - j)
        /\ <<i, j>> \in Cells(a, b) /\ <<i + 1, j>> \in Cells(a, b)
    BY <1>3, <1>4
  <2> QED
    BY <1>0, <2>1
<1>7. ASSUME NEW i \in 1..Len(a) + 1, NEW j \in 1..Len(b)
      PROVE  /\ <<i, j>> \in Cells(a, b) /\ <<i, j + 1>> \in Cells(a, b)
             /\ Rest(a, b)[<<i, j + 1>>] < Rest(a, b)[<<i, j>>]
  <2>1. /\ Rest(a, b)[<<i, j>>] = (Len(a) + 1 - i) + (Len(b) + 1 - j)
        /\ Rest(a, b)[<<i, j + 1>>] = (Len(a) + 1 - i) + (Len(b) + 1 - (j + 1))
        /\ <<i, j>> \in Cells(a, b) /\ <<i, j + 1>> \in Cells(a, b)
    BY <1>3, <1>5
  <2> QED
    BY <1>0, <2>1
<1>8. ASSUME NEW i \in 1..Len(a), NEW j \in 1..Len(b)
      PROVE  /\ <<i + 1, j + 1>> \in Cells(a, b)
             /\ Rest(a, b)[<<i + 1, j + 1>>] < Rest(a, b)[<<i, j>>]
  <2>1. /\ Rest(a, b)[<<i, j>>] = (Len(a) + 1 - i) + (Len(b) + 1 - j)
        /\ Rest(a, b)[<<i + 1, j + 1>>] = (Len(a) + 1 - (i + 1)) + (Len(b) + 1 - (j + 1))
        /\ <<i + 1, j + 1>> \in Cells(a, b)
    BY <1>3, <1>4, <1>5
  <2> QED
    BY <1>0, <2>1
<1> QED
  BY <1>1, <1>2, <1>6, <1>7, <1>8

\* What a cell of the table of common lines is made of.
CommonStep(a, b, dp, i, j) ==
    IF i > Len(a) \/ j > Len(b) THEN 0
    ELSE IF a[i] = b[j] THEN 1 + dp[<<i + 1, j + 1>>]
    ELSE Review!Max(dp[<<i + 1, j>>], dp[<<i, j + 1>>])

\* The table of common lines exists, and each cell is what its step makes of the others.
LEMMA CommonTable ==
    ASSUME NEW S, NEW a \in Seq(S), NEW b \in Seq(S)
    PROVE  /\ Review!CommonLines(a, b) \in [Cells(a, b) -> Nat]
           /\ \A i \in 1..Len(a) + 1, j \in 1..Len(b) + 1 :
                Review!CommonLines(a, b)[<<i, j>>] = CommonStep(a, b, Review!CommonLines(a, b), i, j)
<1> DEFINE D == Cells(a, b)
           F == [g \in [D -> Nat] |-> [p \in D |-> CommonStep(a, b, g, p[1], p[2])]]
<1>0. Len(a) \in Nat /\ Len(b) \in Nat
  OBVIOUS
<1>p. ASSUME NEW p \in D PROVE p[1] \in 1..Len(a) + 1 /\ p[2] \in 1..Len(b) + 1 /\ p = <<p[1], p[2]>>
  BY DEF Cells
<1>1. ASSUME NEW g \in [D -> Nat], NEW i \in 1..Len(a) + 1, NEW j \in 1..Len(b) + 1
      PROVE  CommonStep(a, b, g, i, j) \in Nat
  <2>1. CASE i > Len(a) \/ j > Len(b)
    BY <2>1 DEF CommonStep
  <2>2. CASE ~(i > Len(a) \/ j > Len(b))
    <3>1. i \in 1..Len(a) /\ j \in 1..Len(b)
      BY <1>0, <2>2
    <3>2. g[<<i + 1, j + 1>>] \in Nat /\ g[<<i + 1, j>>] \in Nat /\ g[<<i, j + 1>>] \in Nat
      BY <3>1, <1>0, Rests
    <3> QED
      BY <2>2, <3>2 DEF CommonStep, Review!Max
  <2> QED
    BY <2>1, <2>2
<1>2. F \in [[D -> Nat] -> [D -> Nat]]
  <2>1. \A g \in [D -> Nat] : \A p \in D : CommonStep(a, b, g, p[1], p[2]) \in Nat
    BY <1>1, <1>p
  <2> HIDE DEF D
  <2> QED
    BY <2>1
<1>3. ASSUME NEW g \in [D -> Nat], NEW h \in [D -> Nat], NEW p \in D,
             \A q \in D : Rest(a, b)[q] < Rest(a, b)[p] => g[q] = h[q]
      PROVE  F[g][p] = F[h][p]
  <2> DEFINE i == p[1]
             j == p[2]
  <2>1. i \in 1..Len(a) + 1 /\ j \in 1..Len(b) + 1 /\ p = <<i, j>>
    BY <1>p
  <2>2. CommonStep(a, b, g, i, j) = CommonStep(a, b, h, i, j)
    <3> HIDE DEF i, j
    <3>1. CASE i > Len(a) \/ j > Len(b)
      BY <3>1 DEF CommonStep
    <3>2. CASE ~(i > Len(a) \/ j > Len(b))
      <4>1. i \in 1..Len(a) /\ j \in 1..Len(b)
        BY <1>0, <2>1, <3>2
      <4>2. /\ g[<<i + 1, j + 1>>] = h[<<i + 1, j + 1>>] /\ g[<<i + 1, j>>] = h[<<i + 1, j>>]
            /\ g[<<i, j + 1>>] = h[<<i, j + 1>>]
        BY <1>0, <1>3, <2>1, <4>1, Rests
      <4> QED
        BY <4>2 DEF CommonStep
    <3> QED
      BY <3>1, <3>2
  <2>3. F[g][p] = CommonStep(a, b, g, i, j) /\ F[h][p] = CommonStep(a, b, h, i, j)
    OBVIOUS
  <2> QED
    BY <2>2, <2>3, Zenon
<1>4. \E g \in [D -> Nat] : F[g] = g
  <2>1. [p \in D |-> 0] \in [D -> Nat]
    OBVIOUS
  <2>2. Len(a) + Len(b) \in Nat
    BY <1>0
  <2>3. Rest(a, b) \in [D -> Nat] /\ \A x \in D : Rest(a, b)[x] <= Len(a) + Len(b)
    BY Rests
  <2>4. \A g, h \in [D -> Nat] : \A x \in D :
           (\A y \in D : Rest(a, b)[y] < Rest(a, b)[x] => g[y] = h[y]) => F[g][x] = F[h][x]
    BY <1>3
  <2> DEFINE w == Rest(a, b)
             N == Len(a) + Len(b)
             V == Nat
  <2>5. w \in [D -> Nat] /\ N \in Nat /\ F \in [[D -> V] -> [D -> V]] /\ [D -> V] # {}
    BY <1>2, <2>1, <2>2, <2>3, Zenon
  <2>6. LooksDown(D, V, F, w, N)
    BY <2>3, <2>4, <2>5, Zenon DEF LooksDown
  <2>7. Settles(D, V, F)
    <3> HIDE DEF D, F, w, N, V
    <3> QED
      BY <2>6, Tables
  <2> HIDE DEF D, F
  <2> QED
    BY <2>7 DEF Settles
<1>5. PICK g \in [D -> Nat] : g = [p \in D |-> CommonStep(a, b, g, p[1], p[2])]
  BY <1>4
<1> DEFINE t == Review!CommonLines(a, b)
<1>6. t = [p \in D |-> CommonStep(a, b, t, p[1], p[2])]
  BY <1>5, Zenon DEF CommonStep, Review!CommonLines, Cells
<1>7. t \in [D -> Nat]
  <2> DEFINE Good == {p \in D : t[p] \in Nat}
  <2>1. ASSUME NEW p \in D, \A q \in D : Rest(a, b)[q] < Rest(a, b)[p] => q \in Good PROVE t[p] \in Nat
    <3> DEFINE i == p[1]
               j == p[2]
    <3>1. i \in 1..Len(a) + 1 /\ j \in 1..Len(b) + 1 /\ p = <<i, j>>
      BY <1>p
    <3>2. t[p] = CommonStep(a, b, t, i, j)
      BY <1>6, Zenon
    <3> HIDE DEF i, j, t
    <3>3. CASE i > Len(a) \/ j > Len(b)
      BY <3>2, <3>3 DEF CommonStep
    <3>4. CASE ~(i > Len(a) \/ j > Len(b))
      <4>1. i \in 1..Len(a) /\ j \in 1..Len(b)
        BY <1>0, <3>1, <3>4
      <4>2. t[<<i + 1, j + 1>>] \in Nat /\ t[<<i + 1, j>>] \in Nat /\ t[<<i, j + 1>>] \in Nat
        BY <1>0, <2>1, <3>1, <4>1, Rests
      <4> QED
        BY <3>2, <3>4, <4>2 DEF CommonStep, Review!Max
    <3> QED
      BY <3>3, <3>4
  <2>2. Rest(a, b) \in [D -> Nat]
    BY Rests
  <2>3. Good \in SUBSET D /\ \A x \in D : (\A y \in D : Rest(a, b)[y] < Rest(a, b)[x] => y \in Good) => x \in Good
    BY <2>1
  <2>4. Good = D
    <3> DEFINE w == Rest(a, b)
    <3>1. w \in [D -> Nat] /\ GoesUp(D, w, Good)
      BY <2>2, <2>3, Zenon DEF GoesUp
    <3>2. Good \in SUBSET D
      OBVIOUS
    <3> HIDE DEF Good, D, w
    <3> QED
      BY <3>1, <3>2, Cellwise
  <2>5. t = [p \in D |-> t[p]]
    BY <1>6, Zenon
  <2> HIDE DEF t, D
  <2> QED
    BY <2>4, <2>5
<1>8. ASSUME NEW i \in 1..Len(a) + 1, NEW j \in 1..Len(b) + 1 PROVE t[<<i, j>>] = CommonStep(a, b, t, i, j)
  <2>1. <<i, j>> \in D /\ <<i, j>>[1] = i /\ <<i, j>>[2] = j
    BY DEF Cells
  <2> HIDE DEF t, D
  <2> QED
    BY <1>6, <2>1
<1> QED
  BY <1>7, <1>8

\* Marked lines, and what a cell of the table of differences is made of.
DiffLines(S) == [mark : {"-", "+", " "}, text : S]

DiffStep(a, b, dp, out, i, j) ==
    IF i > Len(a) /\ j > Len(b) THEN <<>>
    ELSE IF j > Len(b) THEN <<Review!Line("-", a[i])>> \o out[<<i + 1, j>>]
    ELSE IF i > Len(a) THEN <<Review!Line("+", b[j])>> \o out[<<i, j + 1>>]
    ELSE IF a[i] = b[j] THEN <<Review!Line(" ", a[i])>> \o out[<<i + 1, j + 1>>]
    ELSE IF dp[<<i + 1, j>>] >= dp[<<i, j + 1>>] THEN <<Review!Line("-", a[i])>> \o out[<<i + 1, j>>]
    ELSE <<Review!Line("+", b[j])>> \o out[<<i, j + 1>>]

\* A line in front of a sequence makes a sequence.
LEMMA ConsSeq ==
    ASSUME NEW L, NEW x \in L, NEW s \in Seq(L)
    PROVE  <<x>> \o s \in Seq(L)
  OBVIOUS

\* And so does a marked line.
LEMMA LineMade ==
    ASSUME NEW S, NEW m \in {"-", "+", " "}, NEW t \in S, NEW s \in Seq(DiffLines(S))
    PROVE  <<Review!Line(m, t)>> \o s \in Seq(DiffLines(S))
<1>1. Review!Line(m, t) \in DiffLines(S)
  BY DEF Review!Line, DiffLines
<1> QED
  BY <1>1, ConsSeq, Zenon

(* A cell is reached from one of its neighbours towards the ends, if any.  *)
LEMMA DiffCell ==
    ASSUME NEW S, NEW a \in Seq(S), NEW b \in Seq(S), NEW dp, NEW out,
           NEW i \in 1..Len(a) + 1, NEW j \in 1..Len(b) + 1,
           \A q \in Cells(a, b) : Rest(a, b)[q] < Rest(a, b)[<<i, j>>] => out[q] \in Seq(DiffLines(S))
    PROVE  DiffStep(a, b, dp, out, i, j) \in Seq(DiffLines(S))
<1>0. Len(a) \in Nat /\ Len(b) \in Nat
  OBVIOUS
<1>1. CASE i > Len(a) /\ j > Len(b)
  BY <1>1 DEF DiffStep
<1>2. CASE i <= Len(a) /\ j > Len(b)
  <2>1. i \in 1..Len(a) /\ a[i] \in S
    BY <1>0, <1>2
  <2>2. out[<<i + 1, j>>] \in Seq(DiffLines(S))
    BY <2>1, Rests
  <2>3. DiffStep(a, b, dp, out, i, j) = <<Review!Line("-", a[i])>> \o out[<<i + 1, j>>]
    BY <1>0, <1>2 DEF DiffStep
  <2> QED
    BY <2>1, <2>2, <2>3, LineMade
<1>3. CASE i > Len(a) /\ j <= Len(b)
  <2>1. j \in 1..Len(b) /\ b[j] \in S
    BY <1>0, <1>3
  <2>2. out[<<i, j + 1>>] \in Seq(DiffLines(S))
    BY <2>1, Rests
  <2>3. DiffStep(a, b, dp, out, i, j) = <<Review!Line("+", b[j])>> \o out[<<i, j + 1>>]
    BY <1>0, <1>3 DEF DiffStep
  <2> QED
    BY <2>1, <2>2, <2>3, LineMade
<1>4. CASE i <= Len(a) /\ j <= Len(b)
  <2>1. i \in 1..Len(a) /\ a[i] \in S /\ j \in 1..Len(b) /\ b[j] \in S
    BY <1>0, <1>4
  <2>2. out[<<i + 1, j>>] \in Seq(DiffLines(S))
    BY <2>1, Rests
  <2>3. out[<<i, j + 1>>] \in Seq(DiffLines(S))
    BY <2>1, Rests
  <2>4. out[<<i + 1, j + 1>>] \in Seq(DiffLines(S))
    BY <2>1, Rests
  <2>5. \/ DiffStep(a, b, dp, out, i, j) = <<Review!Line("-", a[i])>> \o out[<<i + 1, j>>]
        \/ DiffStep(a, b, dp, out, i, j) = <<Review!Line("+", b[j])>> \o out[<<i, j + 1>>]
        \/ DiffStep(a, b, dp, out, i, j) = <<Review!Line(" ", a[i])>> \o out[<<i + 1, j + 1>>]
    <3>1. ~(i > Len(a)) /\ ~(j > Len(b))
      BY <1>0, <1>4
    <3> QED
      BY <3>1, Zenon DEF DiffStep
  <2> QED
    BY <2>1, <2>2, <2>3, <2>4, <2>5, LineMade
<1> QED
  BY <1>0, <1>1, <1>2, <1>3, <1>4

\* The table of differences exists, and the difference is its first cell.
LEMMA DiffTable ==
    ASSUME NEW S, NEW a \in Seq(S), NEW b \in Seq(S)
    PROVE  \E out \in [Cells(a, b) -> Seq(DiffLines(S))] :
             /\ Review!LineDiff(a, b) = out[<<1, 1>>]
             /\ \A i \in 1..Len(a) + 1, j \in 1..Len(b) + 1 :
                  out[<<i, j>>] = DiffStep(a, b, Review!CommonLines(a, b), out, i, j)
<1> DEFINE D == Cells(a, b)
           V == Seq(DiffLines(S))
           dp == Review!CommonLines(a, b)
           F == [g \in [D -> V] |-> [p \in D |-> DiffStep(a, b, dp, g, p[1], p[2])]]
           t == CHOOSE out : out = [p \in D |-> DiffStep(a, b, dp, out, p[1], p[2])]
<1>0. Len(a) \in Nat /\ Len(b) \in Nat
  OBVIOUS
<1>p. ASSUME NEW p \in D PROVE p[1] \in 1..Len(a) + 1 /\ p[2] \in 1..Len(b) + 1 /\ p = <<p[1], p[2]>>
  BY DEF Cells
<1>1. ASSUME NEW g, NEW p \in D, \A q \in D : Rest(a, b)[q] < Rest(a, b)[p] => g[q] \in V
      PROVE  DiffStep(a, b, dp, g, p[1], p[2]) \in V
  <2> DEFINE i == p[1]
             j == p[2]
  <2>1. i \in 1..Len(a) + 1 /\ j \in 1..Len(b) + 1 /\ p = <<i, j>>
    BY <1>p
  <2> HIDE DEF i, j, dp
  <2>2. DiffStep(a, b, dp, g, i, j) \in V
    BY <1>1, <2>1, DiffCell
  <2> QED
    BY <2>2 DEF i, j
<1>2. F \in [[D -> V] -> [D -> V]]
  <2>1. \A g \in [D -> V] : \A p \in D : DiffStep(a, b, dp, g, p[1], p[2]) \in V
    BY <1>1
  <2> HIDE DEF D, V
  <2> QED
    BY <2>1
<1>3. ASSUME NEW g \in [D -> V], NEW h \in [D -> V], NEW p \in D,
             \A q \in D : Rest(a, b)[q] < Rest(a, b)[p] => g[q] = h[q]
      PROVE  F[g][p] = F[h][p]
  <2> DEFINE i == p[1]
             j == p[2]
  <2>1. i \in 1..Len(a) + 1 /\ j \in 1..Len(b) + 1 /\ p = <<i, j>>
    BY <1>p
  <2>2. DiffStep(a, b, dp, g, i, j) = DiffStep(a, b, dp, h, i, j)
    <3> HIDE DEF i, j, dp
    <3>1. i <= Len(a) => g[<<i + 1, j>>] = h[<<i + 1, j>>]
      BY <1>0, <1>3, <2>1, Rests
    <3>2. j <= Len(b) => g[<<i, j + 1>>] = h[<<i, j + 1>>]
      BY <1>0, <1>3, <2>1, Rests
    <3>3. i <= Len(a) /\ j <= Len(b) => g[<<i + 1, j + 1>>] = h[<<i + 1, j + 1>>]
      BY <1>0, <1>3, <2>1, Rests
    <3>4. (i > Len(a)) \in BOOLEAN /\ (i > Len(a) <=> ~(i <= Len(a))) /\ (j > Len(b) <=> ~(j <= Len(b)))
      BY <1>0, <2>1
    <3>5. CASE i > Len(a) /\ j > Len(b)
      BY <3>5, Zenon DEF DiffStep
    <3>6. CASE i > Len(a) /\ j <= Len(b)
      BY <3>2, <3>4, <3>6, Zenon DEF DiffStep
    <3>7. CASE i <= Len(a) /\ j > Len(b)
      BY <3>1, <3>4, <3>7, Zenon DEF DiffStep
    <3>8. CASE i <= Len(a) /\ j <= Len(b)
      BY <3>1, <3>2, <3>3, <3>4, <3>8, Zenon DEF DiffStep
    <3> QED
      BY <3>4, <3>5, <3>6, <3>7, <3>8
  <2>3. F[g][p] = DiffStep(a, b, dp, g, i, j) /\ F[h][p] = DiffStep(a, b, dp, h, i, j)
    OBVIOUS
  <2> QED
    BY <2>2, <2>3, Zenon
<1>4. \E g \in [D -> V] : F[g] = g
  <2>1. [p \in D |-> <<>>] \in [D -> V]
    OBVIOUS
  <2>2. Len(a) + Len(b) \in Nat
    BY <1>0
  <2> DEFINE w == Rest(a, b)
             N == Len(a) + Len(b)
  <2>3. Rest(a, b) \in [D -> Nat] /\ \A x \in D : Rest(a, b)[x] <= Len(a) + Len(b)
    BY Rests
  <2>4. \A g, h \in [D -> V] : \A x \in D :
           (\A y \in D : Rest(a, b)[y] < Rest(a, b)[x] => g[y] = h[y]) => F[g][x] = F[h][x]
    BY <1>3
  <2>5. w \in [D -> Nat] /\ N \in Nat /\ F \in [[D -> V] -> [D -> V]] /\ [D -> V] # {}
    BY <1>2, <2>1, <2>2, <2>3, Zenon
  <2>6. LooksDown(D, V, F, w, N)
    BY <2>3, <2>4, <2>5, Zenon DEF LooksDown
  <2>7. Settles(D, V, F)
    <3> HIDE DEF D, F, w, N, V
    <3> QED
      BY <2>6, Tables
  <2> HIDE DEF D, F
  <2> QED
    BY <2>7 DEF Settles
<1>5. PICK g \in [D -> V] : g = [p \in D |-> DiffStep(a, b, dp, g, p[1], p[2])]
  BY <1>4
<1>6. t = [p \in D |-> DiffStep(a, b, dp, t, p[1], p[2])]
  BY <1>5, Zenon
<1>7. Review!LineDiff(a, b) = t[<<1, 1>>]
  BY DEF DiffStep, Review!LineDiff, Cells
<1>8. t \in [D -> V]
  <2> DEFINE Good == {p \in D : t[p] \in V}
  <2>1. ASSUME NEW p \in D, \A q \in D : Rest(a, b)[q] < Rest(a, b)[p] => q \in Good PROVE p \in Good
    <3>1. t[p] = DiffStep(a, b, dp, t, p[1], p[2])
      BY <1>6, Zenon
    <3> HIDE DEF t, dp
    <3> QED
      BY <1>1, <2>1, <3>1
  <2> DEFINE w == Rest(a, b)
  <2>2. w \in [D -> Nat] /\ GoesUp(D, w, Good)
    BY <2>1, Rests, Zenon DEF GoesUp
  <2>3. Good = D
    <3>1. Good \in SUBSET D
      OBVIOUS
    <3> HIDE DEF Good, D, w
    <3> QED
      BY <2>2, <3>1, Cellwise
  <2>4. t = [p \in D |-> t[p]]
    BY <1>6, Zenon
  <2> HIDE DEF t, D, V
  <2> QED
    BY <2>3, <2>4
<1>9. ASSUME NEW i \in 1..Len(a) + 1, NEW j \in 1..Len(b) + 1
      PROVE  t[<<i, j>>] = DiffStep(a, b, dp, t, i, j)
  <2>1. <<i, j>> \in D /\ <<i, j>>[1] = i /\ <<i, j>>[2] = j
    BY DEF Cells
  <2> HIDE DEF t, D, dp
  <2> QED
    BY <1>6, <2>1
<1> QED
  <2> HIDE DEF t, D, V
  <2> QED
    BY <1>7, <1>8, <1>9 DEF D, V

-----------------------------------------------------------------------------
(* Marked, one line at a time from the front.                              *)
LEMMA ConsFacts ==
    ASSUME NEW L, NEW x \in L, NEW s \in Seq(L)
    PROVE  /\ Len(<<x>> \o s) = Len(s) + 1 /\ (<<x>> \o s)[1] = x
           /\ \A k \in 1..Len(s) : (<<x>> \o s)[k + 1] = s[k]
  OBVIOUS

\* What the empty sequence has, and a line in front keeps, every sequence has.
LEMMA SeqUp ==
    ASSUME NEW L, NEW Good \in SUBSET Seq(L), <<>> \in Good,
           \A x \in L : \A s \in Good : <<x>> \o s \in Good
    PROVE  Good = Seq(L)
<1> DEFINE D == Seq(L)
           w == [s \in D |-> Len(s)]
<1>1. ASSUME NEW s \in D, \A r \in D : w[r] < w[s] => r \in Good PROVE s \in Good
  <2>1. CASE s = <<>>
    BY <2>1
  <2>2. CASE s # <<>>
    <3>1. Head(s) \in L /\ Tail(s) \in D /\ s = <<Head(s)>> \o Tail(s) /\ Len(Tail(s)) < Len(s)
      BY <2>2
    <3>2. Tail(s) \in Good
      BY <1>1, <3>1
    <3> QED
      BY <3>1, <3>2
  <2> QED
    BY <2>1, <2>2
<1>2. w \in [D -> Nat]
  OBVIOUS
<1>3. GoesUp(D, w, Good)
  BY <1>1, Zenon DEF GoesUp
<1> HIDE DEF D, w
<1>4. Good \in SUBSET D
  BY DEF D
<1> QED
  BY <1>2, <1>3, <1>4, Cellwise DEF D

\* Up to its k-th line, what is kept of some lines.
KeptStep(lines, marks, kept, k) ==
    IF k = 0 THEN <<>>
    ELSE IF lines[k].mark \in marks THEN Append(kept[k - 1], lines[k])
    ELSE kept[k - 1]

KeptIn(L, lines, marks, kept) ==
    /\ kept \in [0..Len(lines) -> Seq(L)]
    /\ Review!Marked(lines, marks) = kept[Len(lines)]
    /\ kept[0] = <<>>
    /\ \A k \in 1..Len(lines) :
         kept[k] = IF lines[k].mark \in marks THEN Append(kept[k - 1], lines[k]) ELSE kept[k - 1]

\* The table of kept lines exists, and its last entry is what is kept.
LEMMA MarkedTable ==
    ASSUME NEW L, NEW lines \in Seq(L), NEW marks
    PROVE  \E kept : KeptIn(L, lines, marks, kept)
<1> DEFINE n == Len(lines)
           D == 0..n
           V == Seq(L)
           F == [g \in [D -> V] |-> [k \in D |-> KeptStep(lines, marks, g, k)]]
           w == [k \in D |-> k]
           t == CHOOSE kept : kept = [k \in D |-> KeptStep(lines, marks, kept, k)]
<1>0. n \in Nat /\ w \in [D -> Nat]
  OBVIOUS
<1>1. ASSUME NEW g, NEW k \in D, \A l \in D : w[l] < w[k] => g[l] \in V
      PROVE  KeptStep(lines, marks, g, k) \in V
  <2>1. CASE k = 0
    BY <2>1 DEF KeptStep
  <2>2. CASE k # 0
    <3>1. k - 1 \in D /\ lines[k] \in L /\ w[k - 1] < w[k]
      BY <1>0, <2>2
    <3>2. g[k - 1] \in V
      BY <1>1, <3>1
    <3> QED
      BY <2>2, <3>1, <3>2 DEF KeptStep
  <2> QED
    BY <2>1, <2>2
<1>2. F \in [[D -> V] -> [D -> V]]
  <2>1. \A g \in [D -> V] : \A k \in D : KeptStep(lines, marks, g, k) \in V
    BY <1>1
  <2> HIDE DEF D, V
  <2> QED
    BY <2>1
<1>3. ASSUME NEW g \in [D -> V], NEW h \in [D -> V], NEW k \in D, \A l \in D : w[l] < w[k] => g[l] = h[l]
      PROVE  F[g][k] = F[h][k]
  <2>1. KeptStep(lines, marks, g, k) = KeptStep(lines, marks, h, k)
    <3>1. CASE k = 0
      BY <3>1 DEF KeptStep
    <3>2. CASE k # 0
      <4>1. k - 1 \in D /\ w[k - 1] < w[k]
        BY <1>0, <3>2
      <4>2. g[k - 1] = h[k - 1]
        BY <1>3, <4>1
      <4> QED
        BY <4>2, Zenon DEF KeptStep
    <3> QED
      BY <3>1, <3>2
  <2> QED
    BY <2>1
<1>4. Settles(D, V, F)
  <2>1. [k \in D |-> <<>>] \in [D -> V]
    OBVIOUS
  <2>2. \A k \in D : w[k] <= n
    BY <1>0
  <2>3. LooksDown(D, V, F, w, n)
    BY <1>0, <1>2, <1>3, <2>1, <2>2, Zenon DEF LooksDown
  <2> HIDE DEF D, F, w, n, V
  <2> QED
    BY <2>3, Tables
<1>5. PICK g \in [D -> V] : g = [k \in D |-> KeptStep(lines, marks, g, k)]
  BY <1>4 DEF Settles
<1>6. t = [k \in D |-> KeptStep(lines, marks, t, k)]
  BY <1>5, Zenon
<1>7. Review!Marked(lines, marks) = t[n]
  BY DEF KeptStep, Review!Marked
<1>8. t \in [D -> V]
  <2> DEFINE Good == {k \in D : t[k] \in V}
  <2>1. ASSUME NEW k \in D, \A l \in D : w[l] < w[k] => l \in Good PROVE k \in Good
    <3>1. t[k] = KeptStep(lines, marks, t, k)
      BY <1>6, Zenon
    <3> HIDE DEF t, w, D
    <3> QED
      BY <1>1, <2>1, <3>1
  <2>2. GoesUp(D, w, Good)
    BY <2>1, Zenon DEF GoesUp
  <2>3. Good = D
    <3>1. Good \in SUBSET D
      OBVIOUS
    <3> HIDE DEF Good, D, w
    <3> QED
      BY <1>0, <2>2, <3>1, Cellwise
  <2>4. t = [k \in D |-> t[k]]
    BY <1>6, Zenon
  <2> HIDE DEF t, D, V
  <2> QED
    BY <2>3, <2>4
<1>9. \A k \in D : t[k] = KeptStep(lines, marks, t, k)
  BY <1>6, Zenon
<1> HIDE DEF t
<1>10. t[0] = <<>>
  BY <1>0, <1>9 DEF KeptStep
<1>11. \A k \in 1..n : t[k] = IF lines[k].mark \in marks THEN Append(t[k - 1], lines[k]) ELSE t[k - 1]
  <2> TAKE k \in 1..n
  <2>1. k \in D /\ k # 0
    BY <1>0
  <2> QED
    BY <1>9, <2>1, Zenon DEF KeptStep
<1> QED
  BY <1>7, <1>8, <1>10, <1>11, Zenon DEF KeptIn

\* Nothing is kept of nothing.
LEMMA MarkedEmpty == ASSUME NEW marks PROVE Review!Marked(<<>>, marks) = <<>>
<1>1. <<>> \in Seq({}) /\ Len(<<>>) = 0
  OBVIOUS
<1>2. PICK kept : KeptIn({}, <<>>, marks, kept)
  BY <1>1, MarkedTable
<1> QED
  BY <1>1, <1>2, Zenon DEF KeptIn

\* What is kept of some lines are lines.
LEMMA MarkedSeq ==
    ASSUME NEW L, NEW lines \in Seq(L), NEW marks
    PROVE  Review!Marked(lines, marks) \in Seq(L)
<1>1. Len(lines) \in 0..Len(lines)
  OBVIOUS
<1>2. PICK kept : KeptIn(L, lines, marks, kept)
  BY MarkedTable
<1> QED
  BY <1>1, <1>2 DEF KeptIn

\* The first line is kept by itself.
Peels(x, s, marks) ==
    /\ x.mark \in marks => Review!Marked(<<x>> \o s, marks) = <<x>> \o Review!Marked(s, marks)
    /\ x.mark \notin marks => Review!Marked(<<x>> \o s, marks) = Review!Marked(s, marks)

LEMMA MarkedCons ==
    ASSUME NEW L, NEW x \in L, NEW s \in Seq(L), NEW marks
    PROVE  Peels(x, s, marks)
<1> DEFINE n == Len(s)
           r == <<x>> \o s
           D == 0..n
           w == [k \in D |-> k]
           front == IF x.mark \in marks THEN <<x>> ELSE <<>>
<1>0. n \in Nat /\ r \in Seq(L) /\ Len(r) = n + 1 /\ r[1] = x /\ (\A k \in 1..n : r[k + 1] = s[k]) /\ front \in Seq(L)
  OBVIOUS
<1>1. PICK K : KeptIn(L, r, marks, K)
  <2> HIDE DEF r
  <2> QED
    BY <1>0, MarkedTable
<1>2. PICK t : KeptIn(L, s, marks, t)
  BY MarkedTable
<1> DEFINE Good == {k \in D : K[k + 1] = front \o t[k]}
<1> HIDE DEF r
<1>3. K[1] = front
  <2>1. 1 \in 1..Len(r) /\ 1 - 1 = 0
    BY <1>0
  <2>2. K[1] = IF x.mark \in marks THEN Append(<<>>, x) ELSE <<>>
    BY <1>0, <1>1, <2>1 DEF KeptIn
  <2> QED
    BY <2>2
<1>4. ASSUME NEW k \in D, \A l \in D : w[l] < w[k] => l \in Good PROVE k \in Good
  <2> HIDE DEF front
  <2>1. CASE k = 0
    BY <1>0, <1>2, <1>3, <2>1 DEF KeptIn
  <2>2. CASE k # 0
    <3>1. /\ k \in 1..n /\ k - 1 \in D /\ w[k - 1] < w[k] /\ k + 1 \in 1..Len(r) /\ (k + 1) - 1 = k
          /\ (k - 1) + 1 = k
      BY <1>0, <2>2
    <3>2. K[k] = front \o t[k - 1]
      BY <1>4, <3>1
    <3>3. K[k + 1] = IF s[k].mark \in marks THEN Append(K[k], s[k]) ELSE K[k]
      BY <1>0, <1>1, <3>1 DEF KeptIn
    <3>4. t[k] = IF s[k].mark \in marks THEN Append(t[k - 1], s[k]) ELSE t[k - 1]
      BY <1>2, <3>1 DEF KeptIn
    <3>5. t[k - 1] \in Seq(L) /\ s[k] \in L
      BY <1>2, <3>1 DEF KeptIn
    <3>6. Append(front \o t[k - 1], s[k]) = front \o Append(t[k - 1], s[k])
      <4>1. front \in Seq(L)
        BY <1>0
      <4> DEFINE u == t[k - 1]
                 y == s[k]
      <4>2. u \in Seq(L) /\ y \in L
        BY <3>5
      <4> HIDE DEF u, y
      <4>3. Append(front \o u, y) = front \o Append(u, y)
        BY <4>1, <4>2
      <4> QED
        BY <4>3 DEF u, y
    <3>7. K[k + 1] = front \o t[k]
      BY <3>2, <3>3, <3>4, <3>6, Zenon
    <3> QED
      BY <3>7
  <2> QED
    BY <2>1, <2>2
<1>5. w \in [D -> Nat]
  BY <1>0
<1>d. Good \in SUBSET D
  OBVIOUS
<1>6. GoesUp(D, w, Good)
  BY <1>4, Zenon DEF GoesUp
<1>7. Good = D
  <2> HIDE DEF Good, D, w
  <2> QED
    BY <1>5, <1>d, <1>6, Cellwise
<1>8. K[n + 1] = front \o t[n]
  <2>1. n \in D
    BY <1>0
  <2> HIDE DEF D, front, n
  <2> QED
    BY <1>7, <2>1
<1>9. Review!Marked(r, marks) = front \o Review!Marked(s, marks)
  BY <1>0, <1>1, <1>2, <1>8, Zenon DEF KeptIn
<1>10. Review!Marked(s, marks) \in Seq(L)
  BY MarkedSeq
<1> QED
  <2> DEFINE m == Review!Marked(s, marks)
  <2>1. CASE x.mark \in marks
    BY <1>9, <2>1, Zenon DEF r, Peels
  <2>2. CASE x.mark \notin marks
    <3>1. m \in Seq(L)
      BY <1>10
    <3>2. <<>> \o m = m
      <4> HIDE DEF m
      <4> QED
        BY <3>1
    <3>3. Review!Marked(r, marks) = <<>> \o m
      BY <1>9, <2>2, Zenon
    <3> QED
      BY <2>2, <3>2, <3>3, Zenon DEF r, Peels
  <2> QED
    BY <2>1, <2>2

(* Keeping every line changes nothing.                                     *)
LEMMA MarkedAll ==
    ASSUME NEW L, NEW lines \in Seq(L), NEW marks, \A x \in L : x.mark \in marks
    PROVE  Review!Marked(lines, marks) = lines
<1> DEFINE Good == {s \in Seq(L) : Review!Marked(s, marks) = s}
<1>1. <<>> \in Good
  BY MarkedEmpty
<1>2. ASSUME NEW x \in L, NEW s \in Good PROVE <<x>> \o s \in Good
  <2>0. Peels(x, s, marks)
    BY MarkedCons
  <2>1. Review!Marked(<<x>> \o s, marks) = <<x>> \o Review!Marked(s, marks)
    BY <2>0, Zenon DEF Peels
  <2>2. <<x>> \o s \in Seq(L)
    BY ConsSeq
  <2> QED
    BY <2>1, <2>2, Zenon
<1>3. Good = Seq(L)
  <2>1. Good \in SUBSET Seq(L)
    OBVIOUS
  <2> HIDE DEF Good
  <2> QED
    BY <1>1, <1>2, <2>1, SeqUp
<1> QED
  BY <1>3

(* What is kept twice is what the narrower choice keeps at once.           *)
LEMMA MarkedTwice ==
    ASSUME NEW L, NEW lines \in Seq(L), NEW more, NEW marks \in SUBSET more
    PROVE  Review!Marked(Review!Marked(lines, more), marks) = Review!Marked(lines, marks)
<1> DEFINE Good == {s \in Seq(L) : Review!Marked(Review!Marked(s, more), marks) = Review!Marked(s, marks)}
<1>1. <<>> \in Good
  BY MarkedEmpty
<1>2. ASSUME NEW x \in L, NEW s \in Good PROVE <<x>> \o s \in Good
  <2> DEFINE m == Review!Marked(s, more)
  <2>1. m \in Seq(L)
    BY MarkedSeq
  <2>2. Review!Marked(m, marks) = Review!Marked(s, marks)
    OBVIOUS
  <2>0. s \in Seq(L)
    OBVIOUS
  <2>3. Peels(x, s, marks)
    BY <2>0, MarkedCons
  <2>4. Peels(x, s, more)
    BY <2>0, MarkedCons
  <2>5. <<x>> \o s \in Seq(L)
    BY ConsSeq
  <2>9. /\ x.mark \in more => Review!Marked(<<x>> \o s, more) = <<x>> \o m
        /\ x.mark \notin more => Review!Marked(<<x>> \o s, more) = m
    BY <2>4, Zenon DEF Peels
  <2> HIDE DEF m
  <2>6. Peels(x, m, marks)
    BY <2>1, MarkedCons
  <2>7. x.mark \in marks => x.mark \in more
    OBVIOUS
  <2>8. Review!Marked(Review!Marked(<<x>> \o s, more), marks) = Review!Marked(<<x>> \o s, marks)
    BY <2>2, <2>3, <2>9, <2>6, <2>7, Zenon DEF Peels
  <2> QED
    BY <2>5, <2>8, Zenon
<1>3. Good = Seq(L)
  <2>1. Good \in SUBSET Seq(L)
    OBVIOUS
  <2> HIDE DEF Good
  <2> QED
    BY <1>1, <1>2, <2>1, SeqUp
<1> QED
  BY <1>3

\* The texts of a line and of those behind it.
LEMMA TextsCons ==
    ASSUME NEW L, NEW x \in L, NEW s \in Seq(L)
    PROVE  Review!Texts(<<x>> \o s) = <<x.text>> \o Review!Texts(s)
<1>1. Len(<<x>> \o s) = Len(s) + 1 /\ (<<x>> \o s)[1] = x /\ \A k \in 1..Len(s) : (<<x>> \o s)[k + 1] = s[k]
  BY ConsFacts
<1> DEFINE n == Len(s)
           T == {x.text} \cup {s[k].text : k \in 1..n}
           l == Review!Texts(<<x>> \o s)
           r == <<x.text>> \o Review!Texts(s)
<1>2. n \in Nat
  OBVIOUS
<1>3. Review!Texts(s) \in Seq(T) /\ Len(Review!Texts(s)) = n
  <2>1. Review!Texts(s) \in [1..n -> T]
    BY DEF Review!Texts
  <2> HIDE DEF T
  <2> QED
    BY <1>2, <2>1
<1>4. r \in Seq(T) /\ Len(r) = n + 1 /\ r[1] = x.text /\ \A k \in 1..n : r[k + 1] = Review!Texts(s)[k]
  <2>1. x.text \in T
    OBVIOUS
  <2> HIDE DEF T
  <2> QED
    BY <1>3, <2>1
<1>5. r = [k \in 1..n + 1 |-> r[k]]
  <2> HIDE DEF T, r
  <2> QED
    BY <1>2, <1>4
<1>6. l = [k \in 1..n + 1 |-> (<<x>> \o s)[k].text]
  BY <1>1, Zenon DEF Review!Texts
<1>7. ASSUME NEW k \in 1..n + 1 PROVE r[k] = (<<x>> \o s)[k].text
  <2> HIDE DEF r
  <2>1. CASE k = 1
    BY <1>1, <1>4, <2>1
  <2>2. CASE k # 1
    <3>1. k - 1 \in 1..n /\ (k - 1) + 1 = k
      BY <1>2, <2>2
    <3>2. r[k] = Review!Texts(s)[k - 1] /\ (<<x>> \o s)[k] = s[k - 1]
      BY <1>1, <1>4, <3>1
    <3> QED
      BY <3>1, <3>2 DEF Review!Texts
  <2> QED
    BY <2>1, <2>2
<1> QED
  <2> HIDE DEF r, l
  <2>1. l = r
    BY <1>5, <1>6, <1>7
  <2> QED
    BY <2>1 DEF l, r

(* The end of a sequence from a place on.                                  *)
LEMMA Ends ==
    ASSUME NEW S, NEW a \in Seq(S)
    PROVE  /\ SubSeq(a, 1, Len(a)) = a /\ SubSeq(a, Len(a) + 1, Len(a)) = <<>>
           /\ \A i \in 1..Len(a) : SubSeq(a, i, Len(a)) = <<a[i]>> \o SubSeq(a, i + 1, Len(a))
<1>1. SubSeq(a, 1, Len(a)) = a
  OBVIOUS
<1>2. SubSeq(a, Len(a) + 1, Len(a)) = <<>>
  OBVIOUS
<1>3. ASSUME NEW i \in 1..Len(a) PROVE SubSeq(a, i, Len(a)) = <<a[i]>> \o SubSeq(a, i + 1, Len(a))
  OBVIOUS
<1> QED
  BY <1>1, <1>2, <1>3

\* A line in front is told before the others, if it is one of those asked for.
Shows(m, t, d, marks) ==
    LET l == <<Review!Line(m, t)>> \o d
        k == Review!Marked(d, marks)
    IN  /\ m \in marks => /\ Review!Texts(Review!Marked(l, marks)) = <<t>> \o Review!Texts(k)
                          /\ Len(Review!Marked(l, marks)) = Len(k) + 1
        /\ m \notin marks => /\ Review!Texts(Review!Marked(l, marks)) = Review!Texts(k)
                             /\ Len(Review!Marked(l, marks)) = Len(k)

LEMMA LineTold ==
    ASSUME NEW S, NEW m \in {"-", "+", " "}, NEW t \in S, NEW d \in Seq(DiffLines(S)), NEW marks
    PROVE  Shows(m, t, d, marks)
<1> DEFINE x == Review!Line(m, t)
           k == Review!Marked(d, marks)
<1>1. x \in DiffLines(S) /\ x.mark = m /\ x.text = t
  BY DEF Review!Line, DiffLines
<1>2. k \in Seq(DiffLines(S))
  BY MarkedSeq
<1> HIDE DEF x
<1>3. /\ m \in marks => Review!Marked(<<x>> \o d, marks) = <<x>> \o k
      /\ m \notin marks => Review!Marked(<<x>> \o d, marks) = k
  <2>1. Peels(x, d, marks)
    BY <1>1, MarkedCons
  <2> QED
    BY <1>1, <2>1, Zenon DEF Peels, k
<1> HIDE DEF k
<1>4. Review!Texts(<<x>> \o k) = <<t>> \o Review!Texts(k) /\ Len(<<x>> \o k) = Len(k) + 1
  <2>1. Review!Texts(<<x>> \o k) = <<x.text>> \o Review!Texts(k)
    BY <1>1, <1>2, TextsCons, Zenon
  <2>2. Len(<<x>> \o k) = Len(k) + 1
    BY <1>1, <1>2, ConsFacts, Zenon
  <2> QED
    BY <1>1, <2>1, <2>2, Zenon
<1>5. /\ m \in marks => /\ Review!Texts(Review!Marked(<<x>> \o d, marks)) = <<t>> \o Review!Texts(k)
                      /\ Len(Review!Marked(<<x>> \o d, marks)) = Len(k) + 1
      /\ m \notin marks => /\ Review!Texts(Review!Marked(<<x>> \o d, marks)) = Review!Texts(k)
                         /\ Len(Review!Marked(<<x>> \o d, marks)) = Len(k)
  BY <1>3, <1>4, Zenon
<1> QED
  BY <1>5, Zenon DEF x, k, Shows

-----------------------------------------------------------------------------
\* Some lines tell the rests of both texts, and keep as many lines as these have in common.
Tells(a, b, i, j, d, c) ==
    /\ Review!Texts(Review!Marked(d, {"-", " "})) = SubSeq(a, i, Len(a))
    /\ Review!Texts(Review!Marked(d, {"+", " "})) = SubSeq(b, j, Len(b))
    /\ Len(Review!Marked(d, {" "})) = c

\* A removed line in front tells one line more of the first text.
LEMMA TellsRemoved ==
    ASSUME NEW S, NEW a \in Seq(S), NEW b \in Seq(S), NEW i \in 1..Len(a), NEW j \in 1..Len(b) + 1,
           NEW d \in Seq(DiffLines(S)), NEW c, Tells(a, b, i + 1, j, d, c)
    PROVE  Tells(a, b, i, j, <<Review!Line("-", a[i])>> \o d, c)
<1>1. a[i] \in S
  OBVIOUS
<1> DEFINE l == <<Review!Line("-", a[i])>> \o d
<1>s. \A marks : Shows("-", a[i], d, marks)
  BY <1>1, LineTold
<1>m. /\ "-" \in {"-", " "} /\ "-" \notin {"+", " "} /\ "-" \notin {" "} /\ " " \in {"-", " "} /\ " " \in {"+", " "}
      /\ "+" \notin {"-", " "} /\ "+" \in {"+", " "} /\ "+" \notin {" "} /\ " " \in {" "}
  OBVIOUS
<1>2. Review!Texts(Review!Marked(l, {"-", " "})) = <<a[i]>> \o Review!Texts(Review!Marked(d, {"-", " "}))
  BY <1>s, <1>m, Zenon DEF Shows
<1>3. Review!Texts(Review!Marked(l, {"+", " "})) = Review!Texts(Review!Marked(d, {"+", " "}))
  BY <1>s, <1>m, Zenon DEF Shows
<1>4. Len(Review!Marked(l, {" "})) = Len(Review!Marked(d, {" "}))
  BY <1>s, <1>m, Zenon DEF Shows
<1>5. SubSeq(a, i, Len(a)) = <<a[i]>> \o SubSeq(a, i + 1, Len(a))
  BY Ends
<1> QED
  BY <1>2, <1>3, <1>4, <1>5, Zenon DEF Tells

\* An added one tells one more of the second.
LEMMA TellsAdded ==
    ASSUME NEW S, NEW a \in Seq(S), NEW b \in Seq(S), NEW i \in 1..Len(a) + 1, NEW j \in 1..Len(b),
           NEW d \in Seq(DiffLines(S)), NEW c, Tells(a, b, i, j + 1, d, c)
    PROVE  Tells(a, b, i, j, <<Review!Line("+", b[j])>> \o d, c)
<1>1. b[j] \in S
  OBVIOUS
<1> DEFINE l == <<Review!Line("+", b[j])>> \o d
<1>s. \A marks : Shows("+", b[j], d, marks)
  BY <1>1, LineTold
<1>m. /\ "-" \in {"-", " "} /\ "-" \notin {"+", " "} /\ "-" \notin {" "} /\ " " \in {"-", " "} /\ " " \in {"+", " "}
      /\ "+" \notin {"-", " "} /\ "+" \in {"+", " "} /\ "+" \notin {" "} /\ " " \in {" "}
  OBVIOUS
<1>2. Review!Texts(Review!Marked(l, {"+", " "})) = <<b[j]>> \o Review!Texts(Review!Marked(d, {"+", " "}))
  BY <1>s, <1>m, Zenon DEF Shows
<1>3. Review!Texts(Review!Marked(l, {"-", " "})) = Review!Texts(Review!Marked(d, {"-", " "}))
  BY <1>s, <1>m, Zenon DEF Shows
<1>4. Len(Review!Marked(l, {" "})) = Len(Review!Marked(d, {" "}))
  BY <1>s, <1>m, Zenon DEF Shows
<1>5. SubSeq(b, j, Len(b)) = <<b[j]>> \o SubSeq(b, j + 1, Len(b))
  BY Ends
<1> QED
  BY <1>2, <1>3, <1>4, <1>5, Zenon DEF Tells

\* A line of both tells one more of each.
LEMMA TellsSame ==
    ASSUME NEW S, NEW a \in Seq(S), NEW b \in Seq(S), NEW i \in 1..Len(a), NEW j \in 1..Len(b), a[i] = b[j],
           NEW d \in Seq(DiffLines(S)), NEW c \in Nat, Tells(a, b, i + 1, j + 1, d, c)
    PROVE  Tells(a, b, i, j, <<Review!Line(" ", a[i])>> \o d, 1 + c)
<1>1. a[i] \in S
  OBVIOUS
<1> DEFINE l == <<Review!Line(" ", a[i])>> \o d
<1>s. \A marks : Shows(" ", a[i], d, marks)
  BY <1>1, LineTold
<1>m. /\ "-" \in {"-", " "} /\ "-" \notin {"+", " "} /\ "-" \notin {" "} /\ " " \in {"-", " "} /\ " " \in {"+", " "}
      /\ "+" \notin {"-", " "} /\ "+" \in {"+", " "} /\ "+" \notin {" "} /\ " " \in {" "}
  OBVIOUS
<1>2. Review!Texts(Review!Marked(l, {"+", " "})) = <<b[j]>> \o Review!Texts(Review!Marked(d, {"+", " "}))
  BY <1>s, <1>m, Zenon DEF Shows
<1>3. Review!Texts(Review!Marked(l, {"-", " "})) = <<a[i]>> \o Review!Texts(Review!Marked(d, {"-", " "}))
  BY <1>s, <1>m, Zenon DEF Shows
<1>4. Len(Review!Marked(l, {" "})) = Len(Review!Marked(d, {" "})) + 1
  BY <1>s, <1>m, Zenon DEF Shows
<1>5. SubSeq(a, i, Len(a)) = <<a[i]>> \o SubSeq(a, i + 1, Len(a))
  BY Ends
<1>6. SubSeq(b, j, Len(b)) = <<b[j]>> \o SubSeq(b, j + 1, Len(b))
  BY Ends
<1>7. c + 1 = 1 + c
  OBVIOUS
<1> QED
  BY <1>2, <1>3, <1>4, <1>5, <1>6, <1>7, Zenon DEF Tells

\* Nothing tells two ends.
LEMMA TellsEnd ==
    ASSUME NEW S, NEW a \in Seq(S), NEW b \in Seq(S)
    PROVE  Tells(a, b, Len(a) + 1, Len(b) + 1, <<>>, 0)
<1>1. Review!Texts(<<>>) = <<>> /\ Len(<<>>) = 0
  BY DEF Review!Texts
<1>2. SubSeq(a, Len(a) + 1, Len(a)) = <<>> /\ SubSeq(b, Len(b) + 1, Len(b)) = <<>>
  BY Ends
<1> QED
  BY <1>1, <1>2, MarkedEmpty, Zenon DEF Tells

(* The difference tells both texts and keeps the common part it counted.   *)
LEMMA LineDiffTells ==
    ASSUME NEW S, NEW a \in Seq(S), NEW b \in Seq(S)
    PROVE  /\ Review!LineDiff(a, b) \in Seq(DiffLines(S))
           /\ Tells(a, b, 1, 1, Review!LineDiff(a, b), Review!CommonLines(a, b)[<<1, 1>>])
<1> DEFINE D == Cells(a, b)
           V == Seq(DiffLines(S))
           dp == Review!CommonLines(a, b)
           w == Rest(a, b)
<1>0. Len(a) \in Nat /\ Len(b) \in Nat
  OBVIOUS
<1>p. ASSUME NEW p \in D PROVE p[1] \in 1..Len(a) + 1 /\ p[2] \in 1..Len(b) + 1 /\ p = <<p[1], p[2]>>
  BY DEF Cells
<1>1. PICK out \in [D -> V] :
        /\ Review!LineDiff(a, b) = out[<<1, 1>>]
        /\ \A i \in 1..Len(a) + 1, j \in 1..Len(b) + 1 : out[<<i, j>>] = DiffStep(a, b, dp, out, i, j)
  BY DiffTable
<1>2. /\ dp \in [D -> Nat]
      /\ \A i \in 1..Len(a) + 1, j \in 1..Len(b) + 1 : dp[<<i, j>>] = CommonStep(a, b, dp, i, j)
  BY CommonTable
<1> DEFINE Good == {p \in D : Tells(a, b, p[1], p[2], out[p], dp[p])}
<1>3. ASSUME NEW p \in D, \A q \in D : w[q] < w[p] => q \in Good PROVE p \in Good
  <2> DEFINE i == p[1]
             j == p[2]
  <2>1. i \in 1..Len(a) + 1 /\ j \in 1..Len(b) + 1 /\ p = <<i, j>>
    BY <1>p
  <2>g. ASSUME NEW u \in 1..Len(a) + 1, NEW v \in 1..Len(b) + 1, <<u, v>> \in Good
        PROVE  Tells(a, b, u, v, out[<<u, v>>], dp[<<u, v>>])
    <3>1. <<u, v>>[1] = u /\ <<u, v>>[2] = v
      OBVIOUS
    <3> QED
      BY <2>g, <3>1, Zenon
  <2> HIDE DEF i, j, dp, Good, V
  <2> SUFFICES Tells(a, b, i, j, out[p], dp[p])
    BY Zenon DEF i, j, Good
  <2>2. out[p] = DiffStep(a, b, dp, out, i, j) /\ dp[p] = CommonStep(a, b, dp, i, j)
    BY <1>1, <1>2, <2>1
  <2>3. CASE i > Len(a) /\ j > Len(b)
    <3>1. i = Len(a) + 1 /\ j = Len(b) + 1
      BY <1>0, <2>1, <2>3
    <3>2. out[p] = <<>> /\ dp[p] = 0
      BY <2>2, <2>3, Zenon DEF DiffStep, CommonStep
    <3> QED
      BY <3>1, <3>2, TellsEnd, Zenon
  <2>4. CASE i <= Len(a) /\ j > Len(b)
    <3>1. /\ i \in 1..Len(a) /\ i + 1 \in 1..Len(a) + 1 /\ ~(i > Len(a))
          /\ <<i + 1, j>> \in D /\ w[<<i + 1, j>>] < w[p]
      BY <1>0, <2>1, <2>4, Rests
    <3>2. dp[p] = 0 /\ dp[<<i + 1, j>>] = 0
      BY <1>2, <2>1, <2>2, <2>4, <3>1, Zenon DEF CommonStep
    <3>3. out[p] = <<Review!Line("-", a[i])>> \o out[<<i + 1, j>>]
      BY <2>2, <2>4, <3>1, Zenon DEF DiffStep
    <3>4. Tells(a, b, i + 1, j, out[<<i + 1, j>>], 0)
      BY <1>3, <2>1, <2>g, <3>1, <3>2, Zenon
    <3>5. out[<<i + 1, j>>] \in V
      BY <3>1
    <3> QED
      BY <2>1, <3>1, <3>2, <3>3, <3>4, <3>5, TellsRemoved, Zenon DEF V
  <2>5. CASE i > Len(a) /\ j <= Len(b)
    <3>1. /\ j \in 1..Len(b) /\ j + 1 \in 1..Len(b) + 1 /\ ~(j > Len(b))
          /\ <<i, j + 1>> \in D /\ w[<<i, j + 1>>] < w[p]
      BY <1>0, <2>1, <2>5, Rests
    <3>2. dp[p] = 0 /\ dp[<<i, j + 1>>] = 0
      BY <1>2, <2>1, <2>2, <2>5, <3>1, Zenon DEF CommonStep
    <3>3. out[p] = <<Review!Line("+", b[j])>> \o out[<<i, j + 1>>]
      BY <2>2, <2>5, <3>1, Zenon DEF DiffStep
    <3>4. Tells(a, b, i, j + 1, out[<<i, j + 1>>], 0)
      BY <1>3, <2>1, <2>g, <3>1, <3>2, Zenon
    <3>5. out[<<i, j + 1>>] \in V
      BY <3>1
    <3> QED
      BY <2>1, <3>1, <3>2, <3>3, <3>4, <3>5, TellsAdded, Zenon DEF V
  <2>6. CASE i <= Len(a) /\ j <= Len(b)
    <3>1. /\ i \in 1..Len(a) /\ i + 1 \in 1..Len(a) + 1 /\ ~(i > Len(a))
          /\ j \in 1..Len(b) /\ j + 1 \in 1..Len(b) + 1 /\ ~(j > Len(b))
      BY <1>0, <2>1, <2>6
    <3>2. /\ <<i + 1, j>> \in D /\ w[<<i + 1, j>>] < w[p]
          /\ <<i, j + 1>> \in D /\ w[<<i, j + 1>>] < w[p]
          /\ <<i + 1, j + 1>> \in D /\ w[<<i + 1, j + 1>>] < w[p]
      BY <2>1, <3>1, Rests
    <3>3. /\ Tells(a, b, i + 1, j, out[<<i + 1, j>>], dp[<<i + 1, j>>])
          /\ Tells(a, b, i, j + 1, out[<<i, j + 1>>], dp[<<i, j + 1>>])
          /\ Tells(a, b, i + 1, j + 1, out[<<i + 1, j + 1>>], dp[<<i + 1, j + 1>>])
      BY <1>3, <2>1, <2>g, <3>1, <3>2, Zenon
    <3>4. /\ out[<<i + 1, j>>] \in V /\ out[<<i, j + 1>>] \in V /\ out[<<i + 1, j + 1>>] \in V
      BY <3>2
    <3>5. dp[<<i + 1, j>>] \in Nat /\ dp[<<i, j + 1>>] \in Nat /\ dp[<<i + 1, j + 1>>] \in Nat
      BY <1>2, <3>2
    <3>6. CASE a[i] = b[j]
      <4>1. /\ out[p] = <<Review!Line(" ", a[i])>> \o out[<<i + 1, j + 1>>]
            /\ dp[p] = 1 + dp[<<i + 1, j + 1>>]
        BY <2>2, <3>1, <3>6, Zenon DEF DiffStep, CommonStep
      <4> QED
        BY <2>1, <3>1, <3>3, <3>4, <3>5, <3>6, <4>1, TellsSame, Zenon DEF V
    <3>7. CASE a[i] # b[j] /\ dp[<<i + 1, j>>] >= dp[<<i, j + 1>>]
      <4>1. out[p] = <<Review!Line("-", a[i])>> \o out[<<i + 1, j>>]
        BY <2>2, <3>1, <3>7, Zenon DEF DiffStep
      <4>2. dp[p] = Review!Max(dp[<<i + 1, j>>], dp[<<i, j + 1>>])
        BY <2>2, <3>1, <3>7, Zenon DEF CommonStep
      <4>3. dp[p] = dp[<<i + 1, j>>]
        BY <3>5, <3>7, <4>2 DEF Review!Max
      <4> QED
        BY <2>1, <3>1, <3>3, <3>4, <4>1, <4>3, TellsRemoved, Zenon DEF V
    <3>8. CASE a[i] # b[j] /\ ~(dp[<<i + 1, j>>] >= dp[<<i, j + 1>>])
      <4>1. out[p] = <<Review!Line("+", b[j])>> \o out[<<i, j + 1>>]
        BY <2>2, <3>1, <3>8, Zenon DEF DiffStep
      <4>2. dp[p] = Review!Max(dp[<<i + 1, j>>], dp[<<i, j + 1>>])
        BY <2>2, <3>1, <3>8, Zenon DEF CommonStep
      <4>3. dp[p] = dp[<<i, j + 1>>]
        BY <3>5, <3>8, <4>2 DEF Review!Max
      <4> QED
        BY <2>1, <3>1, <3>3, <3>4, <4>1, <4>3, TellsAdded, Zenon DEF V
    <3> QED
      BY <3>6, <3>7, <3>8, Zenon
  <2>7. \/ i > Len(a) /\ j > Len(b)
        \/ i <= Len(a) /\ j > Len(b)
        \/ i > Len(a) /\ j <= Len(b)
        \/ i <= Len(a) /\ j <= Len(b)
    BY <1>0, <2>1
  <2> QED
    BY <2>3, <2>4, <2>5, <2>6, <2>7, Zenon
<1>4. w \in [D -> Nat] /\ GoesUp(D, w, Good)
  BY <1>3, Rests, Zenon DEF GoesUp
<1>5. Good = D
  <2>1. Good \in SUBSET D
    OBVIOUS
  <2> HIDE DEF Good, D, w
  <2> QED
    BY <1>4, <2>1, Cellwise
<1>6. <<1, 1>> \in D /\ <<1, 1>>[1] = 1 /\ <<1, 1>>[2] = 1
  BY <1>0 DEF Cells
<1>7. Tells(a, b, 1, 1, out[<<1, 1>>], dp[<<1, 1>>])
  BY <1>5, <1>6, Zenon
<1>8. out[<<1, 1>>] \in V
  BY <1>6
<1> QED
  BY <1>1, <1>7, <1>8, Zenon

-----------------------------------------------------------------------------
\* The rests of two texts have k lines in common, in order.
Commons(a, b, i, j, k) ==
    \E f \in [1..k -> i..Len(a)], g \in [1..k -> j..Len(b)] : Review!InCommon(a, b, f, g)

(* Without its first lines a common part is one of what lies behind them.  *)
LEMMA CommonsShift ==
    ASSUME NEW S, NEW a \in Seq(S), NEW b \in Seq(S), NEW i \in Nat, NEW j \in Nat,
           NEW k \in Nat, k > 1, Commons(a, b, i, j, k)
    PROVE  Commons(a, b, i + 1, j + 1, k - 1)
<1>1. PICK f \in [1..k -> i..Len(a)], g \in [1..k -> j..Len(b)] : Review!InCommon(a, b, f, g)
  BY DEF Commons
<1> DEFINE fs == [x \in 1..k - 1 |-> f[x + 1]]
           gs == [x \in 1..k - 1 |-> g[x + 1]]
<1>0. Len(a) \in Nat /\ Len(b) \in Nat
  OBVIOUS
<1>2. DOMAIN f = 1..k /\ DOMAIN fs = 1..k - 1 /\ DOMAIN g = 1..k
  OBVIOUS
<1>3. ASSUME NEW x \in 1..k - 1
      PROVE  /\ x + 1 \in 1..k /\ 1 \in 1..k /\ 1 < x + 1 /\ fs[x] = f[x + 1] /\ gs[x] = g[x + 1]
             /\ f[1] < f[x + 1] /\ g[1] < g[x + 1]
  <2>1. x + 1 \in 1..k /\ 1 \in 1..k /\ 1 < x + 1 /\ fs[x] = f[x + 1] /\ gs[x] = g[x + 1]
    OBVIOUS
  <2> QED
    BY <1>1, <1>2, <2>1, Zenon DEF Review!InCommon
<1>4. ASSUME NEW x \in 1..k PROVE f[x] \in i..Len(a) /\ g[x] \in j..Len(b)
  OBVIOUS
<1>5. fs \in [1..k - 1 -> (i + 1)..Len(a)]
  <2>1. \A x \in 1..k - 1 : f[x + 1] \in (i + 1)..Len(a)
    <3> TAKE x \in 1..k - 1
    <3>1. f[1] \in i..Len(a) /\ f[x + 1] \in i..Len(a) /\ f[1] < f[x + 1]
      BY <1>3, <1>4
    <3> QED
      BY <1>0, <3>1
  <2> QED
    BY <2>1
<1>6. gs \in [1..k - 1 -> (j + 1)..Len(b)]
  <2>1. \A x \in 1..k - 1 : g[x + 1] \in (j + 1)..Len(b)
    <3> TAKE x \in 1..k - 1
    <3>1. g[1] \in j..Len(b) /\ g[x + 1] \in j..Len(b) /\ g[1] < g[x + 1]
      BY <1>3, <1>4
    <3> QED
      BY <1>0, <3>1
  <2> QED
    BY <2>1
<1>7. Review!InCommon(a, b, fs, gs)
  <2>1. ASSUME NEW x \in 1..k - 1 PROVE a[fs[x]] = b[gs[x]]
    BY <1>1, <1>2, <1>3 DEF Review!InCommon
  <2>2. ASSUME NEW x \in 1..k - 1, NEW y \in 1..k - 1, x < y PROVE fs[x] < fs[y] /\ gs[x] < gs[y]
    <3>1. x + 1 < y + 1
      BY <2>2
    <3>2. f[x + 1] < f[y + 1] /\ g[x + 1] < g[y + 1]
      BY <1>1, <1>2, <1>3, <3>1, Zenon DEF Review!InCommon
    <3> QED
      BY <1>3, <3>2, Zenon
  <2> HIDE DEF fs, gs
  <2> QED
    BY <1>2, <2>1, <2>2, Zenon DEF Review!InCommon
<1> QED
  <2> HIDE DEF fs, gs
  <2> QED
    BY <1>5, <1>6, <1>7 DEF Commons

(* A common part that does not pair the two first lines leaves one of them out. *)
LEMMA CommonsSkip ==
    ASSUME NEW S, NEW a \in Seq(S), NEW b \in Seq(S), NEW i \in Nat, NEW j \in Nat,
           NEW k \in Nat, k > 0, Commons(a, b, i, j, k), a[i] # b[j]
    PROVE  Commons(a, b, i + 1, j, k) \/ Commons(a, b, i, j + 1, k)
<1>1. PICK f \in [1..k -> i..Len(a)], g \in [1..k -> j..Len(b)] : Review!InCommon(a, b, f, g)
  BY DEF Commons
<1>0. Len(a) \in Nat /\ Len(b) \in Nat /\ 1 \in 1..k
  OBVIOUS
<1>2. DOMAIN f = 1..k
  OBVIOUS
<1>3. a[f[1]] = b[g[1]] /\ f[1] \in i..Len(a) /\ g[1] \in j..Len(b)
  <2>1. f[1] \in i..Len(a) /\ g[1] \in j..Len(b)
    BY <1>0
  <2> QED
    BY <1>0, <1>1, <1>2, <2>1, Zenon DEF Review!InCommon
<1>4. ASSUME NEW x \in 1..k PROVE x = 1 \/ (f[1] < f[x] /\ g[1] < g[x])
  <2>1. x = 1 \/ 1 < x
    OBVIOUS
  <2> QED
    BY <1>0, <1>1, <1>2, <2>1, Zenon DEF Review!InCommon
<1>5. CASE f[1] # i
  <2>1. \A x \in 1..k : f[x] \in (i + 1)..Len(a)
    <3> TAKE x \in 1..k
    <3>1. f[x] \in i..Len(a)
      OBVIOUS
    <3>2. x = 1 \/ f[1] < f[x]
      BY <1>4
    <3>3. f[1] \in i..Len(a)
      BY <1>3
    <3>4. CASE x = 1
      BY <1>0, <1>5, <3>3, <3>4
    <3>5. CASE f[1] < f[x]
      BY <1>0, <3>1, <3>3, <3>5
    <3> QED
      BY <3>2, <3>4, <3>5
  <2>2. f \in [1..k -> (i + 1)..Len(a)]
    BY <2>1
  <2> QED
    BY <1>1, <2>2 DEF Commons
<1>6. CASE g[1] # j
  <2>1. \A x \in 1..k : g[x] \in (j + 1)..Len(b)
    <3> TAKE x \in 1..k
    <3>1. g[x] \in j..Len(b)
      OBVIOUS
    <3>2. x = 1 \/ g[1] < g[x]
      BY <1>4
    <3>3. g[1] \in j..Len(b)
      BY <1>3
    <3>4. CASE x = 1
      BY <1>0, <1>6, <3>3, <3>4
    <3>5. CASE g[1] < g[x]
      BY <1>0, <3>1, <3>3, <3>5
    <3> QED
      BY <3>2, <3>4, <3>5
  <2>2. g \in [1..k -> (j + 1)..Len(b)]
    BY <2>1
  <2> QED
    BY <1>1, <2>2 DEF Commons
<1> QED
  BY <1>3, <1>5, <1>6, Zenon

(* No common part is longer than the one that is counted.                  *)
LEMMA Longest ==
    ASSUME NEW S, NEW a \in Seq(S), NEW b \in Seq(S), NEW k \in Nat, k > 0, Commons(a, b, 1, 1, k)
    PROVE  k <= Review!CommonLines(a, b)[<<1, 1>>]
<1> DEFINE D == Cells(a, b)
           dp == Review!CommonLines(a, b)
           w == Rest(a, b)
           Good == {p \in D : \A l \in Nat : l > 0 /\ Commons(a, b, p[1], p[2], l) => l <= dp[p]}
<1>0. Len(a) \in Nat /\ Len(b) \in Nat
  OBVIOUS
<1>p. ASSUME NEW p \in D PROVE p[1] \in 1..Len(a) + 1 /\ p[2] \in 1..Len(b) + 1 /\ p = <<p[1], p[2]>>
  BY DEF Cells
<1>2. /\ dp \in [D -> Nat]
      /\ \A i \in 1..Len(a) + 1, j \in 1..Len(b) + 1 : dp[<<i, j>>] = CommonStep(a, b, dp, i, j)
  BY CommonTable
<1>3. ASSUME NEW p \in D, \A q \in D : w[q] < w[p] => q \in Good PROVE p \in Good
  <2> DEFINE i == p[1]
             j == p[2]
  <2>1. i \in 1..Len(a) + 1 /\ j \in 1..Len(b) + 1 /\ p = <<i, j>>
    BY <1>p
  <2>g. ASSUME NEW u \in 1..Len(a) + 1, NEW v \in 1..Len(b) + 1, <<u, v>> \in Good,
               NEW l \in Nat, l > 0, Commons(a, b, u, v, l)
        PROVE  l <= dp[<<u, v>>]
    <3>1. <<u, v>>[1] = u /\ <<u, v>>[2] = v
      OBVIOUS
    <3> QED
      BY <2>g, <3>1, Zenon
  <2>i. ASSUME NEW l \in Nat, l > 0, Commons(a, b, i, j, l) PROVE l <= dp[p]
    <3> HIDE DEF i, j, dp, Good
    <3>1. PICK f \in [1..l -> i..Len(a)], g \in [1..l -> j..Len(b)] : Review!InCommon(a, b, f, g)
      BY <2>i DEF Commons
    <3>2. f[1] \in i..Len(a) /\ g[1] \in j..Len(b)
      <4>1. 1 \in 1..l
        BY <2>i
      <4> QED
        BY <4>1
    <3>3. /\ i \in 1..Len(a) /\ i + 1 \in 1..Len(a) + 1 /\ ~(i > Len(a)) /\ i \in Nat
          /\ j \in 1..Len(b) /\ j + 1 \in 1..Len(b) + 1 /\ ~(j > Len(b)) /\ j \in Nat
      BY <1>0, <2>1, <3>2
    <3>4. /\ <<i + 1, j>> \in D /\ w[<<i + 1, j>>] < w[p]
          /\ <<i, j + 1>> \in D /\ w[<<i, j + 1>>] < w[p]
          /\ <<i + 1, j + 1>> \in D /\ w[<<i + 1, j + 1>>] < w[p]
      BY <2>1, <3>3, Rests
    <3>5. <<i + 1, j>> \in Good /\ <<i, j + 1>> \in Good /\ <<i + 1, j + 1>> \in Good
      BY <1>3, <3>4, Zenon
    <3>6. dp[<<i + 1, j>>] \in Nat /\ dp[<<i, j + 1>>] \in Nat /\ dp[<<i + 1, j + 1>>] \in Nat
      BY <1>2, <3>4
    <3>7. dp[p] = CommonStep(a, b, dp, i, j)
      BY <1>2, <2>1, Zenon
    <3>8. CASE a[i] = b[j]
      <4>1. dp[p] = 1 + dp[<<i + 1, j + 1>>]
        BY <3>3, <3>7, <3>8, Zenon DEF CommonStep
      <4>2. CASE l = 1
        BY <3>6, <4>1, <4>2
      <4>3. CASE l > 1
        <5>1. Commons(a, b, i + 1, j + 1, l - 1)
          BY <2>i, <3>3, <4>3, CommonsShift
        <5>2. l - 1 \in Nat /\ l - 1 > 0
          BY <4>3
        <5>3. l - 1 <= dp[<<i + 1, j + 1>>]
          BY <2>g, <3>3, <3>5, <5>1, <5>2, Zenon
        <5> QED
          BY <3>6, <4>1, <5>3
      <4> QED
        BY <2>i, <4>2, <4>3
    <3>9. CASE a[i] # b[j]
      <4>1. dp[p] = Review!Max(dp[<<i + 1, j>>], dp[<<i, j + 1>>])
        BY <3>3, <3>7, <3>9, Zenon DEF CommonStep
      <4>2. Commons(a, b, i + 1, j, l) \/ Commons(a, b, i, j + 1, l)
        BY <2>i, <3>3, <3>9, CommonsSkip, Zenon
      <4>3. l <= dp[<<i + 1, j>>] \/ l <= dp[<<i, j + 1>>]
        BY <2>g, <2>i, <2>1, <3>3, <3>5, <4>2, Zenon
      <4> QED
        BY <3>6, <4>1, <4>3 DEF Review!Max
    <3> QED
      BY <3>8, <3>9
  <2> QED
    BY <2>i, Zenon
<1>4. w \in [D -> Nat] /\ GoesUp(D, w, Good)
  BY <1>3, Rests, Zenon DEF GoesUp
<1>5. Good = D
  <2>1. Good \in SUBSET D
    OBVIOUS
  <2> HIDE DEF Good, D, w
  <2> QED
    BY <1>4, <2>1, Cellwise
<1>6. <<1, 1>> \in D /\ <<1, 1>>[1] = 1 /\ <<1, 1>>[2] = 1
  BY <1>0 DEF Cells
<1> QED
  BY <1>5, <1>6, Zenon

-----------------------------------------------------------------------------
\* The first lines of a reply are lines.
LEMMA FirstFew ==
    ASSUME NEW S, NEW r \in Seq(S), MaxLines \in Nat
    PROVE  Review!FirstLines(r) \in Seq(S)
<1> DEFINE n == Review!Min(MaxLines, Len(r))
<1>1. n \in Nat /\ n <= Len(r)
  BY DEF Review!Min
<1> HIDE DEF n
<1>2. SubSeq(r, 1, n) \in Seq(S)
  BY <1>1
<1> QED
  BY <1>2 DEF Review!FirstLines, n

\* It tells both texts, and keeps no less of them than they have in common.
Says(a, b, d) ==
    /\ Review!Texts(Review!Marked(d, {"-", " "})) = a
    /\ Review!Texts(Review!Marked(d, {"+", " "})) = b
    /\ \A k \in 1..Len(a) : \A f \in [1..k -> DOMAIN a], g \in [1..k -> DOMAIN b] :
         Review!InCommon(a, b, f, g) => k <= Len(Review!Marked(d, {" "}))
    /\ Review!Marked(d, {"-", "+", " "}) = d
    /\ Review!Marked(Review!Marked(d, {"+", " "}), {"+", " "}) = Review!Marked(d, {"+", " "})

(* What computeSimpleLineDiff makes of two texts, whatever their lines and *)
(* however many: the difference tells each of the two, no line in it is    *)
(* marked as changed that a longer common part would have kept, and what   *)
(* is left when the removed lines are hidden tells the second text.        *)
THEOREM DiffSays ==
    ASSUME NEW S, NEW a \in Seq(S), NEW b \in Seq(S)
    PROVE  Says(a, b, Review!LineDiff(a, b))
<1> DEFINE d == Review!LineDiff(a, b)
<1> HIDE DEF d
<1> DEFINE c == Review!CommonLines(a, b)[<<1, 1>>]
<1>1. d \in Seq(DiffLines(S)) /\ Tells(a, b, 1, 1, d, c)
  BY LineDiffTells, Zenon DEF d
<1>2. SubSeq(a, 1, Len(a)) = a /\ SubSeq(b, 1, Len(b)) = b
  BY Ends
<1>3. Review!Texts(Review!Marked(d, {"-", " "})) = a /\ Review!Texts(Review!Marked(d, {"+", " "})) = b
  BY <1>1, <1>2, Zenon DEF Tells
<1>4. ASSUME NEW k \in 1..Len(a), NEW f \in [1..k -> DOMAIN a], NEW g \in [1..k -> DOMAIN b],
             Review!InCommon(a, b, f, g)
      PROVE  k <= Len(Review!Marked(d, {" "}))
  <2>1. DOMAIN a = 1..Len(a) /\ DOMAIN b = 1..Len(b) /\ k \in Nat /\ k > 0
    OBVIOUS
  <2>2. Commons(a, b, 1, 1, k)
    BY <1>4, <2>1, Zenon DEF Commons
  <2> HIDE DEF c
  <2>3. k <= c
    BY <2>1, <2>2, Longest DEF c
  <2>4. Len(Review!Marked(d, {" "})) = c
    BY <1>1, Zenon DEF Tells
  <2> QED
    BY <2>3, <2>4, Zenon
<1>5. Review!Marked(d, {"-", "+", " "}) = d
  <2>1. \A x \in DiffLines(S) : x.mark \in {"-", "+", " "}
    BY DEF DiffLines
  <2> QED
    BY <1>1, <2>1, MarkedAll, Zenon
<1>6. Review!Marked(Review!Marked(d, {"+", " "}), {"+", " "}) = Review!Marked(d, {"+", " "})
  <2>1. {"+", " "} \in SUBSET {"+", " "}
    OBVIOUS
  <2> QED
    BY <1>1, <2>1, MarkedTwice, Zenon
<1> QED
  BY <1>3, <1>4, <1>5, <1>6, Zenon DEF d, Says

\* The replies are made of lines.
ReviewReplies ==
    /\ srv.baseline \in Seq(Lines)
    /\ \A i \in DOMAIN srv.attempts : srv.attempts[i].reply \in Seq(Lines)

\* A report is made of replies when its attempts are.
LEMMA RepliesMade ==
    ASSUME NEW N, NEW A, srv.attempts \in [N -> A], \A x \in A : x.reply \in Seq(Lines),
           srv.baseline \in Seq(Lines)
    PROVE  ReviewReplies
<1>1. \A i \in DOMAIN srv.attempts : srv.attempts[i] \in A
  OBVIOUS
<1> QED
  BY <1>1, Zenon DEF ReviewReplies

\* Every report that is opened is.
LEMMA RepliesOpen ==
    ASSUME ConsoleAssumption, srv \in Review!Verdicts \cup Review!Setups \cup Review!Comparisons \cup Review!Walks
    PROVE  ReviewReplies
<1>0. "x" \in Lines /\ "y" \in Lines /\ MaxReply \in Nat
  BY DEF ConsoleAssumption
<1>s. <<>> \in Seq(Lines) /\ <<"x">> \in Seq(Lines) /\ <<"x", "y", "y">> \in Seq(Lines)
  BY <1>0
<1>1. CASE srv \in Review!Verdicts
  <2> DEFINE A == [checks : [Review!Checks -> {"pass", "fail", "not_applicable"}],
                   policy : BOOLEAN, error : BOOLEAN, tools : Review!ToolUses,
                   grounded : {"pass", "fail", "not_applicable"}, reply : {<<>>, <<"x">>}]
  <2>1. srv.attempts \in [1..1 -> A] /\ srv.baseline \in {<<>>, <<"x">>}
    BY <1>1, Zenon DEF Review!Verdicts, Review!Report
  <2>2. \A x \in A : x.reply \in {<<>>, <<"x">>}
    BY Zenon
  <2> HIDE DEF A
  <2> QED
    BY <1>s, <2>1, <2>2, RepliesMade
<1>2. CASE srv \in Review!Setups
  <2> DEFINE A == Review!Clean(BOOLEAN, {"none", "recorded"}, {<<"x">>})
  <2>1. srv.attempts \in [1..1 -> A] /\ srv.baseline \in {<<"x">>}
    BY <1>2 DEF Review!Setups, Review!Report
  <2>2. \A x \in A : x.reply \in {<<"x">>}
    BY DEF Review!Clean
  <2> HIDE DEF A
  <2> QED
    BY <1>s, <2>1, <2>2, RepliesMade
<1>3. CASE srv \in Review!Comparisons
  <2> DEFINE A == Review!Clean({FALSE}, {"none"}, Review!Replies)
  <2>0. ASSUME NEW r \in Review!Replies PROVE r \in Seq(Lines)
    <3>1. PICK n \in 0..MaxReply : r \in [1..n -> Lines]
      BY <2>0, Zenon DEF Review!Replies
    <3>2. n \in Nat
      BY <1>0
    <3> QED
      BY <3>1, <3>2
  <2>1. srv.attempts \in [1..1 -> A] /\ srv.baseline \in Review!Replies
    BY <1>3 DEF Review!Comparisons, Review!Report
  <2>2. \A x \in A : x.reply \in Review!Replies
    BY DEF Review!Clean
  <2> HIDE DEF A
  <2> QED
    BY <2>0, <2>1, <2>2, RepliesMade
<1>4. CASE srv \in Review!Walks
  <2> DEFINE A == {Review!Plain, Review!Failing}
  <2>1. srv.attempts \in UNION {[1..n -> A] : n \in 2..MaxAttempts} /\ srv.baseline \in {<<"x">>}
    BY <1>4 DEF Review!Walks, Review!Report
  <2>2. Review!Plain.reply = <<"x">> /\ Review!Failing.reply = <<"x", "y", "y">>
    BY DEF Review!Plain, Review!Failing
  <2>3. \A x \in A : x.reply \in Seq(Lines)
    BY <1>s, <2>2
  <2> HIDE DEF A
  <2>4. PICK n \in 2..MaxAttempts : srv.attempts \in [1..n -> A]
    BY <2>1, Zenon
  <2> QED
    BY <1>s, <2>1, <2>3, <2>4, RepliesMade
<1> QED
  BY <1>1, <1>2, <1>3, <1>4

\* Nothing on this screen changes the report.
LEMMA ReviewReads == ASSUME Review!Next PROVE srv' = srv
<1>1. CASE \E i \in DOMAIN srv.attempts : Review!OpenAt(i) \/ Review!Choose(i)
  BY <1>1, Zenon DEF Review!OpenAt, Review!Choose, Review!GoTo, Review!Still
<1>2. CASE Review!Close \/ Review!Previous \/ Review!NextOne \/ Review!ToggleMenu \/ Review!ToggleFailedOnly
  BY <1>2, Zenon DEF Review!Close, Review!Previous, Review!NextOne, Review!ToggleMenu,
                     Review!ToggleFailedOnly, Review!GoTo, Review!Still
<1>3. CASE \E tab \in {"review", "debug"} : Review!PickTab(tab)
  BY <1>3, Zenon DEF Review!PickTab, Review!Still
<1>4. CASE Review!ToggleInput \/ Review!ToggleFull \/ Review!ToggleRemoved \/ Review!ToggleTools
  BY <1>4, Zenon DEF Review!ToggleInput, Review!ToggleFull, Review!ToggleRemoved, Review!ToggleTools, Review!Still
<1>5. CASE \E r \in Review!InputSetupRows : Review!JumpTo(r)
  BY <1>5, Zenon DEF Review!JumpTo, Review!Still
<1>6. CASE Review!JumpToReply
  BY <1>6, Zenon DEF Review!JumpToReply, Review!Still
<1> QED
  BY <1>1, <1>2, <1>3, <1>4, <1>5, <1>6, Zenon DEF Review!Next

\* The difference on screen says what it should.
LEMMA ReviewDiffers ==
    ASSUME ConsoleAssumption, ReviewReplies, ui.index \in DOMAIN srv.attempts
    PROVE  Review!DiffTells
<1> DEFINE a == Review!FirstLines(srv.baseline)
           b == Review!FirstLines(Review!Attempt.reply)
           d == Review!ResponseDiffLines
<1>1. ASSUME srv.baseline # <<>>, Review!Attempt.reply # <<>>
      PROVE  /\ Review!Texts(Review!Marked(d, {"-", " "})) = a
             /\ Review!Texts(Review!Marked(d, {"+", " "})) = b
             /\ \A k \in 1..Len(a) : \A f \in [1..k -> DOMAIN a], g \in [1..k -> DOMAIN b] :
                  Review!InCommon(a, b, f, g) => k <= Len(Review!Marked(d, {" "}))
             /\ ui.full => Review!Texts(Review!Marked(Review!VisibleResponseDiffLines, {"+", " "})) = b
             /\ ui.full /\ ui.removed => Review!VisibleResponseDiffLines = d
  <2>1. a \in Seq(Lines) /\ b \in Seq(Lines)
    <3>1. MaxLines \in Nat
      BY DEF ConsoleAssumption
    <3>2. srv.baseline \in Seq(Lines) /\ Review!Attempt.reply \in Seq(Lines)
      BY DEF ReviewReplies, Review!Attempt
    <3> QED
      BY <3>1, <3>2, FirstFew
  <2>2. d = Review!LineDiff(a, b)
    BY <1>1, Zenon DEF Review!ResponseDiffLines, Review!ComputeSimpleLineDiff
  <2>3. ui.full => Review!VisibleResponseDiffLines =
                     Review!Marked(d, IF ui.removed THEN {"-", "+", " "} ELSE {"+", " "})
    BY Zenon DEF Review!VisibleResponseDiffLines
  <2> HIDE DEF a, b, d
  <2>4. Says(a, b, d)
    BY <2>1, <2>2, DiffSays, Zenon
  <2>5. CASE ui.removed
    BY <2>3, <2>4, <2>5, Zenon DEF Says
  <2>6. CASE ~ui.removed
    BY <2>3, <2>4, <2>6, Zenon DEF Says
  <2> QED
    BY <2>5, <2>6, Zenon
<1> QED
  BY <1>1, Zenon DEF Review!DiffTells

-----------------------------------------------------------------------------
(***************************************************************************)
(* What the next run of the gate is sent with.                             *)
(***************************************************************************)

RequestKey == [provider : Providers, scope : {"agent", "project"}, rg : BOOLEAN,
               mine : BOOLEAN, active : BOOLEAN]

RequestUi == [source : {"detected", "hosted", "custom"}, model : Request!Models \cup {None},
              provider : Providers \cup {None}, key : Nat \cup {None}, pasted : BOOLEAN,
              saving : BOOLEAN, deleting : Nat \cup {None}, keys : SUBSET Nat,
              loaded : BOOLEAN, locked : BOOLEAN, crossed : BOOLEAN]

RequestJobs == [platform : BOOLEAN, model : Request!Models \cup {None},
                provider : Providers \cup {None}, pasted : BOOLEAN, key : Nat \cup {None}]

RequestCalls ==
    [kind : {"create"}, provider : Providers \cup {None}]
      \cup [kind : {"saved"}, key : Nat]
      \cup [kind : {"delete", "deleted"}, key : Nat, chosen : Nat \cup {None}]
      \cup [kind : {"run"}, job : RequestJobs]

RequestSrv == [keys : Seq(RequestKey), needs : SUBSET (Providers \cup {None}),
               latest : Providers \cup {None}]

\* Keys are never forgotten: every number that is held is one of them.
RequestNumbers ==
    /\ ui.keys \subseteq DOMAIN srv.keys
    /\ {ui.key, ui.deleting} \subseteq DOMAIN srv.keys \cup {None}
    /\ \A c \in net : c.kind \in {"saved", "delete", "deleted"} => c.key \in DOMAIN srv.keys

\* One key is being saved and one deleted, and the panel knows of them.
RequestFlags ==
    /\ \A c \in net : c.kind \in {"create", "saved"} => ui.saving
    /\ \A c, d \in net : {c.kind, d.kind} \subseteq {"create", "saved"} => c = d
    /\ \A c \in net : c.kind \in {"delete", "deleted"} => ui.deleting = c.key
    /\ \A c, d \in net : {c.kind, d.kind} \subseteq {"delete", "deleted"} => c = d

\* What is so of the chosen key unless something came across.
RequestFits ==
    /\ ui.pasted => ui.key = None
    /\ ~ui.crossed =>
         /\ ui.saving => ui.key = None
         /\ \A c \in net : c.kind = "create" => c.provider = ui.provider
         /\ \A c \in net : c.kind = "saved" => srv.keys[c.key].provider = ui.provider
         /\ \A c \in net : c.kind \in {"delete", "deleted"} /\ ui.key = c.key => c.chosen = c.key
         /\ ui.key # None =>
              \/ srv.keys[ui.key].active /\ srv.keys[ui.key].provider = ui.provider
              \/ \E c \in net : c.kind = "deleted" /\ c.key = ui.key

RequestInv ==
    /\ ui \in RequestUi /\ net \subseteq RequestCalls /\ srv \in RequestSrv /\ odd \in 0..1
    /\ RequestNumbers /\ RequestFlags /\ RequestFits
    /\ ~Request!Stuck

RequestAssumption == Providers # {} /\ None \notin Providers /\ None \notin Nat

\* There is a first provider.
LEMMA RequestFirst == ASSUME RequestAssumption PROVE Request!First \in Providers
  BY DEF RequestAssumption, Request!First

\* One key makes a list of keys.
LEMMA RequestOne == \A k \in RequestKey : <<k>> \in Seq(RequestKey)
  OBVIOUS

\* The invariant holds when the screen is opened.
LEMMA RequestInit == ASSUME RequestAssumption, Request!Init PROVE RequestInv
<1>1. PICK first \in {<<>>} \cup {<<Request!Key(Request!First, "project", TRUE, mine)>> : mine \in BOOLEAN},
           needs \in {{None}, {None, Request!First}, Providers} :
        LET latest == IF needs = {None} THEN None ELSE Request!First
        IN /\ srv = [keys |-> first, needs |-> needs, latest |-> latest]
           /\ ui = [source |-> "detected", model |-> None, provider |-> Request!Default(latest), key |-> None, pasted |-> FALSE,
                  saving |-> FALSE, deleting |-> None, keys |-> {}, loaded |-> FALSE, locked |-> FALSE, crossed |-> FALSE]
  BY Zenon DEF Request!Init
<1>2. first \in Seq(RequestKey)
  <2>1. CASE first = <<>>
    BY <2>1
  <2>2. ASSUME NEW mine \in BOOLEAN, first = <<Request!Key(Request!First, "project", TRUE, mine)>>
        PROVE  first \in Seq(RequestKey)
    <3>1. Request!Key(Request!First, "project", TRUE, mine) \in RequestKey
      BY RequestFirst DEF Request!Key, RequestKey
    <3> QED
      BY <2>2, <3>1, RequestOne, Zenon
  <2> QED
    BY <1>1, <2>1, <2>2, Zenon
<1>3. needs \in SUBSET (Providers \cup {None})
  BY RequestFirst, <1>1
<1>4. srv \in RequestSrv
  BY <1>1, <1>2, <1>3, RequestFirst DEF RequestSrv
<1>5. ui \in RequestUi
  BY <1>1, RequestFirst DEF RequestUi, Request!Default
<1>6. net = {} /\ odd \in 0..1
  BY DEF Request!Init
<1>7. ui.key = None /\ ui.deleting = None /\ ui.keys = {} /\ ~ui.pasted /\ ~ui.saving /\ ~ui.locked
  BY <1>1
<1> QED
  BY <1>4, <1>5, <1>6, <1>7 DEF RequestInv, RequestNumbers, RequestFlags, RequestFits, Request!Stuck

\* A key that is saved goes to the end of the list, and the others keep
\* their provider.
LEMMA RequestCreate ==
    ASSUME srv \in RequestSrv, NEW p \in Providers, NEW scope \in {"agent", "project"}, NEW mine \in BOOLEAN,
           Request!Create(p, scope, mine)
    PROVE  /\ srv' \in RequestSrv /\ Len(srv'.keys) = Len(srv.keys) + 1
           /\ DOMAIN srv.keys \subseteq DOMAIN srv'.keys
           /\ Len(srv.keys) + 1 \in DOMAIN srv'.keys
           /\ \A k \in DOMAIN srv.keys : srv'.keys[k].provider = srv.keys[k].provider
           /\ srv'.keys[Len(srv.keys) + 1].provider = p
<1> DEFINE old == srv.keys
           kept(k) == [old[k] EXCEPT !.active = old[k].active /\ <<old[k].provider, old[k].scope>> # <<p, scope>>]
           s == [k \in DOMAIN old |-> kept(k)]
           new == Request!Key(p, scope, mine, mine)
<1>1. old \in Seq(RequestKey) /\ DOMAIN old = 1..Len(old) /\ Len(old) \in Nat
  BY DEF RequestSrv
<1>2. \A k \in DOMAIN old : kept(k) \in RequestKey /\ kept(k).provider = old[k].provider
  <2> SUFFICES ASSUME NEW k \in DOMAIN old
               PROVE  kept(k) \in RequestKey /\ kept(k).provider = old[k].provider
    OBVIOUS
  <2>1. old[k] \in RequestKey
    BY <1>1
  <2> QED
    BY <2>1, Zenon DEF RequestKey
<1>3. new \in RequestKey /\ new.provider = p
  BY DEF Request!Key, RequestKey
<1>4. srv' = [srv EXCEPT !.keys = Append(s, new)]
  BY DEF Request!Create
<1> HIDE DEF kept, new
<1>5. s \in Seq(RequestKey) /\ Len(s) = Len(old)
  <2>1. s \in [1..Len(old) -> RequestKey]
    BY <1>1, <1>2
  <2> QED
    BY <1>1, <2>1
<1>6. \A k \in DOMAIN old : s[k].provider = old[k].provider
  BY <1>2
<1> HIDE DEF s
<1>7. srv'.keys = Append(s, new) /\ srv' \in RequestSrv
  <2>1. Append(s, new) \in Seq(RequestKey)
    BY <1>3, <1>5
  <2> QED
    BY <1>4, <2>1, Zenon DEF RequestSrv
<1>8. /\ Len(srv'.keys) = Len(old) + 1 /\ DOMAIN srv'.keys = 1..(Len(old) + 1)
      /\ \A k \in 1..Len(old) : srv'.keys[k] = s[k]
      /\ srv'.keys[Len(old) + 1] = new
  BY <1>1, <1>3, <1>5, <1>7
<1> QED
  BY <1>1, <1>3, <1>6, <1>7, <1>8

\* A key that is dropped stays in the list, inactive, and no other changes.
LEMMA RequestDrop ==
    ASSUME srv \in RequestSrv, NEW k \in DOMAIN srv.keys, srv' = [srv EXCEPT !.keys[k].active = FALSE]
    PROVE  /\ srv' \in RequestSrv /\ DOMAIN srv'.keys = DOMAIN srv.keys
           /\ \A j \in DOMAIN srv.keys : srv'.keys[j].provider = srv.keys[j].provider
           /\ \A j \in DOMAIN srv.keys : j # k => srv'.keys[j] = srv.keys[j]
<1> DEFINE old == srv.keys
           off == [old[k] EXCEPT !.active = FALSE]
           new == [old EXCEPT ![k] = off]
<1>1. old \in Seq(RequestKey) /\ DOMAIN old = 1..Len(old) /\ Len(old) \in Nat
  BY DEF RequestSrv
<1>o. old[k] \in RequestKey
  BY <1>1
<1>2. off \in RequestKey /\ off.provider = old[k].provider
  BY <1>o, Zenon DEF RequestKey
<1>3. srv' = [srv EXCEPT !.keys = new]
  OBVIOUS
<1> HIDE DEF off
<1>4. new \in Seq(RequestKey) /\ DOMAIN new = DOMAIN old
  BY <1>1, <1>2
<1>5. \A j \in DOMAIN old : new[j] = IF j = k THEN off ELSE old[j]
  BY <1>1
<1> HIDE DEF new
<1>6. srv' \in RequestSrv /\ srv'.keys = new
  BY <1>3, <1>4, Zenon DEF RequestSrv
<1> QED
  BY <1>2, <1>4, <1>5, <1>6

\* Active keys are keys.
LEMMA RequestActive ==
    ASSUME RequestInv
    PROVE  DOMAIN srv.keys \subseteq Nat /\ Request!Active \subseteq DOMAIN srv.keys
  BY DEF RequestInv, RequestSrv, Request!Active

\* Reading the keys again changes the keys the panel knows of only.
LEMMA RequestRefreshed ==
    ASSUME RequestInv
    PROVE  LET r == Request!Refreshed IN
           /\ r \in RequestUi /\ r.keys \subseteq DOMAIN srv.keys
           /\ r.provider = ui.provider /\ r.key = ui.key /\ r.pasted = ui.pasted
           /\ r.saving = ui.saving /\ r.deleting = ui.deleting /\ r.locked = ui.locked
           /\ r.crossed = ui.crossed
<1>1. Request!Active \in SUBSET Nat
  BY RequestActive
<1>2. [ui EXCEPT !.keys = Request!Active, !.loaded = TRUE] \in RequestUi
  BY <1>1, Zenon DEF RequestInv, RequestUi
<1>3. ui.keys \subseteq DOMAIN srv.keys /\ ui \in RequestUi
  BY DEF RequestInv, RequestNumbers
<1> QED
  BY <1>2, <1>3, RequestActive DEF Request!Refreshed, Request!Listed, RequestUi

\* Another provider takes the key away, and comes across a key being saved.
LEMMA RequestBare ==
    ASSUME RequestInv, NEW p \in Providers \cup {None}
    PROVE  LET b == Request!Bare(p) IN
           /\ b \in RequestUi /\ b.provider = p /\ b.key = None /\ ~b.pasted
           /\ b.saving = ui.saving /\ b.deleting = ui.deleting /\ b.keys = ui.keys
           /\ b.locked = ui.locked /\ b.model = ui.model /\ b.source = ui.source
           /\ b.crossed = (ui.crossed \/ (ui.saving /\ p # ui.provider))
<1>1. (ui.crossed \/ (ui.saving /\ p # ui.provider)) \in BOOLEAN
  OBVIOUS
<1> QED
  BY <1>1, Zenon DEF Request!Bare, RequestInv, RequestUi

\* The panel goes to a provider without a key and without a paste.
LEMMA RequestGoes ==
    ASSUME RequestInv, NEW p \in Providers \cup {None}, ui' \in RequestUi,
           ui'.provider = p, ui'.key = None, ~ui'.pasted, ui'.saving = ui.saving,
           ui'.deleting = ui.deleting, ui'.keys = ui.keys,
           ui'.crossed = (ui.crossed \/ (ui.saving /\ p # ui.provider)),
           ui'.locked = ui.locked, net' = net, srv' = srv, odd' = odd, RequestAssumption
    PROVE  RequestInv'
<1>1. RequestNumbers' /\ RequestFlags'
  BY DEF RequestInv, RequestNumbers, RequestFlags
<1>2. RequestFits'
  <2> SUFFICES ASSUME ~ui'.crossed PROVE RequestFits'
    BY DEF RequestFits
  <2>1. ~ui.crossed /\ (ui.saving => p = ui.provider)
    BY Zenon
  <2>2. \A c \in net : c.kind \in {"create", "saved"} => p = ui.provider
    BY <2>1 DEF RequestInv, RequestFlags
  <2>3. \A c \in net : c.kind \in {"delete", "deleted"} => c.key \in Nat
    BY DEF RequestInv, RequestCalls
  <2> QED
    BY <2>1, <2>2, <2>3 DEF RequestInv, RequestFits, RequestAssumption
<1>3. ~Request!Stuck'
  BY DEF RequestInv, Request!Stuck, Request!Under
<1> QED
  BY <1>1, <1>2, <1>3 DEF RequestInv

\* What a run is stored with is a job.
LEMMA RequestPayload == ASSUME RequestInv PROVE Request!Stored(Request!Payload) \in RequestJobs
<1>1. Request!Payload \in RequestJobs
  BY DEF Request!Payload, RequestJobs, RequestInv, RequestUi
<1> QED
  BY <1>1, Zenon DEF Request!Stored, RequestJobs

\* Every step of the screen keeps the invariant.
LEMMA RequestStep == ASSUME RequestAssumption, RequestInv, Request!Next PROVE RequestInv'
<1>f. DOMAIN srv.keys \subseteq Nat /\ Request!Active \subseteq DOMAIN srv.keys
  BY RequestActive
<1>1. CASE Request!ReadKeys
  <2>1. ui' \in RequestUi
    BY <1>1, <1>f, Zenon DEF Request!ReadKeys, Request!Listed, Request!Active, RequestInv, RequestUi
  <2>2. net' \subseteq RequestCalls
    BY <1>1, <1>f DEF Request!ReadKeys, Request!Listed, Request!Active, RequestInv, RequestCalls
  <2>3. srv' \in RequestSrv
    BY <1>1, <1>f DEF Request!ReadKeys, Request!Listed, Request!Active, RequestInv
  <2>4. odd' \in 0..1
    BY <1>1, <1>f DEF Request!ReadKeys, Request!Listed, Request!Active, RequestInv
  <2>5. RequestNumbers'
    BY <1>1, <1>f DEF Request!ReadKeys, Request!Listed, Request!Active, RequestInv, RequestUi,
       RequestCalls, RequestNumbers
  <2>6. RequestFlags'
    BY <1>1, <1>f DEF Request!ReadKeys, Request!Listed, Request!Active, RequestInv, RequestUi,
       RequestCalls, RequestFlags, RequestAssumption
  <2>7. RequestFits'
    BY <1>1, <1>f DEF Request!ReadKeys, Request!Listed, Request!Active, RequestInv, RequestUi,
       RequestCalls, RequestFlags, RequestFits, RequestAssumption
  <2>8. ~Request!Stuck'
    BY <1>1, <1>f DEF Request!ReadKeys, Request!Listed, Request!Active, RequestInv, RequestUi,
       RequestCalls, Request!Stuck, Request!Under
  <2> QED
    BY <2>1, <2>2, <2>3, <2>4, <2>5, <2>6, <2>7, <2>8 DEF RequestInv
<1>2. CASE Request!SelectDetected
  <2> DEFINE b == Request!Bare(srv.latest)
  <2>p. srv.latest \in Providers \cup {None}
    BY DEF RequestInv, RequestUi, RequestSrv
  <2>b. /\ b \in RequestUi /\ b.provider = srv.latest /\ b.key = None /\ ~b.pasted
        /\ b.saving = ui.saving /\ b.deleting = ui.deleting /\ b.keys = ui.keys
        /\ b.locked = ui.locked /\ b.model = ui.model /\ b.source = ui.source
        /\ b.crossed = (ui.crossed \/ (ui.saving /\ srv.latest # ui.provider))
    BY <2>p, RequestBare
  <2>c. ui' = [b EXCEPT !.source = "detected", !.model = None] /\ net' = net /\ srv' = srv /\ odd' = odd
    BY <1>2 DEF Request!SelectDetected, Request!Edit
  <2> HIDE DEF b
  <2>d. /\ ui' \in RequestUi /\ ui'.provider = srv.latest /\ ui'.key = None /\ ~ui'.pasted
        /\ ui'.saving = ui.saving /\ ui'.deleting = ui.deleting /\ ui'.keys = ui.keys
        /\ ui'.locked = ui.locked
        /\ ui'.crossed = (ui.crossed \/ (ui.saving /\ srv.latest # ui.provider))
    BY <2>b, <2>c, Zenon DEF RequestUi
  <2> QED
    BY ONLY RequestInv, RequestAssumption, <2>p, <2>c, <2>d, RequestGoes
<1>3. CASE Request!SelectHosted
  <2> DEFINE b == Request!Bare(ui.provider)
  <2>p. ui.provider \in Providers \cup {None}
    BY DEF RequestInv, RequestUi, RequestSrv
  <2>b. /\ b \in RequestUi /\ b.provider = ui.provider /\ b.key = None /\ ~b.pasted
        /\ b.saving = ui.saving /\ b.deleting = ui.deleting /\ b.keys = ui.keys
        /\ b.locked = ui.locked /\ b.model = ui.model /\ b.source = ui.source
        /\ b.crossed = (ui.crossed \/ (ui.saving /\ ui.provider # ui.provider))
    BY <2>p, RequestBare
  <2>c. ui' = [b EXCEPT !.source = "hosted", !.model = (IF ui.provider = None THEN b.model ELSE Request!HostedOf(ui.provider))] /\ net' = net /\ srv' = srv /\ odd' = odd
    BY <1>3 DEF Request!SelectHosted, Request!Edit
  <2>m. (IF ui.provider = None THEN b.model ELSE Request!HostedOf(ui.provider)) \in Request!Models \cup {None}
    BY <2>b, Zenon DEF Request!HostedOf, Request!Models, Request!HostedModels, RequestInv, RequestUi
  <2> DEFINE m == (IF ui.provider = None THEN b.model ELSE Request!HostedOf(ui.provider))
  <2> HIDE DEF m
  <2>n. m \in Request!Models \cup {None} /\ ui' = [b EXCEPT !.source = "hosted", !.model = m]
    BY <2>m, <2>c DEF m
  <2> HIDE DEF b
  <2>d. /\ ui' \in RequestUi /\ ui'.provider = ui.provider /\ ui'.key = None /\ ~ui'.pasted
        /\ ui'.saving = ui.saving /\ ui'.deleting = ui.deleting /\ ui'.keys = ui.keys
        /\ ui'.locked = ui.locked
        /\ ui'.crossed = (ui.crossed \/ (ui.saving /\ ui.provider # ui.provider))
    BY <2>b, <2>c, <2>n, Zenon DEF RequestUi
  <2> QED
    BY ONLY RequestInv, RequestAssumption, <2>p, <2>c, <2>d, RequestGoes
<1>4. CASE Request!SelectCustom
  <2> DEFINE b == Request!Bare(ui.provider)
  <2>p. ui.provider \in Providers \cup {None}
    BY DEF RequestInv, RequestUi, RequestSrv
  <2>b. /\ b \in RequestUi /\ b.provider = ui.provider /\ b.key = None /\ ~b.pasted
        /\ b.saving = ui.saving /\ b.deleting = ui.deleting /\ b.keys = ui.keys
        /\ b.locked = ui.locked /\ b.model = ui.model /\ b.source = ui.source
        /\ b.crossed = (ui.crossed \/ (ui.saving /\ ui.provider # ui.provider))
    BY <2>p, RequestBare
  <2>c. ui' = [b EXCEPT !.source = "custom", !.model = (IF ui.source = "custom" THEN b.model ELSE None)] /\ net' = net /\ srv' = srv /\ odd' = odd
    BY <1>4 DEF Request!SelectCustom, Request!Edit
  <2>m. (IF ui.source = "custom" THEN b.model ELSE None) \in Request!Models \cup {None}
    BY <2>b, Zenon DEF Request!HostedOf, Request!Models, Request!HostedModels, RequestInv, RequestUi
  <2> DEFINE m == (IF ui.source = "custom" THEN b.model ELSE None)
  <2> HIDE DEF m
  <2>n. m \in Request!Models \cup {None} /\ ui' = [b EXCEPT !.source = "custom", !.model = m]
    BY <2>m, <2>c DEF m
  <2> HIDE DEF b
  <2>d. /\ ui' \in RequestUi /\ ui'.provider = ui.provider /\ ui'.key = None /\ ~ui'.pasted
        /\ ui'.saving = ui.saving /\ ui'.deleting = ui.deleting /\ ui'.keys = ui.keys
        /\ ui'.locked = ui.locked
        /\ ui'.crossed = (ui.crossed \/ (ui.saving /\ ui.provider # ui.provider))
    BY <2>b, <2>c, <2>n, Zenon DEF RequestUi
  <2> QED
    BY ONLY RequestInv, RequestAssumption, <2>p, <2>c, <2>d, RequestGoes
<1>5. CASE Request!PickHosted
  <2> DEFINE b == Request!Bare(ui.provider)
  <2>p. ui.provider \in Providers \cup {None}
    BY DEF RequestInv, RequestUi, RequestSrv
  <2>b. /\ b \in RequestUi /\ b.provider = ui.provider /\ b.key = None /\ ~b.pasted
        /\ b.saving = ui.saving /\ b.deleting = ui.deleting /\ b.keys = ui.keys
        /\ b.locked = ui.locked /\ b.model = ui.model /\ b.source = ui.source
        /\ b.crossed = (ui.crossed \/ (ui.saving /\ ui.provider # ui.provider))
    BY <2>p, RequestBare
  <2>c. ui' = [b EXCEPT !.model = Request!HostedOf(ui.provider)] /\ net' = net /\ srv' = srv /\ odd' = odd
    BY <1>5 DEF Request!PickHosted, Request!Edit
  <2>m. Request!HostedOf(ui.provider) \in Request!Models \cup {None}
    BY <2>b, <1>5 DEF Request!PickHosted, Request!HostedOf, Request!Models, Request!HostedModels,
       RequestInv, RequestUi
  <2> DEFINE m == Request!HostedOf(ui.provider)
  <2> HIDE DEF m
  <2>n. m \in Request!Models \cup {None} /\ ui' = [b EXCEPT !.model = m]
    BY <2>m, <2>c DEF m
  <2> HIDE DEF b
  <2>d. /\ ui' \in RequestUi /\ ui'.provider = ui.provider /\ ui'.key = None /\ ~ui'.pasted
        /\ ui'.saving = ui.saving /\ ui'.deleting = ui.deleting /\ ui'.keys = ui.keys
        /\ ui'.locked = ui.locked
        /\ ui'.crossed = (ui.crossed \/ (ui.saving /\ ui.provider # ui.provider))
    BY <2>b, <2>c, <2>n DEF RequestUi
  <2> QED
    BY ONLY RequestInv, RequestAssumption, <2>p, <2>c, <2>d, RequestGoes
<1>6. CASE Request!Save
  <2> DEFINE d == [kind |-> "create", provider |-> ui.provider]
  <2>i. /\ d \in RequestCalls /\ d.kind = "create" /\ d.provider = ui.provider
        /\ net' = net \cup {d}
    BY <1>6 DEF Request!Save, RequestInv, RequestUi, RequestCalls
  <2> HIDE DEF d
  <2>1. ui' \in RequestUi
    BY <1>6, <2>i, Zenon DEF Request!Save, RequestInv, RequestUi
  <2>2. net' \subseteq RequestCalls
    BY <1>6, <2>i DEF Request!Save, RequestInv, RequestCalls
  <2>3. srv' \in RequestSrv
    BY <1>6, <2>i DEF Request!Save, RequestInv
  <2>4. odd' \in 0..1
    BY <1>6, <2>i DEF Request!Save, RequestInv
  <2>5. RequestNumbers'
    BY <1>6, <2>i DEF Request!Save, RequestInv, RequestUi, RequestCalls, RequestNumbers
  <2>6. RequestFlags'
    BY <1>6, <2>i DEF Request!Save, RequestInv, RequestUi, RequestCalls, RequestFlags, RequestAssumption
  <2>7. RequestFits'
    BY <1>6, <2>i DEF Request!Save, RequestInv, RequestUi, RequestCalls, RequestFlags, RequestFits,
       RequestAssumption
  <2>8. ~Request!Stuck'
    BY <1>6, <2>i DEF Request!Save, RequestInv, RequestUi, RequestCalls, Request!Stuck, Request!Under
  <2> QED
    BY <2>1, <2>2, <2>3, <2>4, <2>5, <2>6, <2>7, <2>8 DEF RequestInv
<1>7. CASE Request!Run
  <2> DEFINE d == [kind |-> "run", job |-> Request!Stored(Request!Payload)]
  <2>i. /\ d \in RequestCalls /\ d.kind = "run"
        /\ net' = net \cup {d}
    BY <1>7, RequestPayload DEF Request!Run, RequestInv, RequestUi, RequestCalls
  <2> HIDE DEF d
  <2>1. ui' \in RequestUi
    BY <1>7, <2>i, Zenon DEF Request!Run, RequestInv, RequestUi
  <2>2. net' \subseteq RequestCalls
    BY <1>7, <2>i DEF Request!Run, RequestInv, RequestCalls
  <2>3. srv' \in RequestSrv
    BY <1>7, <2>i DEF Request!Run, RequestInv
  <2>4. odd' \in 0..1
    BY <1>7, <2>i DEF Request!Run, RequestInv
  <2>5. RequestNumbers'
    BY <1>7, <2>i DEF Request!Run, RequestInv, RequestUi, RequestCalls, RequestNumbers
  <2>6. RequestFlags'
    BY <1>7, <2>i DEF Request!Run, RequestInv, RequestUi, RequestCalls, RequestFlags, RequestAssumption
  <2>7. RequestFits'
    BY <1>7, <2>i DEF Request!Run, RequestInv, RequestUi, RequestCalls, RequestFlags, RequestFits,
       RequestAssumption
  <2>8. ~Request!Stuck'
    BY <1>7, <2>i DEF Request!Run, RequestInv, RequestUi, RequestCalls, Request!Stuck, Request!Under
  <2> QED
    BY <2>1, <2>2, <2>3, <2>4, <2>5, <2>6, <2>7, <2>8 DEF RequestInv
<1>8. ASSUME NEW p \in Providers, Request!PickProvider(p) PROVE RequestInv'
  <2> DEFINE b == Request!Bare(p)
  <2>p. p \in Providers \cup {None}
    BY DEF RequestInv, RequestUi, RequestSrv
  <2>b. /\ b \in RequestUi /\ b.provider = p /\ b.key = None /\ ~b.pasted
        /\ b.saving = ui.saving /\ b.deleting = ui.deleting /\ b.keys = ui.keys
        /\ b.locked = ui.locked /\ b.model = ui.model /\ b.source = ui.source
        /\ b.crossed = (ui.crossed \/ (ui.saving /\ p # ui.provider))
    BY <2>p, RequestBare
  <2>c. ui' = [b EXCEPT !.model = (IF ui.source = "hosted" /\ Request!IsHosted(ui.provider, b.model) THEN Request!HostedOf(p) ELSE b.model)] /\ net' = net /\ srv' = srv /\ odd' = odd
    BY <1>8 DEF Request!PickProvider, Request!Edit
  <2>m. (IF ui.source = "hosted" /\ Request!IsHosted(ui.provider, b.model) THEN Request!HostedOf(p) ELSE b.model) \in Request!Models \cup {None}
    BY <2>b, Zenon DEF Request!HostedOf, Request!Models, Request!HostedModels, RequestInv, RequestUi
  <2> DEFINE m == (IF ui.source = "hosted" /\ Request!IsHosted(ui.provider, b.model) THEN Request!HostedOf(p) ELSE b.model)
  <2> HIDE DEF m
  <2>n. m \in Request!Models \cup {None} /\ ui' = [b EXCEPT !.model = m]
    BY <2>m, <2>c DEF m
  <2> HIDE DEF b
  <2>d. /\ ui' \in RequestUi /\ ui'.provider = p /\ ui'.key = None /\ ~ui'.pasted
        /\ ui'.saving = ui.saving /\ ui'.deleting = ui.deleting /\ ui'.keys = ui.keys
        /\ ui'.locked = ui.locked
        /\ ui'.crossed = (ui.crossed \/ (ui.saving /\ p # ui.provider))
    BY <2>b, <2>c, <2>n DEF RequestUi
  <2> QED
    BY ONLY RequestInv, RequestAssumption, <2>p, <2>c, <2>d, RequestGoes
<1>9. ASSUME NEW p \in Providers, NEW scope \in {"agent", "project"}, Request!OtherCreates(p, scope) PROVE RequestInv'
  <2>s. /\ srv' \in RequestSrv /\ DOMAIN srv.keys \subseteq DOMAIN srv'.keys
        /\ \A k \in DOMAIN srv.keys : srv'.keys[k].provider = srv.keys[k].provider
    BY <1>9, RequestCreate, Zenon DEF Request!OtherCreates, RequestInv
  <2>u. ui' \in RequestUi /\ ui' = [ui EXCEPT !.crossed = TRUE] /\ net' = net
    BY <1>9, Zenon DEF Request!OtherCreates, RequestInv, RequestUi
  <2>1. ui' \in RequestUi
    BY <1>9, RequestCreate, Zenon DEF Request!OtherCreates, RequestInv, RequestUi
  <2>2. net' \subseteq RequestCalls
    BY <1>9, RequestCreate DEF Request!OtherCreates, RequestInv, RequestCalls
  <2>3. srv' \in RequestSrv
    BY <2>s
  <2>4. odd' \in 0..1
    BY <1>9, RequestCreate DEF Request!OtherCreates, RequestInv
  <2>5. RequestNumbers'
    BY <2>s, <2>u DEF RequestInv, RequestUi, RequestNumbers
  <2>6. RequestFlags'
    BY <1>9, RequestCreate DEF Request!OtherCreates, RequestInv, RequestUi, RequestCalls, RequestFlags,
       RequestAssumption
  <2>7. RequestFits'
    BY <1>9, RequestCreate DEF Request!OtherCreates, RequestInv, RequestUi, RequestCalls, RequestFlags,
       RequestFits, RequestAssumption
  <2>8. ~Request!Stuck'
    BY <1>9, RequestCreate DEF Request!OtherCreates, RequestInv, RequestUi, RequestCalls, Request!Stuck,
       Request!Under
  <2> QED
    BY <2>1, <2>2, <2>3, <2>4, <2>5, <2>6, <2>7, <2>8 DEF RequestInv
<1>10. ASSUME NEW like \in {None, Request!First}, Request!TypeModel([hosted |-> FALSE, like |-> like]) PROVE RequestInv'
  <2>1. ui' \in RequestUi
    BY <1>10, RequestFirst, Zenon DEF Request!TypeModel, Request!Edit, Request!Models, RequestInv, RequestUi
  <2>2. net' \subseteq RequestCalls
    BY <1>10, RequestFirst DEF Request!TypeModel, Request!Edit, Request!Models, RequestInv, RequestCalls
  <2>3. srv' \in RequestSrv
    BY <1>10, RequestFirst DEF Request!TypeModel, Request!Edit, Request!Models, RequestInv
  <2>4. odd' \in 0..1
    BY <1>10, RequestFirst DEF Request!TypeModel, Request!Edit, Request!Models, RequestInv
  <2>5. RequestNumbers'
    BY <1>10, RequestFirst DEF Request!TypeModel, Request!Edit, Request!Models, RequestInv, RequestUi,
       RequestCalls, RequestNumbers
  <2>6. RequestFlags'
    BY <1>10, RequestFirst DEF Request!TypeModel, Request!Edit, Request!Models, RequestInv, RequestUi,
       RequestCalls, RequestFlags, RequestAssumption
  <2>7. RequestFits'
    BY <1>10, RequestFirst DEF Request!TypeModel, Request!Edit, Request!Models, RequestInv, RequestUi,
       RequestCalls, RequestFlags, RequestFits, RequestAssumption
  <2>8. ~Request!Stuck'
    BY <1>10, RequestFirst DEF Request!TypeModel, Request!Edit, Request!Models, RequestInv, RequestUi,
       RequestCalls, Request!Stuck, Request!Under
  <2> QED
    BY <2>1, <2>2, <2>3, <2>4, <2>5, <2>6, <2>7, <2>8 DEF RequestInv
<1>11. ASSUME NEW text \in BOOLEAN, Request!Paste(text) PROVE RequestInv'
  <2>1. ui' \in RequestUi
    BY <1>11, Zenon DEF Request!Paste, Request!Edit, RequestInv, RequestUi
  <2>2. net' \subseteq RequestCalls
    BY <1>11 DEF Request!Paste, Request!Edit, RequestInv, RequestCalls
  <2>3. srv' \in RequestSrv
    BY <1>11 DEF Request!Paste, Request!Edit, RequestInv
  <2>4. odd' \in 0..1
    BY <1>11 DEF Request!Paste, Request!Edit, RequestInv
  <2>5. RequestNumbers'
    BY <1>11 DEF Request!Paste, Request!Edit, RequestInv, RequestUi, RequestCalls, RequestNumbers
  <2>6. RequestFlags'
    BY <1>11 DEF Request!Paste, Request!Edit, RequestInv, RequestUi, RequestCalls, RequestFlags,
       RequestAssumption
  <2>7. RequestFits'
    BY <1>11 DEF Request!Paste, Request!Edit, RequestInv, RequestUi, RequestCalls, RequestFlags,
       RequestFits, RequestAssumption
  <2>8. ~Request!Stuck'
    BY <1>11 DEF Request!Paste, Request!Edit, RequestInv, RequestUi, RequestCalls, Request!Stuck,
       Request!Under
  <2> QED
    BY <2>1, <2>2, <2>3, <2>4, <2>5, <2>6, <2>7, <2>8 DEF RequestInv
<1>12. ASSUME NEW k \in DOMAIN srv.keys, Request!UseKey(k) PROVE RequestInv'
  <2>1. ui' \in RequestUi
    BY <1>12, <1>f, Zenon DEF Request!UseKey, Request!Edit, Request!SavedKeys, Request!Active, RequestInv, RequestUi
  <2>2. net' \subseteq RequestCalls
    BY <1>12, <1>f DEF Request!UseKey, Request!Edit, Request!SavedKeys, Request!Active, RequestInv,
       RequestCalls
  <2>3. srv' \in RequestSrv
    BY <1>12, <1>f DEF Request!UseKey, Request!Edit, Request!SavedKeys, Request!Active, RequestInv
  <2>4. odd' \in 0..1
    BY <1>12, <1>f DEF Request!UseKey, Request!Edit, Request!SavedKeys, Request!Active, RequestInv
  <2>5. RequestNumbers'
    BY <1>12, <1>f DEF Request!UseKey, Request!Edit, Request!SavedKeys, Request!Active, RequestInv,
       RequestUi, RequestCalls, RequestNumbers
  <2>6. RequestFlags'
    BY <1>12, <1>f DEF Request!UseKey, Request!Edit, Request!SavedKeys, Request!Active, RequestInv,
       RequestUi, RequestCalls, RequestFlags, RequestAssumption
  <2>7. RequestFits'
    BY <1>12, <1>f, Zenon DEF Request!UseKey, Request!Edit, Request!SavedKeys, Request!Active, RequestInv,
       RequestUi, RequestCalls, RequestFlags, RequestFits, RequestAssumption
  <2>8. ~Request!Stuck'
    BY <1>12, <1>f DEF Request!UseKey, Request!Edit, Request!SavedKeys, Request!Active, RequestInv,
       RequestUi, RequestCalls, Request!Stuck, Request!Under
  <2> QED
    BY <2>1, <2>2, <2>3, <2>4, <2>5, <2>6, <2>7, <2>8 DEF RequestInv
<1>13. ASSUME NEW k \in DOMAIN srv.keys, Request!Delete(k) PROVE RequestInv'
  <2> DEFINE d == [kind |-> "delete", key |-> k, chosen |-> ui.key]
  <2>i. /\ d \in RequestCalls /\ d.kind = "delete" /\ d.key = k /\ d.chosen = ui.key
        /\ net' = net \cup {d}
    BY <1>13, <1>f DEF Request!Delete, RequestInv, RequestUi, RequestCalls
  <2> HIDE DEF d
  <2>1. ui' \in RequestUi
    BY <1>13, <2>i DEF Request!Delete, Request!SavedKeys, RequestInv, RequestUi
  <2>2. net' \subseteq RequestCalls
    BY <1>13, <2>i DEF Request!Delete, Request!SavedKeys, RequestInv, RequestCalls
  <2>3. srv' \in RequestSrv
    BY <1>13, <2>i DEF Request!Delete, Request!SavedKeys, RequestInv
  <2>4. odd' \in 0..1
    BY <1>13, <2>i DEF Request!Delete, Request!SavedKeys, RequestInv
  <2>5. RequestNumbers'
    BY <1>13, <2>i DEF Request!Delete, Request!SavedKeys, RequestInv, RequestUi, RequestCalls, RequestNumbers
  <2>6. RequestFlags'
    BY <1>13, <2>i DEF Request!Delete, Request!SavedKeys, RequestInv, RequestUi, RequestCalls,
       RequestFlags, RequestAssumption
  <2>7. RequestFits'
    BY <1>13, <2>i DEF Request!Delete, Request!SavedKeys, RequestInv, RequestUi, RequestCalls,
       RequestFlags, RequestFits, RequestAssumption
  <2>8. ~Request!Stuck'
    BY <1>13, <2>i DEF Request!Delete, Request!SavedKeys, RequestInv, RequestUi, RequestCalls,
       Request!Stuck, Request!Under
  <2> QED
    BY <2>1, <2>2, <2>3, <2>4, <2>5, <2>6, <2>7, <2>8 DEF RequestInv
<1>14. ASSUME NEW k \in DOMAIN srv.keys, Request!OtherDeletes(k) PROVE RequestInv'
  <2>s. /\ srv' \in RequestSrv /\ DOMAIN srv'.keys = DOMAIN srv.keys
    BY <1>14, RequestDrop, Zenon DEF Request!OtherDeletes, RequestInv
  <2>u. ui' = [ui EXCEPT !.crossed = TRUE] /\ net' = net
    BY <1>14 DEF Request!OtherDeletes
  <2>1. ui' \in RequestUi
    BY <1>14, Zenon DEF Request!OtherDeletes, RequestInv, RequestUi
  <2>2. net' \subseteq RequestCalls
    BY <1>14 DEF Request!OtherDeletes, RequestInv, RequestCalls
  <2>3. srv' \in RequestSrv
    BY <2>s
  <2>4. odd' \in 0..1
    BY <1>14 DEF Request!OtherDeletes, RequestInv
  <2>5. RequestNumbers'
    BY <2>s, <2>u DEF RequestInv, RequestUi, RequestNumbers
  <2>6. RequestFlags'
    BY <1>14 DEF Request!OtherDeletes, RequestInv, RequestUi, RequestCalls, RequestFlags, RequestAssumption
  <2>7. RequestFits'
    BY <1>14 DEF Request!OtherDeletes, RequestInv, RequestUi, RequestCalls, RequestFlags, RequestFits,
       RequestAssumption
  <2>8. ~Request!Stuck'
    BY <1>14 DEF Request!OtherDeletes, RequestInv, RequestUi, RequestCalls, Request!Stuck, Request!Under
  <2> QED
    BY <2>1, <2>2, <2>3, <2>4, <2>5, <2>6, <2>7, <2>8 DEF RequestInv
<1>15. ASSUME NEW c \in net, Request!Created(c) PROVE RequestInv'
  <2> DEFINE d == [kind |-> "saved", key |-> Len(srv.keys) + 1]
             n == Len(srv.keys) + 1
  <2>c. c.kind = "create" /\ c.provider \in Providers
    BY <1>15 DEF Request!Created, Request!Refused, RequestInv, RequestCalls
  <2>n. srv \in RequestSrv /\ Len(srv.keys) \in Nat /\ n \in Nat
    BY DEF RequestInv, RequestSrv
  <2>s. /\ srv' \in RequestSrv /\ DOMAIN srv.keys \subseteq DOMAIN srv'.keys /\ n \in DOMAIN srv'.keys
        /\ \A k \in DOMAIN srv.keys : srv'.keys[k].provider = srv.keys[k].provider
        /\ srv'.keys[n].provider = c.provider
    BY <1>15, <2>c, <2>n, RequestCreate, Zenon DEF Request!Created
  <2>i. /\ d \in RequestCalls /\ d.kind = "saved" /\ d.key = n /\ net' = (net \ {c}) \cup {d}
        /\ ui' = ui /\ odd' = odd
    BY <1>15, <2>n DEF Request!Created, RequestCalls
  <2>v. ui.saving
    BY <2>c DEF RequestInv, RequestFlags
  <2> HIDE DEF d, n
  <2>1. ui' \in RequestUi
    BY <2>i DEF RequestInv
  <2>2. net' \subseteq RequestCalls
    BY <2>i DEF RequestInv
  <2>3. srv' \in RequestSrv
    BY <2>s
  <2>4. odd' \in 0..1
    BY <2>i DEF RequestInv
  <2>5. RequestNumbers'
    BY <2>i, <2>s DEF RequestInv, RequestNumbers
  <2>6. RequestFlags'
    BY <2>i, <2>c, <2>v DEF RequestInv, RequestFlags
  <2>7. RequestFits'
    <3> SUFFICES ASSUME ~ui.crossed PROVE RequestFits'
      BY <2>i DEF RequestInv, RequestFits
    <3>1. ui.key = None /\ c.provider = ui.provider
      BY <2>c, <2>v DEF RequestInv, RequestFits
    <3>2. \A b \in net \ {c} : b.kind \notin {"create", "saved"}
      BY <2>c DEF RequestInv, RequestFlags
    <3>3. \A b \in net : b.kind \in {"delete", "deleted"} => b.key \in Nat
      BY DEF RequestInv, RequestCalls
    <3> QED
      BY <2>i, <2>s, <3>1, <3>2, <3>3 DEF RequestInv, RequestFits, RequestAssumption
  <2>8. ~Request!Stuck'
    BY <2>c, <2>i DEF RequestInv, Request!Stuck, Request!Under
  <2> QED
    BY <2>1, <2>2, <2>3, <2>4, <2>5, <2>6, <2>7, <2>8 DEF RequestInv
<1>16. ASSUME NEW c \in net, Request!Saved(c) PROVE RequestInv'
  <2> DEFINE r == Request!Refreshed
  <2>r. /\ r \in RequestUi /\ r.keys \subseteq DOMAIN srv.keys
        /\ r.provider = ui.provider /\ r.key = ui.key /\ r.pasted = ui.pasted
        /\ r.saving = ui.saving /\ r.deleting = ui.deleting /\ r.locked = ui.locked
        /\ r.crossed = ui.crossed
    BY RequestRefreshed
  <2>c. c \in RequestCalls /\ net' = net \ {c} /\ srv' = srv /\ odd' = odd
    BY <1>16 DEF Request!Saved, RequestInv
  <2>k. c.kind = "saved" /\ c.key \in Nat /\ c.key \in DOMAIN srv.keys /\ ui.saving
    BY <1>16, <2>c DEF Request!Saved, RequestInv, RequestCalls, RequestNumbers, RequestFlags
  <2>x. (r.crossed \/ ui.deleting # None \/ c.key \notin Request!Active) \in BOOLEAN
    OBVIOUS
  <2>e. ui' = [r EXCEPT !.saving = FALSE, !.pasted = FALSE, !.key = c.key,
                        !.crossed = r.crossed \/ ui.deleting # None \/ c.key \notin Request!Active]
    BY <1>16 DEF Request!Saved
  <2> HIDE DEF r
  <2>u. /\ ui' \in RequestUi /\ ui'.keys = r.keys /\ ui'.provider = ui.provider /\ ui'.key = c.key
        /\ ~ui'.pasted /\ ~ui'.saving /\ ui'.deleting = ui.deleting /\ ui'.locked = ui.locked
        /\ ui'.crossed = (ui.crossed \/ ui.deleting # None \/ c.key \notin Request!Active)
    BY <2>r, <2>k, <2>e, <2>x, Zenon DEF RequestUi
  <2>1. ui' \in RequestUi
    BY <2>u
  <2>2. net' \subseteq RequestCalls
    BY <1>16 DEF Request!Saved, Request!Refreshed, Request!Listed, Request!Active, RequestInv, RequestCalls
  <2>3. srv' \in RequestSrv
    BY <1>16 DEF Request!Saved, Request!Refreshed, Request!Listed, Request!Active, RequestInv
  <2>4. odd' \in 0..1
    BY <1>16 DEF Request!Saved, Request!Refreshed, Request!Listed, Request!Active, RequestInv
  <2>5. RequestNumbers'
    BY <2>u, <2>r, <2>c, <2>k DEF RequestInv, RequestNumbers
  <2>6. RequestFlags'
    <3>1. \A b \in net' : b.kind \notin {"create", "saved"}
      BY <2>c, <2>k DEF RequestInv, RequestFlags
    <3> QED
      BY <2>u, <2>c, <3>1 DEF RequestInv, RequestFlags
  <2>7. RequestFits'
    <3> SUFFICES ASSUME ~ui'.crossed PROVE RequestFits'
      BY <2>u DEF RequestFits
    <3>1. ~ui.crossed /\ ui.deleting = None /\ c.key \in Request!Active
      BY <2>u, Zenon
    <3>2. \A b \in net' : b.kind \notin {"create", "saved"}
      BY <2>c, <2>k DEF RequestInv, RequestFlags
    <3>3. \A b \in net' : b.kind \notin {"delete", "deleted"}
      BY <2>c, <3>1 DEF RequestInv, RequestFlags, RequestCalls, RequestAssumption
    <3>4. srv.keys[c.key].provider = ui.provider /\ srv.keys[c.key].active
      BY <2>k, <3>1 DEF RequestInv, RequestFits, Request!Active
    <3> QED
      BY <2>u, <2>c, <3>2, <3>3, <3>4 DEF RequestFits
  <2>8. ~Request!Stuck'
    BY <2>u, <2>c, <2>k DEF RequestInv, Request!Stuck, Request!Under
  <2> QED
    BY <2>1, <2>2, <2>3, <2>4, <2>5, <2>6, <2>7, <2>8 DEF RequestInv
<1>17. ASSUME NEW c \in net, Request!Removed(c) PROVE RequestInv'
  <2> DEFINE d == [c EXCEPT !.kind = "deleted"]
  <2>c. c.kind = "delete" /\ c \in RequestCalls /\ c.key \in DOMAIN srv.keys
    BY <1>17 DEF Request!Removed, RequestInv, RequestNumbers
  <2>s. /\ srv' \in RequestSrv /\ DOMAIN srv'.keys = DOMAIN srv.keys
        /\ \A j \in DOMAIN srv.keys : srv'.keys[j].provider = srv.keys[j].provider
        /\ \A j \in DOMAIN srv.keys : j # c.key => srv'.keys[j] = srv.keys[j]
    BY <1>17, <2>c, RequestDrop, Zenon DEF Request!Removed, RequestInv
  <2>i. /\ d \in RequestCalls /\ d.kind = "deleted" /\ d.key = c.key /\ d.chosen = c.chosen
        /\ net' = (net \ {c}) \cup {d} /\ ui' = ui /\ odd' = odd
    BY <1>17, <2>c DEF Request!Removed, RequestCalls
  <2> HIDE DEF d
  <2>1. ui' \in RequestUi
    BY <2>i DEF RequestInv
  <2>2. net' \subseteq RequestCalls
    BY <2>i DEF RequestInv
  <2>3. srv' \in RequestSrv
    BY <2>s
  <2>4. odd' \in 0..1
    BY <2>i DEF RequestInv
  <2>5. RequestNumbers'
    BY <2>c, <2>i, <2>s DEF RequestInv, RequestNumbers
  <2>6. RequestFlags'
    BY <2>i, <2>c DEF RequestInv, RequestFlags
  <2>7. RequestFits'
    <3> SUFFICES ASSUME ~ui.crossed PROVE RequestFits'
      BY <2>i DEF RequestInv, RequestFits
    <3>1. \A b \in net : b.kind \in {"saved", "deleted"} => b.key \in DOMAIN srv.keys
      BY DEF RequestInv, RequestNumbers
    <3>2. ui.key # None => ui.key \in DOMAIN srv.keys
      BY DEF RequestInv, RequestNumbers
    <3>3. ui.key # None /\ ui.key # c.key =>
            \/ srv'.keys[ui.key].active /\ srv'.keys[ui.key].provider = ui.provider
            \/ \E b \in net' : b.kind = "deleted" /\ b.key = ui.key
      BY <2>c, <2>i, <2>s, <3>2 DEF RequestInv, RequestFits
    <3>4. \A b \in net' : b.kind = "saved" => srv'.keys[b.key].provider = ui.provider
      BY <2>c, <2>i, <2>s, <3>1 DEF RequestInv, RequestFits
    <3> QED
      BY <2>c, <2>i, <3>3, <3>4 DEF RequestInv, RequestFits
  <2>8. ~Request!Stuck'
    BY <2>c, <2>i DEF RequestInv, Request!Stuck, Request!Under
  <2> QED
    BY <2>1, <2>2, <2>3, <2>4, <2>5, <2>6, <2>7, <2>8 DEF RequestInv
<1>18. ASSUME NEW c \in net, Request!Deleted(c) PROVE RequestInv'
  <2> DEFINE r == Request!Refreshed
  <2>r. /\ r \in RequestUi /\ r.keys \subseteq DOMAIN srv.keys
        /\ r.provider = ui.provider /\ r.key = ui.key /\ r.pasted = ui.pasted
        /\ r.saving = ui.saving /\ r.deleting = ui.deleting /\ r.locked = ui.locked
        /\ r.crossed = ui.crossed
    BY RequestRefreshed
  <2>c. c \in RequestCalls /\ net' = net \ {c} /\ srv' = srv /\ odd' = odd
    BY <1>18 DEF Request!Deleted, RequestInv
  <2>k. c.kind = "deleted" /\ c.key \in Nat /\ ui.deleting = c.key
    BY <1>18, <2>c DEF Request!Deleted, RequestInv, RequestCalls, RequestFlags
  <2>e. ui' = [r EXCEPT !.deleting = None, !.key = IF c.chosen = c.key THEN None ELSE r.key]
    BY <1>18 DEF Request!Deleted
  <2> HIDE DEF r
  <2>u. /\ ui' \in RequestUi /\ ui'.keys = r.keys /\ ui'.provider = ui.provider
        /\ ui'.key = (IF c.chosen = c.key THEN None ELSE ui.key)
        /\ ui'.pasted = ui.pasted /\ ui'.saving = ui.saving /\ ui'.deleting = None
        /\ ui'.locked = ui.locked /\ ui'.crossed = ui.crossed
    BY <2>r, <2>e, Zenon DEF RequestUi
  <2>o. \A b \in net' : b.kind \notin {"delete", "deleted"}
    BY <2>c, <2>k DEF RequestInv, RequestFlags
  <2>1. ui' \in RequestUi
    BY <2>u
  <2>2. net' \subseteq RequestCalls
    BY <1>18 DEF Request!Deleted, Request!Refreshed, Request!Listed, Request!Active, RequestInv, RequestCalls
  <2>3. srv' \in RequestSrv
    BY <1>18 DEF Request!Deleted, Request!Refreshed, Request!Listed, Request!Active, RequestInv
  <2>4. odd' \in 0..1
    BY <1>18 DEF Request!Deleted, Request!Refreshed, Request!Listed, Request!Active, RequestInv
  <2>5. RequestNumbers'
    BY <2>u, <2>r, <2>c DEF RequestInv, RequestNumbers
  <2>6. RequestFlags'
    BY <2>u, <2>c, <2>o DEF RequestInv, RequestFlags
  <2>7. RequestFits'
    <3> SUFFICES ASSUME ~ui.crossed, ui.key # None PROVE RequestFits'
      BY <2>u, <2>c, <2>o DEF RequestInv, RequestFits
    <3>1. ui.key = c.key => c.chosen = c.key
      BY <2>k DEF RequestInv, RequestFits
    <3>2. \A b \in net : b.kind = "deleted" => b.key = c.key
      BY <2>k DEF RequestInv, RequestFlags
    <3> QED
      BY <2>u, <2>c, <2>o, <3>1, <3>2 DEF RequestInv, RequestFits
  <2>8. ~Request!Stuck'
    BY <2>u, <2>c, <2>k DEF RequestInv, Request!Stuck, Request!Under
  <2> QED
    BY <2>1, <2>2, <2>3, <2>4, <2>5, <2>6, <2>7, <2>8 DEF RequestInv
<1>19. ASSUME NEW c \in net, Request!Fails(c) PROVE RequestInv'
  <2>1. ui' \in RequestUi
    BY <1>19, Zenon DEF Request!Fails, RequestInv, RequestUi
  <2>2. net' \subseteq RequestCalls
    BY <1>19 DEF Request!Fails, RequestInv, RequestCalls
  <2>3. srv' \in RequestSrv
    BY <1>19 DEF Request!Fails, RequestInv
  <2>4. odd' \in 0..1
    BY <1>19 DEF Request!Fails, RequestInv
  <2>5. RequestNumbers'
    BY <1>19 DEF Request!Fails, RequestInv, RequestUi, RequestCalls, RequestNumbers
  <2>6. RequestFlags'
    BY <1>19 DEF Request!Fails, RequestInv, RequestUi, RequestCalls, RequestFlags, RequestAssumption
  <2>7. RequestFits'
    BY <1>19, Zenon DEF Request!Fails, RequestInv, RequestUi, RequestCalls, RequestFlags, RequestFits,
       RequestAssumption
  <2>8. ~Request!Stuck'
    BY <1>19 DEF Request!Fails, RequestInv, RequestUi, RequestCalls, Request!Stuck, Request!Under
  <2> QED
    BY <2>1, <2>2, <2>3, <2>4, <2>5, <2>6, <2>7, <2>8 DEF RequestInv
<1>20. ASSUME NEW c \in net, Request!RunEnds(c) PROVE RequestInv'
  <2> DEFINE q == Request!Default(srv.latest)
             b == Request!Bare(q)
  <2>p. q \in Providers \cup {None}
    BY RequestFirst DEF Request!Default, RequestInv, RequestSrv
  <2>b. /\ b \in RequestUi /\ b.provider = q /\ b.key = None /\ ~b.pasted
        /\ b.saving = ui.saving /\ b.deleting = ui.deleting /\ b.keys = ui.keys
        /\ b.crossed = (ui.crossed \/ (ui.saving /\ q # ui.provider))
    BY <2>p, RequestBare
  <2>c. c.kind = "run" /\ net' = net \ {c} /\ srv' = srv /\ odd' = odd
    BY <1>20 DEF Request!RunEnds
  <2>d. \/ ui' = [b EXCEPT !.locked = FALSE, !.source = "detected", !.model = None]
        \/ ui' = [ui EXCEPT !.locked = FALSE]
    BY <1>20 DEF Request!RunEnds
  <2> HIDE DEF b, q
  <2>1. net' \subseteq RequestCalls /\ srv' \in RequestSrv /\ odd' \in 0..1
    BY <2>c DEF RequestInv
  <2>2. CASE ui' = [ui EXCEPT !.locked = FALSE]
    <3>1. /\ ui' \in RequestUi /\ ui'.provider = ui.provider /\ ui'.key = ui.key
          /\ ui'.pasted = ui.pasted /\ ui'.saving = ui.saving /\ ui'.deleting = ui.deleting
          /\ ui'.keys = ui.keys /\ ui'.crossed = ui.crossed /\ ~ui'.locked
      BY <2>2, Zenon DEF RequestInv, RequestUi
    <3>2. RequestNumbers' /\ RequestFlags'
      BY <2>c, <3>1 DEF RequestInv, RequestNumbers, RequestFlags
    <3>3. RequestFits'
      BY <2>c, <3>1 DEF RequestInv, RequestFits
    <3>4. ~Request!Stuck'
      BY <2>c, <3>1 DEF RequestInv, Request!Stuck, Request!Under
    <3> QED
      BY <2>1, <3>1, <3>2, <3>3, <3>4 DEF RequestInv
  <2>3. CASE ui' = [b EXCEPT !.locked = FALSE, !.source = "detected", !.model = None]
    <3>1. /\ ui' \in RequestUi /\ ui'.provider = q /\ ui'.key = None
          /\ ~ui'.pasted /\ ui'.saving = ui.saving /\ ui'.deleting = ui.deleting
          /\ ui'.keys = ui.keys /\ ~ui'.locked
          /\ ui'.crossed = (ui.crossed \/ (ui.saving /\ q # ui.provider))
      BY <2>3, <2>b, Zenon DEF RequestUi
    <3>2. RequestNumbers' /\ RequestFlags'
      BY <2>c, <3>1 DEF RequestInv, RequestNumbers, RequestFlags
    <3>3. RequestFits'
      <4> SUFFICES ASSUME ~ui'.crossed PROVE RequestFits'
        BY <3>1 DEF RequestFits
      <4>1. ~ui.crossed /\ (ui.saving => q = ui.provider)
        BY <3>1, Zenon
      <4>2. \A e \in net : e.kind \in {"create", "saved"} => q = ui.provider
        BY <4>1 DEF RequestInv, RequestFlags
      <4>3. \A e \in net : e.kind \in {"delete", "deleted"} => e.key \in Nat
        BY DEF RequestInv, RequestCalls
      <4> QED
        BY <2>c, <3>1, <4>1, <4>2, <4>3 DEF RequestInv, RequestFits, RequestAssumption
    <3>4. ~Request!Stuck'
      BY <2>c, <3>1 DEF RequestInv, Request!Stuck, Request!Under
    <3> QED
      BY <2>1, <3>1, <3>2, <3>3, <3>4 DEF RequestInv
  <2> QED
    BY <2>d, <2>2, <2>3
<1>21. CASE Request!ReadFails
  <2>i. ui' = [ui EXCEPT !.loaded = TRUE] /\ net' = net /\ srv' = srv /\ odd' = odd - 1 /\ odd > 0
    BY <1>21 DEF Request!ReadFails
  <2>1. ui' \in RequestUi
    BY <2>i, Zenon DEF RequestInv, RequestUi
  <2>2. net' \subseteq RequestCalls
    BY <2>i DEF RequestInv
  <2>3. srv' \in RequestSrv
    BY <2>i DEF RequestInv
  <2>4. odd' \in 0..1
    BY <2>i DEF RequestInv
  <2>5. RequestNumbers'
    BY <2>i DEF RequestInv, RequestUi, RequestCalls, RequestNumbers
  <2>6. RequestFlags'
    BY <2>i DEF RequestInv, RequestUi, RequestCalls, RequestFlags, RequestAssumption
  <2>7. RequestFits'
    BY <2>i DEF RequestInv, RequestUi, RequestCalls, RequestFlags, RequestFits, RequestAssumption
  <2>8. ~Request!Stuck'
    BY <2>i DEF RequestInv, RequestUi, RequestCalls, Request!Stuck, Request!Under
  <2> QED
    BY <2>1, <2>2, <2>3, <2>4, <2>5, <2>6, <2>7, <2>8 DEF RequestInv
<1> QED
  BY <1>1, <1>2, <1>3, <1>4, <1>5, <1>6, <1>7, <1>8, <1>9, <1>10, <1>11, <1>12, <1>13, <1>14, <1>15,
     <1>16, <1>17, <1>18, <1>19, <1>20, <1>21 DEF Request!Next

\* What the invariant says of the screen.
LEMMA RequestHolds ==
    ASSUME RequestAssumption, RequestInv
    PROVE  /\ Request!TypeOK
           /\ Request!SentAsShown
           /\ Request!ChosenKeyFits
           /\ Request!ReadyIsServed
<1>1. /\ ui.source \in {"detected", "hosted", "custom"} /\ ui.model \in Request!Models \cup {None}
      /\ ui.provider \in Providers \cup {None} /\ ui.pasted \in BOOLEAN /\ ui.saving \in BOOLEAN
      /\ ui.loaded \in BOOLEAN /\ ui.locked \in BOOLEAN /\ ui.crossed \in BOOLEAN
  BY DEF RequestInv, RequestUi
<1>2. \A k \in DOMAIN srv.keys : srv.keys[k] \in RequestKey
  BY DEF RequestInv, RequestSrv
<1>3. Request!TypeOK
  BY <1>1, <1>2 DEF RequestInv, RequestNumbers, RequestKey, Request!TypeOK
<1>4. Request!SentAsShown
  BY <1>1 DEF Request!SentAsShown, Request!Ready, Request!Payload, Request!Preview,
     Request!IsHosted
<1>5. Request!ChosenKeyFits
  <2> SUFFICES ASSUME ui.key # None, ~ui.crossed, ~ui.saving, ui.deleting # ui.key
               PROVE  ui.key \in Request!Active /\ srv.keys[ui.key].provider = ui.provider
    BY DEF Request!ChosenKeyFits, Request!Unsure
  <2>1. ~\E c \in net : c.kind = "deleted" /\ c.key = ui.key
    BY DEF RequestInv, RequestFlags
  <2>2. ui.key \in DOMAIN srv.keys
    BY DEF RequestInv, RequestNumbers
  <2> QED
    BY <2>1, <2>2 DEF RequestInv, RequestFits, Request!Active
<1>6. Request!ReadyIsServed
  <2> SUFFICES ASSUME Request!Ready, Request!Settled, ~ui.pasted
               PROVE  Request!Served(Request!Payload)
    BY DEF Request!ReadyIsServed
  <2>1. ui.keys = Request!Active /\ ~Request!Unresolved /\ ~Request!Missing
    BY DEF Request!Settled, Request!Ready, Request!KeyIssue
  <2>2. CASE ui.source = "detected"
    <3>1. /\ ~Request!Payload.platform /\ Request!Payload.key = None
          /\ Request!Payload.provider = None
      BY <2>2 DEF Request!Payload
    <3>2. None \notin srv.needs /\ \A p \in srv.needs \ {None} : Request!HasKey(p)
      BY <2>1, <2>2 DEF Request!Unresolved, Request!OfItsOwn, Request!Missing
    <3> QED
      BY <2>1, <3>1, <3>2 DEF Request!Served, Request!HasKey
  <2>3. CASE ui.source = "hosted"
    BY <2>3, Zenon DEF Request!Ready, Request!Payload, Request!Served
  <2>4. CASE ui.source = "custom"
    <3>1. /\ ~Request!Payload.platform /\ Request!Payload.key = ui.key
          /\ Request!Payload.provider = ui.provider
      BY <2>4, Zenon DEF Request!Payload
    <3>2. CASE ui.key # None
      <4>1. ui.key \in Request!Active /\ srv.keys[ui.key].provider = ui.provider
        BY <1>5, <3>2 DEF Request!ChosenKeyFits, Request!Settled
      <4> QED
        BY <3>1, <3>2, <4>1 DEF Request!Served
    <3>3. CASE ui.key = None
      <4>1. Request!HasKey(ui.provider)
        BY <2>1, <2>4, <3>3 DEF Request!Missing
      <4>2. \E k \in Request!Active : srv.keys[k].provider = ui.provider
        BY <2>1, <4>1 DEF Request!HasKey
      <4>3. ui.provider # None
        BY <4>2, <1>2 DEF Request!Active, RequestKey, RequestAssumption
      <4> QED
        BY <3>1, <3>3, <4>2, <4>3 DEF Request!Served
    <3> QED
      BY <3>2, <3>3
  <2> QED
    BY <1>1, <2>2, <2>3, <2>4
<1> QED
  BY <1>3, <1>4, <1>5, <1>6

\* And so does a step that is not the screen's.
LEMMA RequestSame == ASSUME RequestInv, UNCHANGED vars PROVE RequestInv'
  BY DEF vars, RequestInv, Request!Stuck, RequestFits, RequestFlags, RequestNumbers, Request!Under

-----------------------------------------------------------------------------
(***************************************************************************)
(* The console.                                                            *)
(***************************************************************************)

\* The open screen keeps its invariant.
ConsoleInv ==
    /\ at = "log" => LogInv
    /\ at = "saved" => SavedInv
    /\ at = "map" => MapInv
    /\ at = "settings" => SettingsInv
    /\ at = "checks" => ChecksInv
    /\ at = "history" => HistoryInv
    /\ at = "graph" => GraphInv
    /\ at = "inputs" => InputsInv
    /\ at = "profile" => ProfileInv
    /\ at = "plan" => PlanInv
    /\ at = "project" => ProjectInv
    /\ at = "org" => OrgInv
    /\ at = "review" => ReviewInv
    /\ at = "request" => RequestInv

\* What each screen needs to know of the constants.
LEMMA ConsoleConstants ==
    /\ None \notin Paid
    /\ ProfileAssumption /\ OrgAssumption /\ ReviewAssumption /\ RequestAssumption
<1>1. None \notin Paid
  BY ConsoleAssumption DEF ConsoleAssumption
<1>2. ProfileAssumption
  BY ConsoleAssumption DEF ConsoleAssumption, ProfileAssumption
<1>3. OrgAssumption
  BY ConsoleAssumption DEF ConsoleAssumption, OrgAssumption, Org!Founder
<1>4. ReviewAssumption
  BY ConsoleAssumption DEF ConsoleAssumption, ReviewAssumption
<1>5. RequestAssumption
  BY ConsoleAssumption DEF ConsoleAssumption, RequestAssumption
<1> QED
  BY <1>1, <1>2, <1>3, <1>4, <1>5

\* The invariant holds whatever screen is opened.
LEMMA ConsoleInit == ASSUME Init PROVE ConsoleInv
<1>1. CASE at = "log" /\ Log!Init
  BY <1>1, LogInit, ConsoleAssumption DEF ConsoleInv
<1>2. CASE at = "saved" /\ Saved!Init
  BY <1>2, SavedInit, ConsoleAssumption DEF ConsoleInv
<1>3. CASE at = "map" /\ Map!Init
  BY <1>3, MapInit DEF ConsoleInv
<1>4. CASE at = "settings" /\ Settings!Init
  BY <1>4, SettingsInit DEF ConsoleInv
<1>5. CASE at = "checks" /\ Checks!Init
  BY <1>5, ChecksInit DEF ConsoleInv
<1>6. CASE at = "history" /\ History!Init
  BY <1>6, HistoryInit DEF ConsoleInv
<1>7. CASE at = "graph" /\ Graph!Init
  BY <1>7, GraphInit, ConsoleAssumption DEF ConsoleInv
<1>8. CASE at = "inputs" /\ Inputs!Init
  BY <1>8, InputsInit, ConsoleAssumption DEF ConsoleInv
<1>9. CASE at = "profile" /\ Profile!Init
  BY <1>9, ProfileInit, ConsoleConstants DEF ConsoleInv
<1>10. CASE at = "plan" /\ Plan!Init
  BY <1>10, PlanInit DEF ConsoleInv
<1>11. CASE at = "project" /\ Project!Init
  BY <1>11, ProjectInit DEF ConsoleInv
<1>12. CASE at = "org" /\ Org!Init
  BY <1>12, OrgInit, ConsoleConstants DEF ConsoleInv
<1>13. CASE at = "review" /\ Review!Init
  BY <1>13, ReviewInit, ConsoleAssumption, ConsoleConstants DEF ConsoleInv
<1>14. CASE at = "request" /\ Request!Init
  BY <1>14, RequestInit, ConsoleConstants DEF ConsoleInv
<1> QED
  BY <1>1, <1>2, <1>3, <1>4, <1>5, <1>6, <1>7, <1>8, <1>9, <1>10, <1>11, <1>12, <1>13, <1>14 DEF Init

\* Every step of the console keeps the invariant.
LEMMA ConsoleStep == ASSUME ConsoleInv, [Next]_vars PROVE ConsoleInv'
<1>1. CASE at' = at /\ at = "log" /\ Log!Next
  BY <1>1, LogStep, ConsoleAssumption DEF ConsoleInv
<1>2. CASE at' = at /\ at = "saved" /\ Saved!Next
  BY <1>2, SavedStep, ConsoleAssumption DEF ConsoleInv
<1>3. CASE at' = at /\ at = "map" /\ Map!Next
  BY <1>3, MapStep DEF ConsoleInv
<1>4. CASE at' = at /\ at = "settings" /\ Settings!Next
  BY <1>4, SettingsStep DEF ConsoleInv
<1>5. CASE at' = at /\ at = "checks" /\ Checks!Next
  BY <1>5, ChecksStep DEF ConsoleInv
<1>6. CASE at' = at /\ at = "history" /\ History!Next
  BY <1>6, HistoryStep DEF ConsoleInv
<1>7. CASE at' = at /\ at = "graph" /\ Graph!Next
  BY <1>7, GraphStep, ConsoleAssumption DEF ConsoleInv
<1>8. CASE at' = at /\ at = "inputs" /\ Inputs!Next
  BY <1>8, InputsStep, ConsoleAssumption DEF ConsoleInv
<1>9. CASE at' = at /\ at = "profile" /\ Profile!Next
  BY <1>9, ProfileStep, ConsoleConstants DEF ConsoleInv
<1>10. CASE at' = at /\ at = "plan" /\ Plan!Next
  BY <1>10, PlanStep, ConsoleConstants DEF ConsoleInv
<1>11. CASE at' = at /\ at = "project" /\ Project!Next
  BY <1>11, ProjectStep DEF ConsoleInv
<1>12. CASE at' = at /\ at = "org" /\ Org!Next
  BY <1>12, OrgStep, ConsoleAssumption DEF ConsoleInv
<1>13. CASE at' = at /\ at = "review" /\ Review!Next
  BY <1>13, ReviewStep, ConsoleConstants DEF ConsoleInv
<1>14. CASE at' = at /\ at = "request" /\ Request!Next
  BY <1>14, RequestStep, ConsoleConstants DEF ConsoleInv
<1>15. CASE UNCHANGED vars
  <2>0. at' = at
    BY <1>15 DEF vars
  <2>1. at = "log" => LogInv'
    BY <1>15, LogSame DEF ConsoleInv
  <2>2. at = "saved" => SavedInv'
    BY <1>15, SavedSame DEF ConsoleInv
  <2>3. at = "map" => MapInv'
    BY <1>15, MapSame DEF ConsoleInv
  <2>4. at = "settings" => SettingsInv'
    BY <1>15, SettingsSame DEF ConsoleInv
  <2>5. at = "checks" => ChecksInv'
    BY <1>15, ChecksSame DEF ConsoleInv
  <2>6. at = "history" => HistoryInv'
    BY <1>15, HistorySame DEF ConsoleInv
  <2>7. at = "graph" => GraphInv'
    BY <1>15, GraphSame DEF ConsoleInv
  <2>8. at = "inputs" => InputsInv'
    BY <1>15, InputsSame DEF ConsoleInv
  <2>9. at = "profile" => ProfileInv'
    BY <1>15, ProfileSame DEF ConsoleInv
  <2>10. at = "plan" => PlanInv'
    BY <1>15, PlanSame DEF ConsoleInv
  <2>11. at = "project" => ProjectInv'
    BY <1>15, ProjectSame DEF ConsoleInv
  <2>12. at = "org" => OrgInv'
    BY <1>15, OrgSame DEF ConsoleInv
  <2>13. at = "review" => ReviewInv'
    BY <1>15, ReviewSame DEF ConsoleInv
  <2>14. at = "request" => RequestInv'
    BY <1>15, RequestSame DEF ConsoleInv
  <2> QED
    BY <2>0, <2>1, <2>2, <2>3, <2>4, <2>5, <2>6, <2>7, <2>8, <2>9, <2>10, <2>11, <2>12, <2>13, <2>14 DEF ConsoleInv
<1> QED
  BY <1>1, <1>2, <1>3, <1>4, <1>5, <1>6, <1>7, <1>8, <1>9, <1>10, <1>11, <1>12, <1>13, <1>14, <1>15 DEF Next

\* The invariant, in every behavior.
LEMMA ConsoleAlways == Spec => []ConsoleInv
  BY ConsoleInit, ConsoleStep, PTL DEF Spec

(* The state of the open screen has its type, whatever calls are answered, *)
(* refused or lost, and whatever others do meanwhile.                      *)
THEOREM ConsoleTyped == Spec => []TypeOK
<1>1. ASSUME ConsoleInv PROVE TypeOK
  <2>1. at = "log" => Log!TypeOK
    BY <1>1, LogHolds DEF ConsoleInv
  <2>2. at = "saved" => Saved!TypeOK
    BY <1>1, SavedHolds DEF ConsoleInv
  <2>3. at = "map" => Map!TypeOK
    BY <1>1, MapHolds DEF ConsoleInv
  <2>4. at = "settings" => Settings!TypeOK
    BY <1>1, SettingsHolds DEF ConsoleInv
  <2>5. at = "checks" => Checks!TypeOK
    BY <1>1, ChecksHolds DEF ConsoleInv
  <2>6. at = "history" => History!TypeOK
    BY <1>1, HistoryHolds DEF ConsoleInv
  <2>7. at = "graph" => Graph!TypeOK
    BY <1>1, GraphHolds, ConsoleAssumption DEF ConsoleInv
  <2>8. at = "inputs" => Inputs!TypeOK
    BY <1>1, InputsHolds, ConsoleAssumption DEF ConsoleInv
  <2>9. at = "profile" => Profile!TypeOK
    BY <1>1, ProfileHolds DEF ConsoleInv
  <2>10. at = "plan" => Plan!TypeOK
    BY <1>1, PlanHolds DEF ConsoleInv
  <2>11. at = "project" => Project!TypeOK
    BY <1>1, ProjectHoldsAll DEF ConsoleInv
  <2>12. at = "org" => Org!TypeOK
    BY <1>1, OrgHolds DEF ConsoleInv
  <2>13. at = "review" => Review!TypeOK
    BY <1>1, ReviewHolds DEF ConsoleInv
  <2>14. at = "request" => Request!TypeOK
    BY <1>1, RequestHolds, ConsoleConstants DEF ConsoleInv
  <2> QED
    BY <2>1, <2>2, <2>3, <2>4, <2>5, <2>6, <2>7, <2>8, <2>9, <2>10, <2>11, <2>12, <2>13, <2>14 DEF TypeOK
<1> QED
  BY <1>1, ConsoleAlways, PTL

(* A flag that turns a button off is down or has its call in flight: no    *)
(* refusal, loss or overtaking of a call leaves a button off for good.     *)
THEOREM NoButtonStaysDead == Spec => []NeverStuck
<1>1. ASSUME ConsoleInv PROVE NeverStuck
  <2>1. at = "log" => ~Log!Stuck
    BY <1>1 DEF ConsoleInv, LogInv
  <2>2. at = "saved" => ~Saved!Stuck
    BY <1>1 DEF ConsoleInv, SavedInv
  <2>3. at = "map" => ~Map!Stuck
    BY <1>1 DEF ConsoleInv, MapInv
  <2>4. at = "settings" => ~Settings!Stuck
    BY <1>1 DEF ConsoleInv, SettingsInv
  <2>5. at = "checks" => ~Checks!Stuck
    BY <1>1 DEF ConsoleInv, ChecksInv
  <2>6. at = "history" => ~History!Stuck
    BY <1>1 DEF ConsoleInv, HistoryInv
  <2>7. at = "inputs" => ~Inputs!Stuck
    BY <1>1 DEF ConsoleInv, InputsInv
  <2>8. at = "profile" => ~Profile!Stuck
    BY <1>1 DEF ConsoleInv, ProfileInv
  <2>9. at = "plan" => ~Plan!Stuck
    BY <1>1 DEF ConsoleInv, PlanInv
  <2>10. at = "project" => ~Project!Stuck
    BY <1>1, ProjectHoldsAll DEF ConsoleInv
  <2>11. at = "org" => ~Org!Stuck
    BY <1>1, OrgHolds DEF ConsoleInv
  <2>12. at = "request" => ~Request!Stuck
    BY <1>1 DEF ConsoleInv, RequestInv
  <2> QED
    BY <2>1, <2>2, <2>3, <2>4, <2>5, <2>6, <2>7, <2>8, <2>9, <2>10, <2>11, <2>12 DEF NeverStuck
<1> QED
  BY <1>1, ConsoleAlways, PTL

(* What is deleted, purged, paid or sent is what was picked for it, and    *)
(* what is stored is for the agent or the key it was typed for.            *)
THEOREM DoneAsAsked == Spec => []AsAsked
<1>1. ASSUME ConsoleInv PROVE AsAsked
  <2>1. at = "log" => Log!OnlyTicked
    BY <1>1 DEF ConsoleInv, LogInv
  <2>2. at = "saved" => Saved!AsAsked
    BY <1>1 DEF ConsoleInv, SavedInv
  <2>3. at = "map" => Map!PurgesListed
    BY <1>1 DEF ConsoleInv, MapInv
  <2>4. at = "settings" => Settings!ForItsAgent
    BY <1>1 DEF ConsoleInv, SettingsInv
  <2>5. at = "checks" => Checks!RuleForItsAgent
    BY <1>1 DEF ConsoleInv, ChecksInv
  <2>6. at = "inputs" => Inputs!OfItsAgent
    BY <1>1, InputsHolds, ConsoleAssumption DEF ConsoleInv
  <2>7. at = "profile" => Profile!NamedInItsRow
    BY <1>1, ProfileHolds DEF ConsoleInv
  <2>8. at = "plan" => Plan!PricedFirst
    BY <1>1 DEF ConsoleInv, PlanInv, PlanEarly
  <2>9. at = "request" => Request!SentAsShown
    BY <1>1, RequestHolds, ConsoleConstants DEF ConsoleInv
  <2> QED
    BY <2>1, <2>2, <2>3, <2>4, <2>5, <2>6, <2>7, <2>8, <2>9 DEF AsAsked
<1> QED
  BY <1>1, ConsoleAlways, PTL

(* What a screen shows agrees with itself and, where it says so, with the  *)
(* server: modes exclude each other, polling is off only with the stream   *)
(* up, an undo has what it undoes, a page that is ready is one the server  *)
(* serves.                                                                 *)
THEOREM ScreensCohere == Spec => []Coherent
<1>1. ASSUME ConsoleInv PROVE Coherent
  <2>1. at = "log" => Log!OneMode
    BY <1>1 DEF ConsoleInv, LogInv
  <2>2. at = "map" => Map!NeverBlind
    BY <1>1 DEF ConsoleInv, MapInv
  <2>3. at = "history" => History!OpensClicked
    BY <1>1, HistoryHolds DEF ConsoleInv
  <2>4. at = "graph" => Graph!Undoable
    BY <1>1, GraphHolds, ConsoleAssumption DEF ConsoleInv
  <2>5. at = "inputs" => Inputs!OneKind
    BY <1>1, InputsHolds, ConsoleAssumption DEF ConsoleInv
  <2>6. at = "profile" => Profile!ListTells
    BY <1>1, ProfileHolds DEF ConsoleInv
  <2>7. at = "plan" => Plan!PaysOnce /\ Plan!MarkedIsOpen
    BY <1>1 DEF ConsoleInv, PlanInv, PlanEarly
  <2>8. at = "project" => Project!TicksListed /\ Project!ShowsKept
    BY <1>1, ProjectHoldsAll DEF ConsoleInv
  <2>9. at = "org" => Org!FieldFollows
    BY <1>1, OrgHolds DEF ConsoleInv
  <2>10. at = "review" => Review!TellsWhy /\ Review!JumpsLand
    BY <1>1, ReviewHolds DEF ConsoleInv
  <2>11. at = "request" => Request!ChosenKeyFits /\ Request!ReadyIsServed
    BY <1>1, RequestHolds, ConsoleConstants DEF ConsoleInv
  <2> QED
    BY <2>1, <2>2, <2>3, <2>4, <2>5, <2>6, <2>7, <2>8, <2>9, <2>10, <2>11 DEF Coherent
<1> QED
  BY <1>1, ConsoleAlways, PTL

(* Only the user changes a draft of the checks, whatever answers arrive    *)
(* and others store, and the click that ends a drag selects no agent.      *)
THEOREM NothingTakenAway == Spec => Spared
<1> DEFINE A == /\ at = "checks" => Checks!DraftKept
                /\ at = "graph" => Graph!DropSelectsNone
<1>1. ASSUME ConsoleInv, Next PROVE A
  <2>1. at = "checks" => Checks!DraftKept
    BY <1>1, ChecksKeeps DEF ConsoleInv, Next
  <2>2. at = "graph" => Graph!DropSelectsNone
    BY <1>1, GraphDrops DEF ConsoleInv, Next
  <2> QED
    BY <2>1, <2>2
<1>2. ASSUME ConsoleInv, [Next]_vars PROVE [A]_vars
  BY <1>1, <1>2
<1>3. Spared <=> [][A]_vars
  BY DEF Spared
<1> HIDE DEF A
<1> QED
  BY <1>2, <1>3, ConsoleAlways, PTL DEF Spec

(* The difference on screen tells the first lines of both replies, in      *)
(* order, and marks no line as changed that a longer common part would     *)
(* have kept; shown in full it hides removed lines and nothing else.  So   *)
(* it is for every report, however long its replies are.                   *)
THEOREM DifferenceTells == Spec => []DiffTells
<1> DEFINE Made == at = "review" => ReviewReplies
<1>1. ASSUME Init PROVE Made
  <2>1. ASSUME at = "review" PROVE Review!Init
    BY <1>1, <2>1, Zenon DEF Init
  <2> QED
    BY <2>1, RepliesOpen, ConsoleAssumption DEF Review!Init
<1>2. ASSUME Made, [Next]_vars PROVE Made'
  <2>1. at' = at
    BY <1>2 DEF Next, vars
  <2>2. ASSUME at = "review" PROVE srv' = srv
    <3>1. CASE Next
      <4>1. Review!Next
        BY <2>2, <3>1 DEF Next
      <4> QED
        BY <4>1, ReviewReads
    <3>2. CASE UNCHANGED vars
      BY <3>2 DEF vars
    <3> QED
      BY <1>2, <3>1, <3>2
  <2> QED
    BY <1>2, <2>1, <2>2 DEF ReviewReplies
<1>3. ASSUME ConsoleInv, Made PROVE DiffTells
  <2>1. ASSUME at = "review" PROVE ReviewReplies /\ ui.index \in DOMAIN srv.attempts
    BY <1>3, <2>1 DEF ConsoleInv, ReviewInv
  <2> QED
    BY <2>1, ReviewDiffers, ConsoleAssumption DEF DiffTells
<1> HIDE DEF Made
<1> QED
  BY <1>1, <1>2, <1>3, ConsoleAlways, PTL DEF Spec

=============================================================================
