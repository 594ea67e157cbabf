------------------------------ MODULE GateInputs ------------------------------
(***************************************************************************)
(* What the next run of the Release Gate will replay: the logs or datasets *)
(* that are ticked, the representative log, and the request fields and the *)
(* extra context that go with them.  The fields are seeded from the        *)
(* payload of the representative whenever the selection changes, edited as *)
(* JSON, brought back to the seed, and cleared when a run has completed.   *)
(***************************************************************************)
EXTENDS Naturals, Sequences, FiniteSets, SequencesExt

CONSTANTS Owner,      \* log |-> its agent, newer logs with greater numbers
          Contents,   \* dataset |-> its logs, all of one agent
          MaxEdits,   \* how many fields are edited in a visit
          None

VARIABLES ui, net, srv, odd

vars == <<ui, net, srv, odd>>

Logged == DOMAIN Owner
Owners == {Owner[i] : i \in Logged}
Newest(S) == [k \in 1..Cardinality(S) |-> CHOOSE i \in S : Cardinality({j \in S : j > i}) = k - 1]
Captured(a) == {i \in srv : Owner[i] = a}
Holder(d) == Owner[CHOOSE i \in Contents[d] : TRUE]

(* rich: the logs whose payload has been read.  shared and global: the     *)
(* agent the fields and the context of all logs were written for.  per and *)
(* ctx: the logs with fields or a context of their own.  hyd: the choice   *)
(* the fields were last seeded for, whose seed is kept to reset them.      *)
Init ==
    /\ srv = Logged
    /\ ui = [agent |-> None, logs |-> <<>>, sets |-> {}, source |-> "recent",
             rich |-> {}, opened |-> {}, rep |-> None,
             shared |-> None, per |-> {},
             hyd |-> None,
             global |-> None, ctx |-> {},
             busy |-> FALSE, locked |-> FALSE, edits |-> MaxEdits]
    /\ net = {} /\ odd = 1

-----------------------------------------------------------------------------
(* The logs of the run, in the order they were ticked. *)
Selected(s) ==
    IF s.source = "recent" THEN s.logs
    ELSE IF s.sets \subseteq s.opened THEN Newest({i \in Logged : \E d \in s.sets : i \in Contents[d]})
    ELSE <<>>

Rep(s) ==
    LET ids == ToSet(Selected(s))
    IN IF s.rep \in ids THEN s.rep
       ELSE IF ids = {} THEN None ELSE CHOOSE i \in ids : \A j \in ids : i >= j

Choice(s) == <<Selected(s), Rep(s)>>

(* Fields and context of logs that are not selected any more are dropped,  *)
(* and so is a representative that is not.                                 *)
Pruned(s) ==
    LET ids == ToSet(Selected(s))
    IN [s EXCEPT !.per = @ \cap ids, !.ctx = @ \cap ids,
                 !.rep = IF @ \in ids THEN @ ELSE None]

(* A choice is seeded once, as soon as its representative's payload is     *)
(* there; what was typed for the choice before is lost.                    *)
Seeded(s) ==
    LET ids == ToSet(Selected(s))
    IN IF ids = {} \/ Rep(s) \notin s.rich \/ s.hyd = Choice(s) THEN s
       ELSE [s EXCEPT !.shared = s.agent, !.per = ids, !.ctx = ids \cap s.rich,
                      !.hyd = Choice(s)]

Chosen(s) == Seeded(Pruned(s))

-----------------------------------------------------------------------------
(* clearBodyOverrides *)
Bare(s) == [s EXCEPT !.shared = None, !.per = {}]

Recorded(s) ==
    [s EXCEPT !.global = None, !.ctx = {}, !.busy = FALSE, !.rep = None]

(* Another agent, or none: everything that was set for the one before goes. *)
Left(s, a) == Recorded(Bare([s EXCEPT !.agent = a, !.hyd = None]))

Read(a) == {[kind |-> "pool", of |-> a]}

Enter(a) ==
    /\ ui.agent = None
    /\ ui' = Left(ui, a)
    /\ net' = net \cup Read(a)
    /\ UNCHANGED <<srv, odd>>

LeftPage == Left([ui EXCEPT !.logs = <<>>, !.sets = {}], None)

Back ==
    /\ ui.agent # None
    /\ ui' = LeftPage
    /\ UNCHANGED <<net, srv, odd>>

PoolArrives(c) ==
    /\ c.kind = "pool"
    /\ ui' = Seeded([ui EXCEPT !.rich = @ \cup Captured(c.of)])
    /\ net' = net \ {c}
    /\ UNCHANGED <<srv, odd>>

-----------------------------------------------------------------------------
(* Ticking logs unticks the datasets, and ticking datasets the logs. *)
Flip(q, i) == IF i \in ToSet(q) THEN RemoveAt(q, CHOOSE k \in DOMAIN q : q[k] = i) ELSE Append(q, i)

TickLog(i) ==
    /\ ui.agent = Owner[i] /\ i \in srv /\ ~ui.locked
    /\ ui' = Chosen([ui EXCEPT !.logs = Flip(@, i), !.source = "recent", !.sets = {}])
    /\ UNCHANGED <<net, srv, odd>>

TickSet(d) ==
    /\ ui.agent # None /\ ui.agent = Holder(d) /\ ~ui.locked
    /\ LET sets == IF d \in ui.sets THEN ui.sets \ {d} ELSE ui.sets \cup {d}
       IN /\ ui' = Chosen([ui EXCEPT !.sets = sets, !.source = "datasets", !.logs = <<>>])
          /\ net' = IF sets \subseteq ui.opened THEN net ELSE net \cup {[kind |-> "sets", of |-> sets]}
    /\ UNCHANGED <<srv, odd>>

SetsArrive(c) ==
    /\ c.kind = "sets"
    /\ LET s == [ui EXCEPT !.opened = @ \cup c.of, !.rich = @ \cup UNION {Contents[d] : d \in c.of}]
       IN ui' = IF ui.source = "datasets" /\ ui.sets = c.of THEN Chosen(s) ELSE s
    /\ net' = net \ {c}
    /\ UNCHANGED <<srv, odd>>

Edits == ui.agent # None /\ ~ui.locked

(* One more field is edited. *)
Edited == [ui EXCEPT !.edits = @ - 1]

PickRep(i) ==
    /\ Edits /\ i \in ToSet(Selected(ui)) /\ i # Rep(ui)
    /\ ui' = Seeded([ui EXCEPT !.rep = i])
    /\ UNCHANGED <<net, srv, odd>>

-----------------------------------------------------------------------------
(* The two JSON editors: what was typed becomes the value when its box is  *)
(* left; nothing typed removes the value, and what is not an object leaves *)
(* it as it was.                                                           *)
EditShared ==
    /\ Edits /\ ui.edits > 0
    /\ \E v \in {None, ui.agent} : ui' = [Edited EXCEPT !.shared = v]
    /\ UNCHANGED <<net, srv, odd>>

EditPer(i) ==
    /\ Edits /\ i \in ToSet(Selected(ui)) /\ ui.edits > 0
    /\ \E per \in {ui.per \ {i}, ui.per \cup {i}} : ui' = [Edited EXCEPT !.per = per]
    /\ UNCHANGED <<net, srv, odd>>

(* A file, loaded into the shared fields or into those of a log. *)
LoadFile ==
    /\ Edits /\ ui.edits > 0
    /\ \/ ui' = [Edited EXCEPT !.shared = ui.agent]
       \/ \E i \in ToSet(Selected(ui)) : ui' = [Edited EXCEPT !.per = @ \cup {i}]
    /\ UNCHANGED <<net, srv, odd>>

ClearAll ==
    /\ Edits
    /\ ui' = Bare(ui)
    /\ UNCHANGED <<net, srv, odd>>

(* Reset brings the seed back, if it is the seed of this choice. *)
Resettable == Edits /\ Selected(ui) # <<>> /\ ui.hyd = Choice(ui)

ResetShared ==
    /\ Resettable
    /\ ui' = [ui EXCEPT !.shared = ui.agent]
    /\ UNCHANGED <<net, srv, odd>>

ResetPer ==
    /\ Resettable
    /\ ui' = [ui EXCEPT !.per = ToSet(ui.hyd[1])]
    /\ UNCHANGED <<net, srv, odd>>

ResetContext ==
    /\ Resettable
    /\ ui' = [ui EXCEPT !.ctx = ToSet(ui.hyd[1])]
    /\ UNCHANGED <<net, srv, odd>>

-----------------------------------------------------------------------------
(* Extra context, for all logs or for each, typed or loaded from what the  *)
(* selected logs recorded.                                                 *)
TypeContext ==
    /\ Edits /\ ui.edits > 0
    /\ \/ ui' = [Edited EXCEPT !.global = ui.agent]
       \/ \E i \in ToSet(Selected(ui)) :
            \E ctx \in {ui.ctx \ {i}, ui.ctx \cup {i}} : ui' = [Edited EXCEPT !.ctx = ctx]
    /\ UNCHANGED <<net, srv, odd>>

LoadContext ==
    /\ Edits /\ Selected(ui) # <<>> /\ ~ui.busy /\ ui.edits > 0
    /\ ui' = [Edited EXCEPT !.busy = TRUE]
    /\ \E all \in BOOLEAN :
         net' = net \cup {[kind |-> "context", all |-> all, of |-> IF all THEN {Rep(ui)} ELSE ToSet(Selected(ui))]}
    /\ UNCHANGED <<srv, odd>>

Loaded(s) == [s EXCEPT !.busy = FALSE]

(* What was loaded goes into the page as it is by now. *)
ContextArrives(c) ==
    /\ c.kind = "context"
    /\ ui' = Loaded(IF c.all THEN [ui EXCEPT !.global = Owner[CHOOSE i \in c.of : TRUE]] ELSE [ui EXCEPT !.ctx = @ \cup c.of])
    /\ net' = net \ {c}
    /\ UNCHANGED <<srv, odd>>

ContextFails(c) ==
    /\ c.kind = "context" /\ odd > 0 /\ odd' = odd - 1
    /\ ui' = Loaded(ui)
    /\ net' = net \ {c}
    /\ UNCHANGED srv

-----------------------------------------------------------------------------
(* A run starts with what is chosen and typed; its report, if it comes to  *)
(* one, puts the options back, but not the choice.                         *)
CanValidate ==
    /\ ui.agent # None
    /\ \/ ui.source = "recent" /\ ui.logs # <<>>
       \/ ui.source = "datasets" /\ ui.sets # {}

RunStarts ==
    /\ CanValidate /\ ~ui.locked /\ odd > 0 /\ odd' = odd - 1
    /\ ui' = [ui EXCEPT !.locked = TRUE]
    /\ UNCHANGED <<net, srv>>

RunEnds ==
    /\ ui.locked
    /\ \/ ui' = [ui EXCEPT !.locked = FALSE]
       \/ ui' = Seeded(Recorded(Bare([ui EXCEPT !.locked = FALSE])))
    /\ UNCHANGED <<net, srv, odd>>

Next ==
    \/ Back \/ EditShared \/ LoadFile \/ ClearAll \/ ResetShared \/ ResetPer \/ ResetContext
    \/ TypeContext \/ LoadContext \/ RunStarts \/ RunEnds
    \/ \E a \in Owners : Enter(a)
    \/ \E i \in Logged : TickLog(i) \/ PickRep(i) \/ EditPer(i)
    \/ \E d \in DOMAIN Contents : TickSet(d)
    \/ \E c \in net : PoolArrives(c) \/ SetsArrive(c) \/ ContextArrives(c) \/ ContextFails(c)

Spec == Init /\ [][Next]_vars

-----------------------------------------------------------------------------
TypeOK ==
    /\ ui.agent \in Owners \cup {None} /\ ui.source \in {"recent", "datasets"}
    /\ ui.logs \in Seq(Logged) /\ ui.sets \cup ui.opened \subseteq DOMAIN Contents
    /\ ui.rich \subseteq Logged /\ ui.rep \in Logged \cup {None}
    /\ ui.shared \in Owners \cup {None} /\ ui.global \in Owners \cup {None}
    /\ ui.edits \in 0..MaxEdits /\ ui.per \cup ui.ctx \subseteq Logged
    /\ {ui.busy, ui.locked} \subseteq BOOLEAN

Stuck == ui.busy /\ ~\E c \in net : c.kind = "context"

(* What a run would send is of its agent: the logs or datasets, the shared *)
(* fields, and the fields of logs, each for a log of the run.              *)
OfItsAgent ==
    /\ \A i \in ToSet(ui.logs) : Owner[i] = ui.agent
    /\ \A d \in ui.sets : Holder(d) = ui.agent
    /\ ui.shared \in {ui.agent, None}
    /\ ui.per \subseteq ToSet(Selected(ui))

(* One kind of data is ticked, the one the run takes. *)
OneKind == IF ui.source = "recent" THEN ui.sets = {} ELSE ui.logs = <<>>
=============================================================================
