---------------------------- MODULE NodeSdkProofs ----------------------------
(***************************************************************************)
(* Theorems of NodeSdk, for any tasks, chains, and number of calls to      *)
(* init: while the chains of an instance only nest, the context is the     *)
(* innermost of them, and nothing is left of it when the last one ends.    *)
(***************************************************************************)
EXTENDS NodeSdk, WellFoundedInduction, TLAPS

USE NodeSdkAssumption

-----------------------------------------------------------------------------
(***************************************************************************)
(* The current chain of a stack of calls.                                  *)
(***************************************************************************)

(* The greatest number of a set. *)
LEMMA Greatest ==
    ASSUME NEW n \in Nat, NEW S \in SUBSET (1..n), S # {}
    PROVE  \E m \in S : \A l \in S : l <= m
<1> DEFINE T == {n - m : m \in S}
<1>0. \A m \in S : m \in Nat /\ n - m \in Nat
  OBVIOUS
<1>1. T \in SUBSET Nat /\ T # {}
  BY <1>0
<1> HIDE DEF T
<1>2. PICK k \in T : \A j \in T : ~(<<j, k>> \in OpToRel(<, Nat))
  BY <1>1, NatLessThanWellFounded, WFMin, Zenon
<1>3. \A j \in T : j \in Nat /\ k \in Nat
  BY <1>1
<1>4. \A j \in T : ~(j < k)
  BY <1>2, <1>3, Zenon DEF OpToRel
<1>5. PICK m \in S : k = n - m
  BY DEF T
<1>6. ASSUME NEW l \in S PROVE l <= m
  <2>1. n - l \in T
    BY DEF T
  <2>2. ~(n - l < n - m)
    BY <1>4, <1>5, <2>1
  <2>3. l \in Nat /\ m \in Nat
    OBVIOUS
  <2> QED BY <2>2, <2>3
<1> QED BY <1>6

(* It is that of its last named call.                                      *)
LEMMA CurrentIsLast ==
    ASSUME NEW calls \in Seq(Frames), NEW i, NEW n \in 0..Len(calls), NEW m \in Naming(calls, i, n),
           \A l \in Naming(calls, i, n) : l <= m
    PROVE  Current(calls, i, n) = calls[m].chain
<1> DEFINE named == Naming(calls, i, n)
           last == CHOOSE x \in named : \A l \in named : l <= x
<1>1. last \in named /\ \A l \in named : l <= last
  OBVIOUS
<1>2. last \in Nat /\ m \in Nat
  BY <1>1 DEF Naming
<1>3. last = m
  BY <1>1, <1>2
<1> QED BY <1>3 DEF Current

LEMMA CurrentOfNone ==
    ASSUME NEW calls, NEW i, NEW n, Naming(calls, i, n) = {}
    PROVE  Current(calls, i, n) = NoChain
  BY DEF Current

(* One more call changes it only if the call names a chain of the instance. *)
LEMMA CurrentOfOneMore ==
    ASSUME NEW calls \in Seq(Frames), NEW i, NEW n \in 1..Len(calls)
    PROVE  Current(calls, i, n) = IF calls[n].inst = i /\ calls[n].chain # NoChain THEN calls[n].chain
                                  ELSE Current(calls, i, n - 1)
<1>1. CASE calls[n].inst = i /\ calls[n].chain # NoChain
  <2>1. n \in Naming(calls, i, n) /\ \A l \in Naming(calls, i, n) : l <= n
    BY <1>1 DEF Naming
  <2>2. n \in 0..Len(calls)
    OBVIOUS
  <2>3. Current(calls, i, n) = calls[n].chain
    BY <2>1, <2>2, CurrentIsLast
  <2> QED BY <1>1, <2>3
<1>2. CASE ~(calls[n].inst = i /\ calls[n].chain # NoChain)
  <2>1. Naming(calls, i, n) = Naming(calls, i, n - 1)
    BY <1>2 DEF Naming
  <2> QED BY <1>2, <2>1 DEF Current
<1> QED BY <1>1, <1>2

(* It depends on no call but those that are open.                          *)
LEMMA CurrentOfSame ==
    ASSUME NEW calls, NEW others, NEW i, NEW n \in Nat, \A m \in 1..n : calls[m] = others[m]
    PROVE  Current(calls, i, n) = Current(others, i, n)
<1>1. Naming(calls, i, n) = Naming(others, i, n)
  BY DEF Naming
<1>2. CASE Naming(calls, i, n) = {}
  BY <1>1, <1>2, CurrentOfNone
<1>3. CASE Naming(calls, i, n) # {}
  <2> DEFINE named == Naming(calls, i, n)
             last == CHOOSE x \in named : \A l \in named : l <= x
  <2>1. named \in SUBSET (1..n)
    BY DEF Naming
  <2>2. last \in named
    BY <1>3, <2>1, Greatest
  <2>3. calls[last] = others[last]
    BY <2>1, <2>2
  <2>4. Current(calls, i, n) = calls[last].chain
    BY <1>3 DEF Current
  <2>5. Current(others, i, n) = others[last].chain
    BY <1>1, <1>3 DEF Current
  <2> QED BY <2>3, <2>4, <2>5
<1> QED BY <1>2, <1>3

-----------------------------------------------------------------------------
(***************************************************************************)
(* What a stack of calls and a context are to each other.                  *)
(***************************************************************************)

(* Every call has saved what was current, and the context is what is now.  *)
Layered(calls, i, context) ==
  /\ context = Current(calls, i, Len(calls))
  /\ \A n \in DOMAIN calls : calls[n].inst = i => calls[n].old = Current(calls, i, n - 1)

(* No call of the stack is on the instance, and nothing is current there.  *)
LEMMA NothingNamed ==
    ASSUME NEW calls \in Seq(Frames), NEW i, \A n \in DOMAIN calls : calls[n].inst # i
    PROVE  /\ \A n \in 0..Len(calls) : Current(calls, i, n) = NoChain
           /\ Layered(calls, i, NoChain)
<1>1. ASSUME NEW n \in 0..Len(calls) PROVE Current(calls, i, n) = NoChain
  <2>1. Naming(calls, i, n) = {}
    BY DEF Naming
  <2> QED BY <2>1, CurrentOfNone
<1> QED BY <1>1 DEF Layered

(* A stack of which the calls on an instance are as they were.             *)
LEMMA LongerStack ==
    ASSUME NEW calls \in Seq(Frames), NEW f \in Frames, NEW i, NEW n \in 0..Len(calls)
    PROVE  Current(Append(calls, f), i, n) = Current(calls, i, n)
<1> DEFINE more == Append(calls, f)
<1>1. \A m \in 1..n : more[m] = calls[m]
  OBVIOUS
<1>2. n \in Nat
  OBVIOUS
<1> HIDE DEF more
<1>3. Current(more, i, n) = Current(calls, i, n)
  BY <1>1, <1>2, CurrentOfSame
<1> QED BY <1>3 DEF more

LEMMA ShorterStack ==
    ASSUME NEW calls \in Seq(Frames), calls # <<>>, NEW i, NEW n \in 0..(Len(calls) - 1)
    PROVE  Current(SubSeq(calls, 1, Len(calls) - 1), i, n) = Current(calls, i, n)
<1> DEFINE less == SubSeq(calls, 1, Len(calls) - 1)
<1>1. \A m \in 1..n : less[m] = calls[m]
  OBVIOUS
<1>2. n \in Nat
  OBVIOUS
<1> HIDE DEF less
<1>3. Current(less, i, n) = Current(calls, i, n)
  BY <1>1, <1>2, CurrentOfSame
<1> QED BY <1>3 DEF less

(* Entering a call that has saved the context keeps the layers.            *)
LEMMA LayersGrow ==
    ASSUME NEW calls \in Seq(Frames), NEW f \in Frames, NEW i, NEW context,
           Layered(calls, i, context), f.inst = i => f.old = context
    PROVE  Layered(Append(calls, f), i, IF f.inst = i /\ f.chain # NoChain THEN f.chain ELSE context)
<1> DEFINE more == Append(calls, f)
           len == Len(calls) + 1
<1>1. more \in Seq(Frames) /\ Len(more) = len /\ more[len] = f /\ len \in 1..Len(more)
  OBVIOUS
<1>2. len - 1 = Len(calls) /\ Len(calls) \in 0..Len(calls)
  OBVIOUS
<1>3. Current(more, i, len - 1) = context
  BY <1>2, LongerStack DEF Layered
<1>4. Current(more, i, len) = IF f.inst = i /\ f.chain # NoChain THEN f.chain ELSE context
  <2> HIDE DEF more, len
  <2>1. Current(more, i, len) = IF more[len].inst = i /\ more[len].chain # NoChain THEN more[len].chain
                                ELSE Current(more, i, len - 1)
    BY <1>1, CurrentOfOneMore
  <2> QED BY <1>1, <1>3, <2>1
<1>5. ASSUME NEW n \in DOMAIN more, more[n].inst = i PROVE more[n].old = Current(more, i, n - 1)
  <2>1. CASE n = len
    BY <1>1, <1>3, <1>5, <2>1
  <2>2. CASE n # len
    <3>1. n \in DOMAIN calls /\ more[n] = calls[n] /\ n - 1 \in 0..Len(calls)
      BY <2>2
    <3>2. Current(more, i, n - 1) = Current(calls, i, n - 1)
      BY <3>1, LongerStack
    <3> QED BY <1>5, <3>1, <3>2 DEF Layered
  <2> QED BY <2>1, <2>2
<1> QED BY <1>1, <1>4, <1>5 DEF Layered

(* Leaving one keeps them if the context is what the call had saved.       *)
LEMMA LayersShrink ==
    ASSUME NEW calls \in Seq(Frames), calls # <<>>, NEW i, NEW context,
           Layered(calls, i, context)
    PROVE  Layered(SubSeq(calls, 1, Len(calls) - 1), i,
                   IF calls[Len(calls)].inst = i THEN calls[Len(calls)].old ELSE context)
<1> DEFINE less == SubSeq(calls, 1, Len(calls) - 1)
           len == Len(calls)
<1>1. less \in Seq(Frames) /\ Len(less) = len - 1 /\ len \in 1..len /\ len - 1 \in 0..(len - 1)
  OBVIOUS
<1>2. Current(less, i, len - 1) = Current(calls, i, len - 1)
  BY <1>1, ShorterStack
<1>3. calls[len].inst = i => calls[len].old = Current(calls, i, len - 1)
  BY <1>1 DEF Layered
<1>4. calls[len].inst # i => context = Current(calls, i, len - 1)
  BY <1>1, CurrentOfOneMore DEF Layered
<1>5. ASSUME NEW n \in DOMAIN less, less[n].inst = i PROVE less[n].old = Current(less, i, n - 1)
  <2>1. n \in DOMAIN calls /\ less[n] = calls[n] /\ n - 1 \in 0..(len - 1)
    OBVIOUS
  <2>2. Current(less, i, n - 1) = Current(calls, i, n - 1)
    BY <2>1, ShorterStack
  <2> QED BY <1>5, <2>1, <2>2 DEF Layered
<1> QED BY <1>1, <1>2, <1>3, <1>4, <1>5 DEF Layered

-----------------------------------------------------------------------------
(***************************************************************************)
(* The steps that open and close a call.                                   *)
(***************************************************************************)

(* While no task but one is inside chains of an instance, that one's calls *)
(* and the context agree.                                                  *)
LEMMA LayeredAlone ==
    ASSUME IInv, ~tangled, NEW t \in Tasks, NEW i \in Instances, OpenOn(i) \ {t} = {}
    PROVE  Layered(stack[t], i, ctx[i])
<1>1. stack[t] \in Seq(Frames)
  BY DEF IInv, TypeOK
<1>2. CASE t \in OpenOn(i)
  BY <1>2 DEF IInv, Nested, Layered
<1>3. CASE t \notin OpenOn(i)
  <2>1. OpenOn(i) = {}
    BY <1>3
  <2>2. ctx[i] = NoChain
    BY <2>1 DEF IInv, Nested
  <2>3. \A n \in DOMAIN stack[t] : stack[t][n].inst # i
    BY <1>3 DEF OpenOn
  <2> QED BY <1>1, <2>2, <2>3, NothingNamed
<1> QED BY <1>2, <1>3

(* Nested, one instance at a time.                                         *)
NestedOn(i) ==
  /\ \A t, u \in OpenOn(i) : t = u
  /\ OpenOn(i) = {} => ctx[i] = NoChain
  /\ \A t \in OpenOn(i) : Layered(stack[t], i, ctx[i])

LEMMA NestedByInstance == Nested <=> (~tangled => \A i \in Instances : NestedOn(i))
  BY Zenon DEF Nested, NestedOn, Layered

LEMMA OpenNests ==
    ASSUME IInv, NEW t \in Tasks, NEW i \in Instances, NEW c \in ChainOrNone, Open(t, i, c)
    PROVE  Nested'
<1> DEFINE f == [inst |-> i, chain |-> c, old |-> ctx[i]]
<1>1. f \in Frames /\ f.inst = i /\ f.chain = c /\ f.old = ctx[i]
  BY DEF IInv, TypeOK, Frames
<1>2. \A u \in Tasks : stack[u] \in Seq(Frames)
  BY DEF IInv, TypeOK
<1>3. \A u \in Tasks : stack'[u] = IF u = t THEN Append(stack[u], f) ELSE stack[u]
  BY DEF Open, IInv, TypeOK
<1>4. \A j \in Instances : ctx'[j] = IF f.inst = j /\ f.chain # NoChain THEN f.chain ELSE ctx[j]
  BY <1>1 DEF Open, IInv, TypeOK
<1>5. tangled' = (tangled \/ (OpenOn(i) \ {t} # {}))
  BY DEF Open
<1> HIDE DEF f
<1>6. ASSUME NEW j \in Instances PROVE OpenOn(j)' = OpenOn(j) \cup (IF j = i THEN {t} ELSE {})
  <2>1. ASSUME NEW u \in Tasks PROVE u \in OpenOn(j)' <=> (u \in OpenOn(j) \/ (j = i /\ u = t))
    <3>1. CASE u = t
      <4> DEFINE more == Append(stack[t], f)
                 calls == stack[t]
      <4>1. calls \in Seq(Frames) /\ Len(more) = Len(calls) + 1 /\ more[Len(calls) + 1] = f
            /\ \A n \in 1..Len(calls) : more[n] = calls[n]
        BY <1>1, <1>2
      <4>2. DOMAIN more = 1..(Len(calls) + 1) /\ DOMAIN calls = 1..Len(calls)
        BY <1>1, <1>2
      <4>3. stack'[t] = more
        BY <1>3
      <4> HIDE DEF more
      <4>4. (\E n \in DOMAIN more : more[n].inst = j) <=> ((\E n \in DOMAIN calls : calls[n].inst = j) \/ j = i)
        BY <1>1, <4>1, <4>2
      <4> QED BY <3>1, <4>3, <4>4 DEF OpenOn
    <3>2. CASE u # t
      BY <1>3, <3>2 DEF OpenOn
    <3> QED BY <3>1, <3>2
  <2>2. OpenOn(j) \subseteq Tasks /\ OpenOn(j)' \subseteq Tasks
    BY DEF OpenOn
  <2> QED BY <2>1, <2>2
<1>7. ASSUME ~tangled', NEW j \in Instances PROVE NestedOn(j)'
  <2>1. ~tangled /\ OpenOn(i) \ {t} = {}
    BY <1>5, <1>7
  <2>2. NestedOn(j)
    BY <2>1, NestedByInstance DEF IInv
  <2>3. \A u, v \in OpenOn(j)' : u = v
    BY <1>6, <2>1, <2>2 DEF NestedOn
  <2>4. OpenOn(j)' = {} => ctx'[j] = NoChain
    BY <1>1, <1>4, <1>6, <2>2 DEF NestedOn
  <2>5. ASSUME NEW u \in OpenOn(j)' PROVE Layered(stack'[u], j, ctx'[j])
    <3>1. CASE u = t
      <4>1. OpenOn(j) \ {t} = {}
        BY <1>6, <2>1, <2>3, <2>5, <3>1
      <4>2. Layered(stack[t], j, ctx[j])
        BY <2>1, <4>1, LayeredAlone
      <4>3. f.inst = j => f.old = ctx[j]
        BY <1>1
      <4>4. Layered(Append(stack[t], f), j, IF f.inst = j /\ f.chain # NoChain THEN f.chain ELSE ctx[j])
        BY <1>1, <1>2, <4>2, <4>3, LayersGrow
      <4> QED BY <1>3, <1>4, <3>1, <4>4
    <3>2. CASE u # t
      <4>1. u \in OpenOn(j) /\ u \in Tasks /\ j # i
        BY <1>6, <2>1, <2>5, <3>2 DEF OpenOn
      <4>2. Layered(stack[u], j, ctx[j])
        BY <2>2, <4>1 DEF NestedOn
      <4> QED BY <1>1, <1>3, <1>4, <3>2, <4>1, <4>2
    <3> QED BY <3>1, <3>2
  <2>6. \A u \in OpenOn(j)' : Layered(stack'[u], j, ctx'[j])
    BY <2>5
  <2> QED BY <2>3, <2>4, <2>6 DEF NestedOn
<1> QED BY <1>7, Zenon DEF Nested, NestedOn, Layered

LEMMA CloseNests ==
    ASSUME IInv, NEW t \in Tasks, stack[t] # <<>>, Close(t), UNCHANGED tangled
    PROVE  Nested'
<1> DEFINE calls == stack[t]
           f == calls[Len(calls)]
           less == SubSeq(calls, 1, Len(calls) - 1)
<1>1. \A u \in Tasks : stack[u] \in Seq(Frames)
  BY DEF IInv, TypeOK
<1>2. calls \in Seq(Frames) /\ calls # <<>> /\ Len(calls) \in DOMAIN calls /\ Len(calls) - 1 \in Nat
  BY <1>1
<1>3. f \in Frames /\ f.inst \in Instances
  <2>1. f \in Frames
    BY <1>2
  <2> HIDE DEF f
  <2> QED BY <2>1 DEF Frames
<1>4. \A u \in Tasks : stack'[u] = IF u = t THEN less ELSE stack[u]
  BY DEF Close, IInv, TypeOK
<1>5. ctx' = [ctx EXCEPT ![f.inst] = Restored(f)]
  BY DEF Close, Inner
<1>6. less \in Seq(Frames) /\ Len(less) = Len(calls) - 1
      /\ \A n \in DOMAIN less : n \in DOMAIN calls /\ less[n] = calls[n]
  BY <1>2
<1>7. \A n \in DOMAIN calls : n \in DOMAIN less \/ n = Len(calls)
  BY <1>2
<1>8. f.inst = Inner(t).inst /\ t \in OpenOn(f.inst)
  BY <1>2 DEF Inner, OpenOn
<1> HIDE DEF less
<1>9. ASSUME NEW j \in Instances
      PROVE  /\ OpenOn(j)' \subseteq OpenOn(j)
             /\ OpenOn(j) \ {t} \subseteq OpenOn(j)'
             /\ j # f.inst => OpenOn(j)' = OpenOn(j)
  <2>1. OpenOn(j) \subseteq Tasks /\ OpenOn(j)' \subseteq Tasks
    BY DEF OpenOn
  <2>2. ASSUME NEW u \in Tasks, u # t PROVE u \in OpenOn(j)' <=> u \in OpenOn(j)
    BY <1>4, <2>2 DEF OpenOn
  <2>3. t \in OpenOn(j)' <=> \E n \in DOMAIN less : less[n].inst = j
    BY <1>4 DEF OpenOn
  <2>4. t \in OpenOn(j) <=> \E n \in DOMAIN calls : calls[n].inst = j
    BY DEF OpenOn
  <2> HIDE DEF calls
  <2>5. t \in OpenOn(j)' => t \in OpenOn(j)
    BY <1>6, <2>3, <2>4
  <2>6. j # f.inst => (t \in OpenOn(j) => t \in OpenOn(j)')
    BY <1>6, <1>7, <2>3, <2>4
  <2>7. \A u \in Tasks : u # t => (u \in OpenOn(j)' <=> u \in OpenOn(j))
    BY <2>2
  <2> HIDE DEF f
  <2>8. OpenOn(j)' \subseteq OpenOn(j)
    BY <2>1, <2>5, <2>7
  <2>9. OpenOn(j) \ {t} \subseteq OpenOn(j)'
    BY <2>1, <2>7
  <2>10. j # f.inst => OpenOn(j)' = OpenOn(j)
    BY <2>1, <2>6, <2>7, <2>8
  <2> QED BY <2>8, <2>9, <2>10
<1>10. ASSUME ~tangled', NEW j \in Instances PROVE NestedOn(j)'
  <2>1. ~tangled
    BY <1>10
  <2>2. NestedOn(j) /\ NestedOn(f.inst)
    BY <1>3, <2>1, NestedByInstance DEF IInv
  <2>3. OpenOn(f.inst) \ {t} = {}
    BY <1>8, <2>2 DEF NestedOn
  <2>4. Layered(calls, f.inst, ctx[f.inst])
    BY <1>3, <2>1, <2>3, LayeredAlone
  <2>5. Restored(f) = f.old
    <3>1. f.old = Current(calls, f.inst, Len(calls) - 1) /\ ctx[f.inst] = Current(calls, f.inst, Len(calls))
      BY <1>2, <2>4 DEF Layered
    <3>2. Len(calls) \in 1..Len(calls)
      BY <1>2
    <3>3. f.chain = NoChain => ctx[f.inst] = f.old
      BY <1>2, <3>1, <3>2, CurrentOfOneMore
    <3> QED BY <3>3 DEF Restored
  <2>6. ctx'[j] = IF f.inst = j THEN f.old ELSE ctx[j]
    BY <1>3, <1>5, <2>5 DEF IInv, TypeOK
  <2>7. \A u, v \in OpenOn(j)' : u = v
    BY <1>9, <2>2 DEF NestedOn
  <2>8. ASSUME NEW u \in OpenOn(j)' PROVE Layered(stack'[u], j, ctx'[j])
    <3>1. u \in OpenOn(j) /\ u \in Tasks
      BY <1>9, <2>8 DEF OpenOn
    <3>2. CASE u = t
      <4>1. Layered(calls, j, ctx[j])
        BY <2>2, <3>1, <3>2 DEF NestedOn
      <4>2. Layered(less, j, IF f.inst = j THEN f.old ELSE ctx[j])
        BY <1>2, <4>1, LayersShrink DEF less
      <4> QED BY <1>4, <2>6, <3>2, <4>2
    <3>3. CASE u # t
      <4>1. j # f.inst
        BY <2>3, <3>1, <3>3
      <4>2. Layered(stack[u], j, ctx[j])
        BY <2>2, <3>1 DEF NestedOn
      <4> QED BY <1>4, <2>6, <3>1, <3>3, <4>1, <4>2
    <3> QED BY <3>2, <3>3
  <2>9. OpenOn(j)' = {} => ctx'[j] = NoChain
    <3>1. CASE j # f.inst
      BY <1>9, <2>2, <2>6, <3>1 DEF NestedOn
    <3>2. ASSUME j = f.inst, OpenOn(j)' = {} PROVE f.old = NoChain
      <4>1. \A n \in DOMAIN less : less[n].inst # j
        BY <1>4, <3>2 DEF OpenOn
      <4>2. Len(less) \in 0..Len(less)
        BY <1>2, <1>6
      <4>3. Current(less, j, Len(less)) = NoChain
        BY <1>6, <4>1, <4>2, NothingNamed
      <4>4. Layered(less, j, f.old)
        BY <1>2, <2>4, <3>2, LayersShrink DEF less
      <4> QED BY <4>3, <4>4 DEF Layered
    <3> QED BY <2>6, <3>1, <3>2
  <2>10. \A u \in OpenOn(j)' : Layered(stack'[u], j, ctx'[j])
    BY <2>8
  <2> QED BY <2>7, <2>9, <2>10 DEF NestedOn
<1> QED BY <1>10, Zenon DEF Nested, NestedOn, Layered

-----------------------------------------------------------------------------
(***************************************************************************)
(* The invariant and every step.                                           *)
(***************************************************************************)

(* A call that waits for its post is still open.                           *)
StillOpen == \A t \in Tasks : pc[t] = "track" => stack[t] # <<>>

Strong == IInv /\ ChainKept /\ StillOpen

LEMMA Starts == Init => Strong
<1> SUFFICES ASSUME Init PROVE Strong
  OBVIOUS
<1>1. TypeOK
  <2>1. stack \in [Tasks -> Seq(Frames)]
    <3>1. <<>> \in Seq(Frames)
      OBVIOUS
    <3> QED BY <3>1 DEF Init
  <2>2. /\ global \in Instances \cup {NoInstance} /\ wrapped \in [Slots -> Instances \cup {NoInstance}]
        /\ made \in SUBSET (Instances \cup {NoInstance})
        /\ ctx \in [Instances -> ChainOrNone]
    BY DEF Init, ChainOrNone
  <2>3. /\ pc \in [Tasks -> {"run", "provider", "track"}] /\ via \in [Tasks -> Instances \cup {NoInstance}]
        /\ mistagged \in SUBSET {"alone", "beside", "elsewhere"}
    BY DEF Init
  <2>4. same \in BOOLEAN /\ tangled \in BOOLEAN
    BY Zenon DEF Init
  <2> QED BY <2>1, <2>2, <2>3, <2>4, Zenon DEF TypeOK
<1>2. OfMade
  BY DEF Init, OfMade, NoInstance
<1>3. \A i : OpenOn(i) = {}
  BY DEF Init, OpenOn
<1>4. Nested
  BY <1>3 DEF Init, Nested
<1>5. ChainKept
  BY DEF Init, ChainKept
<1>6. StillOpen
  BY DEF Init, StillOpen
<1> QED BY <1>1, <1>2, <1>4, <1>5, <1>6 DEF Strong, IInv

(* Opening and closing a call keep the types of the context and stacks.    *)
LEMMA OpenTyped ==
    ASSUME IInv, NEW t \in Tasks, NEW c \in ChainOrNone, global # NoInstance, Open(t, global, c)
    PROVE  /\ ctx' \in [Instances -> ChainOrNone] /\ stack' \in [Tasks -> Seq(Frames)] /\ tangled' \in BOOLEAN
           /\ \A u \in Tasks : \A n \in DOMAIN stack'[u] : stack'[u][n].inst <= global
<1> DEFINE f == [inst |-> global, chain |-> c, old |-> ctx[global]]
<1>1. global \in Instances /\ f \in Frames /\ f.inst = global /\ global <= global
  BY DEF IInv, TypeOK, Frames, Instances, NoInstance
<1>2. stack' = [stack EXCEPT ![t] = Append(stack[t], f)] /\ stack \in [Tasks -> Seq(Frames)]
  BY DEF Open, IInv, TypeOK
<1> HIDE DEF f
<1>3. stack' \in [Tasks -> Seq(Frames)]
  BY <1>1, <1>2
<1>4. ctx' \in [Instances -> ChainOrNone] /\ tangled' \in BOOLEAN
  BY <1>1 DEF Open, IInv, TypeOK
<1>5. ASSUME NEW u \in Tasks, NEW n \in DOMAIN stack'[u] PROVE stack'[u][n].inst <= global
  <2>1. CASE u = t /\ n = Len(stack[t]) + 1
    BY <1>1, <1>2, <2>1
  <2>2. CASE ~(u = t /\ n = Len(stack[t]) + 1)
    <3>1. n \in DOMAIN stack[u] /\ stack'[u][n] = stack[u][n]
      BY <1>1, <1>2, <1>5, <2>2
    <3> QED BY <3>1 DEF IInv, OfMade
  <2> QED BY <2>1, <2>2
<1> QED BY <1>3, <1>4, <1>5

LEMMA CloseTyped ==
    ASSUME IInv, NEW t \in Tasks, stack[t] # <<>>, Close(t)
    PROVE  /\ ctx' \in [Instances -> ChainOrNone] /\ stack' \in [Tasks -> Seq(Frames)]
           /\ \A u \in Tasks : \A n \in DOMAIN stack'[u] : stack'[u][n].inst <= global
<1>1. stack \in [Tasks -> Seq(Frames)] /\ stack[t] \in Seq(Frames) /\ Len(stack[t]) \in DOMAIN stack[t]
      /\ Len(stack[t]) - 1 \in Nat
  BY DEF IInv, TypeOK
<1>2. Inner(t) \in Frames
  BY <1>1 DEF Inner
<1>3. Restored(Inner(t)) \in ChainOrNone
  BY <1>2 DEF Restored, Frames, ChainOrNone, IInv, TypeOK
<1>4. ctx' \in [Instances -> ChainOrNone]
  BY <1>2, <1>3 DEF Close, IInv, TypeOK
<1>5. stack' = [stack EXCEPT ![t] = SubSeq(stack[t], 1, Len(stack[t]) - 1)]
  BY DEF Close
<1>6. stack' \in [Tasks -> Seq(Frames)]
  BY <1>1, <1>5
<1>7. ASSUME NEW u \in Tasks, NEW n \in DOMAIN stack'[u] PROVE stack'[u][n].inst <= global
  <2>1. n \in DOMAIN stack[u] /\ stack'[u][n] = stack[u][n]
    BY <1>1, <1>5, <1>7
  <2> QED BY <2>1 DEF IInv, OfMade
<1> QED BY <1>4, <1>6, <1>7

(* A recorded call keeps ChainKept.                                        *)
LEMMA CaptureKeeps ==
    ASSUME Strong, NEW t \in Tasks, Captured(t)
    PROVE  ChainKept' /\ mistagged' \in SUBSET {"alone", "beside", "elsewhere"}
<1> DEFINE k == via[t]
<1>1. CASE k = NoInstance
  <2>1. UNCHANGED <<mistagged, tangled, global>>
    BY <1>1 DEF Captured, setup
  <2> QED BY <2>1 DEF Strong, ChainKept, IInv, TypeOK
<1>2. CASE k # NoInstance
  <2>1. k \in Instances /\ k <= global /\ global \in Nat
    BY <1>2 DEF Strong, IInv, TypeOK, OfMade, NoInstance, Instances
  <2>2. mistagged' = mistagged \cup Cause(t, k) /\ UNCHANGED <<tangled, global>>
    BY <1>2 DEF Captured, setup
  <2>3. Cause(t, k) \in SUBSET {"alone", "beside", "elsewhere"}
    BY DEF Cause
  <2>4. ASSUME "elsewhere" \in Cause(t, k) PROVE global > 1
    <3>1. PICK n \in DOMAIN stack[t] : stack[t][n].inst # k
      BY <2>4 DEF Cause
    <3>2. stack[t][n] \in Frames
      BY DEF Strong, IInv, TypeOK
    <3>3. stack[t][n].inst \in Instances
      BY <3>2 DEF Frames
    <3>4. stack[t][n].inst <= global
      BY DEF Strong, IInv, OfMade
    <3> QED BY <2>1, <3>1, <3>3, <3>4 DEF Instances
  <2>5. ASSUME "alone" \in Cause(t, k), ~tangled PROVE FALSE
    <3>1. /\ ctx[k] # OwnChain(t) /\ \A n \in DOMAIN stack[t] : stack[t][n].inst = k
          /\ OpenOn(k) \ {t} = {}
      BY <2>5, Zenon DEF Cause
    <3>2. Layered(stack[t], k, ctx[k])
      BY <2>1, <2>5, <3>1, LayeredAlone DEF Strong
    <3>3. stack[t] \in Seq(Frames) /\ DOMAIN stack[t] = 1..Len(stack[t])
      BY DEF Strong, IInv, TypeOK
    <3>4. {n \in DOMAIN stack[t] : stack[t][n].chain # NoChain} = Naming(stack[t], k, Len(stack[t]))
      BY <3>1, <3>3 DEF Naming
    <3>5. OwnChain(t) = Current(stack[t], k, Len(stack[t]))
      <4> DEFINE named == Naming(stack[t], k, Len(stack[t]))
      <4>1. CASE named = {}
        BY <3>4, <4>1 DEF OwnChain, Current
      <4>2. CASE named # {}
        <5> DEFINE last == CHOOSE n \in named : \A m \in named : m <= n
        <5>1. OwnChain(t) = stack[t][last].chain
          BY <3>4, <4>2, Zenon DEF OwnChain
        <5>2. Current(stack[t], k, Len(stack[t])) = stack[t][last].chain
          BY <4>2, Zenon DEF Current
        <5> QED BY <5>1, <5>2
      <4> QED BY <4>1, <4>2
    <3> QED BY <3>1, <3>2, <3>5 DEF Layered
  <2> QED BY <2>1, <2>2, <2>3, <2>4, <2>5 DEF Strong, ChainKept, IInv, TypeOK
<1> QED BY <1>1, <1>2

(* Steps that leave contexts, stacks and tangled alone leave Nested alone. *)
LEMMA StillNested ==
    ASSUME Nested, UNCHANGED <<ctx, stack, tangled>>
    PROVE  Nested'
<1>1. \A i : OpenOn(i)' = OpenOn(i)
  BY DEF OpenOn
<1>2. \A i \in Instances : NestedOn(i) => NestedOn(i)'
  BY <1>1, Zenon DEF NestedOn
<1> QED BY <1>2, Zenon DEF Nested, NestedOn, Layered

LEMMA Steps == Strong /\ [Next]_vars => Strong'
<1> SUFFICES ASSUME Strong, [Next]_vars PROVE Strong'
  OBVIOUS
<1> USE DEF Strong, IInv
<1>1. CASE InitSdk
  <2>1. Nested'
    BY <1>1, StillNested DEF InitSdk, tasks, ghosts
  <2>2. global' \in Instances /\ global' > global /\ global' \in Nat /\ global \in Nat
    BY <1>1 DEF InitSdk, TypeOK, Instances, NoInstance
  <2>3. wrapped' \in [Slots -> Instances \cup {NoInstance}]
        /\ \A s \in Slots : wrapped'[s] = wrapped[s] \/ wrapped'[s] = global'
    BY <1>1, <2>2 DEF InitSdk, Patched, Wrap, TypeOK, Slots
  <2>4. UNCHANGED <<same, made, ctx, stack, pc, via, tangled, mistagged>>
    BY <1>1 DEF InitSdk, tasks, ghosts
  <2>5. TypeOK'
    BY <2>2, <2>3, <2>4 DEF TypeOK
  <2>6. ASSUME NEW s \in Slots PROVE wrapped'[s] <= global'
    <3>1. wrapped[s] \in Nat /\ wrapped[s] <= global
      BY DEF OfMade, TypeOK, Instances, NoInstance
    <3> QED BY <2>2, <2>3, <3>1
  <2>7. \A k \in made' : k <= global'
    BY <2>2, <2>4, <2>5 DEF OfMade, TypeOK, Instances, NoInstance
  <2>8. \A t \in Tasks : via'[t] <= global'
    BY <2>2, <2>4, <2>5 DEF OfMade, TypeOK, Instances, NoInstance
  <2>9. ASSUME NEW t \in Tasks, NEW n \in DOMAIN stack[t] PROVE stack[t][n].inst <= global'
    <3>1. stack[t][n] \in Frames
      BY DEF TypeOK
    <3>2. stack[t][n].inst \in Nat
      BY <3>1 DEF Frames, Instances
    <3> QED BY <2>2, <3>2 DEF OfMade
  <2>10. OfMade'
    BY <2>4, <2>6, <2>7, <2>8, <2>9 DEF OfMade
  <2>11. ChainKept' /\ StillOpen'
    BY <2>2, <2>4 DEF ChainKept, StillOpen
  <2> QED BY <2>1, <2>5, <2>10, <2>11
<1>2. ASSUME NEW s \in Slots, MakeClient(s) PROVE Strong'
  <2>1. Nested'
    BY <1>2, StillNested DEF MakeClient, tasks, ghosts
  <2>2. TypeOK'
    BY <1>2 DEF MakeClient, tasks, ghosts, TypeOK
  <2>3. OfMade'
    BY <1>2 DEF MakeClient, tasks, ghosts, OfMade
  <2>4. ChainKept' /\ StillOpen'
    BY <1>2 DEF MakeClient, tasks, ghosts, ChainKept, StillOpen
  <2> QED BY <2>1, <2>2, <2>3, <2>4
<1>3. ASSUME NEW t \in Tasks, NEW c \in Chains, BeginChain(t, c) PROVE Strong'
  <2>1. c \in ChainOrNone /\ Open(t, global, c) /\ global # NoInstance /\ global \in Instances
    BY <1>3 DEF BeginChain, ChainOrNone, TypeOK
  <2>2. Nested'
    BY <2>1, OpenNests
  <2>3. UNCHANGED <<global, wrapped, same, made, pc, via, mistagged>>
    BY <1>3 DEF BeginChain, setup
  <2>4. TypeOK' /\ OfMade'
    BY <2>1, <2>3, OpenTyped DEF TypeOK, OfMade
  <2>5. ChainKept'
    BY <2>1, <2>3 DEF Open, ChainKept
  <2>6. StillOpen'
    BY <1>3, <2>3 DEF BeginChain, Open, StillOpen, TypeOK
  <2> QED BY <2>2, <2>4, <2>5, <2>6
<1>4. ASSUME NEW t \in Tasks, EndChain(t) PROVE Strong'
  <2>1. stack[t] # <<>> /\ Close(t)
        /\ UNCHANGED <<global, wrapped, same, made, pc, via, tangled, mistagged>>
    BY <1>4 DEF EndChain, setup, ghosts
  <2>2. Nested'
    BY <2>1, CloseNests
  <2>3. TypeOK' /\ OfMade'
    BY <2>1, CloseTyped DEF TypeOK, OfMade
  <2>4. ChainKept'
    BY <2>1 DEF ChainKept
  <2>5. StillOpen'
    BY <1>4, <2>1 DEF EndChain, Close, StillOpen, TypeOK
  <2> QED BY <2>2, <2>3, <2>4, <2>5
<1>5. ASSUME NEW t \in Tasks, NEW k \in Instances \cup {NoInstance}, CallProvider(t, k) PROVE Strong'
  <2>1. Nested'
    BY <1>5, StillNested DEF CallProvider, ghosts
  <2>2. TypeOK'
    BY <1>5 DEF CallProvider, setup, ghosts, TypeOK
  <2>3. OfMade'
    BY <1>5 DEF CallProvider, setup, ghosts, OfMade, TypeOK
  <2>4. ChainKept' /\ StillOpen'
    BY <1>5 DEF CallProvider, setup, ghosts, ChainKept, StillOpen, TypeOK
  <2> QED BY <2>1, <2>2, <2>3, <2>4
<1>6. ASSUME NEW t \in Tasks, Captured(t) PROVE Strong'
  <2>1. Nested'
    BY <1>6, StillNested DEF Captured
  <2>2. ChainKept' /\ mistagged' \in SUBSET {"alone", "beside", "elsewhere"}
    BY <1>6, CaptureKeeps
  <2>3. TypeOK'
    BY <1>6, <2>2 DEF Captured, setup, TypeOK
  <2>4. OfMade'
    BY <1>6 DEF Captured, setup, OfMade, TypeOK, NoInstance, Instances
  <2>5. StillOpen'
    BY <1>6 DEF Captured, StillOpen, TypeOK
  <2> QED BY <2>1, <2>2, <2>3, <2>4, <2>5
<1>7. ASSUME NEW t \in Tasks, NEW c \in Chains \cup {NoChain}, Track(t, c) PROVE Strong'
  <2>1. c \in ChainOrNone /\ Open(t, global, c) /\ global # NoInstance /\ global \in Instances
    BY <1>7 DEF Track, ChainOrNone, TypeOK
  <2>2. Nested'
    BY <2>1, OpenNests
  <2>3. UNCHANGED <<global, wrapped, same, made, via, mistagged>> /\ pc' = [pc EXCEPT ![t] = "track"]
    BY <1>7 DEF Track, setup
  <2>4. TypeOK' /\ OfMade'
    BY <2>1, <2>3, OpenTyped DEF TypeOK, OfMade
  <2>5. ChainKept'
    BY <2>1, <2>3 DEF Open, ChainKept
  <2>6. StillOpen'
    BY <2>1, <2>3 DEF Open, StillOpen, TypeOK
  <2> QED BY <2>2, <2>4, <2>5, <2>6
<1>8. ASSUME NEW t \in Tasks, Tracked(t) PROVE Strong'
  <2>1. Close(t) /\ pc' = [pc EXCEPT ![t] = "run"]
        /\ UNCHANGED <<global, wrapped, same, made, via, tangled, mistagged>>
    BY <1>8 DEF Tracked, setup, ghosts
  <2>2. stack[t] # <<>>
    BY <1>8 DEF Tracked, StillOpen
  <2>3. Nested'
    BY <2>1, <2>2, CloseNests
  <2>4. TypeOK' /\ OfMade'
    BY <2>1, <2>2, CloseTyped DEF TypeOK, OfMade
  <2>5. ChainKept'
    BY <2>1 DEF ChainKept
  <2>6. StillOpen'
    BY <2>1 DEF Close, StillOpen, TypeOK
  <2> QED BY <2>3, <2>4, <2>5, <2>6
<1>9. CASE UNCHANGED vars
  <2>1. Nested'
    BY <1>9, StillNested DEF vars, tasks, ghosts
  <2>2. TypeOK' /\ OfMade' /\ ChainKept' /\ StillOpen'
    BY <1>9 DEF vars, setup, tasks, ghosts, TypeOK, OfMade, ChainKept, StillOpen
  <2> QED BY <2>1, <2>2
<1> QED BY <1>1, <1>2, <1>3, <1>4, <1>5, <1>6, <1>7, <1>8, <1>9 DEF Next, TaskStep

-----------------------------------------------------------------------------
(***************************************************************************)
(* Theorems.                                                               *)
(***************************************************************************)

(* Types, the instances there are, and the nesting of calls.               *)
THEOREM Invariant == Spec => []IInv
<1>1. Strong => IInv
  BY DEF Strong
<1> QED BY Starts, Steps, <1>1, PTL DEF Spec

(* A call alone on its instance is recorded with the chain its own code is *)
(* inside of, and another instance takes part only after a second init     *)
(* (sendToAPI, chain, trackCall).                                          *)
THEOREM KeepsChains == Spec => []ChainKept
<1>1. Strong => ChainKept
  BY DEF Strong
<1> QED BY Starts, Steps, <1>1, PTL DEF Spec

(* The last chain to end leaves nothing behind, whatever chains and tracked *)
(* calls were inside of it and however they ended (the finally blocks).    *)
THEOREM LeavesNothing == Spec => []ContextComesBack
<1>1. IInv => ContextComesBack
  BY DEF IInv, Nested, ContextComesBack
<1> QED BY Invariant, <1>1, PTL
=============================================================================
