------------------------------ MODULE NodeSdk ------------------------------
(***************************************************************************)
(* The Node SDK inside an application: init patches the exports of the     *)
(* openai package and makes the global instance, clients built from a      *)
(* patched export capture their calls, and chain and trackCall say to      *)
(* which chain a call belongs.                                             *)
(*                                                                         *)
(* Each instance keeps the current chain in one Map that every task of the *)
(* application shares; chain and trackCall save it, set it, wait, and put  *)
(* back what they saved.  A step is what Node runs between two awaits.     *)
(* agent_name is kept and restored as chain_id is, and left out.  Whether a *)
(* call is posted once it is recorded is up to the breaker, SdkBreaker.    *)
(***************************************************************************)
EXTENDS Naturals, Sequences, FiniteSets

CONSTANTS Tasks,        \* concurrent tasks of the application
          Chains, NoChain,
          MaxInits,     \* calls to init, a bound of the model
          MaxOpen       \* chains and trackCalls open at once, a bound of the model

ASSUME NodeSdkAssumption ==
  /\ NoChain \notin Chains
  /\ MaxInits \in Nat \ {0} /\ MaxOpen \in Nat

Instances == 1..MaxInits
NoInstance == 0
Slots == {"default", "named"}

VARIABLES
  global,     \* globalInstance
  wrapped,    \* the instance whose wrapper each export of openai is
  same,       \* both exports are one and the same class
  made,       \* the instances that clients of the application report to
  ctx,        \* the chain_id in the context of each instance
  stack,      \* the chain and trackCall calls each task is inside of
  pc, via,    \* what each task waits for, and the client it called through
  tangled,    \* ghost: two tasks were inside chains of one instance at once
  mistagged   \* ghost: how calls came to be recorded with a chain not theirs

setup == <<global, wrapped, same, made>>
tasks == <<stack, pc, via>>
ghosts == <<tangled, mistagged>>
vars == <<setup, ctx, tasks, ghosts>>

Init ==
  /\ global = NoInstance
  /\ wrapped = [s \in Slots |-> NoInstance]
  /\ same \in BOOLEAN
  /\ made = {}
  /\ ctx = [i \in Instances |-> NoChain]
  /\ stack = [t \in Tasks |-> <<>>]
  /\ pc = [t \in Tasks |-> "run"]
  /\ via = [t \in Tasks |-> NoInstance]
  /\ tangled = FALSE
  /\ mistagged = {}

(***************************************************************************)
(* Patching.                                                               *)
(***************************************************************************)

\* wrapOpenAIConstructor leaves an export alone that is wrapped already.
Wrap(w, i) == IF w # NoInstance THEN w ELSE i

\* patchOpenAI by instance i.  The named export is skipped if it was the very
\* value of the default export before that one was replaced.
Patched(i) ==
  [s \in Slots |-> IF s = "named" /\ same /\ wrapped["named"] = wrapped["default"]
                   THEN wrapped[s] ELSE Wrap(wrapped[s], i)]

\* init of the module: another instance becomes the global one.
InitSdk == /\ global < MaxInits
           /\ global' = global + 1
           /\ wrapped' = Patched(global + 1)
           /\ UNCHANGED <<same, made, ctx, tasks, ghosts>>

\* new OpenAI(): the client reports to the instance of the wrapper, if any.
MakeClient(s) == /\ wrapped[s] \notin made
                 /\ made' = made \cup {wrapped[s]}
                 /\ UNCHANGED <<global, wrapped, same, ctx, tasks, ghosts>>

(***************************************************************************)
(* Chains.                                                                 *)
(***************************************************************************)

\* Slip: with nothing to put back, chain leaves the context as it is.
LeaveInner(f) == IF f.old # NoChain THEN f.old ELSE ctx[f.inst]

\* Slip: what chain puts back is nothing, not what was there before.
ForgetOuter(f) == NoChain

\* What the finally block of chain or trackCall leaves in the context.  A
\* trackCall without a chain puts back what it found, or leaves what is there.
Restored(f) == IF f.old # NoChain THEN f.old
               ELSE IF f.chain = NoChain THEN ctx[f.inst] ELSE NoChain

OpenOn(i) == {t \in Tasks : \E n \in DOMAIN stack[t] : stack[t][n].inst = i}

Open(t, i, c) ==
  /\ Cardinality({p \in Tasks \X (1..MaxOpen) : p[2] \in DOMAIN stack[p[1]]}) < MaxOpen
  /\ stack' = [stack EXCEPT ![t] = Append(@, [inst |-> i, chain |-> c, old |-> ctx[i]])]
  /\ ctx' = IF c = NoChain THEN ctx ELSE [ctx EXCEPT ![i] = c]
  /\ tangled' = (tangled \/ OpenOn(i) \ {t} # {})

Inner(t) == stack[t][Len(stack[t])]

Close(t) ==
  /\ ctx' = [ctx EXCEPT ![Inner(t).inst] = Restored(Inner(t))]
  /\ stack' = [stack EXCEPT ![t] = SubSeq(@, 1, Len(@) - 1)]

\* chain: set the context and run the callback.
BeginChain(t, c) == /\ pc[t] = "run" /\ global # NoInstance
                    /\ Open(t, global, c)
                    /\ UNCHANGED <<setup, pc, via, mistagged>>

\* The callback has returned or thrown.
EndChain(t) == /\ pc[t] = "run" /\ stack[t] # <<>>
               /\ Close(t)
               /\ UNCHANGED <<setup, pc, via, ghosts>>

(***************************************************************************)
(* Calls.                                                                  *)
(***************************************************************************)

\* A call to the provider, through a client that reports to instance k.
CallProvider(t, k) == /\ pc[t] = "run" /\ k \in made
                      /\ pc' = [pc EXCEPT ![t] = "provider"]
                      /\ via' = [via EXCEPT ![t] = k]
                      /\ UNCHANGED <<setup, ctx, stack, ghosts>>

\* The chain the code of task t is inside of: that of its innermost chain.
OwnChain(t) ==
  LET named == {n \in DOMAIN stack[t] : stack[t][n].chain # NoChain}
  IN IF named = {} THEN NoChain
     ELSE stack[t][CHOOSE n \in named : \A m \in named : m <= n].chain

\* How a call of task t recorded by instance k comes to a chain not its own.
\* A call outside every chain, beside one of another task, is not counted.
Cause(t, k) ==
  IF ctx[k] = OwnChain(t) THEN {}
  ELSE IF \E n \in DOMAIN stack[t] : stack[t][n].inst # k THEN {"elsewhere"}
  ELSE IF OpenOn(k) \ {t} = {} THEN {"alone"}
  ELSE IF OwnChain(t) = NoChain THEN {} ELSE {"beside"}

\* captureCall, with the part of sendToAPI that reads the context: the provider
\* has answered or failed, the call is recorded without waiting for it, and the
\* answer goes to the task.
Captured(t) ==
  /\ pc[t] = "provider"
  /\ pc' = [pc EXCEPT ![t] = "run"]
  /\ mistagged' = IF via[t] = NoInstance THEN mistagged
                  ELSE mistagged \cup Cause(t, via[t])
  /\ via' = [via EXCEPT ![t] = NoInstance]
  /\ UNCHANGED <<setup, ctx, stack, tangled>>

\* trackCall: set the context, record, and wait for the answer.  Without init
\* it goes through an instance of its own, and is left out.
Track(t, c) ==
  /\ pc[t] = "run" /\ global # NoInstance
  /\ Open(t, global, c)
  /\ pc' = [pc EXCEPT ![t] = "track"]
  /\ UNCHANGED <<setup, via, mistagged>>

\* Its post has ended, or was bypassed.
Tracked(t) == /\ pc[t] = "track"
              /\ Close(t)
              /\ pc' = [pc EXCEPT ![t] = "run"]
              /\ UNCHANGED <<setup, via, ghosts>>

TaskStep(t) == \/ \E c \in Chains : BeginChain(t, c)
               \/ EndChain(t)
               \/ \E k \in Instances \cup {NoInstance} : CallProvider(t, k)
               \/ Captured(t)
               \/ \E c \in Chains \cup {NoChain} : Track(t, c)
               \/ Tracked(t)

Next == \/ InitSdk \/ \E s \in Slots : MakeClient(s)
        \/ \E t \in Tasks : TaskStep(t)

Spec == Init /\ [][Next]_vars

(***************************************************************************)
(* Properties.                                                             *)
(***************************************************************************)

ChainOrNone == Chains \cup {NoChain}
Frames == [inst : Instances, chain : ChainOrNone, old : ChainOrNone]

\* The type invariant.
TypeOK ==
  /\ global \in Instances \cup {NoInstance}
  /\ wrapped \in [Slots -> Instances \cup {NoInstance}]
  /\ same \in BOOLEAN
  /\ made \in SUBSET (Instances \cup {NoInstance})
  /\ ctx \in [Instances -> ChainOrNone]
  /\ stack \in [Tasks -> Seq(Frames)]
  /\ pc \in [Tasks -> {"run", "provider", "track"}]
  /\ via \in [Tasks -> Instances \cup {NoInstance}]
  /\ tangled \in BOOLEAN
  /\ mistagged \in SUBSET {"alone", "beside", "elsewhere"}

\* No wrapper, client, open chain or call belongs to an instance init has not
\* made yet (globalInstance).
OfMade ==
  /\ \A s \in Slots : wrapped[s] <= global
  /\ \A k \in made : k <= global
  /\ \A t \in Tasks : via[t] <= global
  /\ \A t \in Tasks : \A n \in DOMAIN stack[t] : stack[t][n].inst <= global

\* The chain that is current on an instance while the first n calls of a stack
\* are open: the innermost that is named.
Naming(calls, i, n) == {m \in 1..n : calls[m].inst = i /\ calls[m].chain # NoChain}

Current(calls, i, n) ==
  LET named == Naming(calls, i, n)
  IN IF named = {} THEN NoChain ELSE calls[CHOOSE m \in named : \A l \in named : l <= m].chain

\* As long as the chains of one instance only nest, every open call has saved
\* the chain around it, and the context is the innermost of the one task that
\* has any open: errors of callbacks and calls that name no chain included.
Nested ==
  ~tangled =>
    \A i \in Instances :
      /\ \A t, u \in OpenOn(i) : t = u
      /\ OpenOn(i) = {} => ctx[i] = NoChain
      /\ \A t \in OpenOn(i) :
           /\ ctx[i] = Current(stack[t], i, Len(stack[t]))
           /\ \A n \in DOMAIN stack[t] :
                stack[t][n].inst = i => stack[t][n].old = Current(stack[t], i, n - 1)

\* The inductive invariant.
IInv == TypeOK /\ OfMade /\ Nested

\* A call is recorded with a chain that is not its own only beside an open
\* chain of another task, after chains of two tasks have overlapped, or when
\* init was called again (sendToAPI, chain, trackCall, init).
ChainKept ==
  /\ "alone" \in mistagged => tangled
  /\ "elsewhere" \in mistagged => global > 1

\* When no chain is open any more nothing is left of the ones there were,
\* unless chains of two tasks have overlapped (the finally blocks).
ContextComesBack ==
  \A i \in Instances : OpenOn(i) = {} /\ ~tangled => ctx[i] = NoChain
=============================================================================
