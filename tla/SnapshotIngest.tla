---------------------------- MODULE SnapshotIngest ----------------------------
(***************************************************************************)
(* How captured calls become snapshots.  What the SDK posts goes through a *)
(* queue to a worker process; what the proxy and the API capture goes      *)
(* through a stream that every web process empties in batches.  Both check *)
(* the plan's limit before they insert.  When Redis refuses an entry, the  *)
(* request that brought it stores it itself.                               *)
(***************************************************************************)
EXTENDS Naturals, Sequences, FiniteSets, SequencesExt, FiniteSetsExt

CONSTANTS Posted,     \* the calls the SDK posts
          Captured,   \* the calls the proxy and the API capture
          Malformed,  \* those of them whose entry cannot be parsed
          Workers,    \* the worker processes
          Handlers,   \* the requests that may store what Redis refused
          Processes,  \* the web processes
          Batch,      \* the entries a process reads at a time
          Caps,       \* the snapshots a plan may allow
          MaxOdd,     \* how many failures and crashes there are
          None

VARIABLES mem,   \* the memory of processes: gone when they stop
          red,   \* Redis
          db,    \* the database
          odd    \* the failures and crashes to come

vars == <<mem, red, db, odd>>

Calls == Posted \cup Captured
Good == Calls \ Malformed
Writers == Workers \cup Handlers

Init ==
    /\ mem = [hand |-> [w \in Writers |-> None], batch |-> [p \in Processes |-> None]]
    /\ red = [queue |-> <<>>, dead |-> {}, stream |-> <<>>]
    /\ \E cap \in Caps : db = [cap |-> cap, accepted |-> {}, rows |-> [c \in Good |-> 0], refused |-> {}]
    /\ odd = MaxOdd

Fault == odd > 0 /\ odd' = odd - 1

(* The snapshots that count for the limit: the rows of each call, numbered. *)
Snapshots == UNION {{c} \X (1..db.rows[c]) : c \in Good}

Stored == Cardinality(Snapshots)

\* Slip: the entries before this one in the batch do not count
RoomForOne(amount) == Stored + 1 <= db.cap

Room(amount) == Stored + amount <= db.cap

-----------------------------------------------------------------------------
Accepted(c) == [db EXCEPT !.accepted = @ \cup {c}]

Post(c) ==
    /\ c \in Posted \ db.accepted
    /\ db' = Accepted(c)
    /\ red' = [red EXCEPT !.queue = Append(@, c)]
    /\ UNCHANGED <<mem, odd>>

Capture(c) ==
    /\ c \in Captured \ db.accepted
    /\ db' = Accepted(c)
    /\ red' = [red EXCEPT !.stream = Append(@, c)]
    /\ UNCHANGED <<mem, odd>>

(* Redis refuses the entry: the request goes on to store it. *)
TakeOver(h, c) ==
    /\ Fault /\ c \in Good \ db.accepted /\ h \in Handlers /\ mem.hand[h] = None
    /\ db' = Accepted(c)
    /\ mem' = [mem EXCEPT !.hand[h] = [call |-> c, allowed |-> None]]
    /\ UNCHANGED red

-----------------------------------------------------------------------------
(* One call at a time: taken off the queue, checked, stored.               *)
Pop(w) ==
    /\ w \in Workers /\ mem.hand[w] = None /\ red.queue # <<>>
    /\ mem' = [mem EXCEPT !.hand[w] = [call |-> Head(red.queue), allowed |-> None]]
    /\ red' = [red EXCEPT !.queue = Tail(@)]
    /\ UNCHANGED <<db, odd>>

Check(w) ==
    /\ mem.hand[w] # None /\ mem.hand[w].allowed = None
    /\ mem' = [mem EXCEPT !.hand[w].allowed = Room(1)]
    /\ UNCHANGED <<red, db, odd>>

Persist(w) ==
    /\ mem.hand[w] # None /\ mem.hand[w].allowed # None
    /\ LET c == mem.hand[w].call
       IN db' = IF mem.hand[w].allowed THEN [db EXCEPT !.rows[c] = @ + 1] ELSE [db EXCEPT !.refused = @ \cup {c}]
    /\ mem' = [mem EXCEPT !.hand[w] = None]
    /\ UNCHANGED <<red, odd>>

(* A worker keeps what it could not store; a request forgets it. *)
Buried(w) == IF w \in Workers THEN [red EXCEPT !.dead = @ \cup {mem.hand[w].call}] ELSE red

PersistFails(w) ==
    /\ Fault /\ mem.hand[w] # None
    /\ red' = Buried(w)
    /\ mem' = [mem EXCEPT !.hand[w] = None]
    /\ UNCHANGED db

(* The process of a worker or of a request stops. *)
Stops(w) ==
    /\ Fault /\ mem.hand[w] # None
    /\ mem' = [mem EXCEPT !.hand[w] = None]
    /\ UNCHANGED <<red, db>>

-----------------------------------------------------------------------------
(* A batch: read, checked, stored in one transaction, taken off the stream *)
(* entry by entry.  A batch without a good entry is left where it is.      *)
Read(p) ==
    /\ mem.batch[p] = None /\ red.stream # <<>>
    /\ LET entries == SubSeq(red.stream, 1, IF Len(red.stream) < Batch THEN Len(red.stream) ELSE Batch)
       IN /\ ToSet(entries) \cap Good # {}
          /\ mem' = [mem EXCEPT !.batch[p] = [step |-> "read", entries |-> entries, take |-> {}]]
    /\ UNCHANGED <<red, db, odd>>

GoodAt(b) == {i \in DOMAIN b.entries : b.entries[i] \in Good}

(* Each entry is checked against what is stored and the ones before it. *)
Taken(b) == {b.entries[i] : i \in {j \in GoodAt(b) : Room(Cardinality({k \in GoodAt(b) : k <= j}))}}

CheckBatch(p) ==
    /\ mem.batch[p] # None /\ mem.batch[p].step = "read"
    /\ LET b == mem.batch[p]
       IN mem' = [mem EXCEPT !.batch[p] = [b EXCEPT !.step = "checked", !.take = Taken(b)]]
    /\ UNCHANGED <<red, db, odd>>

Commit(p) ==
    /\ mem.batch[p] # None /\ mem.batch[p].step = "checked"
    /\ LET b == mem.batch[p]
       IN db' = [db EXCEPT !.rows = [c \in Good |-> IF c \in b.take THEN db.rows[c] + 1 ELSE db.rows[c]],
                           !.refused = @ \cup ((ToSet(b.entries) \cap Good) \ b.take)]
    /\ mem' = [mem EXCEPT !.batch[p].step = "stored"]
    /\ UNCHANGED <<red, odd>>

(* A row that fails is skipped; a transaction that fails is rolled back    *)
(* whole.  Either way the entries are deleted.                             *)
CommitFails(p) ==
    /\ Fault /\ mem.batch[p] # None /\ mem.batch[p].step = "checked"
    /\ LET b == mem.batch[p]
       IN \E kept \in {{}} \cup {b.take \ {c} : c \in b.take} :
            db' = [db EXCEPT !.rows = [c \in Good |-> IF c \in kept THEN db.rows[c] + 1 ELSE db.rows[c]]]
    /\ mem' = [mem EXCEPT !.batch[p].step = "stored"]
    /\ UNCHANGED red

\* Slip: the oldest entry is deleted, whichever was read
WithoutOldest(stream, c) == IF stream = <<>> THEN stream ELSE Tail(stream)

\* Slip: nothing is deleted
Untouched(stream, c) == stream

Without(stream, c) == RemoveFirst(stream, c)

Delete(p) ==
    /\ mem.batch[p] # None /\ mem.batch[p].step = "stored"
    /\ LET rest == Tail(mem.batch[p].entries)
       IN /\ red' = [red EXCEPT !.stream = Without(@, Head(mem.batch[p].entries))]
          /\ mem' = IF rest = <<>> THEN [mem EXCEPT !.batch[p] = None] ELSE [mem EXCEPT !.batch[p].entries = rest]
    /\ UNCHANGED <<db, odd>>

Restarts(p) ==
    /\ Fault /\ mem.batch[p] # None
    /\ mem' = [mem EXCEPT !.batch[p] = None]
    /\ UNCHANGED <<red, db>>

-----------------------------------------------------------------------------
Empties(p) == Read(p) \/ CheckBatch(p) \/ Commit(p) \/ Delete(p)

Serves(w) == Pop(w) \/ Check(w) \/ Persist(w)

Next ==
    \/ \E c \in Calls : Post(c) \/ Capture(c)
    \/ \E h \in Handlers, c \in Calls : TakeOver(h, c)
    \/ \E w \in Writers : Serves(w) \/ PersistFails(w) \/ Stops(w)
    \/ \E p \in Processes : Empties(p) \/ CommitFails(p) \/ Restarts(p)

Spec == Init /\ [][Next]_vars

-----------------------------------------------------------------------------
Hands == [call : Good, allowed : BOOLEAN \cup {None}]

Batches == [step : {"read", "checked", "stored"}, entries : Seq(Captured), take : SUBSET Good]

TypeOK ==
    /\ mem \in [hand : [Writers -> Hands \cup {None}], batch : [Processes -> Batches \cup {None}]]
    /\ red \in [queue : Seq(Posted), dead : SUBSET Posted, stream : Seq(Captured)]
    /\ db \in [cap : Caps, accepted : SUBSET Calls, rows : [Good -> Nat], refused : SUBSET Good]
    /\ odd \in 0..MaxOdd

Held(c) ==
    \/ c \in ToSet(red.queue) \cup ToSet(red.stream) \cup red.dead \cup db.refused
    \/ db.rows[c] > 0
    \/ \E w \in Writers : mem.hand[w] # None /\ mem.hand[w].call = c

Lost == {c \in db.accepted \cap Good : ~Held(c)}

(* An accepted call is lost only by a failure or a crash, and one of them  *)
(* loses at most a batch.                                                  *)
LostByFault == Cardinality(Lost) <= (MaxOdd - odd) * Batch

(* A posted call is stored once at most, crashes or not; a captured one    *)
(* once by every process, and once more for every crash.                   *)
Repeats ==
    /\ \A c \in Posted : db.rows[c] <= 1
    /\ \A c \in Captured \cap Good : db.rows[c] <= Cardinality(Processes) + (MaxOdd - odd)

(* The limit is passed by no more than the other writers had been allowed  *)
(* when the last one that saw room for its entries committed them.         *)
WithinLimit ==
    Stored <= db.cap + (Cardinality(Processes) + Cardinality(Writers) - 1) * (IF Batch < db.cap THEN Batch ELSE db.cap)

Waits(c) == c \in ToSet(red.queue) \cup ToSet(red.stream)

-----------------------------------------------------------------------------
(* The strengthening the proof needs.  A process that has read a batch has *)
(* at most Batch entries of it left, and takes what it found room for.     *)
Most == IF Batch < db.cap THEN Batch ELSE db.cap

Takes(p) == IF mem.batch[p] # None /\ mem.batch[p].step = "checked" THEN mem.batch[p].take ELSE {}

Brief ==
    \A p \in Processes : mem.batch[p] # None =>
        /\ Len(mem.batch[p].entries) \in 1..Batch
        /\ Takes(p) \subseteq ToSet(mem.batch[p].entries) /\ Cardinality(Takes(p)) <= Most

(* A call is accepted before it is anywhere, a worker's came from the      *)
(* queue, and each is there once: in one place of the queue, in one hand,  *)
(* or in one place of the stream and the batches that were read from it.   *)
Seen(p) == IF mem.batch[p] = None THEN {} ELSE ToSet(mem.batch[p].entries)

Holds(w, c) == mem.hand[w] # None /\ mem.hand[w].call = c

OnlyAccepted ==
    /\ ToSet(red.queue) \cup ToSet(red.stream) \cup red.dead \subseteq db.accepted
    /\ \A p \in Processes : Seen(p) \subseteq db.accepted
    /\ \A c \in Good : db.rows[c] > 0 \/ (\E w \in Writers : Holds(w, c)) => c \in db.accepted
    /\ \A w \in Workers, c \in Good : Holds(w, c) => c \in Posted

OneEach ==
    /\ IsInjective(red.queue) /\ IsInjective(red.stream)
    /\ \A c \in Posted : db.rows[c] <= 1
    /\ \A c \in ToSet(red.queue) : db.rows[c] = 0
    /\ \A v, w \in Writers, c \in Good : Holds(v, c) /\ Holds(w, c) => v = w
    /\ \A w \in Writers, c \in Good : Holds(w, c) =>
         /\ db.rows[c] = 0 /\ c \notin ToSet(red.queue) \cup ToSet(red.stream)
         /\ \A p \in Processes : c \notin Seen(p)

(* Who may store a call of the stream yet, without a crash.                *)
Future(c) ==
    {p \in Processes : IF c \in Seen(p) THEN mem.batch[p].step # "stored" ELSE c \in ToSet(red.stream)}

InHand(c) == IF \E w \in Writers : Holds(w, c) THEN 1 ELSE 0

Copies ==
    \A c \in Captured \cap Good :
        db.rows[c] + Cardinality(Future(c)) + InHand(c) <= Cardinality(Processes) + (MaxOdd - odd)

(* What is lost already, and what is only in the stream and will be taken  *)
(* off it.                                                                 *)
Kept(c) == c \in ToSet(red.queue) \cup red.dead \cup db.refused \/ db.rows[c] > 0 \/ \E w \in Writers : Holds(w, c)

Deleting(c) == \E p \in Processes : c \in Seen(p) /\ mem.batch[p].step = "stored"

Doomed == {c \in db.accepted \cap Good : ~Kept(c) /\ (c \in ToSet(red.stream) => Deleting(c))}

FewDoomed == IsFiniteSet(Doomed) /\ Cardinality(Doomed) <= (MaxOdd - odd) * Batch

(* What the others had been allowed to store is added to what is stored.   *)
Granted == {w \in Writers : mem.hand[w] # None /\ mem.hand[w].allowed = TRUE}

Grants == UNION {{p} \X Takes(p) : p \in Processes}

Promised ==
    /\ IsFiniteSet(Snapshots) /\ (Granted # {} => Most > 0)
    /\ Stored + Cardinality(Grants) + Cardinality(Granted)
          <= db.cap + (Cardinality(Processes) + Cardinality(Writers) - 1) * Most

IInv == TypeOK /\ Brief /\ OnlyAccepted /\ OneEach /\ Copies /\ FewDoomed /\ Promised
=============================================================================
