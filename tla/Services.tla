------------------------------- MODULE Services -------------------------------
(***************************************************************************)
(* The services that run apart from the jobs and from billing, and the     *)
(* breaker the SDK puts before the ingest of calls.  They share nothing    *)
(* but the processes that run them, so each module models one.  Those of   *)
(* the backend take turns on the same variables: what processes remember,  *)
(* what Redis or the clock holds, what is written or sent for good.        *)
(***************************************************************************)
EXTENDS Naturals, Sequences, FiniteSets

CONSTANTS Posted, Captured, Malformed, Workers, Handlers, Processes, Batch, Caps, MaxOdd,
          Threads, Cooldown, MaxTime,
          Sessions, Early, MaxStored,
          Days, Times, Clock, MaxPeriods,
          Threshold, MaxPosts,
          None

ASSUME ServicesAssumption ==
    /\ Malformed \subseteq Captured /\ Posted \cap Captured = {} /\ Workers \cap Handlers = {}
    /\ Cardinality(Malformed) < Batch  \* or a batch of them is never taken off
    /\ Early \subseteq Nat
    /\ Days \in Seq(Nat \ {0}) /\ Times \subseteq Nat /\ Clock \subseteq Nat /\ MaxPeriods \in Nat
    /\ IsFiniteSet(Threads) /\ Cooldown \in Nat \ {0} /\ MaxTime \in Nat
    /\ None \notin Nat /\ None \notin [start : Nat, end : Nat]
    /\ None \notin [kind : {"alert", "recovery"}, now : Nat \cup {None}]
    /\ Threshold \in Nat \ {0} /\ MaxPosts \in Nat \ {0}

VARIABLES at,   \* the service
          mem, red, db,
          odd,  \* the failures and crashes to come
          circuit, failures, ripe, posts, up

backend == <<mem, red, db, odd>>
breaker == <<circuit, failures, ripe, posts, up>>
vars == <<at, backend, breaker>>

Ingest == INSTANCE SnapshotIngest
Alerts == INSTANCE OpsAlerts WITH alerting <- mem, clock <- red, sent <- db
Ledger == INSTANCE UsageLedger WITH tx <- mem
Window == INSTANCE UsageWindow WITH query <- mem, window <- db
Breaker == INSTANCE SdkBreaker

ASSUME IngestAssumption ==
    /\ Batch \in Nat \ {0} /\ Caps \subseteq Nat /\ MaxOdd \in Nat
    /\ IsFiniteSet(Workers \cup Handlers) /\ IsFiniteSet(Processes)
    /\ None \notin BOOLEAN /\ None \notin Ingest!Hands /\ None \notin Ingest!Batches

NoBackend == mem = None /\ red = 0 /\ db = None /\ odd = 0
NoBreaker == circuit = "none" /\ failures = 0 /\ ripe = FALSE /\ posts = 0 /\ up = FALSE

Init ==
    \/ at = "ingest" /\ Ingest!Init /\ NoBreaker
    \/ at = "alerts" /\ Alerts!Init /\ odd = 0 /\ NoBreaker
    \/ at = "ledger" /\ Ledger!Init /\ red = 0 /\ odd = 0 /\ NoBreaker
    \/ at = "window" /\ Window!Init /\ red = 0 /\ odd = 0 /\ NoBreaker
    \/ at = "breaker" /\ Breaker!Init /\ NoBackend

Next ==
    /\ UNCHANGED at
    /\ \/ at = "ingest" /\ Ingest!Next /\ UNCHANGED breaker
       \/ at = "alerts" /\ Alerts!Next /\ UNCHANGED <<odd, breaker>>
       \/ at = "ledger" /\ Ledger!Next /\ UNCHANGED <<red, odd, breaker>>
       \/ at = "window" /\ Window!Next /\ UNCHANGED <<red, odd, breaker>>
       \/ at = "breaker" /\ Breaker!Next /\ UNCHANGED backend

Spec == Init /\ [][Next]_vars

During(service, A) == at = service /\ A /\ UNCHANGED at

(* Processes that stop are started again, and go on; posts have a timeout, *)
(* and the health check of the SDK is an interval.                         *)
FairSpec ==
    /\ Spec
    /\ \A w \in Workers \cup Handlers : WF_vars(During("ingest", Ingest!Serves(w) /\ UNCHANGED breaker))
    /\ \A p \in Processes : WF_vars(During("ingest", Ingest!Empties(p) /\ UNCHANGED breaker))
    /\ WF_vars(During("breaker", Breaker!PostEnds /\ UNCHANGED backend))
    /\ WF_vars(During("breaker", Breaker!HealthCheck /\ UNCHANGED backend))
    /\ WF_vars(During("breaker", Breaker!Ripen /\ UNCHANGED backend))

-----------------------------------------------------------------------------
(* The state of every service has its type; a call is in one place at a    *)
(* time, and what is doomed and what was granted stay within their bounds; *)
(* what a session of the ledger has read relates to what is committed; and *)
(* the breaker is open when the failures it counts have reached the        *)
(* threshold, and only then.                                               *)
TypeOK ==
    /\ at = "ingest" => Ingest!IInv
    /\ at = "alerts" => Alerts!TypeOK
    /\ at = "ledger" => Ledger!IInv
    /\ at = "breaker" => Breaker!IInv

(* What was answered with "accepted" is lost by failures and crashes only, *)
(* a batch by each at most; and no alert is missing that a recovery, or    *)
(* trouble that is still there, would need.  A ledger that was filled up   *)
(* counts every snapshot there is.                                         *)
Accounted ==
    /\ at = "ingest" => Ingest!LostByFault
    /\ at = "alerts" => Alerts!Paired
    /\ at = "ledger" => Ledger!CountsAll

(* A call is not stored again and again, the plan's limit is passed by     *)
(* what was in flight only, alerts are a cooldown apart, and usage is      *)
(* counted in windows that hold the present and leave no gap, twice only   *)
(* what was stored while the ledger was being filled up.                   *)
Bounded ==
    /\ at = "ingest" => Ingest!Repeats /\ Ingest!WithinLimit
    /\ at = "alerts" => Alerts!Spaced
    /\ at = "ledger" => Ledger!CountsOnce
    /\ at = "window" => Window!HoldsNow /\ Window!PaidHoldsNow

(* What waits in the queue or in the stream, and can be parsed, is taken   *)
(* off it.                                                                 *)
Waiting(c) == at = "ingest" /\ Ingest!Waits(c)

Drains == \A c \in (Posted \cup Captured) \ Malformed : Waiting(c) ~> ~Waiting(c)

(* An open circuit closes only by way of half open. *)
ClosesByProbe == Breaker!ClosesByProbe

(* If the service is back for good and the application goes on calling,    *)
(* the circuit closes for good.                                            *)
Recovers == Breaker!Recovers
===============================================================================
