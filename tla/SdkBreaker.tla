----------------------------- MODULE SdkBreaker -----------------------------
(***************************************************************************)
(* The circuit breaker in front of the ingest API in the Node SDK: one     *)
(* instance of PluvianAI, the calls it posts without waiting for them, and *)
(* its health check.                                                       *)
(*                                                                         *)
(* Node runs one callback at a time, so what happens between two awaits is *)
(* one step.  Posts end in any order and long after the circuit has        *)
(* changed, and each of them moves the same counter.                       *)
(***************************************************************************)
EXTENDS Naturals

CONSTANTS Threshold,   \* circuitBreaker.failureThreshold
          MaxPosts     \* posts in flight at once, a bound of the model

VARIABLES
  circuit,   \* circuitState
  failures,  \* circuitFailures; above Threshold only that it is reached counts
  ripe,      \* recoveryTimeSeconds have passed since circuitOpenedAt
  posts,     \* posts in flight
  up         \* the service answers

bvars == <<circuit, failures, ripe, posts, up>>

Init ==
  /\ circuit = "closed" /\ failures = 0 /\ ripe = FALSE
  /\ posts = 0
  /\ up \in BOOLEAN

\* Slip: a call that finds the circuit half open leaves the old count.
ProbeKeepingCount == circuit' = "half-open" /\ UNCHANGED failures

\* The first call after the recovery time makes the circuit half open.
Probe == circuit' = "half-open" /\ failures' = 0

\* checkCircuitBreaker: the call is posted.  Half open lets every call pass.
Pass == \/ circuit # "open" /\ UNCHANGED <<circuit, failures, ripe>>
        \/ circuit = "open" /\ ripe /\ Probe /\ UNCHANGED ripe

\* checkCircuitBreaker: the circuit is open, and the call is not recorded.
Bypass == circuit = "open" /\ ~ripe /\ UNCHANGED <<circuit, failures, ripe>>

OpensAt(n) == n >= Threshold

\* recordCircuitFailure.  A failure while the circuit is open starts the
\* recovery time again.
RecordFailure ==
  LET n == failures + 1 IN
  /\ failures' = IF n > Threshold THEN Threshold ELSE n
  /\ IF OpensAt(n) THEN circuit' = "open" /\ ripe' = FALSE
                   ELSE UNCHANGED <<circuit, ripe>>

\* Slip: a success closes the circuit whatever its state.
CloseAlways == circuit' = "closed" /\ failures' = 0 /\ UNCHANGED ripe

\* Slip: a success clears the count but not the state.
ClearOnly == /\ failures' = IF circuit = "open" THEN failures ELSE 0
             /\ UNCHANGED <<circuit, ripe>>

\* resetCircuitBreaker.  A success while the circuit is open changes nothing.
Reset == /\ IF circuit = "open" THEN UNCHANGED <<circuit, failures>>
            ELSE circuit' = "closed" /\ failures' = 0
         /\ UNCHANGED ripe

\* What the answer to a post, or to a health check, does to the circuit.
Outcome == IF up THEN Reset ELSE RecordFailure

\* sendToAPI: posted, or bypassed.
Call == /\ posts < MaxPosts
        /\ \/ Pass /\ posts' = posts + 1
           \/ Bypass /\ UNCHANGED posts
        /\ UNCHANGED up

PostEnds == posts > 0 /\ posts' = posts - 1 /\ Outcome /\ UNCHANGED up

HealthCheck == Outcome /\ UNCHANGED <<posts, up>>

Ripen == /\ circuit = "open" /\ ~ripe /\ ripe' = TRUE
         /\ UNCHANGED <<circuit, failures, posts, up>>

ServiceChanges == up' = ~up /\ UNCHANGED <<circuit, failures, ripe, posts>>

Next == Call \/ PostEnds \/ HealthCheck \/ Ripen \/ ServiceChanges

Spec == Init /\ [][Next]_bvars

\* Posts have a timeout (proxyTimeout), and the health check is an interval.
FairSpec == Spec /\ WF_bvars(PostEnds) /\ WF_bvars(HealthCheck) /\ WF_bvars(Ripen)

(***************************************************************************)
(* Properties.                                                             *)
(***************************************************************************)

\* The type invariant.
TypeOK == /\ circuit \in {"closed", "open", "half-open"}
          /\ failures \in 0..Threshold
          /\ ripe \in BOOLEAN /\ up \in BOOLEAN
          /\ posts \in 0..MaxPosts

\* The inductive invariant: with its type, the circuit is open exactly when the failures counted since the last
\* success or probe have reached the threshold, in whatever order late answers
\* and health checks come (recordCircuitFailure, resetCircuitBreaker).
IInv == TypeOK /\ (circuit = "open" <=> failures = Threshold)

\* An open circuit closes only by way of half open: no late success and no
\* health check closes it before the recovery time (resetCircuitBreaker).
ClosesByProbe == [][circuit = "open" => circuit' # "closed"]_bvars

\* If the service is back for good and the application goes on calling, the
\* circuit closes for good.
Recovers == (<>[]up /\ []<><<Call>>_bvars) => <>[](circuit = "closed")
=============================================================================
