---------------------------- MODULE AuthSession ----------------------------
(***************************************************************************)
(* The session of the console in one browser: tabs that share the cookies, *)
(* requests that meet an expired access token and renew the session (the   *)
(* response interceptor of apiClient), and the rotation of refresh tokens  *)
(* on the server.                                                          *)
(*                                                                         *)
(* An access token and a refresh token are issued together and share a     *)
(* number.  A request carries the cookies the browser has when it is sent. *)
(* Requests do not wait for one another: each that is denied renews the    *)
(* session itself.                                                         *)
(***************************************************************************)
EXTENDS Naturals, FiniteSets

CONSTANTS Tabs, Requests, TabOf,
          MaxSends,    \* requests ever sent, a bound of the model
          MaxOdd       \* lost answers, ended sessions, logouts and logins
                       \* together, a bound of the model

ASSUME AuthSessionAssumption ==
  /\ IsFiniteSet(Requests) /\ TabOf \in [Requests -> Tabs]
  /\ MaxSends \in Nat /\ MaxOdd \in Nat

Tokens == 1..(1 + MaxSends + MaxOdd)
NoToken == 0

VARIABLES
  issued,     \* how many tokens were issued
  family,     \* the login each token descends from
  revoked,    \* refresh tokens that were rotated
  expired,    \* access tokens whose time is over
  over,       \* refresh tokens whose time is over
  jar,        \* the cookies of the browser
  page,       \* what each tab shows: the console or the login page
  req,        \* the requests
  sends, odd,
  overlap,    \* ghost: two requests renewed the session at once
  forked,     \* ghost: two rotations read one token before either wrote
  orphaned,   \* ghost: a rotation whose answer did not reach the browser
  cleared,    \* ghost: the cookies were cleared once
  forced,     \* ghost: why tabs were sent to the login page
  out,        \* ghost: the user logged out, and has not logged in since
  flying      \* ghost: requests that were renewing the session at that time

server == <<issued, family, revoked, over>>
ghosts == <<overlap, forked, orphaned, cleared, forced, out, flying>>
vars == <<server, expired, jar, page, req, sends, odd, ghosts>>

Idle == [pc |-> "idle", tok |-> NoToken, retry |-> FALSE, dead |-> FALSE, why |-> "none"]

Renewing == {"asking", "rotating", "renewed"}

Init ==
  /\ issued = 1
  /\ family = [n \in Tokens |-> 1]
  /\ revoked = {} /\ expired = {} /\ over = {}
  /\ jar = 1
  /\ page = [t \in Tabs |-> "console"]
  /\ req = [r \in Requests |-> Idle]
  /\ sends = 0 /\ odd = 0
  /\ overlap = FALSE /\ forked = FALSE /\ orphaned = FALSE /\ cleared = FALSE
  /\ forced = {}
  /\ out = FALSE /\ flying = {}

Odd == odd < MaxOdd /\ odd' = odd + 1

Put(r, x) == req' = [req EXCEPT ![r] = x]

(***************************************************************************)
(* A request.                                                              *)
(***************************************************************************)

Send(r) == /\ req[r] = Idle /\ page[TabOf[r]] = "console" /\ sends < MaxSends
           /\ sends' = sends + 1
           /\ Put(r, [Idle EXCEPT !.pc = "sent", !.tok = jar])
           /\ UNCHANGED <<server, expired, jar, page, odd, ghosts>>

Accepted(n) == n # NoToken /\ n \notin expired

\* Slip: a request that was denied once is renewed again and again.
RenewAlways(r) == [req[r] EXCEPT !.pc = "denied"]

\* Slip: a request that was sent again is sent again and again.
SendAgain(r) == IF req[r].retry THEN req[r] ELSE [req[r] EXCEPT !.pc = "denied"]

\* A request denied for the first time renews the session; one that was sent
\* again is given back to its caller with the error.
Denied(r) == IF req[r].retry THEN Idle ELSE [req[r] EXCEPT !.pc = "denied"]

Serve(r) == /\ req[r].pc = "sent"
            /\ Put(r, IF Accepted(req[r].tok) THEN Idle ELSE Denied(r))
            /\ UNCHANGED <<server, expired, jar, page, sends, odd, ghosts>>

(***************************************************************************)
(* Renewing the session.                                                   *)
(***************************************************************************)

Others(r) == {q \in Requests \ {r} : req[q].pc \in Renewing}

\* The 401 arrives: POST /auth/refresh with the cookies of this moment.
Refresh(r) == /\ req[r].pc = "denied"
              /\ Put(r, [req[r] EXCEPT !.pc = "asking", !.tok = jar])
              /\ overlap' = (overlap \/ Others(r) # {})
              /\ UNCHANGED <<server, expired, jar, page, sends, odd, forked, orphaned, cleared,
                             forced, out, flying>>

Refuse(r, why) == Put(r, [req[r] EXCEPT !.pc = "refused", !.why = why])

\* rotate_refresh_token reads the token.
ReadToken(r) ==
  /\ req[r].pc = "asking"
  /\ LET n == req[r].tok IN
     \/ n = NoToken /\ Refuse(r, "no cookie") /\ UNCHANGED forked
     \/ n \in revoked /\ Refuse(r, "replaced") /\ UNCHANGED forked
     \/ n \in over \ revoked /\ Refuse(r, "over") /\ UNCHANGED forked
     \/ /\ n \in Tokens \ (revoked \cup over)
        /\ Put(r, [req[r] EXCEPT !.pc = "rotating"])
        /\ forked' = (forked \/ \E q \in Others(r) :
                                  req[q].pc = "rotating" /\ req[q].tok = n)
  /\ UNCHANGED <<server, expired, jar, page, sends, odd, overlap, orphaned, cleared, forced,
                 out, flying>>

\* Slip: the old token stays good.
RevokeNothing(n) == revoked

Revoke(n) == revoked \cup {n}

\* It revokes the token and stores a new one.
Rotate(r) ==
  /\ req[r].pc = "rotating"
  /\ issued' = issued + 1
  /\ family' = [family EXCEPT ![issued + 1] = family[req[r].tok]]
  /\ revoked' = Revoke(req[r].tok)
  /\ IF req[r].dead THEN Put(r, Idle) /\ orphaned' = TRUE
     ELSE /\ Put(r, [req[r] EXCEPT !.pc = "renewed", !.tok = issued + 1])
          /\ UNCHANGED orphaned
  /\ UNCHANGED <<over, expired, jar, page, sends, odd, overlap, forked, cleared, forced, out,
                 flying>>

\* Slip: the call is made without credentials, and its cookies are dropped.
KeepJar(n) == jar

\* The cookies of the answer.
SetCookies(n) == n

\* The answer: the request is sent again.
Renewed(r) == /\ req[r].pc = "renewed"
              /\ jar' = SetCookies(req[r].tok)
              /\ Put(r, [req[r] EXCEPT !.pc = "sent", !.retry = TRUE,
                                       !.tok = SetCookies(req[r].tok)])
              /\ UNCHANGED <<server, expired, page, sends, odd, ghosts>>

\* The call fails on its way: before the server has seen it, or after.
Lost(r) == /\ Odd
           /\ req[r].pc \in {"asking", "renewed"} /\ ~req[r].dead
           /\ orphaned' = (orphaned \/ req[r].pc = "renewed")
           /\ Refuse(r, "lost")
           /\ UNCHANGED <<server, expired, jar, page, sends, overlap, forked, cleared, forced,
                          out, flying>>

\* A refused refresh, or any failure of it: the cookies are to be deleted.
GiveUp(r) == /\ req[r].pc = "refused"
             /\ Put(r, IF req[r].dead THEN Idle ELSE [req[r] EXCEPT !.pc = "clearing"])
             /\ UNCHANGED <<server, expired, jar, page, sends, odd, ghosts>>

\* Slip: the page changes without a page load, and its requests go on.
GoOn(t) == req

\* A tab goes to the login page: its requests are aborted, though the server
\* goes on with a rotation it has begun.  The answer of one is not seen.
Left(t) ==
  [r \in Requests |->
     IF TabOf[r] # t THEN req[r]
     ELSE IF req[r].pc \in {"asking", "rotating"} THEN [req[r] EXCEPT !.dead = TRUE]
     ELSE Idle]

Unseen(t) == \E r \in Requests : TabOf[r] = t /\ req[r].pc = "renewed"

ToLogin(t) == /\ jar' = NoToken
              /\ page' = [page EXCEPT ![t] = "login"]
              /\ req' = Left(t)
              /\ cleared' = TRUE
              /\ orphaned' = (orphaned \/ Unseen(t))

Cleared(r) == /\ req[r].pc = "clearing"
              /\ ToLogin(TabOf[r])
              /\ forced' = forced \cup {req[r].why}
              /\ UNCHANGED <<server, expired, sends, odd, overlap, forked, out, flying>>

(***************************************************************************)
(* The user, and time.                                                     *)
(***************************************************************************)

\* Logging out deletes the cookies; no token is revoked.
Logout(t) == /\ Odd /\ page[t] = "console"
             /\ ToLogin(t)
             /\ out' = TRUE
             /\ flying' = {r \in Requests : TabOf[r] # t /\ req[r].pc \in Renewing}
             /\ UNCHANGED <<server, expired, sends, overlap, forked, forced>>

Login(t) == /\ Odd /\ page[t] = "login"
            /\ issued' = issued + 1
            /\ family' = [family EXCEPT ![issued + 1] = issued + 1]
            /\ jar' = issued + 1
            /\ page' = [page EXCEPT ![t] = "console"]
            /\ out' = FALSE /\ flying' = {}
            /\ UNCHANGED <<revoked, over, expired, req, sends, overlap, forked, orphaned,
                           cleared, forced>>

AccessExpires == /\ jar \in Tokens \ expired
                 /\ expired' = expired \cup {jar}
                 /\ UNCHANGED <<server, jar, page, req, sends, odd, ghosts>>

RefreshExpires == /\ Odd
                  /\ jar \in Tokens \ over
                  /\ over' = over \cup {jar}
                  /\ UNCHANGED <<issued, family, revoked, expired, jar, page, req, sends, ghosts>>

(***************************************************************************)
(* Specification.                                                          *)
(***************************************************************************)

Progress(r) == \/ Serve(r) \/ Refresh(r) \/ ReadToken(r) \/ Rotate(r)
               \/ Renewed(r) \/ GiveUp(r) \/ Cleared(r)

Next == \/ \E r \in Requests : Send(r) \/ Progress(r) \/ Lost(r)
        \/ \E t \in Tabs : Logout(t) \/ Login(t)
        \/ AccessExpires \/ RefreshExpires

Spec == Init /\ [][Next]_vars

\* Every call is answered or fails: apiClient and the server have timeouts.
FairSpec == Spec /\ \A r \in Requests : WF_vars(Progress(r))

(***************************************************************************)
(* Properties.                                                             *)
(***************************************************************************)

Whys == {"none", "no cookie", "replaced", "over", "lost"}

ReqType == [pc : {"idle", "sent", "denied", "refused", "clearing"} \cup Renewing,
            tok : Tokens \cup {NoToken}, retry : BOOLEAN, dead : BOOLEAN, why : Whys]

\* The type invariant: a request that was sent again (_retry) is never renewed
\* again, and only a renewal under way outlives its page.
TypeOK ==
  /\ issued \in Tokens
  /\ family \in [Tokens -> Tokens]
  /\ revoked \in SUBSET Tokens /\ expired \in SUBSET Tokens /\ over \in SUBSET Tokens
  /\ jar \in Tokens \cup {NoToken}
  /\ page \in [Tabs -> {"console", "login"}]
  /\ req \in [Requests -> ReqType]
  /\ \A r \in Requests :
       /\ req[r].retry => req[r].pc = "sent"
       /\ req[r].dead => req[r].pc \in {"asking", "rotating", "refused"}
  /\ sends \in 0..MaxSends /\ odd \in 0..MaxOdd
  /\ overlap \in BOOLEAN /\ forked \in BOOLEAN /\ orphaned \in BOOLEAN
  /\ cleared \in BOOLEAN /\ out \in BOOLEAN
  /\ forced \in SUBSET Whys /\ flying \in SUBSET Requests

Live == (1..issued) \ revoked

\* One login has one refresh token that is good, however often it was renewed,
\* unless two rotations read the same token before either wrote
\* (rotate_refresh_token).
OneLiveToken ==
  ~forked => \A m, n \in Live : family[m] = family[n] => m = n

\* The browser has the good refresh token, or is about to get it, unless the
\* answer of a rotation was lost: no older answer puts an older token back.
JarCurrent ==
  jar \in revoked => orphaned \/ \E r \in Requests : req[r].pc = "renewed" /\ ~req[r].dead

\* A tab is sent to the login page only for a reason: its session is over, a
\* call was lost, the cookies were cleared, or the token it presented had been
\* replaced by a renewal that overlapped with its own (the interceptor).
ForcedForCause ==
  /\ "none" \notin forced
  /\ "no cookie" \in forced => cleared
  /\ "replaced" \in forced => overlap \/ orphaned

\* After a logout the cookies come back only through a renewal that another
\* tab had begun before (logout revokes no token).
BackByFlight == out /\ jar # NoToken => flying # {}

-----------------------------------------------------------------------------
\* Requests that may still have a token issued, and have not had one.
Owes(q) == q.pc \in {"denied", "asking", "rotating"} \/ (q.pc = "sent" /\ ~q.retry)

Owing == {r \in Requests : Owes(req[r])}

\* Tokens are those that were issued, and there is a number for each to come.
Numbered ==
  /\ revoked \subseteq 1..issued /\ jar \in 0..issued
  /\ \A r \in Requests : req[r].tok \in 0..issued
  /\ \A n \in 1..issued : family[n] \in 1..issued
  /\ issued + Cardinality(Owing) <= 1 + sends + odd

\* A token on its way to the browser is good, and known to one request only.
Fresh ==
  \A r \in Requests : req[r].pc = "renewed" =>
    /\ req[r].tok \notin revoked \cup {jar, NoToken}
    /\ \A q \in Others(r) : req[q].tok # req[r].tok

\* A token about to be rotated is good, and no one else rotates it.
Single ==
  \A r \in Requests : req[r].pc = "rotating" =>
    /\ req[r].tok # NoToken
    /\ forked \/ /\ req[r].tok \notin revoked
                 /\ \A q \in Others(r) : req[q].pc = "rotating" => req[q].tok # req[r].tok

\* What a refusal will be told to come from has happened.
Causes ==
  /\ \A r \in Requests : req[r].pc \in Renewing /\ Others(r) # {} => overlap
  /\ jar = NoToken => cleared
  /\ \A r \in Requests :
       /\ req[r].pc = "asking" /\ req[r].tok = NoToken => cleared
       /\ req[r].pc = "asking" /\ req[r].tok \in revoked => overlap \/ orphaned
       /\ req[r].pc \in {"refused", "clearing"} =>
            /\ req[r].why # "none"
            /\ req[r].why = "no cookie" => cleared
            /\ req[r].why = "replaced" => overlap \/ orphaned

\* After a logout that no renewal of another tab survived, nothing is left
\* that could bring cookies back.
Ended ==
  out /\ flying = {} =>
    /\ jar = NoToken
    /\ \A r \in Requests :
         /\ req[r].pc # "renewed"
         /\ req[r].pc = "rotating" => req[r].dead
         /\ req[r].pc = "asking" => req[r].dead \/ req[r].tok = NoToken

\* The inductive invariant of the safety properties.
IInv == /\ TypeOK /\ Numbered /\ Fresh /\ Single /\ Causes /\ Ended
        /\ OneLiveToken /\ JarCurrent /\ ForcedForCause

\* Every request comes back to its caller or ends at the login page, with at
\* most one renewal (_retry).
RequestsEnd == \A r \in Requests : req[r] # Idle ~> req[r] = Idle
=============================================================================
