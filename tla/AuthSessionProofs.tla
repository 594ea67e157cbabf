------------------------- MODULE AuthSessionProofs -------------------------
(***************************************************************************)
(* Theorems of AuthSession, for any tabs and requests and any number of    *)
(* faults, logouts and logins: one login keeps one good refresh token, the *)
(* browser has it, nobody is sent to the login page without a reason, and  *)
(* a logout is undone only by a renewal that was under way.                *)
(***************************************************************************)
EXTENDS AuthSession, FiniteSetTheorems, TLAPS

USE AuthSessionAssumption

-----------------------------------------------------------------------------
(***************************************************************************)
(* Requests that may still have a token issued.                            *)
(***************************************************************************)

LEMMA OwingCounts ==
    IsFiniteSet(Owing) /\ Cardinality(Owing) \in Nat
<1>1. Owing \in SUBSET Requests
  BY DEF Owing
<1>2. IsFiniteSet(Owing)
  BY <1>1, FS_Subset
<1> QED BY <1>2, FS_CardinalityType

(* Only r moves. *)
Moves(r) == req' \in [Requests -> ReqType] /\ \A q \in Requests \ {r} : req'[q] = req[q]

(* No more tokens are owed if none of the requests begins to owe one.      *)
LEMMA NoneOwesMore ==
    ASSUME \A q \in Requests : Owes(req'[q]) => Owes(req[q])
    PROVE  Cardinality(Owing') \in Nat /\ Cardinality(Owing') <= Cardinality(Owing)
<1>1. Owing' \in SUBSET Owing
  BY DEF Owing
<1>2. IsFiniteSet(Owing) /\ IsFiniteSet(Owing')
  BY <1>1, OwingCounts, FS_Subset
<1>3. Cardinality(Owing') <= Cardinality(Owing)
  BY <1>1, <1>2, FS_Subset
<1> QED BY <1>2, <1>3, FS_CardinalityType

LEMMA OneOwesMore ==
    ASSUME NEW r \in Requests, \A q \in Requests \ {r} : req'[q] = req[q]
    PROVE  Cardinality(Owing') \in Nat /\ Cardinality(Owing') <= Cardinality(Owing) + 1
<1> DEFINE Or == Owing \cup {r}
<1>1. Owing' \in SUBSET Or
  BY DEF Owing
<1>2. IsFiniteSet(Or) /\ Cardinality(Or) <= Cardinality(Owing) + 1 /\ Cardinality(Or) \in Nat
  <2>1. IsFiniteSet(Or) /\ Cardinality(Or) = IF r \in Owing THEN Cardinality(Owing) ELSE Cardinality(Owing) + 1
    BY OwingCounts, FS_AddElement
  <2> QED BY <2>1, OwingCounts
<1> HIDE DEF Or
<1>3. IsFiniteSet(Owing') /\ Cardinality(Owing') <= Cardinality(Or)
  BY <1>1, <1>2, FS_Subset
<1>4. Cardinality(Owing') \in Nat
  BY <1>3, FS_CardinalityType
<1> QED BY <1>2, <1>3, <1>4, OwingCounts

LEMMA OneOwesLess ==
    ASSUME NEW r \in Requests, \A q \in Requests \ {r} : req'[q] = req[q],
           Owes(req[r]), ~Owes(req'[r])
    PROVE  Cardinality(Owing') \in Nat /\ Cardinality(Owing') = Cardinality(Owing) - 1
<1>1. r \in Owing /\ Owing' = Owing \ {r}
  BY DEF Owing
<1>2. IsFiniteSet(Owing') /\ Cardinality(Owing') = Cardinality(Owing) - 1
  BY <1>1, OwingCounts, FS_RemoveElement
<1> QED BY <1>2, FS_CardinalityType

(* So there is a number for the next token. *)
LEMMA NumberLeft ==
    ASSUME TypeOK, Numbered
    PROVE  /\ issued \in Nat
           /\ \A r \in Requests : Owes(req[r]) => issued + 1 \in Tokens
           /\ odd < MaxOdd => issued + 1 \in Tokens
<1>1. issued \in Nat /\ sends \in Nat /\ odd \in Nat /\ sends <= MaxSends /\ odd <= MaxOdd
  BY DEF TypeOK, Tokens
<1>2. issued + Cardinality(Owing) <= 1 + sends + odd /\ Cardinality(Owing) \in Nat
  BY OwingCounts DEF Numbered
<1>3. ASSUME NEW r \in Requests, Owes(req[r]) PROVE issued + 1 \in Tokens
  <2>1. Owing # {}
    BY <1>3 DEF Owing
  <2>2. Cardinality(Owing) # 0
    BY <2>1, OwingCounts, FS_EmptySet
  <2> QED BY <1>1, <1>2, <2>2 DEF Tokens
<1>4. odd < MaxOdd => issued + 1 \in Tokens
  BY <1>1, <1>2 DEF Tokens
<1> QED BY <1>1, <1>3, <1>4

-----------------------------------------------------------------------------
(***************************************************************************)
(* The steps of a request.                                                 *)
(***************************************************************************)

LEMMA PutMoves ==
    ASSUME TypeOK, NEW r \in Requests, NEW x \in ReqType, Put(r, x)
    PROVE  Moves(r) /\ req'[r] = x
  BY DEF TypeOK, Put, Moves

LEMMA IdleIsRequest == Idle \in ReqType
  BY DEF Idle, ReqType, Renewing, Whys, NoToken, Tokens

LEMMA Typed ==
    ASSUME TypeOK, NEW r \in Requests
    PROVE  /\ req[r] \in ReqType
           /\ \A c \in {"sent", "denied", "refused", "clearing"} \cup Renewing : [req[r] EXCEPT !.pc = c] \in ReqType
  BY DEF TypeOK, ReqType

(* A request that neither renews nor begins to, while no token and no      *)
(* cookie moves.                                                           *)
LEMMA Settles ==
    ASSUME IInv, NEW r \in Requests, Moves(r),
           req[r].pc \notin Renewing, UNCHANGED <<server, expired, jar, page, odd, ghosts>>,
           sends' \in 0..MaxSends,
           issued + Cardinality(Owing') <= 1 + sends' + odd,
           req'[r].pc \in {"idle", "sent", "denied", "refused", "clearing"}, req'[r].tok \in 0..issued,
           ~req'[r].retry, req'[r].dead => req'[r].pc = "refused",
           req'[r].pc \in {"refused", "clearing"} =>
               req[r].pc \in {"refused", "clearing"} /\ req'[r].why = req[r].why
    PROVE  IInv'
<1> USE DEF server, ghosts
<1>1. TypeOK'
  BY DEF IInv, TypeOK, Moves, Tokens
<1>2. Numbered'
  BY DEF IInv, Numbered, Moves
<1>3. Fresh'
  BY DEF IInv, Fresh, Others, Renewing, Moves
<1>4. Single'
  BY DEF IInv, Single, Others, Renewing, Moves
<1>5. Causes'
  BY DEF IInv, Causes, Others, Renewing, Moves
<1>6. Ended'
  BY DEF IInv, Ended, Moves
<1>7. OneLiveToken'
  BY DEF IInv, OneLiveToken, Live
<1>8. JarCurrent'
  <2>1. ASSUME NEW q \in Requests, req[q].pc = "renewed", ~req[q].dead, q # r
        PROVE  req'[q].pc = "renewed" /\ ~req'[q].dead
    BY <2>1 DEF Moves
  <2>2. req[r].pc # "renewed"
    BY DEF Renewing
  <2> QED BY <2>1, <2>2 DEF IInv, JarCurrent
<1>9. ForcedForCause'
  BY DEF IInv, ForcedForCause
<1> QED BY <1>1, <1>2, <1>3, <1>4, <1>5, <1>6, <1>7, <1>8, <1>9 DEF IInv

LEMMA SendSafe ==
    ASSUME IInv, NEW r \in Requests, Send(r)
    PROVE  IInv'
<1>1. /\ Moves(r) /\ req[r].pc = "idle"
      /\ req'[r].pc = "sent" /\ req'[r].tok = jar /\ ~req'[r].retry /\ ~req'[r].dead
      /\ UNCHANGED <<server, expired, jar, page, odd, ghosts>>
      /\ sends' = sends + 1 /\ sends' \in 0..MaxSends
  <2> DEFINE x == [Idle EXCEPT !.pc = "sent", !.tok = jar]
  <2>1. Idle \in ReqType /\ Idle.retry = FALSE /\ Idle.dead = FALSE
    BY IdleIsRequest DEF Idle
  <2>2. /\ x \in ReqType /\ x.pc = "sent" /\ x.tok = jar
        /\ x.retry = Idle.retry /\ x.dead = Idle.dead
    BY <2>1 DEF ReqType, IInv, TypeOK
  <2>3. Put(r, x)
    BY DEF Send
  <2> HIDE DEF x
  <2>4. Moves(r) /\ req'[r] = x
    BY <2>2, <2>3, PutMoves DEF IInv
  <2>5. req[r].pc = "idle"
    BY DEF Send, Idle
  <2>6. sends' = sends + 1 /\ sends' \in 0..MaxSends
    BY DEF Send, IInv, TypeOK
  <2>7. UNCHANGED <<server, expired, jar, page, odd, ghosts>>
    BY DEF Send
  <2> QED BY <2>1, <2>2, <2>4, <2>5, <2>6, <2>7
<1>2. jar \in 0..issued
  BY DEF IInv, Numbered
<1>3. issued + Cardinality(Owing') <= 1 + sends' + odd
  <2>1. Cardinality(Owing') \in Nat /\ Cardinality(Owing') <= Cardinality(Owing) + 1
    BY <1>1, OneOwesMore DEF Moves
  <2>2. issued + Cardinality(Owing) <= 1 + sends + odd /\ Cardinality(Owing) \in Nat
    BY OwingCounts DEF IInv, Numbered
  <2> QED BY <1>1, <2>1, <2>2, NumberLeft DEF IInv, TypeOK
<1> QED BY <1>1, <1>2, <1>3, Settles DEF Renewing

(* A step that issues nothing keeps the count. *)
LEMMA CountKept ==
    ASSUME TypeOK, Numbered, \A q \in Requests : Owes(req'[q]) => Owes(req[q])
    PROVE  issued + Cardinality(Owing') <= 1 + sends + odd
<1>1. Cardinality(Owing') \in Nat /\ Cardinality(Owing') <= Cardinality(Owing)
  BY NoneOwesMore
<1>2. issued + Cardinality(Owing) <= 1 + sends + odd /\ Cardinality(Owing) \in Nat
  BY OwingCounts DEF Numbered
<1> QED BY <1>1, <1>2, NumberLeft DEF TypeOK

LEMMA ServeSafe ==
    ASSUME IInv, NEW r \in Requests, Serve(r)
    PROVE  IInv'
<1>1. /\ Moves(r) /\ req[r].pc = "sent"
      /\ req'[r].pc \in {"idle", "denied"} /\ req'[r].tok \in {req[r].tok, 0}
      /\ ~req'[r].retry /\ ~req'[r].dead
      /\ req'[r].pc = "denied" => req[r].retry = FALSE
      /\ UNCHANGED <<server, expired, jar, page, sends, odd, ghosts>>
  <2>1. req[r] \in ReqType /\ req[r].pc = "sent" /\ ~req[r].dead
    BY Typed DEF IInv, TypeOK, Serve
  <2>2. Moves(r) /\ (req'[r] = Idle \/ (~req[r].retry /\ req'[r] = [req[r] EXCEPT !.pc = "denied"]))
    <3>1. CASE Accepted(req[r].tok) \/ req[r].retry
      <4>1. Put(r, Idle)
        BY <3>1 DEF Serve, Denied
      <4>2. Moves(r) /\ req'[r] = Idle
        BY <4>1, PutMoves, IdleIsRequest DEF IInv
      <4> QED BY <4>2
    <3>2. CASE ~(Accepted(req[r].tok) \/ req[r].retry)
      <4>1. Put(r, [req[r] EXCEPT !.pc = "denied"])
        BY <3>2 DEF Serve, Denied
      <4> QED BY <4>1, <3>2, PutMoves, Typed DEF IInv
    <3> QED BY <3>1, <3>2
  <2> QED BY <2>1, <2>2 DEF Serve, Idle, ReqType, NoToken
<1>2. issued + Cardinality(Owing') <= 1 + sends' + odd
  <2>1. \A q \in Requests : Owes(req'[q]) => Owes(req[q])
    BY <1>1 DEF Owes, Moves
  <2> QED BY <1>1, <2>1, CountKept DEF IInv
<1>3. req'[r].tok \in 0..issued /\ sends' \in 0..MaxSends
  BY <1>1, NumberLeft DEF IInv, Numbered, TypeOK
<1>4. req[r].pc \notin Renewing /\ req'[r].pc \in {"idle", "sent", "denied", "refused", "clearing"}
  BY <1>1 DEF Renewing
<1>5. UNCHANGED <<server, expired, jar, page, odd, ghosts>>
  BY <1>1
<1>6. req'[r].pc \notin {"refused", "clearing"}
  BY <1>1
<1> QED BY <1>1, <1>2, <1>3, <1>4, <1>5, <1>6, Settles

LEMMA GiveUpSafe ==
    ASSUME IInv, NEW r \in Requests, GiveUp(r)
    PROVE  IInv'
<1>1. /\ Moves(r) /\ req[r].pc = "refused"
      /\ req'[r].pc \in {"idle", "clearing"} /\ req'[r].tok \in {req[r].tok, 0}
      /\ ~req'[r].retry /\ ~req'[r].dead
      /\ req'[r].pc = "clearing" => req'[r].why = req[r].why
      /\ UNCHANGED <<server, expired, jar, page, sends, odd, ghosts>>
  <2>1. req[r] \in ReqType /\ req[r].pc = "refused" /\ ~req[r].retry
    BY DEF IInv, TypeOK, GiveUp
  <2>2. Moves(r) /\ (req'[r] = Idle \/ (~req[r].dead /\ req'[r] = [req[r] EXCEPT !.pc = "clearing"]))
    <3>1. CASE req[r].dead
      <4>1. Put(r, Idle)
        BY <3>1 DEF GiveUp
      <4>2. Moves(r) /\ req'[r] = Idle
        BY <4>1, PutMoves, IdleIsRequest DEF IInv
      <4> QED BY <4>2
    <3>2. CASE ~req[r].dead
      <4>1. Put(r, [req[r] EXCEPT !.pc = "clearing"])
        BY <3>2 DEF GiveUp
      <4> QED BY <4>1, <3>2, PutMoves, Typed DEF IInv
    <3> QED BY <3>1, <3>2
  <2> QED BY <2>1, <2>2 DEF GiveUp, Idle, ReqType, NoToken
<1>2. issued + Cardinality(Owing') <= 1 + sends' + odd
  <2>1. \A q \in Requests : Owes(req'[q]) => Owes(req[q])
    BY <1>1 DEF Owes, Moves
  <2> QED BY <1>1, <2>1, CountKept DEF IInv
<1>3. req'[r].tok \in 0..issued /\ sends' \in 0..MaxSends
  BY <1>1, NumberLeft DEF IInv, Numbered, TypeOK
<1>4. req[r].pc \notin Renewing /\ req'[r].pc \in {"idle", "sent", "denied", "refused", "clearing"}
  BY <1>1 DEF Renewing
<1>5. UNCHANGED <<server, expired, jar, page, odd, ghosts>>
  BY <1>1
<1>6. req'[r].pc \in {"refused", "clearing"} =>
          req[r].pc \in {"refused", "clearing"} /\ req'[r].why = req[r].why
  BY <1>1
<1> QED BY <1>1, <1>2, <1>3, <1>4, <1>5, <1>6, Settles

-----------------------------------------------------------------------------
(***************************************************************************)
(* The steps of a renewal.                                                 *)
(***************************************************************************)

LEMMA RefreshSafe ==
    ASSUME IInv, NEW r \in Requests, Refresh(r)
    PROVE  IInv'
<1> USE DEF server
<1>1. /\ Moves(r) /\ req[r].pc = "denied"
      /\ req'[r].pc = "asking" /\ req'[r].tok = jar /\ ~req'[r].retry /\ ~req'[r].dead
  <2> DEFINE x == [req[r] EXCEPT !.pc = "asking", !.tok = jar]
  <2>1. req[r] \in ReqType /\ req[r].pc = "denied" /\ ~req[r].retry /\ ~req[r].dead
    BY Typed DEF IInv, TypeOK, Refresh
  <2>2. /\ x \in ReqType /\ x.pc = "asking" /\ x.tok = jar
        /\ x.retry = req[r].retry /\ x.dead = req[r].dead
    BY <2>1 DEF ReqType, Renewing, IInv, TypeOK
  <2>3. Put(r, x)
    BY DEF Refresh
  <2> HIDE DEF x
  <2>4. Moves(r) /\ req'[r] = x
    BY <2>2, <2>3, PutMoves DEF IInv
  <2> QED BY <2>1, <2>2, <2>4
<1>2. UNCHANGED <<server, expired, jar, page, sends, odd, forked, orphaned, cleared, forced, out, flying>>
  BY DEF Refresh
<1>3. overlap' = (overlap \/ Others(r) # {})
  BY DEF Refresh
<1>4. TypeOK'
  BY <1>1, <1>2, <1>3 DEF IInv, TypeOK, Moves
<1>5. Numbered'
  <2>1. \A q \in Requests : Owes(req'[q]) => Owes(req[q])
    BY <1>1 DEF Owes, Moves
  <2>2. issued + Cardinality(Owing') <= 1 + sends + odd
    BY <2>1, CountKept DEF IInv
  <2> QED BY <1>1, <1>2, <2>2 DEF IInv, Numbered, Moves
<1>6. Fresh'
  BY <1>1, <1>2 DEF IInv, Fresh, Others, Renewing, Moves
<1>7. Single'
  BY <1>1, <1>2 DEF IInv, Single, Others, Renewing, Moves
<1>8. Causes'
  <2>1. \A q \in Requests : req'[q].pc \in Renewing /\ Others(q)' # {} => overlap'
    BY <1>1, <1>3 DEF IInv, Causes, Others, Renewing, Moves
  <2>2. jar \in revoked => overlap' \/ orphaned'
    <3>1. ASSUME NEW q \in Requests, req[q].pc = "renewed" PROVE Others(r) # {}
      BY <1>1, <3>1 DEF Others, Renewing
    <3> QED BY <1>2, <1>3, <3>1 DEF IInv, JarCurrent
  <2>3. jar = NoToken => cleared
    BY DEF IInv, Causes
  <2>4. ASSUME NEW q \in Requests \ {r} PROVE req'[q] = req[q]
    BY <1>1 DEF Moves
  <2>5. overlap => overlap'
    BY <1>3
  <2> QED BY <1>1, <1>2, <2>1, <2>2, <2>3, <2>4, <2>5 DEF IInv, Causes
<1>9. Ended'
  BY <1>1, <1>2 DEF IInv, Ended, Moves
<1>10. OneLiveToken'
  BY <1>2 DEF IInv, OneLiveToken, Live
<1>11. JarCurrent'
  BY <1>1, <1>2 DEF IInv, JarCurrent, Moves
<1>12. ForcedForCause'
  BY <1>2, <1>3 DEF IInv, ForcedForCause
<1> QED BY <1>4, <1>5, <1>6, <1>7, <1>8, <1>9, <1>10, <1>11, <1>12 DEF IInv

(* rotate_refresh_token refuses, or the call is lost on its way.  The      *)
(* reason is one that can be told.                                         *)
Refuses(r, why) ==
    /\ Refuse(r, why) /\ why \in Whys \ {"none"} /\ req[r].pc \in Renewing
    /\ UNCHANGED <<server, expired, jar, page, sends, overlap, forked, cleared, forced, out, flying>>
    /\ odd' \in 0..MaxOdd /\ odd <= odd'
    /\ orphaned' = (orphaned \/ req[r].pc = "renewed")
    /\ why = "no cookie" => cleared
    /\ why = "replaced" => overlap \/ orphaned

LEMMA RefuseSafe ==
    ASSUME IInv, NEW r \in Requests, NEW why, Refuses(r, why)
    PROVE  IInv'
<1>1. /\ Moves(r) /\ req'[r].pc = "refused" /\ req'[r].why = why
      /\ req'[r].tok = req[r].tok /\ ~req'[r].retry
  <2> DEFINE x == [req[r] EXCEPT !.pc = "refused", !.why = why]
  <2>1. req[r] \in ReqType /\ ~req[r].retry /\ why \in Whys
    BY Typed DEF IInv, TypeOK, Renewing, Refuses
  <2>2. /\ x \in ReqType /\ x.pc = "refused" /\ x.tok = req[r].tok /\ x.why = why
        /\ x.retry = req[r].retry /\ x.dead = req[r].dead
    BY <2>1 DEF ReqType
  <2>3. Put(r, x)
    BY DEF Refuses, Refuse
  <2> HIDE DEF x
  <2>4. Moves(r) /\ req'[r] = x
    BY <2>2, <2>3, PutMoves DEF IInv
  <2> QED BY <2>1, <2>2, <2>4
<1>u. /\ UNCHANGED <<issued, family, revoked, over, expired, jar, page, sends, overlap, forked>>
      /\ UNCHANGED <<cleared, forced, out, flying>>
  BY DEF Refuses, server
<1>o. /\ orphaned' = (orphaned \/ req[r].pc = "renewed")
      /\ why \in Whys \ {"none"}
      /\ why = "no cookie" => cleared
      /\ why = "replaced" => overlap \/ orphaned
  BY DEF Refuses
<1>d. odd' \in 0..MaxOdd /\ odd <= odd'
  BY DEF Refuses
<1>2. TypeOK'
  BY <1>1, <1>u, <1>o, <1>d DEF IInv, TypeOK, Moves
<1>3. Numbered'
  <2>1. \A q \in Requests : Owes(req'[q]) => Owes(req[q])
    BY <1>1 DEF Owes, Moves
  <2>2. issued + Cardinality(Owing') <= 1 + sends + odd
    BY <2>1, CountKept DEF IInv
  <2>3. Cardinality(Owing') \in Nat
    BY <2>1, NoneOwesMore
  <2>4. issued + Cardinality(Owing') <= 1 + sends + odd'
    <3>1. issued \in Nat /\ sends \in Nat /\ odd \in Nat /\ odd' \in Nat
      BY <1>d, NumberLeft DEF IInv, TypeOK
    <3>2. odd <= odd'
      BY <1>d
    <3> QED BY <2>2, <2>3, <3>1, <3>2
  <2> QED BY <1>1, <1>u, <2>4 DEF IInv, Numbered, Moves
<1>4. Fresh' /\ Single'
  <2>1. ASSUME NEW q \in Requests, req'[q].pc \in Renewing
        PROVE  q # r /\ req'[q] = req[q] /\ Others(q)' \subseteq Others(q)
    BY <1>1, <2>1 DEF Others, Renewing, Moves
  <2>2. ASSUME NEW q \in Requests, NEW p \in Others(q)' PROVE p \in Requests /\ req'[p] = req[p]
    BY <1>1, <2>2 DEF Others, Renewing, Moves
  <2>3. Fresh'
    BY <1>u, <2>1, <2>2 DEF IInv, Fresh, Renewing
  <2>4. Single'
    BY <1>u, <2>1, <2>2 DEF IInv, Single, Renewing
  <2> QED BY <2>3, <2>4
<1>6. Causes'
  <2>1. \A q \in Requests : req'[q].pc \in Renewing /\ Others(q)' # {} => overlap'
    BY <1>1, <1>u DEF IInv, Causes, Others, Renewing, Moves
  <2>2. ASSUME NEW q \in Requests \ {r} PROVE req'[q] = req[q]
    BY <1>1 DEF Moves
  <2>3. orphaned => orphaned'
    BY <1>o
  <2> QED BY <1>1, <1>u, <1>o, <2>1, <2>2, <2>3 DEF IInv, Causes
<1>7. Ended'
  BY <1>1, <1>u DEF IInv, Ended, Moves
<1>8. OneLiveToken'
  BY <1>u DEF IInv, OneLiveToken, Live
<1>9. JarCurrent'
  BY <1>1, <1>u, <1>o DEF IInv, JarCurrent, Moves
<1>10. ForcedForCause'
  BY <1>u, <1>o DEF IInv, ForcedForCause
<1> QED BY <1>2, <1>3, <1>4, <1>6, <1>7, <1>8, <1>9, <1>10 DEF IInv

LEMMA LostSafe ==
    ASSUME IInv, NEW r \in Requests, Lost(r)
    PROVE  IInv'
<1>1. odd' \in 0..MaxOdd /\ odd <= odd'
  BY DEF Lost, Odd, IInv, TypeOK
<1>2. req[r].pc \in Renewing /\ "lost" \in Whys \ {"none"}
  BY DEF Lost, Renewing, Whys
<1>3. Refuses(r, "lost")
  BY <1>1, <1>2 DEF Lost, Refuses
<1> QED BY <1>3, RefuseSafe

(* rotate_refresh_token accepts the token it reads. *)
Accepts(r) ==
    /\ req[r].pc = "asking" /\ req[r].tok \in Tokens \ (revoked \cup over)
    /\ Put(r, [req[r] EXCEPT !.pc = "rotating"])
    /\ forked' = (forked \/ \E q \in Others(r) : req[q].pc = "rotating" /\ req[q].tok = req[r].tok)
    /\ UNCHANGED <<server, expired, jar, page, sends, odd, overlap, orphaned, cleared, forced, out, flying>>

LEMMA AcceptsSafe ==
    ASSUME IInv, NEW r \in Requests, Accepts(r)
    PROVE  IInv'
<1>1. /\ Moves(r) /\ req[r].pc = "asking" /\ req'[r].pc = "rotating" /\ req'[r].tok = req[r].tok
      /\ req'[r].retry = req[r].retry /\ ~req[r].retry /\ req'[r].dead = req[r].dead
  <2> DEFINE x == [req[r] EXCEPT !.pc = "rotating"]
  <2>1. req[r] \in ReqType /\ ~req[r].retry /\ x \in ReqType
    BY Typed DEF IInv, TypeOK, Renewing, Accepts
  <2>2. /\ x.pc = "rotating" /\ x.tok = req[r].tok
        /\ x.retry = req[r].retry /\ x.dead = req[r].dead
    BY <2>1 DEF ReqType
  <2>3. Put(r, x)
    BY DEF Accepts
  <2> HIDE DEF x
  <2>4. Moves(r) /\ req'[r] = x
    BY <2>1, <2>3, PutMoves DEF IInv
  <2> QED BY <2>1, <2>2, <2>4 DEF Accepts
<1>u. /\ UNCHANGED <<issued, family, revoked, over, expired, jar, page, sends, odd, overlap>>
      /\ UNCHANGED <<orphaned, cleared, forced, out, flying>>
  BY DEF Accepts, server
<1>f. /\ req[r].tok \in Tokens /\ req[r].tok \notin revoked
      /\ forked' \in BOOLEAN /\ (forked => forked')
      /\ \A q \in Others(r) : req[q].pc = "rotating" /\ req[q].tok = req[r].tok => forked'
  BY DEF Accepts, IInv, TypeOK
<1>2. TypeOK'
  BY <1>1, <1>u, <1>f DEF IInv, TypeOK, Moves
<1>3. Numbered'
  <2>1. \A q \in Requests : Owes(req'[q]) => Owes(req[q])
    BY <1>1 DEF Owes, Moves
  <2>2. issued + Cardinality(Owing') <= 1 + sends + odd
    BY <2>1, CountKept DEF IInv
  <2> QED BY <1>1, <1>u, <2>2 DEF IInv, Numbered, Moves
<1>4. \A q \in Requests : Others(q)' = Others(q)
  BY <1>1 DEF Others, Renewing, Moves
<1>5. Fresh'
  BY <1>1, <1>u, <1>4 DEF IInv, Fresh, Others, Moves
<1>6. Single'
  <2>1. ASSUME NEW q \in Requests, req'[q].pc = "rotating"
        PROVE  /\ req'[q].tok # NoToken
               /\ forked' \/ (/\ req'[q].tok \notin revoked
                              /\ \A p \in Others(q) : req'[p].pc = "rotating" => req'[p].tok # req'[q].tok)
    <3>1. CASE q = r
      <4>1. req'[q].tok # NoToken /\ req'[q].tok \notin revoked
        BY <1>1, <1>f, <3>1 DEF Tokens, NoToken
      <4>2. forked' \/ \A p \in Others(r) : req'[p].pc = "rotating" => req'[p].tok # req'[r].tok
        BY <1>1, <1>f DEF Others, Moves
      <4> QED BY <3>1, <4>1, <4>2
    <3>2. CASE q # r
      <4>1. req'[q] = req[q] /\ r \in Requests
        BY <1>1, <3>2 DEF Moves
      <4>2. req[q].tok # NoToken
        BY <2>1, <4>1 DEF IInv, Single
      <4>3. CASE forked
        BY <4>1, <4>2, <4>3, <1>f
      <4>4. CASE ~forked
        <5>1. /\ req[q].tok \notin revoked
              /\ \A p \in Others(q) : req[p].pc = "rotating" => req[p].tok # req[q].tok
          BY <2>1, <4>1, <4>4 DEF IInv, Single
        <5>2. q \in Others(r)
          BY <2>1, <3>2, <4>1 DEF Others, Renewing
        <5>3. req[q].tok = req[r].tok => forked'
          BY <2>1, <4>1, <5>2, <1>f
        <5>4. \A p \in Others(q) : p # r => req'[p] = req[p]
          BY <1>1 DEF Others, Moves
        <5> QED BY <4>1, <4>2, <5>1, <5>3, <5>4, <1>1
      <4> QED BY <4>3, <4>4
    <3> QED BY <3>1, <3>2
  <2> QED BY <1>u, <1>4, <2>1 DEF Single
<1>7. Causes'
  <2>1. \A q \in Requests : req'[q].pc \in Renewing /\ Others(q)' # {} => overlap'
    BY <1>1, <1>u, <1>4 DEF IInv, Causes, Renewing, Moves
  <2>2. ASSUME NEW q \in Requests \ {r} PROVE req'[q] = req[q]
    BY <1>1 DEF Moves
  <2> QED BY <1>1, <1>u, <2>1, <2>2 DEF IInv, Causes
<1>8. Ended'
  BY <1>1, <1>u, <1>f DEF IInv, Ended, Moves, Tokens, NoToken
<1>9. OneLiveToken'
  BY <1>u, <1>f DEF IInv, OneLiveToken, Live
<1>10. JarCurrent'
  BY <1>1, <1>u DEF IInv, JarCurrent, Moves
<1>11. ForcedForCause'
  BY <1>u DEF IInv, ForcedForCause
<1> QED BY <1>2, <1>3, <1>5, <1>6, <1>7, <1>8, <1>9, <1>10, <1>11 DEF IInv

LEMMA ReadTokenSafe ==
    ASSUME IInv, NEW r \in Requests, ReadToken(r)
    PROVE  IInv'
<1>1. /\ req[r].pc = "asking"
      /\ UNCHANGED <<server, expired, jar, page, sends, odd, overlap, orphaned, cleared, forced, out, flying>>
  BY DEF ReadToken
<1>2. odd' \in 0..MaxOdd /\ odd <= odd'
  BY <1>1 DEF IInv, TypeOK
<1>3. /\ req[r].pc \in Renewing /\ req[r].pc # "renewed"
      /\ "no cookie" \in Whys \ {"none"} /\ "replaced" \in Whys \ {"none"} /\ "over" \in Whys \ {"none"}
  BY <1>1 DEF Renewing, Whys
<1>4. orphaned' = (orphaned \/ req[r].pc = "renewed")
  BY <1>1, <1>3 DEF IInv, TypeOK
<1>5. CASE req[r].tok = NoToken /\ Refuse(r, "no cookie") /\ UNCHANGED forked
  <2>1. cleared
    BY <1>1, <1>5 DEF IInv, Causes
  <2>2. Refuses(r, "no cookie")
    BY <1>1, <1>2, <1>3, <1>4, <1>5, <2>1 DEF Refuses
  <2> QED BY <2>2, RefuseSafe
<1>6. CASE req[r].tok \in revoked /\ Refuse(r, "replaced") /\ UNCHANGED forked
  <2>1. overlap \/ orphaned
    BY <1>1, <1>6 DEF IInv, Causes
  <2>2. Refuses(r, "replaced")
    BY <1>1, <1>2, <1>3, <1>4, <1>6, <2>1 DEF Refuses
  <2> QED BY <2>2, RefuseSafe
<1>7. CASE Refuse(r, "over") /\ UNCHANGED forked
  <2>1. Refuses(r, "over")
    BY <1>1, <1>2, <1>3, <1>4, <1>7 DEF Refuses
  <2> QED BY <2>1, RefuseSafe
<1>8. CASE Accepts(r)
  BY <1>8, AcceptsSafe
<1> QED BY <1>1, <1>5, <1>6, <1>7, <1>8 DEF ReadToken, Accepts

(* rotate_refresh_token replaces the token by the next one, which is on    *)
(* its way to the browser unless the page of the request is gone.          *)
LEMMA RotateSafe ==
    ASSUME IInv, NEW r \in Requests, Rotate(r)
    PROVE  IInv'
<1> DEFINE n == req[r].tok
<1>n. /\ req[r] \in ReqType /\ req[r].pc = "rotating" /\ ~req[r].retry
      /\ issued \in Nat /\ n \in 1..issued /\ n \in Tokens /\ issued + 1 \in Tokens /\ issued \in Tokens
  <2>1. req[r] \in ReqType /\ req[r].pc = "rotating" /\ ~req[r].retry
    BY Typed DEF IInv, TypeOK, Rotate
  <2>2. n \in 0..issued /\ n # NoToken
    BY <2>1 DEF IInv, Numbered, Single
  <2>3. issued \in Nat /\ issued + 1 \in Tokens /\ issued \in Tokens
    BY <2>1, NumberLeft DEF IInv, Owes, TypeOK
  <2> QED BY <2>1, <2>2, <2>3 DEF Tokens, NoToken
<1>1. /\ Moves(r) /\ req'[r].pc \in {"idle", "renewed"} /\ ~req'[r].retry /\ ~req'[r].dead
      /\ req'[r].pc = "renewed" => req'[r].tok = issued + 1
      /\ req'[r].tok \in {0, issued + 1}
      /\ req'[r].pc = "idle" => orphaned'
      /\ orphaned' \in BOOLEAN /\ (orphaned => orphaned')
  <2>1. CASE req[r].dead
    <3>1. Put(r, Idle) /\ orphaned' = TRUE
      BY <2>1 DEF Rotate
    <3>2. Moves(r) /\ req'[r] = Idle
      BY <3>1, PutMoves, IdleIsRequest DEF IInv
    <3> QED BY <3>1, <3>2 DEF Idle, NoToken
  <2>2. CASE ~req[r].dead
    <3> DEFINE x == [req[r] EXCEPT !.pc = "renewed", !.tok = issued + 1]
    <3>1. /\ x \in ReqType /\ x.pc = "renewed" /\ x.tok = issued + 1
          /\ x.retry = req[r].retry /\ x.dead = req[r].dead
      BY <1>n DEF ReqType, Renewing
    <3>2. Put(r, x) /\ orphaned' = orphaned
      BY <2>2 DEF Rotate
    <3> HIDE DEF x
    <3>3. Moves(r) /\ req'[r] = x
      BY <3>1, <3>2, PutMoves DEF IInv
    <3> QED BY <1>n, <2>2, <3>1, <3>2, <3>3 DEF IInv, TypeOK
  <2> QED BY <2>1, <2>2
<1>u. /\ UNCHANGED <<over, expired, jar, page, sends, odd, overlap, forked>>
      /\ UNCHANGED <<cleared, forced, out, flying>>
  BY DEF Rotate
<1>t. /\ issued' = issued + 1 /\ revoked' = revoked \cup {n}
      /\ family' = [family EXCEPT ![issued + 1] = family[n]]
  BY DEF Rotate, Revoke
<1>s. /\ revoked \subseteq 1..issued /\ jar \in 0..issued
      /\ \A q \in Requests : req[q].tok \in 0..issued
      /\ \A m \in 1..issued : family[m] \in 1..issued
  BY DEF IInv, Numbered
<1>f. /\ family' \in [Tokens -> Tokens] /\ family'[issued + 1] = family[n]
      /\ \A m \in 1..issued : m \in Tokens /\ family'[m] = family[m]
  <2>1. \A m \in 1..issued : m \in Tokens /\ m # issued + 1
    BY <1>n DEF Tokens
  <2>2. family \in [Tokens -> Tokens]
    BY DEF IInv, TypeOK
  <2> QED BY <1>n, <1>t, <2>1, <2>2
<1> HIDE DEF n
<1>2. TypeOK'
  <2>1. revoked' \in SUBSET Tokens /\ issued' \in Tokens
    BY <1>n, <1>t DEF IInv, TypeOK
  <2>2. req' \in [Requests -> ReqType]
    BY <1>1 DEF Moves
  <2>3. \A q \in Requests : /\ req'[q].retry => req'[q].pc = "sent"
                            /\ req'[q].dead => req'[q].pc \in {"asking", "rotating", "refused"}
    BY <1>1 DEF Moves, IInv, TypeOK
  <2> QED BY <1>u, <1>f, <1>1, <2>1, <2>2, <2>3 DEF IInv, TypeOK
<1>3. Numbered'
  <2>1. Cardinality(Owing') \in Nat /\ Cardinality(Owing') = Cardinality(Owing) - 1
    BY <1>1, <1>n, OneOwesLess DEF Moves, Owes
  <2>2. issued + Cardinality(Owing) <= 1 + sends + odd /\ Cardinality(Owing) \in Nat
    BY OwingCounts DEF IInv, Numbered
  <2>3. sends \in Nat /\ odd \in Nat
    BY DEF IInv, TypeOK
  <2>4. issued + 1 + Cardinality(Owing') <= 1 + sends + odd
    BY <1>n, <2>1, <2>2, <2>3
  <2>5. revoked' \subseteq 1..(issued + 1) /\ jar \in 0..(issued + 1)
    BY <1>n, <1>t, <1>s
  <2>6. \A q \in Requests : req'[q].tok \in 0..(issued + 1)
    BY <1>n, <1>s, <1>1 DEF Moves
  <2>7. \A m \in 1..(issued + 1) : family'[m] \in 1..(issued + 1)
    BY <1>n, <1>s, <1>f
  <2> QED BY <1>u, <1>t, <2>4, <2>5, <2>6, <2>7 DEF Numbered
<1>4. \A q \in Requests : Others(q)' \subseteq Others(q)
  BY <1>1, <1>n DEF Others, Renewing, Moves
<1>5. Fresh'
  <2>1. ASSUME NEW q \in Requests, req'[q].pc = "renewed"
        PROVE  /\ req'[q].tok \notin revoked' \cup {jar, NoToken}
               /\ \A p \in Others(q)' : req'[p].tok # req'[q].tok
    <3>1. CASE q = r
      <4>1. req'[q].tok = issued + 1
        BY <1>1, <2>1, <3>1
      <4>2. issued + 1 \notin revoked' \cup {jar, NoToken}
        BY <1>n, <1>t, <1>s DEF NoToken
      <4>3. \A p \in Others(q)' : req'[p].tok # issued + 1
        BY <1>n, <1>1, <1>s, <3>1 DEF Others, Moves
      <4> QED BY <4>1, <4>2, <4>3
    <3>2. CASE q # r
      <4>1. req'[q] = req[q]
        BY <1>1, <3>2 DEF Moves
      <4>2. /\ req[q].tok \notin revoked \cup {jar, NoToken}
            /\ \A p \in Others(q) : req[p].tok # req[q].tok
        BY <2>1, <4>1 DEF IInv, Fresh
      <4>3. r \in Others(q)
        BY <1>n, <3>2 DEF Others, Renewing
      <4>4. req[q].tok # n
        BY <4>2, <4>3 DEF n
      <4>5. ASSUME NEW p \in Others(q)' PROVE req'[p].tok # req[q].tok
        <5>1. CASE p = r
          BY <5>1, <1>1, <1>s, <1>n, <4>2 DEF NoToken
        <5>2. CASE p # r
          BY <5>2, <1>1, <1>4, <4>2 DEF Others, Moves
        <5> QED BY <5>1, <5>2
      <4> QED BY <4>1, <4>2, <4>4, <4>5, <1>t
    <3> QED BY <3>1, <3>2
  <2> QED BY <2>1, <1>u DEF Fresh
<1>6. Single'
  <2>1. ASSUME NEW q \in Requests, req'[q].pc = "rotating"
        PROVE  /\ req'[q].tok # NoToken
               /\ forked \/ (/\ req'[q].tok \notin revoked'
                             /\ \A p \in Others(q)' : req'[p].pc = "rotating" => req'[p].tok # req'[q].tok)
    <3>1. q # r /\ req'[q] = req[q]
      BY <2>1, <1>1 DEF Moves
    <3>2. /\ req[q].tok # NoToken
          /\ forked \/ (/\ req[q].tok \notin revoked
                        /\ \A p \in Others(q) : req[p].pc = "rotating" => req[p].tok # req[q].tok)
      BY <2>1, <3>1 DEF IInv, Single
    <3>3. r \in Others(q)
      BY <1>n, <3>1 DEF Others, Renewing
    <3>4. forked \/ req[q].tok # n
      BY <3>2, <3>3, <1>n DEF n
    <3>5. forked \/ \A p \in Others(q)' : req'[p].pc = "rotating" => req'[p].tok # req[q].tok
      BY <3>2, <1>4, <1>1 DEF Others, Moves
    <3> QED BY <3>1, <3>2, <3>4, <3>5, <1>t
  <2> QED BY <2>1, <1>u DEF Single
<1>7. Causes'
  <2>1. \A q \in Requests : req'[q].pc \in Renewing /\ Others(q)' # {} => overlap'
    BY <1>1, <1>n, <1>u, <1>4 DEF IInv, Causes, Renewing, Moves
  <2>2. ASSUME NEW q \in Requests \ {r} PROVE req'[q] = req[q]
    BY <1>1 DEF Moves
  <2>3. ASSUME NEW q \in Requests \ {r}, req[q].pc = "asking" PROVE overlap
    <3>1. r \in Others(q)
      BY <1>n DEF Others, Renewing
    <3> QED BY <2>3, <3>1 DEF IInv, Causes, Renewing
  <2> QED BY <1>1, <1>u, <2>1, <2>2, <2>3 DEF IInv, Causes
<1>8. Ended'
  <2>1. ASSUME out, flying = {} PROVE req'[r].pc # "renewed"
    <3>1. req[r].dead
      BY <2>1, <1>n DEF IInv, Ended
    <3> QED BY <3>1, PutMoves, IdleIsRequest DEF Rotate, IInv, Idle
  <2> QED BY <1>1, <1>u, <2>1 DEF IInv, Ended, Moves
<1>9. OneLiveToken'
  <2> SUFFICES ASSUME ~forked, NEW m \in Live', NEW p \in Live', family'[m] = family'[p], m # p
               PROVE  FALSE
    BY <1>u DEF OneLiveToken
  <2>1. ASSUME NEW x \in Live', x # issued + 1
        PROVE  x \in Live /\ x # n /\ x \in 1..issued
    <3>1. Live' = (1..(issued + 1)) \ (revoked \cup {n})
      BY <1>t DEF Live
    <3>2. x \in 1..(issued + 1) /\ x \notin revoked /\ x # n
      BY <3>1
    <3>3. x \in 1..issued
      BY <3>2, <2>1, <1>n
    <3> QED BY <3>2, <3>3 DEF Live
  <2>2. n \in Live
    BY <1>n DEF IInv, Single, Live, n
  <2>3. \A x, y \in Live : family[x] = family[y] => x = y
    BY DEF IInv, OneLiveToken
  <2>4. CASE m # issued + 1 /\ p # issued + 1
    BY <2>1, <2>3, <2>4, <1>f
  <2>5. CASE m = issued + 1
    <3>1. p # issued + 1
      BY <2>5
    <3>2. p \in Live /\ p # n /\ p \in 1..issued
      BY <2>1, <3>1
    <3>3. family[p] = family[n]
      BY <2>5, <3>2, <1>f
    <3> QED BY <2>2, <2>3, <3>2, <3>3
  <2>6. CASE p = issued + 1
    <3>1. m # issued + 1
      BY <2>6
    <3>2. m \in Live /\ m # n /\ m \in 1..issued
      BY <2>1, <3>1
    <3>3. family[m] = family[n]
      BY <2>6, <3>2, <1>f
    <3> QED BY <2>2, <2>3, <3>2, <3>3
  <2> QED BY <2>4, <2>5, <2>6
<1>10. JarCurrent'
  <2>1. CASE jar = n
    <3>1. orphaned' \/ (req'[r].pc = "renewed" /\ ~req'[r].dead)
      BY <1>1
    <3> QED BY <3>1 DEF JarCurrent
  <2>2. CASE jar # n
    <3>1. \A q \in Requests : req[q].pc = "renewed" => req'[q] = req[q]
      BY <1>1, <1>n DEF Moves
    <3> QED BY <2>2, <3>1, <1>1, <1>u, <1>t DEF IInv, JarCurrent
  <2> QED BY <2>1, <2>2
<1>11. ForcedForCause'
  BY <1>1, <1>u DEF IInv, ForcedForCause
<1> QED BY <1>2, <1>3, <1>5, <1>6, <1>7, <1>8, <1>9, <1>10, <1>11 DEF IInv

(* The answer of a rotation reaches the browser. *)
LEMMA RenewedSafe ==
    ASSUME IInv, NEW r \in Requests, Renewed(r)
    PROVE  IInv'
<1>n. /\ req[r] \in ReqType /\ req[r].pc = "renewed" /\ ~req[r].dead
      /\ req[r].tok \notin revoked \cup {jar, NoToken}
      /\ \A q \in Others(r) : req[q].tok # req[r].tok
  BY Typed DEF IInv, TypeOK, Renewed, Fresh
<1>1. /\ Moves(r) /\ req'[r].pc = "sent" /\ req'[r].tok = req[r].tok
      /\ req'[r].retry = TRUE /\ ~req'[r].dead
  <2> DEFINE x == [req[r] EXCEPT !.pc = "sent", !.retry = TRUE, !.tok = req[r].tok]
  <2>1. /\ x \in ReqType /\ x.pc = "sent" /\ x.tok = req[r].tok
        /\ x.retry = TRUE /\ x.dead = req[r].dead
    BY <1>n DEF ReqType
  <2>2. Put(r, x)
    BY DEF Renewed, SetCookies
  <2> HIDE DEF x
  <2>3. Moves(r) /\ req'[r] = x
    BY <2>1, <2>2, PutMoves DEF IInv
  <2> QED BY <1>n, <2>1, <2>3
<1>u. /\ UNCHANGED <<issued, family, revoked, over, expired, page, sends, odd, overlap, forked>>
      /\ UNCHANGED <<orphaned, cleared, forced, out, flying>>
      /\ jar' = req[r].tok
  BY DEF Renewed, server, ghosts, SetCookies
<1>2. TypeOK'
  <2>1. req' \in [Requests -> ReqType]
    BY <1>1 DEF Moves
  <2>2. \A q \in Requests : /\ req'[q].retry => req'[q].pc = "sent"
                            /\ req'[q].dead => req'[q].pc \in {"asking", "rotating", "refused"}
    BY <1>1 DEF Moves, IInv, TypeOK
  <2>3. jar' \in Tokens \cup {NoToken}
    BY <1>n, <1>u DEF ReqType
  <2> QED BY <1>u, <2>1, <2>2, <2>3 DEF IInv, TypeOK
<1>3. Numbered'
  <2>1. \A q \in Requests : Owes(req'[q]) => Owes(req[q])
    BY <1>1 DEF Owes, Moves
  <2>2. issued + Cardinality(Owing') <= 1 + sends + odd
    BY <2>1, CountKept DEF IInv
  <2> QED BY <1>1, <1>u, <2>2 DEF IInv, Numbered, Moves
<1>4. ASSUME NEW q \in Requests, req'[q].pc \in Renewing
      PROVE  /\ q # r /\ req'[q] = req[q] /\ req[q].tok # req[r].tok
             /\ Others(q)' \subseteq Others(q) /\ \A p \in Others(q)' : req'[p] = req[p]
  <2>1. q # r /\ req'[q] = req[q]
    BY <1>1, <1>4 DEF Moves, Renewing
  <2>2. q \in Others(r)
    BY <2>1, <1>4 DEF Others
  <2> QED BY <1>n, <1>1, <2>1, <2>2 DEF Others, Moves, Renewing
<1>5. Fresh'
  <2>1. ASSUME NEW q \in Requests, req'[q].pc = "renewed"
        PROVE  /\ req'[q].tok \notin revoked \cup {jar', NoToken}
               /\ \A p \in Others(q)' : req'[p].tok # req'[q].tok
    <3>1. req'[q].pc \in Renewing
      BY <2>1 DEF Renewing
    <3> QED BY <2>1, <3>1, <1>4, <1>u DEF IInv, Fresh
  <2> QED BY <2>1, <1>u DEF Fresh
<1>6. Single'
  <2>1. ASSUME NEW q \in Requests, req'[q].pc = "rotating"
        PROVE  /\ req'[q].tok # NoToken
               /\ forked \/ (/\ req'[q].tok \notin revoked
                             /\ \A p \in Others(q)' : req'[p].pc = "rotating" => req'[p].tok # req'[q].tok)
    <3>1. req'[q].pc \in Renewing
      BY <2>1 DEF Renewing
    <3> QED BY <2>1, <3>1, <1>4 DEF IInv, Single
  <2> QED BY <2>1, <1>u DEF Single
<1>7. Causes'
  <2>1. \A q \in Requests : req'[q].pc \in Renewing /\ Others(q)' # {} => overlap'
    BY <1>4, <1>u DEF IInv, Causes
  <2>2. ASSUME NEW q \in Requests \ {r} PROVE req'[q] = req[q]
    BY <1>1 DEF Moves
  <2> QED BY <1>n, <1>1, <1>u, <2>1, <2>2 DEF IInv, Causes
<1>8. Ended'
  <2>1. ~(out /\ flying = {})
    BY <1>n DEF IInv, Ended
  <2> QED BY <1>u, <2>1 DEF Ended
<1>9. OneLiveToken'
  BY <1>u DEF IInv, OneLiveToken, Live
<1>10. JarCurrent'
  BY <1>n, <1>u DEF JarCurrent
<1>11. ForcedForCause'
  BY <1>u DEF IInv, ForcedForCause
<1> QED BY <1>2, <1>3, <1>5, <1>6, <1>7, <1>8, <1>9, <1>10, <1>11 DEF IInv

-----------------------------------------------------------------------------
(***************************************************************************)
(* A tab goes to the login page.                                           *)
(***************************************************************************)

(* What becomes of a request when a tab is left: it goes on as it was, or  *)
(* without its page, or is gone.                                           *)
Remains(q) ==
    /\ req'[q] \in ReqType
    /\ \/ req'[q].pc = "idle" /\ req'[q].tok = 0 /\ ~req'[q].retry /\ ~req'[q].dead
       \/ req'[q] = req[q]
       \/ /\ req[q].pc \in {"asking", "rotating"} /\ req'[q].pc = req[q].pc
          /\ req'[q].tok = req[q].tok /\ req'[q].retry = req[q].retry /\ req'[q].dead = TRUE

(* The steps that lead to the login page have this in common. *)
Leaves(t) ==
    /\ ToLogin(t)
    /\ UNCHANGED <<server, expired, sends, overlap, forked>>
    /\ odd' \in 0..MaxOdd /\ odd <= odd'

LEMMA RequestsRemain ==
    ASSUME TypeOK, NEW t \in Tabs, req' = Left(t)
    PROVE  /\ req' \in [Requests -> ReqType]
           /\ \A q \in Requests : /\ Remains(q)
                                  /\ TabOf[q] # t => req'[q] = req[q]
                                  /\ TabOf[q] = t => \/ req'[q].pc = "idle"
                                                     \/ req'[q].pc \in {"asking", "rotating"} /\ req'[q].dead
                                  /\ req[q].pc = "renewed" /\ req'[q] # req[q] => Unseen(t)
<1>1. ASSUME NEW q \in Requests
      PROVE  /\ Remains(q)
             /\ TabOf[q] # t => req'[q] = req[q]
             /\ TabOf[q] = t => \/ req'[q].pc = "idle"
                                \/ req'[q].pc \in {"asking", "rotating"} /\ req'[q].dead
             /\ req[q].pc = "renewed" /\ req'[q] # req[q] => Unseen(t)
  <2>1. CASE TabOf[q] # t
    <3>1. req'[q] = req[q]
      BY <2>1 DEF Left
    <3> QED BY <2>1, <3>1, Typed DEF Remains
  <2>2. CASE TabOf[q] = t /\ req[q].pc \in {"asking", "rotating"}
    <3> DEFINE x == [req[q] EXCEPT !.dead = TRUE]
    <3>1. /\ x \in ReqType /\ x.pc = req[q].pc /\ x.tok = req[q].tok
          /\ x.retry = req[q].retry /\ x.dead = TRUE
      BY Typed DEF ReqType
    <3>2. req'[q] = x
      BY <2>2 DEF Left
    <3> HIDE DEF x
    <3> QED BY <2>2, <3>1, <3>2 DEF Remains
  <2>3. CASE TabOf[q] = t /\ req[q].pc \notin {"asking", "rotating"}
    <3>1. req'[q] = Idle
      BY <2>3 DEF Left
    <3>2. /\ Idle \in ReqType /\ Idle.pc = "idle" /\ Idle.tok = 0
          /\ ~Idle.retry /\ ~Idle.dead
      BY IdleIsRequest DEF Idle, NoToken
    <3> QED BY <2>3, <3>1, <3>2 DEF Remains, Unseen
  <2> QED BY <2>1, <2>2, <2>3
<1>2. req' \in [Requests -> ReqType]
  BY <1>1 DEF Left, Remains
<1> QED BY <1>1, <1>2

(* What holds whoever sent the tab there. *)
LEMMA LeavesSafe ==
    ASSUME IInv, NEW t \in Tabs, Leaves(t),
           out' \in BOOLEAN, flying' \in SUBSET Requests, forced' \in SUBSET Whys
    PROVE  TypeOK' /\ Numbered' /\ Fresh' /\ Single' /\ Causes' /\ OneLiveToken' /\ JarCurrent'
<1>u. /\ UNCHANGED <<issued, family, revoked, over, expired, sends, overlap, forked>>
      /\ jar' = NoToken /\ cleared' = TRUE /\ page' = [page EXCEPT ![t] = "login"]
      /\ orphaned' = (orphaned \/ Unseen(t)) /\ req' = Left(t)
  BY DEF Leaves, ToLogin, server
<1>d. odd' \in 0..MaxOdd /\ odd <= odd'
  BY DEF Leaves
<1>o. orphaned' \in BOOLEAN /\ (orphaned => orphaned')
  BY <1>u DEF IInv, TypeOK
<1>1. req' \in [Requests -> ReqType] /\ \A q \in Requests : Remains(q)
  BY <1>u, RequestsRemain DEF IInv
<1>2. TypeOK'
  <2>1. \A q \in Requests : /\ req'[q].retry => req'[q].pc = "sent"
                            /\ req'[q].dead => req'[q].pc \in {"asking", "rotating", "refused"}
    BY <1>1 DEF Remains, IInv, TypeOK
  <2>2. page' \in [Tabs -> {"console", "login"}]
    BY <1>u DEF IInv, TypeOK
  <2> QED BY <1>u, <1>o, <1>d, <1>1, <2>1, <2>2 DEF IInv, TypeOK
<1>3. Numbered'
  <2>1. \A q \in Requests : Owes(req'[q]) => Owes(req[q])
    BY <1>1 DEF Owes, Remains
  <2>2. issued + Cardinality(Owing') <= 1 + sends + odd /\ Cardinality(Owing') \in Nat
    BY <2>1, CountKept, NoneOwesMore DEF IInv
  <2>3. issued + Cardinality(Owing') <= 1 + sends + odd'
    <3>1. issued \in Nat /\ sends \in Nat /\ odd \in Nat /\ odd' \in Nat
      BY <1>d, NumberLeft DEF IInv, TypeOK
    <3> QED BY <2>2, <1>d, <3>1
  <2>4. issued \in Nat
    BY NumberLeft DEF IInv
  <2>5. \A q \in Requests : req'[q].tok \in 0..issued
    BY <1>1, <2>4 DEF Remains, IInv, Numbered
  <2> QED BY <1>u, <2>3, <2>4, <2>5 DEF IInv, Numbered, NoToken
<1>4. ASSUME NEW q \in Requests, req'[q].pc \in Renewing
      PROVE  /\ req[q].pc = req'[q].pc /\ req[q].tok = req'[q].tok
             /\ Others(q)' \subseteq Others(q)
             /\ \A p \in Others(q)' : req[p].pc = req'[p].pc /\ req[p].tok = req'[p].tok
  BY <1>1, <1>4 DEF Remains, Others, Renewing
<1>5. Fresh'
  <2>1. ASSUME NEW q \in Requests, req'[q].pc = "renewed"
        PROVE  /\ req'[q].tok \notin revoked \cup {NoToken}
               /\ \A p \in Others(q)' : req'[p].tok # req'[q].tok
    <3>1. req'[q].pc \in Renewing
      BY <2>1 DEF Renewing
    <3> QED BY <2>1, <3>1, <1>4 DEF IInv, Fresh
  <2> QED BY <2>1, <1>u DEF Fresh
<1>6. Single'
  <2>1. ASSUME NEW q \in Requests, req'[q].pc = "rotating"
        PROVE  /\ req'[q].tok # NoToken
               /\ forked \/ (/\ req'[q].tok \notin revoked
                             /\ \A p \in Others(q)' : req'[p].pc = "rotating" => req'[p].tok # req'[q].tok)
    <3>1. req'[q].pc \in Renewing
      BY <2>1 DEF Renewing
    <3> QED BY <2>1, <3>1, <1>4 DEF IInv, Single
  <2> QED BY <2>1, <1>u DEF Single
<1>7. Causes'
  <2>1. \A q \in Requests : req'[q].pc \in Renewing /\ Others(q)' # {} => overlap'
    BY <1>4, <1>u DEF IInv, Causes
  <2>2. ASSUME NEW q \in Requests
        PROVE  /\ req'[q].pc = "asking" => req[q].pc = "asking" /\ req[q].tok = req'[q].tok
               /\ req'[q].pc \in {"refused", "clearing"} => req'[q] = req[q]
    BY <1>1 DEF Remains
  <2> QED BY <1>u, <1>o, <2>1, <2>2 DEF IInv, Causes
<1>8. OneLiveToken'
  BY <1>u DEF IInv, OneLiveToken, Live
<1>9. JarCurrent'
  <2>1. NoToken \notin revoked
    BY NumberLeft DEF IInv, Numbered, NoToken
  <2> QED BY <1>u, <2>1 DEF JarCurrent
<1> QED BY <1>2, <1>3, <1>5, <1>6, <1>7, <1>8, <1>9

LEMMA ClearedSafe ==
    ASSUME IInv, NEW r \in Requests, Cleared(r)
    PROVE  IInv'
<1> DEFINE t == TabOf[r]
<1>1. t \in Tabs
  OBVIOUS
<1>2. /\ req[r].pc = "clearing" /\ ToLogin(t) /\ forced' = forced \cup {req[r].why}
      /\ UNCHANGED <<server, expired, sends, odd, overlap, forked, out, flying>>
  BY DEF Cleared
<1>3. odd' \in 0..MaxOdd /\ odd <= odd'
  BY <1>2 DEF IInv, TypeOK
<1>4. Leaves(t)
  BY <1>2, <1>3 DEF Leaves
<1> HIDE DEF t
<1>5. req[r].why \in Whys
  BY Typed DEF IInv, ReqType
<1>6. out' \in BOOLEAN /\ flying' \in SUBSET Requests /\ forced' \in SUBSET Whys
  BY <1>2, <1>5 DEF IInv, TypeOK
<1>7. TypeOK' /\ Numbered' /\ Fresh' /\ Single' /\ Causes' /\ OneLiveToken' /\ JarCurrent'
  BY <1>1, <1>4, <1>6, LeavesSafe
<1>8. Ended'
  <2>1. \A q \in Requests : Remains(q)
    BY <1>1, <1>2, RequestsRemain DEF IInv, ToLogin
  <2>2. jar' = NoToken
    BY <1>2 DEF ToLogin
  <2> QED BY <1>2, <2>1, <2>2 DEF IInv, Ended, Remains
<1>9. ForcedForCause'
  <2>1. /\ req[r].why # "none"
        /\ req[r].why = "replaced" => overlap \/ orphaned
    BY <1>2 DEF IInv, Causes
  <2>2. cleared' /\ (orphaned => orphaned') /\ overlap' = overlap
    BY <1>2 DEF ToLogin
  <2>3. \A w : w \in forced' <=> w \in forced \/ w = req[r].why
    BY <1>2
  <2>4. /\ "none" \notin forced
        /\ "replaced" \in forced => overlap \/ orphaned
    BY DEF IInv, ForcedForCause
  <2>5. "none" \notin forced'
    BY <2>1, <2>3, <2>4
  <2>6. "replaced" \in forced' => overlap' \/ orphaned'
    BY <2>1, <2>2, <2>3, <2>4
  <2> QED BY <2>2, <2>5, <2>6 DEF ForcedForCause
<1> QED BY <1>7, <1>8, <1>9 DEF IInv

LEMMA LogoutSafe ==
    ASSUME IInv, NEW t \in Tabs, Logout(t)
    PROVE  IInv'
<1>2. /\ ToLogin(t) /\ out' = TRUE
      /\ flying' = {r \in Requests : TabOf[r] # t /\ req[r].pc \in Renewing}
      /\ UNCHANGED <<server, expired, sends, overlap, forked, forced>>
  BY DEF Logout
<1>3. odd' \in 0..MaxOdd /\ odd <= odd'
  BY DEF Logout, Odd, IInv, TypeOK
<1>4. Leaves(t)
  BY <1>2, <1>3 DEF Leaves
<1>6. out' \in BOOLEAN /\ flying' \in SUBSET Requests /\ forced' \in SUBSET Whys
  BY <1>2 DEF IInv, TypeOK
<1>7. TypeOK' /\ Numbered' /\ Fresh' /\ Single' /\ Causes' /\ OneLiveToken' /\ JarCurrent'
  BY <1>4, <1>6, LeavesSafe
<1>8. Ended'
  <2>1. \A q \in Requests : /\ TabOf[q] # t => req'[q] = req[q]
                            /\ TabOf[q] = t => \/ req'[q].pc = "idle"
                                               \/ req'[q].pc \in {"asking", "rotating"} /\ req'[q].dead
    BY <1>2, RequestsRemain DEF IInv, ToLogin
  <2>2. jar' = NoToken
    BY <1>2 DEF ToLogin
  <2>3. flying' = {} => \A q \in Requests : TabOf[q] = t \/ req[q].pc \notin Renewing
    BY <1>2
  <2> QED BY <2>1, <2>2, <2>3 DEF Ended, Renewing
<1>9. ForcedForCause'
  <2>1. cleared' /\ (orphaned => orphaned') /\ overlap' = overlap /\ forced' = forced
    BY <1>2 DEF ToLogin
  <2> QED BY <2>1 DEF IInv, ForcedForCause
<1> QED BY <1>7, <1>8, <1>9 DEF IInv

-----------------------------------------------------------------------------
(***************************************************************************)
(* A login, and time.                                                      *)
(***************************************************************************)

LEMMA LoginSafe ==
    ASSUME IInv, NEW t \in Tabs, Login(t)
    PROVE  IInv'
<1>u. /\ UNCHANGED <<revoked, over, expired, req, sends, overlap, forked, orphaned, cleared, forced>>
      /\ issued' = issued + 1 /\ jar' = issued + 1
      /\ page' = [page EXCEPT ![t] = "console"]
      /\ family' = [family EXCEPT ![issued + 1] = issued + 1]
      /\ out' = FALSE /\ flying' = {}
  BY DEF Login
<1>d. odd < MaxOdd /\ odd' = odd + 1 /\ odd \in Nat /\ odd' \in 0..MaxOdd
  BY DEF Login, Odd, IInv, TypeOK
<1>n. issued \in Nat /\ issued \in Tokens /\ issued + 1 \in Tokens
  BY <1>d, NumberLeft DEF IInv, TypeOK
<1>s. /\ revoked \subseteq 1..issued /\ jar \in 0..issued
      /\ \A q \in Requests : req[q].tok \in 0..issued
      /\ \A m \in 1..issued : family[m] \in 1..issued
  BY DEF IInv, Numbered
<1>f. /\ family' \in [Tokens -> Tokens] /\ family'[issued + 1] = issued + 1
      /\ \A m \in 1..issued : family'[m] = family[m]
  <2>1. \A m \in 1..issued : m \in Tokens /\ m # issued + 1
    BY <1>n DEF Tokens
  <2>2. family \in [Tokens -> Tokens]
    BY DEF IInv, TypeOK
  <2> QED BY <1>n, <1>u, <2>1, <2>2
<1>2. TypeOK'
  <2>1. page' \in [Tabs -> {"console", "login"}]
    BY <1>u DEF IInv, TypeOK
  <2> QED BY <1>u, <1>d, <1>n, <1>f, <2>1 DEF IInv, TypeOK
<1>3. Numbered'
  <2>1. Owing' = Owing
    BY <1>u DEF Owing
  <2>2. issued + Cardinality(Owing) <= 1 + sends + odd /\ Cardinality(Owing) \in Nat
    BY OwingCounts DEF IInv, Numbered
  <2>3. sends \in Nat
    BY DEF IInv, TypeOK
  <2>4. issued + 1 + Cardinality(Owing) <= 1 + sends + (odd + 1)
    BY <1>n, <1>d, <2>2, <2>3
  <2>5. revoked \subseteq 1..(issued + 1) /\ issued + 1 \in 0..(issued + 1)
    BY <1>n, <1>s
  <2>6. \A q \in Requests : req[q].tok \in 0..(issued + 1)
    BY <1>n, <1>s
  <2>7. \A m \in 1..(issued + 1) : family'[m] \in 1..(issued + 1)
    BY <1>n, <1>s, <1>f
  <2> QED BY <1>u, <1>d, <2>1, <2>4, <2>5, <2>6, <2>7 DEF Numbered
<1>4. \A q \in Requests : Others(q)' = Others(q)
  BY <1>u DEF Others
<1>5. Fresh'
  <2>1. \A q \in Requests : req[q].tok # issued + 1
    BY <1>n, <1>s
  <2> QED BY <1>u, <1>4, <2>1 DEF IInv, Fresh
<1>6. Single'
  BY <1>u, <1>4 DEF IInv, Single
<1>7. Causes'
  <2>1. issued + 1 # NoToken
    BY <1>n DEF NoToken
  <2> QED BY <1>u, <1>4, <2>1 DEF IInv, Causes
<1>8. Ended'
  BY <1>u DEF Ended
<1>9. OneLiveToken'
  <2> SUFFICES ASSUME ~forked, NEW m \in Live', NEW p \in Live', family'[m] = family'[p]
               PROVE  m = p
    BY <1>u DEF OneLiveToken
  <2>1. Live' = (1..(issued + 1)) \ revoked
    BY <1>u DEF Live
  <2>2. ASSUME NEW x \in Live'
        PROVE  x = issued + 1 \/ (x \in Live /\ x \in 1..issued /\ family'[x] = family[x] /\ family'[x] # issued + 1)
    <3>1. x = issued + 1 \/ x \in 1..issued
      BY <2>1, <1>n
    <3>2. x \in 1..issued => family'[x] = family[x] /\ family[x] # issued + 1
      BY <1>n, <1>f, <1>s
    <3>3. x \in 1..issued => x \in Live
      BY <2>1 DEF Live
    <3> QED BY <3>1, <3>2, <3>3
  <2>3. \A x, y \in Live : family[x] = family[y] => x = y
    BY DEF IInv, OneLiveToken
  <2> QED BY <2>2, <2>3, <1>f
<1>10. JarCurrent'
  <2>1. issued + 1 \notin revoked
    BY <1>n, <1>s
  <2> QED BY <1>u, <2>1 DEF JarCurrent
<1>11. ForcedForCause'
  BY <1>u DEF IInv, ForcedForCause
<1> QED BY <1>2, <1>3, <1>5, <1>6, <1>7, <1>8, <1>9, <1>10, <1>11 DEF IInv

(* Nothing but the time of tokens changes. *)
LEMMA TimeSafe ==
    ASSUME IInv, UNCHANGED <<issued, family, revoked, jar, page, req, sends, ghosts>>,
           odd' \in 0..MaxOdd, odd <= odd', expired' \in SUBSET Tokens, over' \in SUBSET Tokens
    PROVE  IInv'
<1>u. /\ UNCHANGED <<issued, family, revoked, jar, page, req, sends, overlap, forked>>
      /\ UNCHANGED <<orphaned, cleared, forced, out, flying>>
  BY DEF ghosts
<1>1. TypeOK'
  BY <1>u DEF IInv, TypeOK
<1>2. Owing' = Owing /\ (\A q \in Requests : Others(q)' = Others(q)) /\ Live' = Live
  BY <1>u DEF Owing, Others, Live
<1>3. Numbered'
  <2>1. issued \in Nat /\ sends \in Nat /\ odd \in Nat /\ odd' \in Nat
    BY NumberLeft DEF IInv, TypeOK
  <2>2. issued + Cardinality(Owing) <= 1 + sends + odd /\ Cardinality(Owing) \in Nat
    BY OwingCounts DEF IInv, Numbered
  <2>3. issued + Cardinality(Owing) <= 1 + sends + odd'
    BY <2>1, <2>2
  <2> QED BY <1>u, <1>2, <2>3 DEF IInv, Numbered
<1>4. Fresh' /\ Single'
  BY <1>u, <1>2 DEF IInv, Fresh, Single
<1>5. Causes'
  BY <1>u, <1>2 DEF IInv, Causes
<1>6. Ended' /\ ForcedForCause'
  BY <1>u DEF IInv, Ended, ForcedForCause
<1>7. OneLiveToken' /\ JarCurrent'
  BY <1>u, <1>2 DEF IInv, OneLiveToken, JarCurrent
<1> QED BY <1>1, <1>3, <1>4, <1>5, <1>6, <1>7 DEF IInv

-----------------------------------------------------------------------------
LEMMA Initially == Init => IInv
<1> SUFFICES ASSUME Init PROVE IInv
  OBVIOUS
<1>1. issued = 1 /\ 1 \in Tokens
  BY DEF Init, Tokens
<1>2. TypeOK
  <2>1. req \in [Requests -> ReqType] /\ \A r \in Requests : ~req[r].retry /\ ~req[r].dead
    <3>1. ~Idle.retry /\ ~Idle.dead
      BY DEF Idle
    <3> QED BY <3>1, IdleIsRequest DEF Init
  <2>2. family \in [Tokens -> Tokens] /\ page \in [Tabs -> {"console", "login"}]
    BY <1>1 DEF Init
  <2>3. sends \in 0..MaxSends /\ odd \in 0..MaxOdd
    BY DEF Init
  <2>4. jar \in Tokens /\ revoked = {} /\ expired = {} /\ over = {} /\ forced = {} /\ flying = {}
    BY <1>1 DEF Init
  <2>5. /\ overlap \in BOOLEAN /\ forked \in BOOLEAN /\ orphaned \in BOOLEAN
        /\ cleared \in BOOLEAN /\ out \in BOOLEAN
    BY DEF Init
  <2> QED BY <1>1, <2>1, <2>2, <2>3, <2>4, <2>5 DEF TypeOK
<1>3. \A r \in Requests : req[r].pc = "idle" /\ req[r].tok = 0
  BY DEF Init, Idle, NoToken
<1>4. Numbered
  <2>1. Owing = {}
    BY <1>3 DEF Owing, Owes
  <2>2. Cardinality(Owing) = 0
    BY <2>1, FS_EmptySet
  <2>3. \A n \in 1..issued : family[n] \in 1..issued
    BY <1>1 DEF Init
  <2> QED BY <1>1, <1>3, <2>2, <2>3 DEF Init, Numbered
<1>5. Fresh /\ Single /\ Ended
  BY <1>3 DEF Init, Fresh, Single, Ended
<1>6. Causes
  <2>1. jar # NoToken
    BY DEF Init, NoToken
  <2>2. \A r \in Requests : req[r].pc \notin Renewing \cup {"refused", "clearing"}
    BY <1>3 DEF Renewing
  <2> QED BY <2>1, <2>2 DEF Causes, Renewing
<1>7. OneLiveToken /\ JarCurrent /\ ForcedForCause
  BY <1>1 DEF Init, OneLiveToken, JarCurrent, ForcedForCause, Live
<1> QED BY <1>2, <1>4, <1>5, <1>6, <1>7 DEF IInv

LEMMA EveryStepSafe == IInv /\ [Next]_vars => IInv'
<1> SUFFICES ASSUME IInv, [Next]_vars PROVE IInv'
  OBVIOUS
<1>1. ASSUME NEW r \in Requests, Send(r) PROVE IInv'
  BY <1>1, SendSafe
<1>2. ASSUME NEW r \in Requests, Progress(r) PROVE IInv'
  BY <1>2, ServeSafe, RefreshSafe, ReadTokenSafe, RotateSafe, RenewedSafe, GiveUpSafe, ClearedSafe DEF Progress
<1>3. ASSUME NEW r \in Requests, Lost(r) PROVE IInv'
  BY <1>3, LostSafe
<1>4. ASSUME NEW t \in Tabs, Logout(t) PROVE IInv'
  BY <1>4, LogoutSafe
<1>5. ASSUME NEW t \in Tabs, Login(t) PROVE IInv'
  BY <1>5, LoginSafe
<1>6. CASE AccessExpires
  <2>1. UNCHANGED <<issued, family, revoked, jar, page, req, sends, ghosts>>
    BY <1>6 DEF AccessExpires, server
  <2>2. odd' \in 0..MaxOdd /\ odd <= odd' /\ expired' \in SUBSET Tokens /\ over' \in SUBSET Tokens
    BY <1>6 DEF AccessExpires, server, IInv, TypeOK
  <2> QED BY <2>1, <2>2, TimeSafe
<1>7. CASE RefreshExpires
  <2>1. UNCHANGED <<issued, family, revoked, jar, page, req, sends, ghosts>>
    BY <1>7 DEF RefreshExpires
  <2>2. odd' \in 0..MaxOdd /\ odd <= odd' /\ expired' \in SUBSET Tokens /\ over' \in SUBSET Tokens
    BY <1>7 DEF RefreshExpires, Odd, IInv, TypeOK
  <2> QED BY <2>1, <2>2, TimeSafe
<1>8. CASE UNCHANGED vars
  <2>1. UNCHANGED <<issued, family, revoked, jar, page, req, sends, ghosts>>
    BY <1>8 DEF vars, server
  <2>2. odd' \in 0..MaxOdd /\ odd <= odd' /\ expired' \in SUBSET Tokens /\ over' \in SUBSET Tokens
    BY <1>8 DEF vars, server, IInv, TypeOK
  <2> QED BY <2>1, <2>2, TimeSafe
<1> QED BY <1>1, <1>2, <1>3, <1>4, <1>5, <1>6, <1>7, <1>8 DEF Next

-----------------------------------------------------------------------------
(* The strengthened invariant holds in every behaviour: tokens in use were *)
(* issued, an answer on its way carries a token only its request knows,    *)
(* and what a refusal will be told to come from has happened.              *)
THEOREM Invariant == Spec => []IInv
  BY Initially, EveryStepSafe, PTL DEF Spec

(* Every state has its type: in particular a request that was sent again   *)
(* is never renewed a second time (_retry in the interceptor).             *)
THEOREM TypeCorrect == Spec => []TypeOK
<1>1. IInv => TypeOK
  BY DEF IInv
<1> QED BY <1>1, Invariant, PTL

(* One login has one refresh token that is good, however often and by      *)
(* however many tabs it was renewed, unless two rotations read the same    *)
(* token before either of them wrote (rotate_refresh_token).               *)
THEOREM KeepsOneToken == Spec => []OneLiveToken
<1>1. IInv => OneLiveToken
  BY DEF IInv
<1> QED BY <1>1, Invariant, PTL

(* The browser has the good refresh token or is about to get it, unless    *)
(* the answer of a rotation was lost.                                      *)
THEOREM KeepsJarCurrent == Spec => []JarCurrent
<1>1. IInv => JarCurrent
  BY DEF IInv
<1> QED BY <1>1, Invariant, PTL

(* A tab is sent to the login page only if its session was over, a call    *)
(* was lost, the cookies were cleared, or renewals overlapped.             *)
THEOREM ForcesForCause == Spec => []ForcedForCause
<1>1. IInv => ForcedForCause
  BY DEF IInv
<1> QED BY <1>1, Invariant, PTL

(* After a logout the cookies come back only through a renewal that        *)
(* another tab had begun before it.                                        *)
THEOREM ReturnsByFlight == Spec => []BackByFlight
<1>1. IInv => BackByFlight
  BY DEF IInv, Ended, BackByFlight
<1> QED BY <1>1, Invariant, PTL
=============================================================================
