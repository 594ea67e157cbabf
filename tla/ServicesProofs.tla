--------------------------- MODULE ServicesProofs ---------------------------
(***************************************************************************)
(* Theorems of Services.  Of the ingest of calls: no call is lost but by a *)
(* fault, and a batch by each at most; none is stored again and again; and *)
(* the plan's limit is passed by no more than what was in flight.  Of the  *)
(* breaker of the SDK, for any threshold, of the windows usage is counted  *)
(* in, for any calendar, of operational alerts, for any number of threads, *)
(* of the ledger, for any number of sessions; and of all of them together. *)
(***************************************************************************)
EXTENDS Services, FiniteSetTheorems, FunctionTheorems, SequenceTheorems, WellFoundedInduction, TLAPS

(***************************************************************************)
(* Sets, sequences and how many.                                           *)
(***************************************************************************)

LEMMA Same == \A S : Ingest!Cardinality(S) = Cardinality(S) /\ (Ingest!IsFiniteSet(S) <=> IsFiniteSet(S))
  BY DEF Ingest!Cardinality, Cardinality, Ingest!IsFiniteSet, IsFiniteSet

(* A set grows by no more than what is added to it.                        *)
LEMMA Grows ==
    ASSUME NEW S, NEW T, NEW U, IsFiniteSet(S), IsFiniteSet(T), U \subseteq S \cup T
    PROVE  /\ IsFiniteSet(U) /\ Cardinality(U) \in Nat
           /\ Cardinality(U) <= Cardinality(S) + Cardinality(T)
<1>1. /\ IsFiniteSet(S \cup T)
      /\ Cardinality(S \cup T) = Cardinality(S) + Cardinality(T) - Cardinality(S \cap T)
  BY FS_Union
<1>2. IsFiniteSet(S \cap T)
  BY FS_Subset
<1>3. Cardinality(S) \in Nat /\ Cardinality(T) \in Nat /\ Cardinality(S \cap T) \in Nat
  BY <1>2, FS_CardinalityType
<1>4. IsFiniteSet(U) /\ Cardinality(U) <= Cardinality(S \cup T)
  BY <1>1, FS_Subset
<1>5. Cardinality(U) \in Nat
  BY <1>4, FS_CardinalityType
<1> QED BY <1>1, <1>3, <1>4, <1>5

(* Sets of at most m members, one for each q, have m times as many.        *)
LEMMA Fibers ==
    ASSUME NEW Q, IsFiniteSet(Q), NEW m \in Nat, NEW T,
           \A q \in Q : IsFiniteSet(T[q]) /\ Cardinality(T[q]) <= m
    PROVE  /\ IsFiniteSet(UNION {{q} \X T[q] : q \in Q})
           /\ Cardinality(UNION {{q} \X T[q] : q \in Q}) <= Cardinality(Q) * m
<1> DEFINE S == UNION {{q} \X T[q] : q \in Q}
           g == [q \in Q |-> CHOOSE h : h \in Injection(T[q], 1..m)]
           f == [x \in S |-> <<x[1], g[x[1]][x[2]]>>]
<1>1. ASSUME NEW q \in Q
      PROVE  g[q] \in Injection(T[q], 1..m)
  <2> DEFINE k == Cardinality(T[q])
  <2>1. k \in Nat /\ k <= m /\ ExistsBijection(1..k, T[q])
    BY FS_CardinalityType
  <2>2. ExistsBijection(T[q], 1..k)
    BY <2>1, Fun_ExistsBijSymmetric
  <2>3. PICK h : h \in Bijection(T[q], 1..k)
    BY <2>2 DEF ExistsBijection
  <2>4. 1..k \subseteq 1..m
    BY <2>1
  <2> HIDE DEF k
  <2>5. h \in Injection(T[q], 1..m)
    BY <2>3, <2>4 DEF Bijection, Injection, IsInjective
  <2> QED BY <2>5
<1>2. IsFiniteSet(1..m) /\ Cardinality(1..m) = m
  BY FS_Interval
<1>3. IsFiniteSet(Q \X (1..m)) /\ Cardinality(Q \X (1..m)) = Cardinality(Q) * m
  BY <1>2, FS_Product
<1>4. f \in Injection(S, Q \X (1..m))
  <2> HIDE DEF g
  <2>1. ASSUME NEW x \in S
        PROVE  x[1] \in Q /\ x[2] \in T[x[1]] /\ x = <<x[1], x[2]>> /\ g[x[1]][x[2]] \in 1..m
    <3>1. x[1] \in Q /\ x[2] \in T[x[1]] /\ x = <<x[1], x[2]>>
      OBVIOUS
    <3> QED BY <3>1, <1>1 DEF Injection
  <2>2. f \in [S -> Q \X (1..m)]
    BY <2>1
  <2>3. ASSUME NEW x \in S, NEW y \in S, f[x] = f[y]
        PROVE  x = y
    <3>1. x[1] = y[1] /\ g[x[1]][x[2]] = g[y[1]][y[2]]
      BY <2>3
    <3>2. x[2] = y[2]
      BY <3>1, <2>1, <1>1 DEF Injection, IsInjective
    <3> QED BY <3>1, <3>2, <2>1
  <2> QED BY <2>2, <2>3 DEF Injection, IsInjective
<1>5. IsFiniteSet(S) /\ Cardinality(S) <= Cardinality(Q \X (1..m))
  BY <1>3, <1>4, FS_Injection
<1> QED BY <1>3, <1>5

(* The least number of a set. *)
LEMMA Least ==
    ASSUME NEW S \in SUBSET Nat, S # {}
    PROVE  \E k \in S : \A j \in S : k <= j
<1>1. PICK k \in S : \A j \in S : ~(<<j, k>> \in OpToRel(<, Nat))
  BY NatLessThanWellFounded, WFMin, Zenon
<1>2. \A j \in S : ~(j < k)
  BY <1>1, Zenon DEF OpToRel
<1>3. \A j \in S : j \in Nat /\ k \in Nat
  OBVIOUS
<1>4. \A j \in S : k <= j
  BY <1>2, <1>3
<1> QED BY <1>4

LEMMA Greatest ==
    ASSUME NEW n \in Nat, NEW S \in SUBSET (1..n), S # {}
    PROVE  \E k \in S : \A j \in S : j <= k
<1> DEFINE R == {n - j : j \in S}
<1>1. R \in SUBSET Nat /\ R # {}
  <2>1. \A j \in 1..n : n - j \in Nat
    OBVIOUS
  <2>2. \A j \in S : j \in 1..n
    OBVIOUS
  <2> QED BY <2>1, <2>2
<1> HIDE DEF R
<1>2. PICK m \in R : \A j \in R : m <= j
  BY <1>1, Least
<1>3. PICK k \in S : m = n - k
  BY <1>2 DEF R
<1>4. ASSUME NEW j \in S
      PROVE  j <= k
  <2>1. n - k <= n - j
    BY <1>2, <1>3 DEF R
  <2>2. j \in Nat /\ k \in Nat
    OBVIOUS
  <2> QED BY <2>1, <2>2
<1> QED BY <1>4

LEMMA AppendSet ==
    ASSUME NEW X, NEW s \in Seq(X), NEW e \in X
    PROVE  /\ Append(s, e) \in Seq(X)
           /\ Ingest!ToSet(Append(s, e)) = Ingest!ToSet(s) \cup {e}
           /\ Ingest!IsInjective(s) /\ e \notin Ingest!ToSet(s) => Ingest!IsInjective(Append(s, e))
  BY AppendProperties, LenProperties DEF Ingest!ToSet, Ingest!IsInjective

LEMMA HeadTailSet ==
    ASSUME NEW X, NEW s \in Seq(X), s # <<>>
    PROVE  /\ Tail(s) \in Seq(X) /\ Head(s) \in X /\ Len(Tail(s)) = Len(s) - 1
           /\ Ingest!ToSet(s) = {Head(s)} \cup Ingest!ToSet(Tail(s))
           /\ Ingest!IsInjective(s) => Head(s) \notin Ingest!ToSet(Tail(s)) /\ Ingest!IsInjective(Tail(s))
<1>1. /\ Tail(s) \in Seq(X) /\ Head(s) \in X /\ Head(s) = s[1]
      /\ Len(Tail(s)) = Len(s) - 1 /\ \A i \in 1..Len(s) - 1 : Tail(s)[i] = s[i + 1]
      /\ Len(s) \in Nat \ {0} /\ DOMAIN s = 1..Len(s) /\ DOMAIN Tail(s) = 1..Len(s) - 1
  BY HeadTailProperties, LenProperties
<1>2. \A i \in 1..Len(s) : i = 1 \/ (i - 1 \in 1..Len(s) - 1 /\ s[i] = Tail(s)[i - 1])
  BY <1>1
<1>3. \A i \in 1..Len(s) - 1 : i + 1 \in 1..Len(s) /\ i + 1 # 1
  BY <1>1
<1>4. 1 \in 1..Len(s)
  BY <1>1
<1>5. Ingest!ToSet(s) = {Head(s)} \cup Ingest!ToSet(Tail(s))
  <2>1. ASSUME NEW x \in Ingest!ToSet(s), x # Head(s)
        PROVE  x \in Ingest!ToSet(Tail(s))
    <3>1. PICK i \in 1..Len(s) : x = s[i]
      BY <1>1 DEF Ingest!ToSet
    <3>2. i - 1 \in 1..Len(s) - 1 /\ x = Tail(s)[i - 1]
      BY <1>1, <1>2, <2>1, <3>1
    <3> QED BY <1>1, <3>2 DEF Ingest!ToSet
  <2>2. Ingest!ToSet(Tail(s)) \subseteq Ingest!ToSet(s) /\ Head(s) \in Ingest!ToSet(s)
    BY <1>1, <1>3, <1>4 DEF Ingest!ToSet
  <2> QED BY <2>1, <2>2
<1>6. ASSUME Ingest!IsInjective(s)
      PROVE  Head(s) \notin Ingest!ToSet(Tail(s)) /\ Ingest!IsInjective(Tail(s))
  <2>1. Head(s) \notin Ingest!ToSet(Tail(s))
    BY <1>1, <1>3, <1>4, <1>6 DEF Ingest!ToSet, Ingest!IsInjective
  <2>2. ASSUME NEW i \in 1..Len(s) - 1, NEW j \in 1..Len(s) - 1, Tail(s)[i] = Tail(s)[j]
        PROVE  i = j
    <3>1. i + 1 = j + 1
      BY <1>1, <1>3, <1>6, <2>2 DEF Ingest!IsInjective
    <3> QED BY <3>1
  <2> QED BY <1>1, <2>1, <2>2 DEF Ingest!IsInjective
<1> QED BY <1>1, <1>5, <1>6

(* The first members of a sequence.                                        *)
LEMMA FirstOf ==
    ASSUME NEW X, NEW s \in Seq(X), NEW n \in 0..Len(s)
    PROVE  /\ SubSeq(s, 1, n) \in Seq(X) /\ Len(SubSeq(s, 1, n)) = n
           /\ Ingest!ToSet(SubSeq(s, 1, n)) \subseteq Ingest!ToSet(s)
<1>1. Len(s) \in Nat /\ DOMAIN s = 1..Len(s) /\ \A i \in 1..Len(s) : s[i] \in X
  BY LenProperties, ElementOfSeq
<1>2. /\ SubSeq(s, 1, n) = [i \in 1..n |-> s[i]]
      /\ Len(SubSeq(s, 1, n)) = n
      /\ SubSeq(s, 1, n) \in Seq(X)
  BY <1>1, SubSeqProperties, IsASeq
<1>3. 1..n \subseteq 1..Len(s)
  BY <1>1
<1> QED BY <1>1, <1>2, <1>3 DEF Ingest!ToSet

(* One member less, if each is there once.                                 *)
LEMMA RemoveSet ==
    ASSUME NEW X, NEW s \in Seq(X), Ingest!IsInjective(s), NEW e
    PROVE  /\ Ingest!RemoveFirst(s, e) \in Seq(X)
           /\ Ingest!ToSet(Ingest!RemoveFirst(s, e)) = Ingest!ToSet(s) \ {e}
           /\ Ingest!IsInjective(Ingest!RemoveFirst(s, e))
<1>1. PICK n \in Nat : Len(s) = n /\ DOMAIN s = 1..n /\ \A i \in 1..n : s[i] \in X
  BY LenProperties, ElementOfSeq
<1>2. CASE ~ \E i \in 1..n : s[i] = e
  <2>1. Ingest!RemoveFirst(s, e) = s
    BY <1>1, <1>2 DEF Ingest!RemoveFirst
  <2> QED BY <1>1, <1>2, <2>1 DEF Ingest!ToSet
<1>3. CASE \E i \in 1..n : s[i] = e
  <2>1. PICK k \in 1..n : s[k] = e
    BY <1>3
  <2>2. {i \in 1..n : s[i] = e} = {k}
    BY <1>1, <2>1 DEF Ingest!IsInjective
  <2>3. Ingest!SelectInSeq(s, LAMBDA v : v = e) = k
    BY <1>1, <2>2 DEF Ingest!SelectInSeq, Ingest!Min
  <2> DEFINE r == Ingest!RemoveFirst(s, e)
  <2>4. r = SubSeq(s, 1, k - 1) \o SubSeq(s, k + 1, n)
    BY <1>1, <1>3, <2>3 DEF Ingest!RemoveFirst, Ingest!RemoveAt
  <2>13. k \in Nat /\ 1 <= k /\ k <= n /\ k - 1 \in 0..n /\ n - k \in Nat
    BY <1>1
  <2>5. /\ SubSeq(s, 1, k - 1) \in Seq(X) /\ Len(SubSeq(s, 1, k - 1)) = k - 1
        /\ \A i \in 1..k - 1 : SubSeq(s, 1, k - 1)[i] = s[i]
    <3>1. k - 1 \in Int /\ 1 \in Int /\ \A i \in 1..k - 1 : s[i] \in X
      BY <1>1, <2>13
    <3>2. /\ SubSeq(s, 1, k - 1) \in Seq(X)
          /\ Len(SubSeq(s, 1, k - 1)) = IF 1 <= k - 1 THEN k - 1 - 1 + 1 ELSE 0
          /\ \A i \in 1..k - 1 - 1 + 1 : SubSeq(s, 1, k - 1)[i] = s[1 + i - 1]
      BY <3>1, SubSeqProperties
    <3>3. k - 1 - 1 + 1 = k - 1 /\ (1 <= k - 1 \/ k - 1 = 0)
      BY <2>13
    <3>4. \A i \in 1..k - 1 : 1 + i - 1 = i
      BY <2>13
    <3> QED BY <3>2, <3>3, <3>4
  <2>6. /\ SubSeq(s, k + 1, n) \in Seq(X) /\ Len(SubSeq(s, k + 1, n)) = n - k
        /\ \A i \in 1..n - k : SubSeq(s, k + 1, n)[i] = s[k + i]
    <3>1. k + 1 \in Int /\ n \in Int /\ \A i \in k + 1..n : s[i] \in X
      BY <1>1, <2>13
    <3>2. /\ SubSeq(s, k + 1, n) \in Seq(X)
          /\ Len(SubSeq(s, k + 1, n)) = IF k + 1 <= n THEN n - (k + 1) + 1 ELSE 0
          /\ \A i \in 1..n - (k + 1) + 1 : SubSeq(s, k + 1, n)[i] = s[k + 1 + i - 1]
      BY <3>1, SubSeqProperties
    <3>3. n - (k + 1) + 1 = n - k /\ (k + 1 <= n \/ n - k = 0)
      BY <1>1, <2>13
    <3>4. \A i \in 1..n - k : k + 1 + i - 1 = k + i
      BY <2>13
    <3> QED BY <3>2, <3>3, <3>4
  <2>7. /\ r \in Seq(X) /\ Len(r) = n - 1
        /\ \A i \in 1..n - 1 : r[i] = IF i < k THEN s[i] ELSE s[i + 1]
    <3> DEFINE u == SubSeq(s, 1, k - 1)
               v == SubSeq(s, k + 1, n)
    <3>1. /\ u \o v \in Seq(X) /\ Len(u \o v) = Len(u) + Len(v)
          /\ \A i \in 1..Len(u) + Len(v) : (u \o v)[i] = IF i <= Len(u) THEN u[i] ELSE v[i - Len(u)]
      BY <2>5, <2>6, ConcatProperties
    <3>2. r = u \o v /\ Len(u) = k - 1 /\ Len(v) = n - k 
      BY <2>4, <2>5, <2>6
    <3>6. k - 1 + (n - k) = n - 1
      BY <2>13
    <3>3. ASSUME NEW i \in 1..n - 1, i < k
          PROVE  i <= k - 1 /\ i \in 1..k - 1
      BY <1>1, <2>13, <3>3
    <3>4. ASSUME NEW i \in 1..n - 1, ~(i < k)
          PROVE  ~(i <= k - 1) /\ i - (k - 1) \in 1..n - k /\ k + (i - (k - 1)) = i + 1
      BY <1>1, <2>13, <3>4
    <3> HIDE DEF u, v, r
    <3>5. ASSUME NEW i \in 1..n - 1
          PROVE  r[i] = IF i < k THEN s[i] ELSE s[i + 1]
      <4>1. r[i] = IF i <= k - 1 THEN u[i] ELSE v[i - (k - 1)]
        BY <3>1, <3>2
      <4>2. CASE i < k
        BY <2>5, <3>3, <4>1, <4>2 DEF u
      <4>3. CASE ~(i < k)
        BY <2>6, <3>4, <4>1, <4>3 DEF v
      <4> QED BY <4>2, <4>3
    <3> QED BY <3>1, <3>2, <3>5, <3>6
  <2> HIDE DEF r
  <2>8. DOMAIN r = 1..n - 1
    BY <2>7, LenProperties
  <2>9. \A i \in 1..n - 1 : (IF i < k THEN i ELSE i + 1) \in (1..n) \ {k}
    BY <1>1
  <2>10. ASSUME NEW j \in 1..n, j # k
         PROVE  \E i \in 1..n - 1 : r[i] = s[j]
    <3>1. CASE j < k
      <4>1. j \in 1..n - 1
        BY <2>13, <3>1
      <4> QED BY <2>7, <3>1, <4>1
    <3>2. CASE ~(j < k)
      <4>1. j - 1 \in 1..n - 1 /\ ~(j - 1 < k) /\ j - 1 + 1 = j
        BY <2>10, <2>13, <3>2
      <4> QED BY <2>7, <4>1
    <3> QED BY <3>1, <3>2
  <2>11. Ingest!ToSet(r) = Ingest!ToSet(s) \ {e}
    <3>1. ASSUME NEW x \in Ingest!ToSet(r)
          PROVE  x \in Ingest!ToSet(s) \ {e}
      <4>1. PICK i \in 1..n - 1 : x = r[i]
        BY <2>8 DEF Ingest!ToSet
      <4>2. PICK j \in (1..n) \ {k} : x = s[j]
        BY <2>7, <2>9, <4>1
      <4> QED BY <1>1, <2>1, <4>2 DEF Ingest!ToSet, Ingest!IsInjective
    <3>2. ASSUME NEW x \in Ingest!ToSet(s), x # e
          PROVE  x \in Ingest!ToSet(r)
      <4>1. PICK j \in (1..n) \ {k} : x = s[j]
        BY <1>1, <2>1, <3>2 DEF Ingest!ToSet
      <4>2. \E i \in 1..n - 1 : x = r[i]
        BY <2>10, <4>1
      <4> QED BY <2>8, <4>2 DEF Ingest!ToSet
    <3> QED BY <3>1, <3>2
  <2>12. ASSUME NEW i \in 1..n - 1, NEW j \in 1..n - 1, r[i] = r[j]
         PROVE  i = j
    <3>1. (IF i < k THEN i ELSE i + 1) = (IF j < k THEN j ELSE j + 1)
      BY <1>1, <2>7, <2>9, <2>12 DEF Ingest!IsInjective
    <3> QED BY <1>1, <3>1
  <2> QED BY <2>7, <2>8, <2>11, <2>12 DEF Ingest!IsInjective, r
<1> QED BY <1>2, <1>3

-----------------------------------------------------------------------------
(***************************************************************************)
(* The parts of the state, and what the steps do to them.                  *)
(***************************************************************************)

LEMMA Parts ==
    ASSUME Ingest!TypeOK
    PROVE  /\ mem.hand \in [Ingest!Writers -> Ingest!Hands \cup {None}]
           /\ mem.batch \in [Processes -> Ingest!Batches \cup {None}]
           /\ red.queue \in Seq(Posted) /\ red.dead \in SUBSET Posted /\ red.stream \in Seq(Captured)
           /\ db.cap \in Caps /\ db.cap \in Nat /\ db.accepted \in SUBSET Ingest!Calls
           /\ db.rows \in [Ingest!Good -> Nat] /\ db.refused \in SUBSET Ingest!Good
           /\ odd \in Nat /\ MaxOdd \in Nat /\ Batch \in Nat \ {0} /\ odd <= MaxOdd /\ MaxOdd - odd \in Nat
           /\ Ingest!Most \in Nat
<1>1. /\ mem \in [hand : [Ingest!Writers -> Ingest!Hands \cup {None}],
                  batch : [Processes -> Ingest!Batches \cup {None}]]
      /\ red \in [queue : Seq(Posted), dead : SUBSET Posted, stream : Seq(Captured)]
  BY DEF Ingest!TypeOK
<1>2. db \in [cap : Caps, accepted : SUBSET Ingest!Calls, rows : [Ingest!Good -> Nat],
             refused : SUBSET Ingest!Good]
  BY DEF Ingest!TypeOK
<1>3. /\ db.cap \in Caps /\ db.accepted \in SUBSET Ingest!Calls
      /\ db.rows \in [Ingest!Good -> Nat] /\ db.refused \in SUBSET Ingest!Good
  BY <1>2
<1>4. MaxOdd \in Nat /\ Batch \in Nat \ {0} /\ db.cap \in Nat
  BY <1>3, IngestAssumption DEF IngestAssumption
<1>5. odd \in 0..MaxOdd
  BY DEF Ingest!TypeOK
<1>6. Ingest!Most \in Nat
  BY <1>4 DEF Ingest!Most
<1> QED BY <1>1, <1>3, <1>4, <1>5, <1>6

LEMMA HandTypes ==
    ASSUME Ingest!TypeOK, NEW w \in Ingest!Writers, mem.hand[w] # None
    PROVE  /\ mem.hand[w] \in Ingest!Hands /\ mem.hand[w].call \in Ingest!Good
           /\ mem.hand[w].allowed \in BOOLEAN \cup {None}
<1>1. mem.hand[w] \in Ingest!Hands
  BY Parts
<1> QED BY <1>1 DEF Ingest!Hands

LEMMA BatchTypes ==
    ASSUME Ingest!TypeOK, NEW p \in Processes, mem.batch[p] # None
    PROVE  /\ mem.batch[p] \in Ingest!Batches /\ mem.batch[p].step \in {"read", "checked", "stored"}
           /\ mem.batch[p].entries \in Seq(Captured) /\ mem.batch[p].take \in SUBSET Ingest!Good
           /\ Ingest!ToSet(mem.batch[p].entries) \subseteq Captured
<1>1. mem.batch[p] \in Ingest!Batches
  BY Parts
<1>2. mem.batch[p].entries \in Seq(Captured)
  BY <1>1 DEF Ingest!Batches
<1>3. Ingest!ToSet(mem.batch[p].entries) \subseteq Captured
  BY <1>2, LenProperties, ElementOfSeq DEF Ingest!ToSet
<1> QED BY <1>1, <1>3 DEF Ingest!Batches

LEMMA Finite ==
    /\ IsFiniteSet(Processes) /\ Cardinality(Processes) \in Nat
    /\ IsFiniteSet(Ingest!Writers) /\ Cardinality(Ingest!Writers) \in Nat
  BY IngestAssumption, FS_CardinalityType DEF IngestAssumption, Ingest!Writers

LEMMA HandGoes ==
    ASSUME Ingest!TypeOK, NEW w \in Ingest!Writers, NEW x \in Ingest!Hands \cup {None},
           mem' = [mem EXCEPT !.hand[w] = x]
    PROVE  /\ mem' \in [hand : [Ingest!Writers -> Ingest!Hands \cup {None}],
                        batch : [Processes -> Ingest!Batches \cup {None}]]
           /\ mem'.hand[w] = x /\ \A v \in Ingest!Writers \ {w} : mem'.hand[v] = mem.hand[v]
           /\ mem'.batch = mem.batch
<1>1. mem \in [hand : [Ingest!Writers -> Ingest!Hands \cup {None}],
               batch : [Processes -> Ingest!Batches \cup {None}]]
  BY DEF Ingest!TypeOK
<1> QED BY <1>1

LEMMA BatchGoes ==
    ASSUME Ingest!TypeOK, NEW p \in Processes, NEW x \in Ingest!Batches \cup {None},
           mem' = [mem EXCEPT !.batch[p] = x]
    PROVE  /\ mem' \in [hand : [Ingest!Writers -> Ingest!Hands \cup {None}],
                        batch : [Processes -> Ingest!Batches \cup {None}]]
           /\ mem'.batch[p] = x /\ \A q \in Processes \ {p} : mem'.batch[q] = mem.batch[q]
           /\ mem'.hand = mem.hand
<1>1. mem \in [hand : [Ingest!Writers -> Ingest!Hands \cup {None}],
               batch : [Processes -> Ingest!Batches \cup {None}]]
  BY DEF Ingest!TypeOK
<1> QED BY <1>1

(* What depends on a part only, and stays while the part does.             *)
LEMMA SameHands ==
    ASSUME mem'.hand = mem.hand
    PROVE  /\ \A w, c : Ingest!Holds(w, c)' = Ingest!Holds(w, c)
           /\ \A c : Ingest!InHand(c)' = Ingest!InHand(c)
           /\ Ingest!Granted' = Ingest!Granted
  BY DEF Ingest!Holds, Ingest!InHand, Ingest!Granted

LEMMA SameBatches ==
    ASSUME mem'.batch = mem.batch
    PROVE  /\ \A p : Ingest!Seen(p)' = Ingest!Seen(p) /\ Ingest!Takes(p)' = Ingest!Takes(p)
           /\ \A c : Ingest!Deleting(c)' = Ingest!Deleting(c)
           /\ Ingest!Grants' = Ingest!Grants
           /\ red'.stream = red.stream => \A c : Ingest!Future(c)' = Ingest!Future(c)
           /\ db'.cap = db.cap /\ Ingest!Brief => Ingest!Brief'
  BY DEF Ingest!Seen, Ingest!Takes, Ingest!Deleting, Ingest!Grants, Ingest!Future, Ingest!Brief, Ingest!Most

LEMMA SameRows ==
    ASSUME db'.rows = db.rows
    PROVE  Ingest!Snapshots' = Ingest!Snapshots /\ Ingest!Stored' = Ingest!Stored
  BY DEF Ingest!Snapshots, Ingest!Stored

LEMMA SomeProcesses ==
    ASSUME NEW S, S \subseteq Processes
    PROVE  IsFiniteSet(S) /\ Cardinality(S) \in Nat /\ Cardinality(S) <= Cardinality(Processes)
  BY Finite, FS_Subset, FS_CardinalityType

LEMMA FutureTypes ==
    ASSUME NEW c
    PROVE  /\ Ingest!Future(c) \subseteq Processes /\ Ingest!Future(c)' \subseteq Processes
           /\ IsFiniteSet(Ingest!Future(c)) /\ IsFiniteSet(Ingest!Future(c)')
           /\ Cardinality(Ingest!Future(c)) \in Nat /\ Cardinality(Ingest!Future(c)) <= Cardinality(Processes)
           /\ Cardinality(Ingest!Future(c)') \in Nat /\ Cardinality(Ingest!Future(c)') <= Cardinality(Processes)
<1>1. Ingest!Future(c) \subseteq Processes /\ Ingest!Future(c)' \subseteq Processes
  BY DEF Ingest!Future
<1> QED BY <1>1, SomeProcesses

LEMMA Fewer ==
    ASSUME Ingest!TypeOK, Ingest!FewDoomed, odd' = odd, Ingest!Doomed' \subseteq Ingest!Doomed
    PROVE  Ingest!FewDoomed'
<1>1. /\ IsFiniteSet(Ingest!Doomed') /\ Cardinality(Ingest!Doomed') <= Cardinality(Ingest!Doomed)
      /\ Cardinality(Ingest!Doomed') \in Nat /\ Cardinality(Ingest!Doomed) \in Nat
  BY Same, FS_Subset, FS_CardinalityType DEF Ingest!FewDoomed
<1>2. Cardinality(Ingest!Doomed) <= (MaxOdd - odd) * Batch
  BY Same DEF Ingest!FewDoomed
<1>3. (MaxOdd - odd) * Batch \in Nat
  BY Parts
<1>4. Cardinality(Ingest!Doomed') <= (MaxOdd - odd) * Batch
  BY <1>1, <1>2, <1>3
<1> QED BY <1>1, <1>4, Same DEF Ingest!FewDoomed

(* One fault more, which dooms a batch at most.                            *)
LEMMA MoreDoomed ==
    ASSUME Ingest!TypeOK, Ingest!FewDoomed, odd > 0, odd' = odd - 1,
           NEW X, IsFiniteSet(X), Cardinality(X) <= Batch, Ingest!Doomed' \subseteq Ingest!Doomed \cup X
    PROVE  Ingest!FewDoomed'
<1>1. /\ IsFiniteSet(Ingest!Doomed') /\ Cardinality(Ingest!Doomed') \in Nat
      /\ Cardinality(Ingest!Doomed') <= Cardinality(Ingest!Doomed) + Cardinality(X)
  BY Same, Grows DEF Ingest!FewDoomed
<1>2. Cardinality(Ingest!Doomed) <= (MaxOdd - odd) * Batch
  BY Same DEF Ingest!FewDoomed
<1>3. Cardinality(X) \in Nat /\ Cardinality(Ingest!Doomed) \in Nat
  BY Same, FS_CardinalityType DEF Ingest!FewDoomed
<1>4. (MaxOdd - odd') * Batch = (MaxOdd - odd) * Batch + Batch /\ (MaxOdd - odd) * Batch \in Nat
  <2>1. MaxOdd - odd' = (MaxOdd - odd) + 1 /\ MaxOdd - odd \in Nat /\ Batch \in Nat
    BY Parts
  <2>2. \A i, j \in Nat : (i + 1) * j = i * j + j /\ i * j \in Nat
    OBVIOUS
  <2> QED BY <2>1, <2>2
<1>5. PICK n \in Nat, k \in Nat :
         n = (MaxOdd - odd) * Batch /\ (MaxOdd - odd') * Batch = n + Batch /\ k = Cardinality(Ingest!Doomed')
  BY <1>1, <1>4
<1>6. k <= n + Batch
  <2>1. Batch \in Nat
    BY Parts
  <2> QED BY <1>1, <1>2, <1>3, <1>5, <2>1
<1>7. Cardinality(Ingest!Doomed') <= (MaxOdd - odd') * Batch
  BY <1>5, <1>6
<1> QED BY <1>1, <1>7, Same DEF Ingest!FewDoomed

-----------------------------------------------------------------------------
(***************************************************************************)
(* Each step.                                                              *)
(***************************************************************************)

(* A call that was not accepted is nowhere.                                *)
LEMMA Nowhere ==
    ASSUME Ingest!IInv, NEW c \in Ingest!Calls \ db.accepted
    PROVE  /\ c \notin Ingest!ToSet(red.queue) /\ c \notin Ingest!ToSet(red.stream) /\ c \notin red.dead
           /\ \A p \in Processes : c \notin Ingest!Seen(p)
           /\ \A w \in Ingest!Writers : ~Ingest!Holds(w, c)
           /\ c \in Ingest!Good => db.rows[c] = 0
           /\ Ingest!InHand(c) = 0 /\ Ingest!Future(c) = {}
<1> USE DEF Ingest!IInv
<1>1. /\ c \notin Ingest!ToSet(red.queue) /\ c \notin Ingest!ToSet(red.stream) /\ c \notin red.dead
      /\ \A p \in Processes : c \notin Ingest!Seen(p)
  BY DEF Ingest!OnlyAccepted
<1>2. \A w \in Ingest!Writers : ~Ingest!Holds(w, c)
  <2>1. ASSUME NEW w \in Ingest!Writers, Ingest!Holds(w, c)
        PROVE  FALSE
    <3>1. c \in Ingest!Good
      BY <2>1, HandTypes DEF Ingest!Holds
    <3> QED BY <2>1, <3>1 DEF Ingest!OnlyAccepted
  <2> QED BY <2>1
<1>3. c \in Ingest!Good => db.rows[c] = 0
  BY Parts DEF Ingest!OnlyAccepted
<1>4. Ingest!InHand(c) = 0 /\ Ingest!Future(c) = {}
  BY <1>1, <1>2 DEF Ingest!InHand, Ingest!Future
<1> QED BY <1>1, <1>2, <1>3, <1>4

LEMMA PostedGood == Posted \subseteq Ingest!Good /\ Posted \cap Captured = {}
  BY ServicesAssumption DEF ServicesAssumption, Ingest!Good, Ingest!Calls

LEMMA IngestArrives ==
    ASSUME Ingest!IInv, NEW c \in Ingest!Calls, Ingest!Post(c) \/ Ingest!Capture(c)
    PROVE  Ingest!IInv'
<1> USE DEF Ingest!IInv
<1>1. /\ c \notin db.accepted /\ mem' = mem /\ odd' = odd
      /\ db' = [db EXCEPT !.accepted = db.accepted \cup {c}]
      /\ \/ c \in Posted /\ red' = [red EXCEPT !.queue = Append(red.queue, c)]
         \/ c \in Captured /\ red' = [red EXCEPT !.stream = Append(red.stream, c)]
  BY DEF Ingest!Post, Ingest!Capture, Ingest!Accepted
<1>2. /\ db' \in [cap : Caps, accepted : SUBSET Ingest!Calls, rows : [Ingest!Good -> Nat],
                  refused : SUBSET Ingest!Good]
      /\ db'.cap = db.cap /\ db'.accepted = db.accepted \cup {c} /\ db'.rows = db.rows
      /\ db'.refused = db.refused
  BY <1>1 DEF Ingest!TypeOK
<1>3. /\ red' \in [queue : Seq(Posted), dead : SUBSET Posted, stream : Seq(Captured)]
      /\ red'.dead = red.dead
      /\ \/ /\ Ingest!ToSet(red'.queue) = Ingest!ToSet(red.queue) \cup {c} /\ red'.stream = red.stream
            /\ c \in Posted
         \/ /\ Ingest!ToSet(red'.stream) = Ingest!ToSet(red.stream) \cup {c} /\ red'.queue = red.queue
            /\ c \in Captured
      /\ Ingest!IsInjective(red'.queue) /\ Ingest!IsInjective(red'.stream)
  <2>1. /\ c \notin Ingest!ToSet(red.queue) /\ c \notin Ingest!ToSet(red.stream)
        /\ Ingest!IsInjective(red.queue) /\ Ingest!IsInjective(red.stream)
    BY <1>1, Nowhere DEF Ingest!OneEach
  <2>2. /\ red \in [queue : Seq(Posted), dead : SUBSET Posted, stream : Seq(Captured)]
        /\ red.queue \in Seq(Posted) /\ red.stream \in Seq(Captured)
    BY DEF Ingest!TypeOK
  <2>3. CASE c \in Posted /\ red' = [red EXCEPT !.queue = Append(red.queue, c)]
    <3>1. Append(red.queue, c) \in Seq(Posted)
      BY <2>2, <2>3, AppendSet
    <3>2. /\ red'.queue = Append(red.queue, c) /\ red'.stream = red.stream /\ red'.dead = red.dead
          /\ red' \in [queue : Seq(Posted), dead : SUBSET Posted, stream : Seq(Captured)]
      BY <2>2, <2>3, <3>1
    <3>3. /\ Ingest!ToSet(Append(red.queue, c)) = Ingest!ToSet(red.queue) \cup {c}
          /\ Ingest!IsInjective(Append(red.queue, c))
      BY <2>1, <2>2, <2>3, AppendSet
    <3> QED BY <2>1, <2>3, <3>2, <3>3
  <2>4. CASE c \in Captured /\ red' = [red EXCEPT !.stream = Append(red.stream, c)]
    <3>1. Append(red.stream, c) \in Seq(Captured)
      BY <2>2, <2>4, AppendSet
    <3>2. /\ red'.stream = Append(red.stream, c) /\ red'.queue = red.queue /\ red'.dead = red.dead
          /\ red' \in [queue : Seq(Posted), dead : SUBSET Posted, stream : Seq(Captured)]
      BY <2>2, <2>4, <3>1
    <3>3. /\ Ingest!ToSet(Append(red.stream, c)) = Ingest!ToSet(red.stream) \cup {c}
          /\ Ingest!IsInjective(Append(red.stream, c))
      BY <2>1, <2>2, <2>4, AppendSet
    <3> QED BY <2>1, <2>4, <3>2, <3>3
  <2> QED BY <1>1, <2>3, <2>4
<1>4. Ingest!TypeOK'
  BY <1>1, <1>2, <1>3 DEF Ingest!TypeOK
<1>5. /\ c \notin Ingest!ToSet(red.queue) /\ c \notin Ingest!ToSet(red.stream) /\ c \notin red.dead
      /\ \A p \in Processes : c \notin Ingest!Seen(p)
      /\ \A w \in Ingest!Writers : ~Ingest!Holds(w, c)
      /\ c \in Ingest!Good => db.rows[c] = 0
      /\ Ingest!InHand(c) = 0
  BY <1>1, Nowhere
<1>6. Ingest!Brief'
  BY <1>1, <1>2, SameBatches
<1>7. /\ \A x : Ingest!InHand(x)' = Ingest!InHand(x) /\ Ingest!Deleting(x)' = Ingest!Deleting(x)
      /\ \A w, x : Ingest!Holds(w, x)' = Ingest!Holds(w, x)
      /\ \A p : Ingest!Seen(p)' = Ingest!Seen(p)
  BY <1>1, SameHands, SameBatches
<1>8. Ingest!OnlyAccepted'
  BY <1>2, <1>3, <1>7 DEF Ingest!OnlyAccepted
<1>9. Ingest!OneEach'
  <2>1. /\ \A x \in Posted : db.rows[x] <= 1
        /\ \A x \in Ingest!ToSet(red.queue) : db.rows[x] = 0
        /\ \A v, w \in Ingest!Writers, x \in Ingest!Good : Ingest!Holds(v, x) /\ Ingest!Holds(w, x) => v = w
        /\ \A w \in Ingest!Writers, x \in Ingest!Good : Ingest!Holds(w, x) =>
             /\ db.rows[x] = 0 /\ x \notin Ingest!ToSet(red.queue) \cup Ingest!ToSet(red.stream)
             /\ \A p \in Processes : x \notin Ingest!Seen(p)
    BY DEF Ingest!OneEach
  <2>2. c \in Posted => db.rows[c] = 0
    BY <1>5, PostedGood
  <2>3. \A x \in Ingest!ToSet(red'.queue) : db'.rows[x] = 0
    BY <1>2, <1>3, <2>1, <2>2
  <2>4. \A w \in Ingest!Writers, x \in Ingest!Good : Ingest!Holds(w, x)' =>
          /\ db'.rows[x] = 0 /\ x \notin Ingest!ToSet(red'.queue) \cup Ingest!ToSet(red'.stream)
          /\ \A p \in Processes : x \notin Ingest!Seen(p)'
    BY <1>2, <1>3, <1>5, <1>7, <2>1
  <2> QED BY <1>2, <1>3, <1>7, <2>1, <2>3, <2>4 DEF Ingest!OneEach
<1>10. Ingest!Copies'
  <2> SUFFICES ASSUME NEW x \in Captured \cap Ingest!Good
               PROVE  db'.rows[x] + Cardinality(Ingest!Future(x)') + Ingest!InHand(x)'
                        <= Cardinality(Processes) + (MaxOdd - odd')
    BY Same DEF Ingest!Copies
  <2>1. CASE x = c
    <3>1. db'.rows[x] = 0 /\ Ingest!InHand(x)' = 0
      BY <1>2, <1>5, <1>7, <2>1
    <3>2. Cardinality(Ingest!Future(x)') \in Nat /\ Cardinality(Ingest!Future(x)') <= Cardinality(Processes)
      BY FutureTypes
    <3>3. Cardinality(Processes) \in Nat /\ MaxOdd - odd' \in Nat
      BY <1>1, Parts, Finite
    <3> QED BY <3>1, <3>2, <3>3
  <2>2. CASE x # c
    <3>1. Ingest!Future(x)' = Ingest!Future(x)
      BY <1>1, <1>3, <1>7, <2>2 DEF Ingest!Future
    <3> QED BY <1>1, <1>2, <1>7, <3>1, Same DEF Ingest!Copies
  <2> QED BY <2>1, <2>2
<1>11. Ingest!FewDoomed'
  <2>1. Ingest!Doomed' \subseteq Ingest!Doomed
    BY <1>2, <1>3, <1>5, <1>7 DEF Ingest!Doomed, Ingest!Kept, Ingest!Deleting
  <2> QED BY <1>1, <2>1, Fewer DEF Ingest!FewDoomed
<1>12. Ingest!Promised'
  BY <1>1, <1>2, SameRows, SameHands, SameBatches DEF Ingest!Promised, Ingest!Most
<1> QED BY <1>4, <1>6, <1>8, <1>9, <1>10, <1>11, <1>12

MayStore(x) == x # None /\ x.allowed = TRUE

(* A writer takes a call in hand, or lets it go.                           *)
LEMMA HandMoves ==
    ASSUME Ingest!TypeOK, NEW w \in Ingest!Writers, NEW x \in Ingest!Hands \cup {None},
           mem' = [mem EXCEPT !.hand[w] = x]
    PROVE  /\ mem' \in [hand : [Ingest!Writers -> Ingest!Hands \cup {None}],
                        batch : [Processes -> Ingest!Batches \cup {None}]]
           /\ mem'.batch = mem.batch
           /\ \A v \in Ingest!Writers \ {w} : \A y : Ingest!Holds(v, y)' <=> Ingest!Holds(v, y)
           /\ \A y : Ingest!Holds(w, y)' <=> x # None /\ x.call = y
           /\ ~MayStore(x) => Ingest!Granted' = Ingest!Granted \ {w}
           /\ Ingest!Granted' \subseteq Ingest!Granted \cup {w}
<1>1. /\ mem' \in [hand : [Ingest!Writers -> Ingest!Hands \cup {None}],
                   batch : [Processes -> Ingest!Batches \cup {None}]]
      /\ mem'.hand[w] = x /\ \A v \in Ingest!Writers \ {w} : mem'.hand[v] = mem.hand[v]
      /\ mem'.batch = mem.batch
  BY HandGoes
<1>2. /\ \A v \in Ingest!Writers \ {w} : \A y : Ingest!Holds(v, y)' <=> Ingest!Holds(v, y)
      /\ \A y : Ingest!Holds(w, y)' <=> x # None /\ x.call = y
  BY <1>1 DEF Ingest!Holds
<1>3. Ingest!Granted' \subseteq Ingest!Granted \cup {w} /\ Ingest!Granted \ {w} \subseteq Ingest!Granted'
  BY <1>1 DEF Ingest!Granted
<1>4. ~MayStore(x) => w \notin Ingest!Granted'
  BY <1>1, Zenon DEF Ingest!Granted, MayStore
<1> QED BY <1>1, <1>2, <1>3, <1>4

LEMMA SetOf ==
    ASSUME NEW X, NEW s \in Seq(X)
    PROVE  /\ Ingest!ToSet(s) \subseteq X /\ IsFiniteSet(Ingest!ToSet(s))
           /\ Cardinality(Ingest!ToSet(s)) \in Nat /\ Cardinality(Ingest!ToSet(s)) <= Len(s)
<1>1. Len(s) \in Nat /\ DOMAIN s = 1..Len(s) /\ s = [i \in 1..Len(s) |-> s[i]] /\ \A i \in 1..Len(s) : s[i] \in X
  BY LenProperties, ElementOfSeq
<1>2. Ingest!ToSet(s) = {s[i] : i \in 1..Len(s)}
  BY <1>1 DEF Ingest!ToSet
<1>3. s \in Surjection(1..Len(s), Ingest!ToSet(s))
  BY <1>1, <1>2 DEF Surjection
<1>4. IsFiniteSet(1..Len(s)) /\ Cardinality(1..Len(s)) = Len(s)
  <2>1. PICK n \in Nat : n = Len(s)
    BY <1>1
  <2>2. IsFiniteSet(1..n) /\ Cardinality(1..n) = n
    BY FS_Interval
  <2> QED BY <2>1, <2>2
<1>5. IsFiniteSet(Ingest!ToSet(s)) /\ Cardinality(Ingest!ToSet(s)) <= Len(s)
  BY <1>3, <1>4, FS_Surjection
<1> QED BY <1>1, <1>2, <1>5, FS_CardinalityType

LEMMA GrantsTypes ==
    ASSUME Ingest!TypeOK, Ingest!Brief, NEW Q \in SUBSET Processes
    PROVE  LET grants == UNION {{q} \X Ingest!Takes(q) : q \in Q}
           IN  /\ IsFiniteSet(grants) /\ Cardinality(grants) \in Nat
               /\ Cardinality(grants) <= Cardinality(Q) * Ingest!Most
<1> DEFINE T == [q \in Q |-> Ingest!Takes(q)]
<1>1. ASSUME NEW q \in Q
      PROVE  IsFiniteSet(T[q]) /\ Cardinality(T[q]) <= Ingest!Most
  <2>1. CASE mem.batch[q] # None
    <3>1. mem.batch[q].entries \in Seq(Captured)
      BY <2>1, BatchTypes
    <3>2. IsFiniteSet(Ingest!ToSet(mem.batch[q].entries))
      BY <3>1, SetOf
    <3>3. /\ Ingest!Takes(q) \subseteq Ingest!ToSet(mem.batch[q].entries)
          /\ Cardinality(Ingest!Takes(q)) <= Ingest!Most
      BY <2>1, Same DEF Ingest!Brief
    <3> QED BY <3>2, <3>3, FS_Subset
  <2>2. CASE mem.batch[q] = None
    <3>1. Ingest!Takes(q) = {}
      BY <2>2 DEF Ingest!Takes
    <3>2. T[q] = {} /\ Ingest!Most \in Nat
      BY <3>1, Parts
    <3> HIDE DEF T
    <3> QED BY <3>2, FS_EmptySet
  <2> QED BY <2>1, <2>2
<1>2. IsFiniteSet(Q)
  BY SomeProcesses
<1>3. Ingest!Most \in Nat
  BY Parts
<1>4. /\ IsFiniteSet(UNION {{q} \X T[q] : q \in Q})
      /\ Cardinality(UNION {{q} \X T[q] : q \in Q}) <= Cardinality(Q) * Ingest!Most
  <2> HIDE DEF T
  <2> QED BY <1>1, <1>2, <1>3, Fibers
<1>5. UNION {{q} \X T[q] : q \in Q} = UNION {{q} \X Ingest!Takes(q) : q \in Q}
  OBVIOUS
<1> QED BY <1>4, <1>5, FS_CardinalityType

(* What is promised, in numbers.                                           *)
LEMMA PromisedTypes ==
    ASSUME Ingest!IInv
    PROVE  /\ IsFiniteSet(Ingest!Snapshots) /\ Ingest!Stored \in Nat /\ Ingest!Stored = Cardinality(Ingest!Snapshots)
           /\ IsFiniteSet(Ingest!Grants) /\ Cardinality(Ingest!Grants) \in Nat
           /\ IsFiniteSet(Ingest!Granted) /\ Cardinality(Ingest!Granted) \in Nat
           /\ Cardinality(Ingest!Granted) <= Cardinality(Ingest!Writers)
           /\ Ingest!Granted # {} => Ingest!Most > 0
           /\ Ingest!Stored + Cardinality(Ingest!Grants) + Cardinality(Ingest!Granted)
                <= db.cap + (Cardinality(Processes) + Cardinality(Ingest!Writers) - 1) * Ingest!Most
<1> USE DEF Ingest!IInv
<1>1. IsFiniteSet(Ingest!Snapshots) /\ Ingest!Stored = Cardinality(Ingest!Snapshots)
  BY Same DEF Ingest!Promised, Ingest!Stored
<1>2. IsFiniteSet(Ingest!Grants) /\ Cardinality(Ingest!Grants) \in Nat
  BY GrantsTypes DEF Ingest!Grants
<1>3. Ingest!Granted \subseteq Ingest!Writers
  BY DEF Ingest!Granted
<1>4. /\ IsFiniteSet(Ingest!Granted) /\ Cardinality(Ingest!Granted) \in Nat
      /\ Cardinality(Ingest!Granted) <= Cardinality(Ingest!Writers)
  BY <1>3, Finite, FS_Subset, FS_CardinalityType
<1>5. /\ Ingest!Granted # {} => Ingest!Most > 0
      /\ Ingest!Stored + Cardinality(Ingest!Grants) + Cardinality(Ingest!Granted)
           <= db.cap + (Cardinality(Processes) + Cardinality(Ingest!Writers) - 1) * Ingest!Most
  BY Same DEF Ingest!Promised
<1> QED BY <1>1, <1>2, <1>4, <1>5, FS_CardinalityType

(* It stays within the limit when no more is stored than was promised.     *)
LEMMA PromisedStays ==
    ASSUME Ingest!IInv, db'.cap = db.cap, IsFiniteSet(Ingest!Snapshots'), Ingest!Granted' \subseteq Ingest!Granted,
           Cardinality(Ingest!Snapshots') + Cardinality(Ingest!Grants') + Cardinality(Ingest!Granted')
             <= Ingest!Stored + Cardinality(Ingest!Grants) + Cardinality(Ingest!Granted),
           Cardinality(Ingest!Grants') \in Nat
    PROVE  Ingest!Promised'
<1>1. Ingest!Most' = Ingest!Most /\ Ingest!Most \in Nat /\ db.cap \in Nat
  BY Parts DEF Ingest!Most, Ingest!IInv
<1>2. Cardinality(Ingest!Granted') \in Nat /\ Cardinality(Ingest!Snapshots') \in Nat
  BY PromisedTypes, FS_Subset, FS_CardinalityType
<1>3. PICK n \in Int : n = db.cap + (Cardinality(Processes) + Cardinality(Ingest!Writers) - 1) * Ingest!Most
  BY <1>1, Finite
<1>4. Ingest!Stored + Cardinality(Ingest!Grants) + Cardinality(Ingest!Granted) <= n
  BY <1>3, PromisedTypes
<1>5. Cardinality(Ingest!Snapshots') + Cardinality(Ingest!Grants') + Cardinality(Ingest!Granted') <= n
  BY <1>2, <1>4, PromisedTypes
<1>6. Ingest!Granted' # {} => Ingest!Most' > 0
  BY <1>1, PromisedTypes
<1>7. Ingest!Stored' = Cardinality(Ingest!Snapshots')
  BY Same DEF Ingest!Stored
<1> QED BY <1>1, <1>3, <1>5, <1>6, <1>7, Same DEF Ingest!Promised

(* The same, when what is stored stays, and of the grants none is new.     *)
LEMMA PromisedSame ==
    ASSUME Ingest!IInv, db'.cap = db.cap, db'.rows = db.rows, Ingest!Granted' \subseteq Ingest!Granted,
           Ingest!Grants' \subseteq Ingest!Grants
    PROVE  Ingest!Promised'
<1>1. Ingest!Snapshots' = Ingest!Snapshots
  BY SameRows
<1>2. /\ Cardinality(Ingest!Granted') \in Nat /\ Cardinality(Ingest!Granted') <= Cardinality(Ingest!Granted)
      /\ Cardinality(Ingest!Grants') \in Nat /\ Cardinality(Ingest!Grants') <= Cardinality(Ingest!Grants)
  BY PromisedTypes, FS_Subset, FS_CardinalityType
<1>3. Cardinality(Ingest!Snapshots') + Cardinality(Ingest!Grants') + Cardinality(Ingest!Granted')
        <= Ingest!Stored + Cardinality(Ingest!Grants) + Cardinality(Ingest!Granted)
  BY <1>1, <1>2, PromisedTypes
<1> QED BY <1>1, <1>2, <1>3, PromisedStays, PromisedTypes

(* A call that is taken in hand is not yet checked.                        *)
LEMMA Unchecked ==
    ASSUME NEW c \in Ingest!Good, NEW x, x = [call |-> c, allowed |-> None]
    PROVE  x \in Ingest!Hands /\ x # None /\ x.call = c /\ ~MayStore(x)
<1>1. x \in Ingest!Hands
  BY DEF Ingest!Hands
<1>2. x # None
  BY <1>1, IngestAssumption DEF IngestAssumption
<1>3. None # TRUE
  BY IngestAssumption DEF IngestAssumption
<1>4. x.call = c /\ x.allowed = None
  OBVIOUS
<1>5. ~MayStore(x)
  BY <1>3, <1>4, Zenon DEF MayStore
<1> QED BY <1>1, <1>2, <1>4, <1>5

LEMMA IngestTakesOver ==
    ASSUME Ingest!IInv, NEW h \in Handlers, NEW c \in Ingest!Calls, Ingest!TakeOver(h, c)
    PROVE  Ingest!IInv'
<1> USE DEF Ingest!IInv
<1> DEFINE x == [call |-> c, allowed |-> None]
<1>1. /\ c \in Ingest!Calls \ db.accepted /\ c \in Ingest!Good /\ mem.hand[h] = None /\ red' = red
      /\ odd > 0 /\ odd' = odd - 1
      /\ db' = [db EXCEPT !.accepted = db.accepted \cup {c}]
      /\ mem' = [mem EXCEPT !.hand[h] = x]
  BY DEF Ingest!TakeOver, Ingest!Fault, Ingest!Accepted
<1>2. /\ db' \in [cap : Caps, accepted : SUBSET Ingest!Calls, rows : [Ingest!Good -> Nat],
                  refused : SUBSET Ingest!Good]
      /\ db'.cap = db.cap /\ db'.accepted = db.accepted \cup {c} /\ db'.rows = db.rows
      /\ db'.refused = db.refused
  BY <1>1 DEF Ingest!TypeOK
<1>3. x \in Ingest!Hands /\ x # None /\ x.call = c /\ ~MayStore(x)
  BY <1>1, Unchecked
<1>4. h \in Ingest!Writers /\ h \notin Workers /\ Workers \subseteq Ingest!Writers
  BY ServicesAssumption DEF ServicesAssumption, Ingest!Writers
<1> HIDE DEF x
<1>5. /\ mem' \in [hand : [Ingest!Writers -> Ingest!Hands \cup {None}],
                   batch : [Processes -> Ingest!Batches \cup {None}]]
      /\ mem'.batch = mem.batch
      /\ \A v \in Ingest!Writers \ {h} : \A y : Ingest!Holds(v, y)' <=> Ingest!Holds(v, y)
      /\ \A y : Ingest!Holds(h, y)' <=> y = c
      /\ Ingest!Granted' \subseteq Ingest!Granted
  BY <1>1, <1>3, <1>4, HandMoves
<1>6. Ingest!TypeOK'
  <2>1. odd' \in 0..MaxOdd
    BY <1>1, Parts
  <2> QED BY <1>1, <1>2, <1>5, <2>1 DEF Ingest!TypeOK
<1>7. /\ c \notin Ingest!ToSet(red.queue) /\ c \notin Ingest!ToSet(red.stream) /\ c \notin red.dead
      /\ \A p \in Processes : c \notin Ingest!Seen(p)
      /\ \A w \in Ingest!Writers : ~Ingest!Holds(w, c)
      /\ db.rows[c] = 0 /\ Ingest!InHand(c) = 0 /\ Ingest!Future(c) = {}
  BY <1>1, Nowhere
<1>8. /\ \A p : Ingest!Seen(p)' = Ingest!Seen(p)
      /\ \A y : (Ingest!Deleting(y)' <=> Ingest!Deleting(y)) /\ Ingest!Future(y)' = Ingest!Future(y)
      /\ Ingest!Brief' /\ Ingest!Grants' = Ingest!Grants
  BY <1>1, <1>2, <1>5, SameBatches
<1>9. \A y : Ingest!Holds(h, y) <=> FALSE
  BY <1>1 DEF Ingest!Holds
<1>10. Ingest!OnlyAccepted'
  <2>1. \A y \in Ingest!Good : db'.rows[y] > 0 \/ (\E w \in Ingest!Writers : Ingest!Holds(w, y)') => y \in db'.accepted
    BY <1>2, <1>5 DEF Ingest!OnlyAccepted
  <2>2. \A w \in Workers, y \in Ingest!Good : Ingest!Holds(w, y)' => y \in Posted
    BY <1>4, <1>5 DEF Ingest!OnlyAccepted
  <2> QED BY <1>1, <1>2, <1>8, <2>1, <2>2 DEF Ingest!OnlyAccepted
<1>11. Ingest!OneEach'
  <2>1. \A v, w \in Ingest!Writers, y \in Ingest!Good : Ingest!Holds(v, y)' /\ Ingest!Holds(w, y)' => v = w
    BY <1>5, <1>7 DEF Ingest!OneEach
  <2>2. \A w \in Ingest!Writers, y \in Ingest!Good : Ingest!Holds(w, y)' =>
          /\ db.rows[y] = 0 /\ y \notin Ingest!ToSet(red.queue) \cup Ingest!ToSet(red.stream)
          /\ \A p \in Processes : y \notin Ingest!Seen(p)
    BY <1>5, <1>7 DEF Ingest!OneEach
  <2> QED BY <1>1, <1>2, <1>8, <2>1, <2>2 DEF Ingest!OneEach
<1>12. Ingest!Copies'
  <2> SUFFICES ASSUME NEW y \in Captured \cap Ingest!Good
               PROVE  db'.rows[y] + Cardinality(Ingest!Future(y)') + Ingest!InHand(y)'
                        <= Cardinality(Processes) + (MaxOdd - odd')
    BY Same DEF Ingest!Copies
  <2>1. MaxOdd - odd' = MaxOdd - odd + 1 /\ MaxOdd - odd \in Nat /\ odd \in Nat /\ MaxOdd \in Nat
    BY <1>1, Parts
  <2>2. CASE y = c
    <3>1. db'.rows[y] = 0 /\ Ingest!Future(y)' = {} /\ Ingest!InHand(y)' \in 0..1
      BY <1>2, <1>7, <1>8, <2>2 DEF Ingest!InHand
    <3>2. Cardinality({}) = 0
      BY FS_EmptySet
    <3> QED BY <2>1, <3>1, <3>2, Finite
  <2>3. CASE y # c
    <3>1. Ingest!InHand(y)' = Ingest!InHand(y)
      BY <1>5, <1>9, <2>3 DEF Ingest!InHand
    <3>2. db.rows[y] + Cardinality(Ingest!Future(y)) + Ingest!InHand(y) <= Cardinality(Processes) + (MaxOdd - odd)
      BY Same DEF Ingest!Copies
    <3>3. db.rows[y] \in Nat /\ Cardinality(Ingest!Future(y)) \in Nat /\ Ingest!InHand(y) \in Nat
      BY Parts, FutureTypes DEF Ingest!InHand
    <3> QED BY <1>2, <1>8, <2>1, <3>1, <3>2, <3>3, Finite
  <2> QED BY <2>2, <2>3
<1>13. Ingest!FewDoomed'
  <2>1. Ingest!Doomed' \subseteq Ingest!Doomed \cup {}
    BY <1>1, <1>2, <1>4, <1>5, <1>8, <1>9 DEF Ingest!Doomed, Ingest!Kept
  <2>2. Cardinality({}) <= Batch /\ IsFiniteSet({})
    BY FS_EmptySet, Parts
  <2> QED BY <1>1, <2>1, <2>2, MoreDoomed
<1>14. Ingest!Promised'
  BY <1>2, <1>5, <1>8, PromisedSame
<1> QED BY <1>6, <1>8, <1>10, <1>11, <1>12, <1>13, <1>14

LEMMA IngestPops ==
    ASSUME Ingest!IInv, NEW w \in Ingest!Writers, Ingest!Pop(w)
    PROVE  Ingest!IInv'
<1> USE DEF Ingest!IInv
<1> DEFINE c == Head(red.queue)
           x == [call |-> c, allowed |-> None]
<1>1. /\ w \in Workers /\ mem.hand[w] = None /\ red.queue # <<>> /\ db' = db /\ odd' = odd
      /\ mem' = [mem EXCEPT !.hand[w] = x] /\ red' = [red EXCEPT !.queue = Tail(red.queue)]
  BY DEF Ingest!Pop
<1>2. /\ Tail(red.queue) \in Seq(Posted) /\ c \in Posted
      /\ Ingest!ToSet(red.queue) = {c} \cup Ingest!ToSet(Tail(red.queue))
      /\ c \notin Ingest!ToSet(Tail(red.queue)) /\ Ingest!IsInjective(Tail(red.queue))
  BY <1>1, Parts, HeadTailSet DEF Ingest!OneEach
<1>3. /\ red' \in [queue : Seq(Posted), dead : SUBSET Posted, stream : Seq(Captured)]
      /\ red'.queue = Tail(red.queue) /\ red'.dead = red.dead /\ red'.stream = red.stream
  BY <1>1, <1>2 DEF Ingest!TypeOK
<1>4. c \in Ingest!Good /\ c \notin Captured
  BY <1>2, PostedGood
<1>5. x \in Ingest!Hands /\ x # None /\ x.call = c /\ ~MayStore(x)
  BY <1>4, Unchecked
<1> HIDE DEF x, c
<1>6. /\ mem' \in [hand : [Ingest!Writers -> Ingest!Hands \cup {None}],
                   batch : [Processes -> Ingest!Batches \cup {None}]]
      /\ mem'.batch = mem.batch
      /\ \A v \in Ingest!Writers \ {w} : \A y : Ingest!Holds(v, y)' <=> Ingest!Holds(v, y)
      /\ \A y : Ingest!Holds(w, y)' <=> y = c
      /\ Ingest!Granted' \subseteq Ingest!Granted
  BY <1>1, <1>5, HandMoves
<1>7. Ingest!TypeOK'
  BY <1>1, <1>3, <1>6 DEF Ingest!TypeOK
<1>8. /\ \A p : Ingest!Seen(p)' = Ingest!Seen(p)
      /\ \A y : (Ingest!Deleting(y)' <=> Ingest!Deleting(y)) /\ Ingest!Future(y)' = Ingest!Future(y)
      /\ Ingest!Brief' /\ Ingest!Grants' = Ingest!Grants
  BY <1>1, <1>3, <1>6, SameBatches
<1>9. \A y : ~Ingest!Holds(w, y)
  BY <1>1 DEF Ingest!Holds
<1>10. /\ c \notin Ingest!ToSet(red.stream) /\ \A p \in Processes : c \notin Ingest!Seen(p)
       /\ \A v \in Ingest!Writers : ~Ingest!Holds(v, c)
       /\ db.rows[c] = 0 /\ c \in db.accepted
  <2>1. Ingest!ToSet(red.stream) \subseteq Captured
    BY Parts, SetOf
  <2>2. \A p \in Processes : Ingest!Seen(p) \subseteq Captured
    BY BatchTypes DEF Ingest!Seen
  <2> QED BY <1>2, <1>4, <2>1, <2>2 DEF Ingest!OneEach, Ingest!OnlyAccepted
<1>11. Ingest!OnlyAccepted'
  <2>1. \A y \in Ingest!Good : db.rows[y] > 0 \/ (\E v \in Ingest!Writers : Ingest!Holds(v, y)') => y \in db.accepted
    BY <1>6, <1>10 DEF Ingest!OnlyAccepted
  <2>2. \A v \in Workers, y \in Ingest!Good : Ingest!Holds(v, y)' => y \in Posted
    BY <1>2, <1>6 DEF Ingest!OnlyAccepted, Ingest!Writers
  <2> QED BY <1>1, <1>2, <1>3, <1>8, <2>1, <2>2 DEF Ingest!OnlyAccepted
<1>12. Ingest!OneEach'
  <2>1. \A u, v \in Ingest!Writers, y \in Ingest!Good : Ingest!Holds(u, y)' /\ Ingest!Holds(v, y)' => u = v
    BY <1>6, <1>10 DEF Ingest!OneEach
  <2>2. \A v \in Ingest!Writers, y \in Ingest!Good : Ingest!Holds(v, y)' =>
          /\ db.rows[y] = 0 /\ y \notin Ingest!ToSet(red'.queue) \cup Ingest!ToSet(red.stream)
          /\ \A p \in Processes : y \notin Ingest!Seen(p)
    <3>1. ASSUME NEW v \in Ingest!Writers, NEW y \in Ingest!Good, y # c, Ingest!Holds(v, y)'
          PROVE  Ingest!Holds(v, y)
      BY <1>6, <3>1
    <3> QED BY <1>2, <1>3, <1>6, <1>10, <3>1 DEF Ingest!OneEach
  <2> QED BY <1>1, <1>2, <1>3, <1>8, <2>1, <2>2 DEF Ingest!OneEach
<1>13. Ingest!Copies'
  <2>1. \A y \in Captured : Ingest!InHand(y)' = Ingest!InHand(y)
    BY <1>4, <1>6, <1>9 DEF Ingest!InHand
  <2> QED BY <1>1, <1>8, <2>1 DEF Ingest!Copies
<1>14. Ingest!FewDoomed'
  <2>1. Ingest!Doomed' \subseteq Ingest!Doomed
    BY <1>1, <1>2, <1>3, <1>6, <1>8, <1>9 DEF Ingest!Doomed, Ingest!Kept
  <2> QED BY <1>1, <2>1, Fewer
<1>15. Ingest!Promised'
  BY <1>1, <1>6, <1>8, PromisedSame
<1> QED BY <1>7, <1>8, <1>11, <1>12, <1>13, <1>14, <1>15

LEMMA IngestChecks ==
    ASSUME Ingest!IInv, NEW w \in Ingest!Writers, Ingest!Check(w)
    PROVE  Ingest!IInv'
<1> USE DEF Ingest!IInv
<1> DEFINE x == [mem.hand[w] EXCEPT !.allowed = Ingest!Room(1)]
<1>1. /\ mem.hand[w] # None /\ red' = red /\ db' = db /\ odd' = odd
      /\ mem' = [mem EXCEPT !.hand[w] = x]
  BY DEF Ingest!Check
<1>2. Ingest!Room(1) \in BOOLEAN /\ (Ingest!Room(1) <=> Ingest!Stored + 1 <= db.cap)
  BY DEF Ingest!Room
<1>3. x \in Ingest!Hands /\ x # None /\ x.call = mem.hand[w].call /\ x.allowed = Ingest!Room(1)
  <2>1. mem.hand[w] \in Ingest!Hands
    BY <1>1, HandTypes
  <2>2. x \in Ingest!Hands /\ x.call = mem.hand[w].call /\ x.allowed = Ingest!Room(1)
    BY <1>2, <2>1 DEF Ingest!Hands
  <2> QED BY <2>2, IngestAssumption DEF IngestAssumption
<1>4. ~Ingest!Room(1) => ~MayStore(x)
  BY <1>2, <1>3, Zenon DEF MayStore
<1> HIDE DEF x
<1>5. /\ mem' \in [hand : [Ingest!Writers -> Ingest!Hands \cup {None}],
                   batch : [Processes -> Ingest!Batches \cup {None}]]
      /\ mem'.batch = mem.batch
      /\ \A v \in Ingest!Writers : \A y : Ingest!Holds(v, y)' <=> Ingest!Holds(v, y)
      /\ ~MayStore(x) => Ingest!Granted' \subseteq Ingest!Granted
  <2>1. /\ mem' \in [hand : [Ingest!Writers -> Ingest!Hands \cup {None}],
                     batch : [Processes -> Ingest!Batches \cup {None}]]
        /\ mem'.batch = mem.batch
        /\ \A v \in Ingest!Writers \ {w} : \A y : Ingest!Holds(v, y)' <=> Ingest!Holds(v, y)
        /\ \A y : Ingest!Holds(w, y)' <=> x # None /\ x.call = y
        /\ ~MayStore(x) => Ingest!Granted' = Ingest!Granted \ {w}
    BY <1>1, <1>3, HandMoves
  <2>2. \A y : Ingest!Holds(w, y) <=> x.call = y
    BY <1>1, <1>3 DEF Ingest!Holds
  <2> QED BY <1>3, <2>1, <2>2
<1>6. Ingest!TypeOK'
  BY <1>1, <1>5 DEF Ingest!TypeOK
<1>7. /\ \A p : Ingest!Seen(p)' = Ingest!Seen(p)
      /\ \A y : (Ingest!Deleting(y)' <=> Ingest!Deleting(y)) /\ Ingest!Future(y)' = Ingest!Future(y)
      /\ Ingest!Brief' /\ Ingest!Grants' = Ingest!Grants
  BY <1>1, <1>5, SameBatches
<1>8. \A y : Ingest!InHand(y)' = Ingest!InHand(y)
  BY <1>5 DEF Ingest!InHand
<1>9. Ingest!OnlyAccepted'
  BY <1>1, <1>5, <1>7 DEF Ingest!OnlyAccepted, Ingest!Writers
<1>10. Ingest!OneEach'
  BY <1>1, <1>5, <1>7 DEF Ingest!OneEach
<1>11. Ingest!Copies'
  BY <1>1, <1>7, <1>8 DEF Ingest!Copies
<1>12. Ingest!FewDoomed'
  <2>1. Ingest!Doomed' \subseteq Ingest!Doomed
    BY <1>1, <1>5, <1>7 DEF Ingest!Doomed, Ingest!Kept
  <2> QED BY <1>1, <2>1, Fewer
<1>13. Ingest!Promised'
  <2>1. CASE ~Ingest!Room(1)
    BY <1>1, <1>4, <1>5, <1>7, <2>1, PromisedSame
  <2>2. CASE Ingest!Room(1)
    <3>1. Ingest!Snapshots' = Ingest!Snapshots /\ Ingest!Stored' = Ingest!Stored /\ Ingest!Most' = Ingest!Most
      BY <1>1, SameRows DEF Ingest!Most
    <3>2. Ingest!Stored + 1 <= db.cap /\ Ingest!Stored \in Nat /\ db.cap \in Nat
      BY <1>2, <2>2, PromisedTypes, Parts
    <3>3. PICK M \in Nat : M = Ingest!Most /\ M > 0
      BY <3>2, Parts DEF Ingest!Most
    <3>4. PICK P \in Nat, W \in Nat : P = Cardinality(Processes) /\ W = Cardinality(Ingest!Writers) /\ W > 0
      <4>1. Cardinality(Ingest!Writers) # 0
        BY Finite, FS_EmptySet
      <4> QED BY <4>1, Finite
    <3>5. PICK g \in Nat : g = Cardinality(Ingest!Grants) /\ g <= P * M
      BY <3>3, <3>4, GrantsTypes DEF Ingest!Grants
    <3>6. Ingest!Granted' \subseteq Ingest!Writers
      BY DEF Ingest!Granted
    <3>7. PICK h \in Nat : h = Cardinality(Ingest!Granted') /\ h <= W
      BY <3>4, <3>6, Finite, FS_Subset, FS_CardinalityType
    <3>8. W - 1 <= (W - 1) * M /\ (P + W - 1) * M = P * M + (W - 1) * M /\ P * M \in Nat /\ (W - 1) * M \in Nat
      <4>1. \A i \in Nat, j \in Nat \ {0} : i <= i * j /\ i * j \in Nat
        OBVIOUS
      <4>2. \A i, j, k \in Nat : (i + j) * k = i * k + j * k
        OBVIOUS
      <4>3. W - 1 \in Nat /\ P + W - 1 = P + (W - 1) /\ M \in Nat \ {0}
        BY <3>3, <3>4
      <4>4. (P + (W - 1)) * M = P * M + (W - 1) * M
        BY <4>2, <4>3
      <4> QED BY <4>1, <4>3, <4>4
    <3>9. PICK a \in Nat, b \in Nat : a = P * M /\ b = (W - 1) * M
      BY <3>8
    <3>10. Ingest!Stored + g + h <= db.cap + (P + W - 1) * M
      <4>1. g <= a /\ W - 1 <= b /\ (P + W - 1) * M = a + b
        BY <3>5, <3>8, <3>9
      <4>2. Ingest!Stored + g + h <= db.cap + (a + b)
        BY <3>2, <3>4, <3>7, <4>1
      <4> QED BY <4>1, <4>2
    <3> QED BY <1>1, <1>7, <3>1, <3>3, <3>4, <3>5, <3>7, <3>10, PromisedTypes, Same DEF Ingest!Promised
  <2> QED BY <2>1, <2>2
<1> QED BY <1>6, <1>7, <1>9, <1>10, <1>11, <1>12, <1>13

(* A call leaves the hand that held it.                                    *)
LEMMA HandLetsGo ==
    ASSUME Ingest!IInv, NEW w \in Ingest!Writers, mem.hand[w] # None,
           mem' = [mem EXCEPT !.hand[w] = None]
    PROVE  LET c == mem.hand[w].call
           IN  /\ mem' \in [hand : [Ingest!Writers -> Ingest!Hands \cup {None}],
                            batch : [Processes -> Ingest!Batches \cup {None}]]
               /\ mem'.batch = mem.batch
               /\ c \in Ingest!Good /\ c \in db.accepted /\ db.rows[c] = 0 /\ (w \in Workers => c \in Posted)
               /\ c \notin Ingest!ToSet(red.queue) /\ c \notin Ingest!ToSet(red.stream)
               /\ \A p \in Processes : c \notin Ingest!Seen(p)
               /\ \A v \in Ingest!Writers : \A y : Ingest!Holds(v, y)' <=> Ingest!Holds(v, y) /\ y # c
               /\ \A y : Ingest!InHand(y)' = IF y = c THEN 0 ELSE Ingest!InHand(y)
               /\ Ingest!InHand(c) = 1
               /\ Ingest!Granted' = Ingest!Granted \ {w}
<1> USE DEF Ingest!IInv
<1> DEFINE c == mem.hand[w].call
<1>1. /\ mem' \in [hand : [Ingest!Writers -> Ingest!Hands \cup {None}],
                   batch : [Processes -> Ingest!Batches \cup {None}]]
      /\ mem'.batch = mem.batch
      /\ \A v \in Ingest!Writers \ {w} : \A y : Ingest!Holds(v, y)' <=> Ingest!Holds(v, y)
      /\ \A y : ~Ingest!Holds(w, y)'
      /\ Ingest!Granted' = Ingest!Granted \ {w}
  <2>1. ~MayStore(None)
    BY Zenon DEF MayStore
  <2> QED BY <2>1, HandMoves
<1>2. c \in Ingest!Good
  BY HandTypes
<1>3. \A y : Ingest!Holds(w, y) <=> y = c
  BY DEF Ingest!Holds
<1> HIDE DEF c
<1>4. /\ c \in db.accepted /\ db.rows[c] = 0 /\ (w \in Workers => c \in Posted)
      /\ c \notin Ingest!ToSet(red.queue) /\ c \notin Ingest!ToSet(red.stream)
      /\ \A p \in Processes : c \notin Ingest!Seen(p)
  BY <1>2, <1>3 DEF Ingest!OnlyAccepted, Ingest!OneEach
<1>5. \A v \in Ingest!Writers : \A y : Ingest!Holds(v, y)' <=> Ingest!Holds(v, y) /\ y # c
  <2>1. \A v \in Ingest!Writers \ {w} : ~Ingest!Holds(v, c)
    BY <1>2, <1>3 DEF Ingest!OneEach
  <2> QED BY <1>1, <1>3, <2>1
<1>6. \A y : Ingest!InHand(y)' = IF y = c THEN 0 ELSE Ingest!InHand(y)
  BY <1>5 DEF Ingest!InHand
<1>7. Ingest!InHand(c) = 1
  BY <1>3 DEF Ingest!InHand
<1> QED BY <1>1, <1>2, <1>4, <1>5, <1>6, <1>7 DEF c

LEMMA IngestPersists ==
    ASSUME Ingest!IInv, NEW w \in Ingest!Writers, Ingest!Persist(w)
    PROVE  Ingest!IInv'
<1> USE DEF Ingest!IInv
<1> DEFINE c == mem.hand[w].call
           allowed == mem.hand[w].allowed
<1>1. /\ mem.hand[w] # None /\ allowed # None /\ red' = red /\ odd' = odd
      /\ mem' = [mem EXCEPT !.hand[w] = None]
      /\ db' = IF allowed THEN [db EXCEPT !.rows[c] = db.rows[c] + 1] ELSE [db EXCEPT !.refused = db.refused \cup {c}]
  BY DEF Ingest!Persist
<1>2. /\ mem' \in [hand : [Ingest!Writers -> Ingest!Hands \cup {None}],
                   batch : [Processes -> Ingest!Batches \cup {None}]]
      /\ mem'.batch = mem.batch
      /\ c \in Ingest!Good /\ c \in db.accepted /\ db.rows[c] = 0
      /\ c \notin Ingest!ToSet(red.queue) /\ c \notin Ingest!ToSet(red.stream)
      /\ \A p \in Processes : c \notin Ingest!Seen(p)
      /\ \A v \in Ingest!Writers : \A y : Ingest!Holds(v, y)' <=> Ingest!Holds(v, y) /\ y # c
      /\ \A y : Ingest!InHand(y)' = IF y = c THEN 0 ELSE Ingest!InHand(y)
      /\ Ingest!InHand(c) = 1
      /\ Ingest!Granted' = Ingest!Granted \ {w}
  BY <1>1, HandLetsGo
<1>3. allowed \in BOOLEAN /\ (allowed <=> w \in Ingest!Granted)
  <2>1. allowed \in BOOLEAN
    BY <1>1, HandTypes
  <2>2. w \in Ingest!Granted <=> allowed = TRUE
    BY <1>1, Zenon DEF Ingest!Granted
  <2>3. allowed = TRUE <=> allowed
    BY <2>1, Zenon
  <2> QED BY <2>1, <2>2, <2>3, Zenon
<1> DEFINE yes == w \in Ingest!Granted
<1>4. db' = IF yes THEN [db EXCEPT !.rows[c] = db.rows[c] + 1] ELSE [db EXCEPT !.refused = db.refused \cup {c}]
  BY <1>1, <1>3, Zenon
<1> HIDE DEF c, allowed, yes
<1>5. /\ db' \in [cap : Caps, accepted : SUBSET Ingest!Calls, rows : [Ingest!Good -> Nat],
                  refused : SUBSET Ingest!Good]
      /\ db'.cap = db.cap /\ db'.accepted = db.accepted
      /\ \A y \in Ingest!Good : db'.rows[y] = IF yes /\ y = c THEN 1 ELSE db.rows[y]
      /\ db'.refused = IF yes THEN db.refused ELSE db.refused \cup {c}
  <2>1. db \in [cap : Caps, accepted : SUBSET Ingest!Calls, rows : [Ingest!Good -> Nat],
                refused : SUBSET Ingest!Good]
    BY DEF Ingest!TypeOK
  <2>2. CASE yes
    BY <1>2, <1>4, <2>1, <2>2
  <2>3. CASE ~yes
    BY <1>2, <1>4, <2>1, <2>3
  <2> QED BY <2>2, <2>3
<1>6. Ingest!TypeOK'
  BY <1>1, <1>2, <1>5 DEF Ingest!TypeOK
<1>7. /\ \A p : Ingest!Seen(p)' = Ingest!Seen(p)
      /\ \A y : (Ingest!Deleting(y)' <=> Ingest!Deleting(y)) /\ Ingest!Future(y)' = Ingest!Future(y)
      /\ Ingest!Brief' /\ Ingest!Grants' = Ingest!Grants
  BY <1>1, <1>2, <1>5, SameBatches
<1>8. Ingest!OnlyAccepted'
  <2>1. \A y \in Ingest!Good : db'.rows[y] > 0 \/ (\E v \in Ingest!Writers : Ingest!Holds(v, y)') => y \in db.accepted
    BY <1>2, <1>5 DEF Ingest!OnlyAccepted
  <2>2. \A v \in Workers, y \in Ingest!Good : Ingest!Holds(v, y)' => y \in Posted
    BY <1>2 DEF Ingest!OnlyAccepted, Ingest!Writers
  <2> QED BY <1>1, <1>5, <1>7, <2>1, <2>2 DEF Ingest!OnlyAccepted
<1>9. Ingest!OneEach'
  <2>1. \A y \in Posted : db'.rows[y] <= 1
    BY <1>5, PostedGood DEF Ingest!OneEach
  <2>2. \A y \in Ingest!ToSet(red.queue) : db'.rows[y] = 0
    <3>1. Ingest!ToSet(red.queue) \subseteq Ingest!Good
      BY Parts, SetOf, PostedGood
    <3> QED BY <1>2, <1>5, <3>1 DEF Ingest!OneEach
  <2>3. \A u, v \in Ingest!Writers, y \in Ingest!Good : Ingest!Holds(u, y)' /\ Ingest!Holds(v, y)' => u = v
    BY <1>2 DEF Ingest!OneEach
  <2>4. \A v \in Ingest!Writers, y \in Ingest!Good : Ingest!Holds(v, y)' =>
          /\ db'.rows[y] = 0 /\ y \notin Ingest!ToSet(red.queue) \cup Ingest!ToSet(red.stream)
          /\ \A p \in Processes : y \notin Ingest!Seen(p)
    <3>1. ASSUME NEW v \in Ingest!Writers, NEW y \in Ingest!Good, Ingest!Holds(v, y)'
          PROVE  y # c /\ Ingest!Holds(v, y)
      BY <1>2, <3>1
    <3> QED BY <1>5, <3>1 DEF Ingest!OneEach
  <2> QED BY <1>1, <1>7, <2>1, <2>2, <2>3, <2>4 DEF Ingest!OneEach
<1>10. Ingest!Copies'
  <2> SUFFICES ASSUME NEW y \in Captured \cap Ingest!Good
               PROVE  db'.rows[y] + Cardinality(Ingest!Future(y)') + Ingest!InHand(y)'
                        <= Cardinality(Processes) + (MaxOdd - odd')
    BY Same DEF Ingest!Copies
  <2>1. db.rows[y] + Cardinality(Ingest!Future(y)) + Ingest!InHand(y) <= Cardinality(Processes) + (MaxOdd - odd)
    BY Same DEF Ingest!Copies
  <2>2. Cardinality(Ingest!Future(y)) \in Nat /\ db.rows[y] \in Nat
    BY FutureTypes, Parts
  <2>3. db'.rows[y] + Ingest!InHand(y)' <= db.rows[y] + Ingest!InHand(y) /\ Ingest!InHand(y) \in Nat
    BY <1>2, <1>5, <2>2 DEF Ingest!InHand
  <2>4. db'.rows[y] \in Nat /\ Ingest!InHand(y)' \in Nat
    BY <1>5, <2>2 DEF Ingest!InHand
  <2>5. PICK n \in Nat, k \in Int : n = Cardinality(Ingest!Future(y)) /\ k = Cardinality(Processes) + (MaxOdd - odd)
    BY <2>2, Finite, Parts
  <2> QED BY <1>1, <1>7, <2>1, <2>2, <2>3, <2>4, <2>5
<1>11. Ingest!FewDoomed'
  <2>1. ASSUME NEW y \in Ingest!Doomed'
        PROVE  y \in Ingest!Doomed
    <3>1. /\ y \in db.accepted \cap Ingest!Good /\ ~Ingest!Kept(y)'
          /\ y \in Ingest!ToSet(red.stream) => Ingest!Deleting(y)
      BY <1>1, <1>5, <1>7, <2>1 DEF Ingest!Doomed
    <3>2. y # c
      <4>1. c \in db'.refused \/ db'.rows[c] > 0
        BY <1>2, <1>5
      <4> QED BY <3>1, <4>1 DEF Ingest!Kept
    <3>3. ~Ingest!Kept(y)
      BY <1>1, <1>2, <1>5, <3>1, <3>2 DEF Ingest!Kept
    <3> QED BY <3>1, <3>3 DEF Ingest!Doomed
  <2> QED BY <1>1, <2>1, Fewer
<1>12. Ingest!Promised'
  <2>1. CASE yes
    <3>1. Ingest!Snapshots' \subseteq Ingest!Snapshots \cup {<<c, 1>>}
      <4>1. ASSUME NEW y \in Ingest!Good, NEW i \in 1..db'.rows[y]
            PROVE  <<y, i>> \in Ingest!Snapshots \cup {<<c, 1>>}
        <5>1. CASE y = c
          <6>1. i = 1
            BY <1>5, <2>1, <4>1, <5>1
          <6> QED BY <5>1, <6>1
        <5>2. CASE y # c
          <6>1. i \in 1..db.rows[y]
            BY <1>5, <5>2
          <6> QED BY <6>1 DEF Ingest!Snapshots
        <5> QED BY <5>1, <5>2
      <4> QED BY <4>1 DEF Ingest!Snapshots
    <3>2. IsFiniteSet({<<c, 1>>}) /\ Cardinality({<<c, 1>>}) = 1
      BY FS_Singleton
    <3>3. /\ IsFiniteSet(Ingest!Snapshots') /\ Cardinality(Ingest!Snapshots') \in Nat
          /\ Cardinality(Ingest!Snapshots') <= Ingest!Stored + 1
      BY <3>1, <3>2, Grows, PromisedTypes
    <3>4. Cardinality(Ingest!Granted') = Cardinality(Ingest!Granted) - 1
      BY <1>2, <2>1, PromisedTypes, FS_RemoveElement DEF yes
    <3>5. Ingest!Granted' \subseteq Ingest!Granted
      BY <1>2
    <3>6. Cardinality(Ingest!Snapshots') + Cardinality(Ingest!Grants') + Cardinality(Ingest!Granted')
            <= Ingest!Stored + Cardinality(Ingest!Grants) + Cardinality(Ingest!Granted)
      BY <1>7, <3>3, <3>4, PromisedTypes
    <3>7. Cardinality(Ingest!Grants') \in Nat
      BY <1>7, PromisedTypes
    <3> QED BY <1>5, <3>3, <3>5, <3>6, <3>7, PromisedStays
  <2>2. CASE ~yes
    <3>1. db'.rows = db.rows
      BY <1>4, <2>2
    <3> QED BY <1>2, <1>5, <1>7, <3>1, PromisedSame
  <2> QED BY <2>1, <2>2
<1> QED BY <1>6, <1>7, <1>8, <1>9, <1>10, <1>11, <1>12

LEMMA IngestDrops ==
    ASSUME Ingest!IInv, NEW w \in Ingest!Writers, Ingest!PersistFails(w) \/ Ingest!Stops(w)
    PROVE  Ingest!IInv'
<1> USE DEF Ingest!IInv
<1> DEFINE c == mem.hand[w].call
<1>1. /\ mem.hand[w] # None /\ odd > 0 /\ odd' = odd - 1 /\ db' = db
      /\ mem' = [mem EXCEPT !.hand[w] = None]
      /\ \/ red' = red
         \/ w \in Workers /\ red' = [red EXCEPT !.dead = red.dead \cup {c}]
  <2>1. CASE Ingest!PersistFails(w)
    <3>1. w \in Workers \/ w \notin Workers
      OBVIOUS
    <3> QED BY <2>1, <3>1 DEF Ingest!PersistFails, Ingest!Fault, Ingest!Buried
  <2>2. CASE Ingest!Stops(w)
    BY <2>2 DEF Ingest!Stops, Ingest!Fault
  <2> QED BY <2>1, <2>2
<1>2. /\ mem' \in [hand : [Ingest!Writers -> Ingest!Hands \cup {None}],
                   batch : [Processes -> Ingest!Batches \cup {None}]]
      /\ mem'.batch = mem.batch
      /\ c \in Ingest!Good /\ c \in db.accepted /\ db.rows[c] = 0 /\ (w \in Workers => c \in Posted)
      /\ c \notin Ingest!ToSet(red.queue) /\ c \notin Ingest!ToSet(red.stream)
      /\ \A p \in Processes : c \notin Ingest!Seen(p)
      /\ \A v \in Ingest!Writers : \A y : Ingest!Holds(v, y)' <=> Ingest!Holds(v, y) /\ y # c
      /\ \A y : Ingest!InHand(y)' = IF y = c THEN 0 ELSE Ingest!InHand(y)
      /\ Ingest!InHand(c) = 1
      /\ Ingest!Granted' = Ingest!Granted \ {w}
  BY <1>1, HandLetsGo
<1> HIDE DEF c
<1>3. /\ red' \in [queue : Seq(Posted), dead : SUBSET Posted, stream : Seq(Captured)]
      /\ red'.queue = red.queue /\ red'.stream = red.stream
      /\ red.dead \subseteq red'.dead /\ red'.dead \subseteq red.dead \cup {c}
  <2>1. red \in [queue : Seq(Posted), dead : SUBSET Posted, stream : Seq(Captured)]
    BY DEF Ingest!TypeOK
  <2> QED BY <1>1, <1>2, <2>1
<1>4. Ingest!TypeOK'
  <2>1. odd' \in 0..MaxOdd
    BY <1>1, Parts
  <2> QED BY <1>1, <1>2, <1>3, <2>1 DEF Ingest!TypeOK
<1>5. /\ \A p : Ingest!Seen(p)' = Ingest!Seen(p)
      /\ \A y : (Ingest!Deleting(y)' <=> Ingest!Deleting(y)) /\ Ingest!Future(y)' = Ingest!Future(y)
      /\ Ingest!Brief' /\ Ingest!Grants' = Ingest!Grants
  BY <1>1, <1>2, <1>3, SameBatches
<1>6. Ingest!OnlyAccepted'
  <2>1. \A y \in Ingest!Good : db.rows[y] > 0 \/ (\E v \in Ingest!Writers : Ingest!Holds(v, y)') => y \in db.accepted
    BY <1>2 DEF Ingest!OnlyAccepted
  <2>2. \A v \in Workers, y \in Ingest!Good : Ingest!Holds(v, y)' => y \in Posted
    BY <1>2 DEF Ingest!OnlyAccepted, Ingest!Writers
  <2> QED BY <1>1, <1>2, <1>3, <1>5, <2>1, <2>2 DEF Ingest!OnlyAccepted
<1>7. Ingest!OneEach'
  <2>1. \A u, v \in Ingest!Writers, y \in Ingest!Good : Ingest!Holds(u, y)' /\ Ingest!Holds(v, y)' => u = v
    BY <1>2 DEF Ingest!OneEach
  <2>2. \A v \in Ingest!Writers, y \in Ingest!Good : Ingest!Holds(v, y)' =>
          /\ db.rows[y] = 0 /\ y \notin Ingest!ToSet(red.queue) \cup Ingest!ToSet(red.stream)
          /\ \A p \in Processes : y \notin Ingest!Seen(p)
    BY <1>2 DEF Ingest!OneEach
  <2> QED BY <1>1, <1>3, <1>5, <2>1, <2>2 DEF Ingest!OneEach
<1>8. Ingest!Copies'
  <2> SUFFICES ASSUME NEW y \in Captured \cap Ingest!Good
               PROVE  db'.rows[y] + Cardinality(Ingest!Future(y)') + Ingest!InHand(y)'
                        <= Cardinality(Processes) + (MaxOdd - odd')
    BY Same DEF Ingest!Copies
  <2>1. db.rows[y] + Cardinality(Ingest!Future(y)) + Ingest!InHand(y) <= Cardinality(Processes) + (MaxOdd - odd)
    BY Same DEF Ingest!Copies
  <2>2. Cardinality(Ingest!Future(y)) \in Nat /\ db.rows[y] \in Nat
    BY FutureTypes, Parts
  <2>3. Ingest!InHand(y)' \in Nat /\ Ingest!InHand(y) \in Nat /\ Ingest!InHand(y)' <= Ingest!InHand(y)
    BY <1>2 DEF Ingest!InHand
  <2>4. MaxOdd - odd' = MaxOdd - odd + 1 /\ MaxOdd - odd \in Nat
    BY <1>1, Parts
  <2>5. PICK n \in Nat, k \in Nat : n = Cardinality(Ingest!Future(y)) /\ k = Cardinality(Processes)
    BY <2>2, Finite
  <2> QED BY <1>1, <1>5, <2>1, <2>2, <2>3, <2>4, <2>5
<1>9. Ingest!FewDoomed'
  <2>1. ASSUME NEW y \in Ingest!Doomed', y # c
        PROVE  y \in Ingest!Doomed
    <3>1. /\ y \in db.accepted \cap Ingest!Good /\ ~Ingest!Kept(y)'
          /\ y \in Ingest!ToSet(red.stream) => Ingest!Deleting(y)
      BY <1>1, <1>3, <1>5, <2>1 DEF Ingest!Doomed
    <3>2. ~Ingest!Kept(y)
      BY <1>1, <1>2, <1>3, <2>1, <3>1 DEF Ingest!Kept
    <3> QED BY <3>1, <3>2 DEF Ingest!Doomed
  <2>2. IsFiniteSet({c}) /\ Cardinality({c}) <= Batch
    <3>1. Batch \in Nat \ {0}
      BY Parts
    <3>2. IsFiniteSet({c}) /\ Cardinality({c}) = 1
      BY FS_Singleton
    <3> QED BY <3>1, <3>2
  <2>3. Ingest!Doomed' \subseteq Ingest!Doomed \cup {c}
    BY <2>1
  <2> QED BY <1>1, <2>2, <2>3, MoreDoomed
<1>10. Ingest!Promised'
  BY <1>1, <1>2, <1>5, PromisedSame
<1> QED BY <1>4, <1>5, <1>6, <1>7, <1>8, <1>9, <1>10

-----------------------------------------------------------------------------
(* A batch goes on.                                                        *)
LEMMA BatchMoves ==
    ASSUME Ingest!TypeOK, NEW p \in Processes, NEW y \in Ingest!Batches \cup {None},
           mem' = [mem EXCEPT !.batch[p] = y]
    PROVE  /\ mem' \in [hand : [Ingest!Writers -> Ingest!Hands \cup {None}],
                        batch : [Processes -> Ingest!Batches \cup {None}]]
           /\ mem'.hand = mem.hand /\ mem'.batch[p] = y
           /\ \A q \in Processes \ {p} : mem'.batch[q] = mem.batch[q]
           /\ \A q \in Processes \ {p} : Ingest!Seen(q)' = Ingest!Seen(q) /\ Ingest!Takes(q)' = Ingest!Takes(q)
           /\ Ingest!Seen(p)' = IF y = None THEN {} ELSE Ingest!ToSet(y.entries)
           /\ Ingest!Takes(p)' = IF y # None /\ y.step = "checked" THEN y.take ELSE {}
           /\ \A c : Ingest!Deleting(c)' <=>
                \/ y # None /\ c \in Ingest!ToSet(y.entries) /\ y.step = "stored"
                \/ \E q \in Processes \ {p} : c \in Ingest!Seen(q) /\ mem.batch[q].step = "stored"
           /\ red'.stream = red.stream => \A c : \A q \in Processes \ {p} :
                q \in Ingest!Future(c)' <=> q \in Ingest!Future(c)
<1>1. /\ mem' \in [hand : [Ingest!Writers -> Ingest!Hands \cup {None}],
                   batch : [Processes -> Ingest!Batches \cup {None}]]
      /\ mem'.batch[p] = y /\ \A q \in Processes \ {p} : mem'.batch[q] = mem.batch[q]
      /\ mem'.hand = mem.hand
  BY BatchGoes
<1>2. \A q \in Processes \ {p} : Ingest!Seen(q)' = Ingest!Seen(q) /\ Ingest!Takes(q)' = Ingest!Takes(q)
  BY <1>1 DEF Ingest!Seen, Ingest!Takes
<1>3. /\ Ingest!Seen(p)' = IF y = None THEN {} ELSE Ingest!ToSet(y.entries)
      /\ Ingest!Takes(p)' = IF y # None /\ y.step = "checked" THEN y.take ELSE {}
  BY <1>1 DEF Ingest!Seen, Ingest!Takes
<1>4. ASSUME NEW c
      PROVE  Ingest!Deleting(c)' <=>
               \/ y # None /\ c \in Ingest!ToSet(y.entries) /\ y.step = "stored"
               \/ \E q \in Processes \ {p} : c \in Ingest!Seen(q) /\ mem.batch[q].step = "stored"
  <2>1. c \in Ingest!Seen(p)' /\ mem'.batch[p].step = "stored"
          <=> y # None /\ c \in Ingest!ToSet(y.entries) /\ y.step = "stored"
    BY <1>1, <1>3
  <2>2. \A q \in Processes \ {p} : c \in Ingest!Seen(q)' /\ mem'.batch[q].step = "stored"
          <=> c \in Ingest!Seen(q) /\ mem.batch[q].step = "stored"
    BY <1>1, <1>2
  <2> QED BY <2>1, <2>2 DEF Ingest!Deleting
<1>5. ASSUME red'.stream = red.stream, NEW c, NEW q \in Processes \ {p}
      PROVE  q \in Ingest!Future(c)' <=> q \in Ingest!Future(c)
  BY <1>1, <1>2, <1>5 DEF Ingest!Future
<1> QED BY <1>1, <1>2, <1>3, <1>4, <1>5

LEMMA IngestReads ==
    ASSUME Ingest!IInv, NEW p \in Processes, Ingest!Read(p)
    PROVE  Ingest!IInv'
<1> USE DEF Ingest!IInv
<1> DEFINE n == IF Len(red.stream) < Batch THEN Len(red.stream) ELSE Batch
           entries == SubSeq(red.stream, 1, n)
           y == [step |-> "read", entries |-> entries, take |-> {}]
<1>1. /\ mem.batch[p] = None /\ red.stream # <<>> /\ red' = red /\ db' = db /\ odd' = odd
      /\ mem' = [mem EXCEPT !.batch[p] = y]
  BY DEF Ingest!Read
<1>2. n \in 1..Batch /\ n \in 0..Len(red.stream)
  <2>1. Len(red.stream) \in Nat \ {0} /\ Batch \in Nat \ {0}
    BY <1>1, Parts, LenProperties
  <2> QED BY <2>1
<1> HIDE DEF n
<1>3. entries \in Seq(Captured) /\ Len(entries) \in 1..Batch /\ Ingest!ToSet(entries) \subseteq Ingest!ToSet(red.stream)
  BY <1>2, Parts, FirstOf
<1> HIDE DEF entries
<1>4. y \in Ingest!Batches /\ y # None /\ y.step = "read" /\ y.entries = entries /\ y.step # "checked" /\ y.step # "stored"
  <2>1. y \in Ingest!Batches /\ y.step = "read" /\ y.entries = entries
    BY <1>3 DEF Ingest!Batches
  <2> QED BY <2>1, IngestAssumption DEF IngestAssumption
<1> HIDE DEF y
<1>5. /\ mem' \in [hand : [Ingest!Writers -> Ingest!Hands \cup {None}],
                   batch : [Processes -> Ingest!Batches \cup {None}]]
      /\ mem'.hand = mem.hand /\ mem'.batch[p] = y
      /\ \A q \in Processes \ {p} : mem'.batch[q] = mem.batch[q]
      /\ \A q \in Processes \ {p} : Ingest!Seen(q)' = Ingest!Seen(q) /\ Ingest!Takes(q)' = Ingest!Takes(q)
      /\ Ingest!Seen(p)' = Ingest!ToSet(entries) /\ Ingest!Takes(p)' = {}
      /\ \A c : Ingest!Deleting(c)' <=>
           \E q \in Processes \ {p} : c \in Ingest!Seen(q) /\ mem.batch[q].step = "stored"
      /\ \A c : \A q \in Processes \ {p} : q \in Ingest!Future(c)' <=> q \in Ingest!Future(c)
  <2>1. /\ mem' = [mem EXCEPT !.batch[p] = y] /\ y \in Ingest!Batches \cup {None} /\ Ingest!TypeOK
        /\ red'.stream = red.stream
    BY <1>1, <1>4
  <2>2. /\ Ingest!Seen(p)' = IF y = None THEN {} ELSE Ingest!ToSet(y.entries)
        /\ Ingest!Takes(p)' = IF y # None /\ y.step = "checked" THEN y.take ELSE {}
        /\ \A c : Ingest!Deleting(c)' <=>
             \/ y # None /\ c \in Ingest!ToSet(y.entries) /\ y.step = "stored"
             \/ \E q \in Processes \ {p} : c \in Ingest!Seen(q) /\ mem.batch[q].step = "stored"
    BY ONLY p \in Processes, <2>1, BatchMoves
  <2>3. /\ mem' \in [hand : [Ingest!Writers -> Ingest!Hands \cup {None}],
                     batch : [Processes -> Ingest!Batches \cup {None}]]
        /\ mem'.hand = mem.hand /\ mem'.batch[p] = y
        /\ \A q \in Processes \ {p} : mem'.batch[q] = mem.batch[q]
        /\ \A q \in Processes \ {p} : Ingest!Seen(q)' = Ingest!Seen(q) /\ Ingest!Takes(q)' = Ingest!Takes(q)
        /\ \A c : \A q \in Processes \ {p} : q \in Ingest!Future(c)' <=> q \in Ingest!Future(c)
    BY ONLY p \in Processes, <2>1, BatchMoves
  <2> QED BY <1>4, <2>2, <2>3
<1>6. Ingest!Seen(p) = {} /\ Ingest!Takes(p) = {}
  BY <1>1 DEF Ingest!Seen, Ingest!Takes
<1>7. \A c : Ingest!Deleting(c)' <=> Ingest!Deleting(c)
  BY <1>5, <1>6 DEF Ingest!Deleting
<1>8. \A c : Ingest!Future(c)' = Ingest!Future(c)
  <2>1. ASSUME NEW c
        PROVE  p \in Ingest!Future(c)' <=> p \in Ingest!Future(c)
    <3>1. p \in Ingest!Future(c)' <=> c \in Ingest!ToSet(red.stream)
      BY <1>1, <1>3, <1>4, <1>5 DEF Ingest!Future
    <3>2. p \in Ingest!Future(c) <=> c \in Ingest!ToSet(red.stream)
      BY <1>6 DEF Ingest!Future
    <3> QED BY <3>1, <3>2
  <2>2. \A c : Ingest!Future(c) \subseteq Processes /\ Ingest!Future(c)' \subseteq Processes
    BY FutureTypes
  <2>3. ASSUME NEW c
        PROVE  Ingest!Future(c)' = Ingest!Future(c)
    <3>1. \A q \in Processes : q \in Ingest!Future(c)' <=> q \in Ingest!Future(c)
      BY <1>5, <2>1
    <3> QED BY <2>2, <3>1
  <2> QED BY <2>3
<1>9. /\ \A w, c : Ingest!Holds(w, c)' = Ingest!Holds(w, c)
      /\ \A c : Ingest!InHand(c)' = Ingest!InHand(c)
      /\ Ingest!Granted' = Ingest!Granted
  BY <1>5, SameHands
<1>10. Ingest!TypeOK'
  BY <1>1, <1>5 DEF Ingest!TypeOK
<1>11. Ingest!Brief'
  <2>1. /\ Len(mem'.batch[p].entries) \in 1..Batch
        /\ Ingest!Takes(p)' \subseteq Ingest!ToSet(mem'.batch[p].entries)
        /\ Cardinality(Ingest!Takes(p)') <= Ingest!Most
    <3>1. Cardinality({}) = 0 /\ Ingest!Most \in Nat
      BY FS_EmptySet, Parts
    <3> QED BY <1>3, <1>4, <1>5, <3>1
  <2>2. Ingest!Most' = Ingest!Most
    BY <1>1 DEF Ingest!Most
  <2> QED BY <1>5, <2>1, <2>2, Same DEF Ingest!Brief
<1>12. Ingest!OnlyAccepted'
  <2>1. \A q \in Processes : Ingest!Seen(q)' \subseteq db.accepted
    BY <1>3, <1>5 DEF Ingest!OnlyAccepted
  <2> QED BY <1>1, <1>9, <2>1 DEF Ingest!OnlyAccepted
<1>13. Ingest!OneEach'
  <2>1. \A w \in Ingest!Writers, c \in Ingest!Good : Ingest!Holds(w, c) =>
           /\ db.rows[c] = 0 /\ c \notin Ingest!ToSet(red.queue) \cup Ingest!ToSet(red.stream)
           /\ \A q \in Processes : c \notin Ingest!Seen(q)'
    BY <1>3, <1>5 DEF Ingest!OneEach
  <2> QED BY <1>1, <1>9, <2>1 DEF Ingest!OneEach
<1>14. Ingest!Copies'
  BY <1>1, <1>8, <1>9 DEF Ingest!Copies
<1>15. Ingest!FewDoomed'
  <2>1. Ingest!Doomed' \subseteq Ingest!Doomed
    BY <1>1, <1>7, <1>9 DEF Ingest!Doomed, Ingest!Kept
  <2> QED BY <1>1, <2>1, Fewer
<1>16. Ingest!Promised'
  <2>1. Ingest!Grants' \subseteq Ingest!Grants
    BY <1>5 DEF Ingest!Grants
  <2> QED BY <1>1, <1>9, <2>1, PromisedSame
<1> QED BY <1>10, <1>11, <1>12, <1>13, <1>14, <1>15, <1>16

(* The entries there is room for: no more than there are, and than may be  *)
(* stored yet.                                                             *)
LEMMA TakenFits ==
    ASSUME Ingest!IInv, NEW p \in Processes, mem.batch[p] # None
    PROVE  LET T == Ingest!Taken(mem.batch[p])
           IN  /\ T \in SUBSET Ingest!Good /\ T \subseteq Ingest!ToSet(mem.batch[p].entries)
               /\ IsFiniteSet(T) /\ Cardinality(T) \in Nat /\ Cardinality(T) <= Ingest!Most
               /\ T # {} => Ingest!Stored + Cardinality(T) <= db.cap
<1> USE DEF Ingest!IInv
<1> DEFINE b == mem.batch[p]
           e == b.entries
           G == Ingest!GoodAt(b)
           rank(j) == Cardinality({k \in G : k <= j})
           J == {j \in G : Ingest!Room(rank(j))}
           T == Ingest!Taken(b)
<1>1. PICK n \in Nat : Len(e) = n /\ n <= Batch /\ DOMAIN e = 1..n /\ \A i \in 1..n : e[i] \in Captured
  <2>1. e \in Seq(Captured)
    BY BatchTypes
  <2>2. Len(e) \in 1..Batch
    BY DEF Ingest!Brief
  <2>3. Batch \in Nat
    BY Parts
  <2> QED BY <2>1, <2>2, <2>3, LenProperties, ElementOfSeq
<1>2. G \subseteq 1..n /\ G = {i \in 1..n : e[i] \in Ingest!Good}
  BY <1>1 DEF Ingest!GoodAt
<1>3. T = {e[i] : i \in J}
  BY Same DEF Ingest!Taken
<1>4. \A j \in J : j \in G /\ Ingest!Stored + rank(j) <= db.cap
  BY DEF Ingest!Room
<1> HIDE DEF G, J, T, e, rank
<1>5. J \subseteq G /\ J \subseteq 1..n
  BY <1>2, <1>4
<1>6. T \in SUBSET Ingest!Good
  BY <1>2, <1>3, <1>5
<1>7. T \subseteq Ingest!ToSet(e)
  BY <1>1, <1>3, <1>5 DEF Ingest!ToSet
<1>8. IsFiniteSet(1..n) /\ Cardinality(1..n) = n
  BY FS_Interval
<1>9. IsFiniteSet(J) /\ Cardinality(J) \in Nat /\ Cardinality(J) <= n
  <2>1. IsFiniteSet(J) /\ Cardinality(J) <= Cardinality(1..n)
    BY <1>5, <1>8, FS_Subset
  <2> QED BY <1>8, <2>1, FS_CardinalityType
<1>10. IsFiniteSet(T) /\ Cardinality(T) \in Nat /\ Cardinality(T) <= Cardinality(J)
  <2>1. [i \in J |-> e[i]] \in Surjection(J, T)
    BY <1>3 DEF Surjection
  <2> QED BY <1>9, <2>1, FS_Surjection, FS_CardinalityType
<1>11. Ingest!Stored \in Nat /\ db.cap \in Nat /\ Ingest!Most \in Nat /\ Batch \in Nat
  BY Parts, PromisedTypes
<1>12. J # {} => Ingest!Stored + Cardinality(J) <= db.cap
  <2> SUFFICES ASSUME J # {}
               PROVE  Ingest!Stored + Cardinality(J) <= db.cap
    OBVIOUS
  <2>1. PICK m \in J : \A j \in J : j <= m
    <3>1. J \in SUBSET (1..n)
      BY <1>5
    <3> QED BY <3>1, Greatest
  <2>2. J \subseteq {k \in G : k <= m}
    BY <1>5, <2>1
  <2>3. IsFiniteSet({k \in G : k <= m})
    BY <1>2, <1>8, FS_Subset
  <2>4. Cardinality(J) <= rank(m) /\ rank(m) \in Nat
    BY <2>2, <2>3, FS_Subset, FS_CardinalityType DEF rank
  <2>5. Ingest!Stored + rank(m) <= db.cap
    BY <1>4, <2>1
  <2> QED BY <1>9, <1>11, <2>4, <2>5
<1>13. J = {} => Cardinality(J) = 0 /\ T = {}
  BY <1>3, FS_EmptySet
<1>14. T # {} => Ingest!Stored + Cardinality(T) <= db.cap
  BY <1>9, <1>10, <1>11, <1>12, <1>13
<1>15. Cardinality(T) <= Ingest!Most
  <2>1. Cardinality(T) <= Batch /\ Cardinality(J) <= db.cap
    BY <1>1, <1>9, <1>10, <1>11, <1>12, <1>13
  <2> QED BY <1>9, <1>10, <1>11, <2>1 DEF Ingest!Most
<1> QED BY <1>6, <1>7, <1>10, <1>14, <1>15 DEF T, e

LEMMA IngestBatchChecks ==
    ASSUME Ingest!IInv, NEW p \in Processes, Ingest!CheckBatch(p)
    PROVE  Ingest!IInv'
<1> USE DEF Ingest!IInv
<1> DEFINE b == mem.batch[p]
           T == Ingest!Taken(b)
           y == [b EXCEPT !.step = "checked", !.take = T]
<1>1. /\ b # None /\ b.step = "read" /\ red' = red /\ db' = db /\ odd' = odd
      /\ mem' = [mem EXCEPT !.batch[p] = y]
  BY DEF Ingest!CheckBatch
<1>2. /\ T \in SUBSET Ingest!Good /\ T \subseteq Ingest!ToSet(b.entries)
      /\ IsFiniteSet(T) /\ Cardinality(T) \in Nat /\ Cardinality(T) <= Ingest!Most
      /\ T # {} => Ingest!Stored + Cardinality(T) <= db.cap
  BY <1>1, TakenFits
<1> HIDE DEF T
<1>3. y \in Ingest!Batches /\ y # None /\ y.step = "checked" /\ y.entries = b.entries /\ y.take = T
  <2>1. b \in Ingest!Batches
    BY <1>1, BatchTypes
  <2>2. y \in Ingest!Batches /\ y.step = "checked" /\ y.entries = b.entries /\ y.take = T
    BY <1>2, <2>1 DEF Ingest!Batches
  <2> QED BY <2>2, IngestAssumption DEF IngestAssumption
<1> HIDE DEF y
<1>4. /\ mem' \in [hand : [Ingest!Writers -> Ingest!Hands \cup {None}],
                   batch : [Processes -> Ingest!Batches \cup {None}]]
      /\ mem'.hand = mem.hand /\ mem'.batch[p] = y
      /\ \A q \in Processes \ {p} : mem'.batch[q] = mem.batch[q]
      /\ \A q \in Processes \ {p} : Ingest!Seen(q)' = Ingest!Seen(q) /\ Ingest!Takes(q)' = Ingest!Takes(q)
      /\ Ingest!Seen(p)' = Ingest!ToSet(b.entries) /\ Ingest!Takes(p)' = T
      /\ \A c : Ingest!Deleting(c)' <=>
           \E q \in Processes \ {p} : c \in Ingest!Seen(q) /\ mem.batch[q].step = "stored"
      /\ \A c : \A q \in Processes \ {p} : q \in Ingest!Future(c)' <=> q \in Ingest!Future(c)
  <2>1. /\ mem' = [mem EXCEPT !.batch[p] = y] /\ y \in Ingest!Batches \cup {None} /\ Ingest!TypeOK
        /\ red'.stream = red.stream
    BY <1>1, <1>3
  <2>2. /\ Ingest!Seen(p)' = IF y = None THEN {} ELSE Ingest!ToSet(y.entries)
        /\ Ingest!Takes(p)' = IF y # None /\ y.step = "checked" THEN y.take ELSE {}
        /\ \A c : Ingest!Deleting(c)' <=>
             \/ y # None /\ c \in Ingest!ToSet(y.entries) /\ y.step = "stored"
             \/ \E q \in Processes \ {p} : c \in Ingest!Seen(q) /\ mem.batch[q].step = "stored"
    BY ONLY p \in Processes, <2>1, BatchMoves
  <2>3. /\ mem' \in [hand : [Ingest!Writers -> Ingest!Hands \cup {None}],
                     batch : [Processes -> Ingest!Batches \cup {None}]]
        /\ mem'.hand = mem.hand /\ mem'.batch[p] = y
        /\ \A q \in Processes \ {p} : mem'.batch[q] = mem.batch[q]
        /\ \A q \in Processes \ {p} : Ingest!Seen(q)' = Ingest!Seen(q) /\ Ingest!Takes(q)' = Ingest!Takes(q)
        /\ \A c : \A q \in Processes \ {p} : q \in Ingest!Future(c)' <=> q \in Ingest!Future(c)
    BY ONLY p \in Processes, <2>1, BatchMoves
  <2> QED BY <1>3, <2>2, <2>3
<1>5. Ingest!Seen(p) = Ingest!ToSet(b.entries) /\ Ingest!Takes(p) = {} /\ b.step # "stored" /\ y.step # "stored"
  BY <1>1, <1>3 DEF Ingest!Seen, Ingest!Takes
<1>6. \A q \in Processes : Ingest!Seen(q)' = Ingest!Seen(q)
  BY <1>4, <1>5
<1>7. \A c : Ingest!Deleting(c)' <=> Ingest!Deleting(c)
  BY <1>4, <1>5 DEF Ingest!Deleting
<1>8. \A c : Ingest!Future(c)' = Ingest!Future(c)
  <2>1. \A c : Ingest!Future(c) \subseteq Processes /\ Ingest!Future(c)' \subseteq Processes
    BY FutureTypes
  <2>2. ASSUME NEW c
        PROVE  p \in Ingest!Future(c)' <=> p \in Ingest!Future(c)
    BY <1>1, <1>4, <1>5 DEF Ingest!Future
  <2>3. ASSUME NEW c
        PROVE  Ingest!Future(c)' = Ingest!Future(c)
    <3>1. \A q \in Processes : q \in Ingest!Future(c)' <=> q \in Ingest!Future(c)
      BY <1>4, <2>2
    <3> QED BY <2>1, <3>1
  <2> QED BY <2>3
<1>9. /\ \A w, c : Ingest!Holds(w, c)' = Ingest!Holds(w, c)
      /\ \A c : Ingest!InHand(c)' = Ingest!InHand(c)
      /\ Ingest!Granted' = Ingest!Granted
  BY <1>4, SameHands
<1>10. Ingest!TypeOK'
  BY <1>1, <1>4 DEF Ingest!TypeOK
<1>11. Ingest!Brief'
  <2>1. /\ Len(mem'.batch[p].entries) \in 1..Batch
        /\ Ingest!Takes(p)' \subseteq Ingest!ToSet(mem'.batch[p].entries)
        /\ Cardinality(Ingest!Takes(p)') <= Ingest!Most
    BY <1>1, <1>2, <1>3, <1>4 DEF Ingest!Brief
  <2>2. Ingest!Most' = Ingest!Most
    BY <1>1 DEF Ingest!Most
  <2> QED BY <1>4, <2>1, <2>2, Same DEF Ingest!Brief
<1>12. Ingest!OnlyAccepted'
  BY <1>1, <1>6, <1>9 DEF Ingest!OnlyAccepted
<1>13. Ingest!OneEach'
  BY <1>1, <1>6, <1>9 DEF Ingest!OneEach
<1>14. Ingest!Copies'
  BY <1>1, <1>8, <1>9 DEF Ingest!Copies
<1>15. Ingest!FewDoomed'
  <2>1. Ingest!Doomed' \subseteq Ingest!Doomed
    BY <1>1, <1>7, <1>9 DEF Ingest!Doomed, Ingest!Kept
  <2> QED BY <1>1, <2>1, Fewer
<1>16. Ingest!Promised'
  <2>1. CASE T = {}
    <3>1. Ingest!Grants' \subseteq Ingest!Grants
      BY <1>4, <2>1 DEF Ingest!Grants
    <3> QED BY <1>1, <1>9, <3>1, PromisedSame
  <2>2. CASE T # {}
    <3>1. Ingest!Snapshots' = Ingest!Snapshots /\ Ingest!Stored' = Ingest!Stored /\ Ingest!Most' = Ingest!Most
      BY <1>1, SameRows DEF Ingest!Most
    <3>2. PICK t \in Nat : t = Cardinality(T) /\ Ingest!Stored + t <= db.cap /\ t > 0
      <4>1. Cardinality(T) # 0
        BY <1>2, <2>2, FS_EmptySet
      <4> QED BY <1>2, <2>2, <4>1
    <3>3. Ingest!Stored \in Nat /\ db.cap \in Nat
      BY PromisedTypes, Parts
    <3>4. PICK M \in Nat : M = Ingest!Most /\ M > 0
      BY <1>2, <3>2, Parts
    <3>5. PICK P \in Nat, W \in Nat : /\ P = Cardinality(Processes) /\ W = Cardinality(Ingest!Writers)
                                      /\ P > 0 /\ Cardinality(Processes \ {p}) = P - 1
      <4>1. Cardinality(Processes) # 0
        BY Finite, FS_EmptySet
      <4> QED BY <4>1, Finite, FS_RemoveElement
    <3> DEFINE old == UNION {{q} \X Ingest!Takes(q) : q \in Processes \ {p}}
    <3>6. IsFiniteSet(old) /\ Cardinality(old) \in Nat /\ Cardinality(old) <= (P - 1) * M
      BY <3>4, <3>5, GrantsTypes
    <3>7. IsFiniteSet({p} \X T) /\ Cardinality({p} \X T) = t
      <4>1. IsFiniteSet({p}) /\ Cardinality({p}) = 1
        BY FS_Singleton
      <4>2. IsFiniteSet({p} \X T) /\ Cardinality({p} \X T) = Cardinality({p}) * Cardinality(T)
        BY <1>2, <4>1, FS_Product
      <4> QED BY <3>2, <4>1, <4>2
    <3>8. Ingest!Grants' \subseteq old \cup ({p} \X T)
      BY <1>4 DEF Ingest!Grants
    <3> HIDE DEF old
    <3>9. PICK g \in Nat : g = Cardinality(Ingest!Grants') /\ g <= Cardinality(old) + t
      BY <3>6, <3>7, <3>8, Grows
    <3>10. PICK h \in Nat : h = Cardinality(Ingest!Granted) /\ h <= W
      BY <3>5, PromisedTypes
    <3>11. (P + W - 1) * M = (P - 1) * M + W * M /\ W <= W * M /\ (P - 1) * M \in Nat /\ W * M \in Nat
      <4>1. \A i \in Nat, j \in Nat \ {0} : i <= i * j /\ i * j \in Nat
        OBVIOUS
      <4>2. \A i, j, k \in Nat : (i + j) * k = i * k + j * k
        OBVIOUS
      <4>3. P - 1 \in Nat /\ P + W - 1 = (P - 1) + W /\ M \in Nat \ {0}
        BY <3>4, <3>5
      <4>4. ((P - 1) + W) * M = (P - 1) * M + W * M
        BY <4>2, <4>3
      <4> QED BY <4>1, <4>3, <4>4
    <3>12. PICK i \in Nat, j \in Nat : i = (P - 1) * M /\ j = W * M
      BY <3>11
    <3>13. Ingest!Stored + g + h <= db.cap + (P + W - 1) * M
      <4>1. g <= i + t /\ h <= j /\ (P + W - 1) * M = i + j
        BY <3>6, <3>9, <3>10, <3>11, <3>12
      <4>2. Ingest!Stored + g + h <= db.cap + (i + j)
        BY <3>2, <3>3, <4>1
      <4> QED BY <4>1, <4>2
    <3> QED BY <1>1, <1>9, <3>1, <3>4, <3>5, <3>9, <3>10, <3>13, PromisedTypes, Same DEF Ingest!Promised
  <2> QED BY <2>1, <2>2
<1> QED BY <1>10, <1>11, <1>12, <1>13, <1>14, <1>15, <1>16

(* What a commit does, whether it keeps all that it takes or not.          *)
LEMMA IngestCommits ==
    ASSUME Ingest!IInv, NEW p \in Processes, mem.batch[p] # None, mem.batch[p].step = "checked",
           NEW kept \in SUBSET mem.batch[p].take,
           mem' = [mem EXCEPT !.batch[p].step = "stored"], red' = red,
           db' \in [cap : Caps, accepted : SUBSET Ingest!Calls, rows : [Ingest!Good -> Nat],
                    refused : SUBSET Ingest!Good],
           db'.cap = db.cap, db'.accepted = db.accepted, db.refused \subseteq db'.refused,
           \A c \in Ingest!Good : db'.rows[c] = IF c \in kept THEN db.rows[c] + 1 ELSE db.rows[c],
           odd' = odd \/ (odd > 0 /\ odd' = odd - 1)
    PROVE  /\ Ingest!TypeOK' /\ Ingest!Brief' /\ Ingest!OnlyAccepted' /\ Ingest!OneEach'
           /\ Ingest!Copies' /\ Ingest!Promised'
           /\ \A c \in Ingest!Doomed' : c \in Ingest!Doomed \/ c \in Ingest!ToSet(mem.batch[p].entries) \ kept
<1> USE DEF Ingest!IInv
<1> DEFINE b == mem.batch[p]
           T == b.take
           y == [b EXCEPT !.step = "stored"]
<1>1. /\ b \in Ingest!Batches /\ T \in SUBSET Ingest!Good /\ Ingest!ToSet(b.entries) \subseteq Captured
      /\ b.entries \in Seq(Captured)
  BY BatchTypes
<1>2. Ingest!Takes(p) = T /\ Ingest!Seen(p) = Ingest!ToSet(b.entries)
  BY DEF Ingest!Takes, Ingest!Seen
<1>3. T \subseteq Ingest!ToSet(b.entries) /\ IsFiniteSet(T) /\ Cardinality(T) \in Nat
  <2>1. T \subseteq Ingest!ToSet(b.entries)
    BY <1>2 DEF Ingest!Brief
  <2> QED BY <1>1, <2>1, SetOf, FS_Subset, FS_CardinalityType
<1>4. y \in Ingest!Batches /\ y # None /\ y.step = "stored" /\ y.entries = b.entries /\ y.step # "checked"
  <2>1. y \in Ingest!Batches /\ y.step = "stored" /\ y.entries = b.entries
    BY <1>1 DEF Ingest!Batches
  <2> QED BY <2>1, IngestAssumption DEF IngestAssumption
<1>5. mem' = [mem EXCEPT !.batch[p] = y] /\ kept \subseteq T
  OBVIOUS
<1> HIDE DEF y, T
<1>6. /\ mem' \in [hand : [Ingest!Writers -> Ingest!Hands \cup {None}],
                   batch : [Processes -> Ingest!Batches \cup {None}]]
      /\ mem'.hand = mem.hand /\ mem'.batch[p] = y
      /\ \A q \in Processes \ {p} : mem'.batch[q] = mem.batch[q]
      /\ \A q \in Processes \ {p} : Ingest!Seen(q)' = Ingest!Seen(q) /\ Ingest!Takes(q)' = Ingest!Takes(q)
      /\ Ingest!Seen(p)' = Ingest!ToSet(b.entries) /\ Ingest!Takes(p)' = {}
      /\ \A c : Ingest!Deleting(c)' <=>
           \/ c \in Ingest!ToSet(b.entries)
           \/ \E q \in Processes \ {p} : c \in Ingest!Seen(q) /\ mem.batch[q].step = "stored"
      /\ \A c : \A q \in Processes \ {p} : q \in Ingest!Future(c)' <=> q \in Ingest!Future(c)
  <2>1. /\ mem' = [mem EXCEPT !.batch[p] = y] /\ y \in Ingest!Batches \cup {None} /\ red'.stream = red.stream
        /\ Ingest!TypeOK
    BY <1>4, <1>5
  <2>2. /\ Ingest!Seen(p)' = IF y = None THEN {} ELSE Ingest!ToSet(y.entries)
        /\ Ingest!Takes(p)' = IF y # None /\ y.step = "checked" THEN y.take ELSE {}
        /\ \A c : Ingest!Deleting(c)' <=>
             \/ y # None /\ c \in Ingest!ToSet(y.entries) /\ y.step = "stored"
             \/ \E q \in Processes \ {p} : c \in Ingest!Seen(q) /\ mem.batch[q].step = "stored"
    BY ONLY p \in Processes, <2>1, BatchMoves
  <2>3. /\ mem' \in [hand : [Ingest!Writers -> Ingest!Hands \cup {None}],
                     batch : [Processes -> Ingest!Batches \cup {None}]]
        /\ mem'.hand = mem.hand /\ mem'.batch[p] = y
        /\ \A q \in Processes \ {p} : mem'.batch[q] = mem.batch[q]
        /\ \A q \in Processes \ {p} : Ingest!Seen(q)' = Ingest!Seen(q) /\ Ingest!Takes(q)' = Ingest!Takes(q)
        /\ \A c : \A q \in Processes \ {p} : q \in Ingest!Future(c)' <=> q \in Ingest!Future(c)
    BY ONLY p \in Processes, <2>1, BatchMoves
  <2> QED BY <1>4, <2>2, <2>3
<1>7. \A q \in Processes : Ingest!Seen(q)' = Ingest!Seen(q)
  BY <1>2, <1>6
<1>8. \A c : Ingest!Deleting(c)' => Ingest!Deleting(c) \/ c \in Ingest!ToSet(b.entries)
  BY <1>6 DEF Ingest!Deleting
<1>9. \A c : /\ Ingest!Future(c)' \subseteq Ingest!Future(c)
             /\ c \in Ingest!ToSet(b.entries) => Ingest!Future(c)' = Ingest!Future(c) \ {p} /\ p \in Ingest!Future(c)
  <2>1. \A c : Ingest!Future(c) \subseteq Processes /\ Ingest!Future(c)' \subseteq Processes
    BY FutureTypes
  <2>2. ASSUME NEW c
        PROVE  IF c \in Ingest!ToSet(b.entries) THEN p \notin Ingest!Future(c)' /\ p \in Ingest!Future(c)
               ELSE p \in Ingest!Future(c)' <=> p \in Ingest!Future(c)
    <3>1. p \in Ingest!Future(c)' <=> IF c \in Ingest!ToSet(b.entries) THEN FALSE ELSE c \in Ingest!ToSet(red.stream)
      BY <1>4, <1>6 DEF Ingest!Future
    <3>2. p \in Ingest!Future(c) <=> IF c \in Ingest!ToSet(b.entries) THEN TRUE ELSE c \in Ingest!ToSet(red.stream)
      BY <1>2 DEF Ingest!Future
    <3> QED BY <3>1, <3>2
  <2>3. ASSUME NEW c
        PROVE  /\ Ingest!Future(c)' \subseteq Ingest!Future(c)
               /\ c \in Ingest!ToSet(b.entries) => Ingest!Future(c)' = Ingest!Future(c) \ {p} /\ p \in Ingest!Future(c)
    <3>1. \A q \in Processes \ {p} : q \in Ingest!Future(c)' <=> q \in Ingest!Future(c)
      BY <1>6
    <3>2. Ingest!Future(c) \subseteq Processes /\ Ingest!Future(c)' \subseteq Processes
      BY <2>1
    <3> HIDE DEF b
    <3> QED BY <2>2, <3>1, <3>2
  <2> QED BY <2>3
<1>10. /\ \A w, c : Ingest!Holds(w, c)' = Ingest!Holds(w, c)
       /\ \A c : Ingest!InHand(c)' = Ingest!InHand(c)
       /\ Ingest!Granted' = Ingest!Granted
  BY <1>6, SameHands
<1>11. /\ odd' \in 0..MaxOdd /\ MaxOdd - odd' \in Nat /\ MaxOdd - odd \in Nat /\ MaxOdd - odd <= MaxOdd - odd'
  BY Parts
<1>12. Ingest!TypeOK'
  BY <1>6, <1>11 DEF Ingest!TypeOK
<1>13. Ingest!Most' = Ingest!Most /\ Ingest!Most \in Nat
  BY Parts DEF Ingest!Most
<1>14. Ingest!Brief'
  <2>1. /\ Len(mem'.batch[p].entries) \in 1..Batch
        /\ Ingest!Takes(p)' \subseteq Ingest!ToSet(mem'.batch[p].entries)
        /\ Cardinality(Ingest!Takes(p)') <= Ingest!Most
    <3>1. Cardinality({}) = 0
      BY FS_EmptySet
    <3> QED BY <1>4, <1>6, <1>13, <3>1 DEF Ingest!Brief
  <2>2. ASSUME NEW q \in Processes \ {p}, mem'.batch[q] # None
        PROVE  /\ Len(mem'.batch[q].entries) \in 1..Batch
               /\ Ingest!Takes(q)' \subseteq Ingest!ToSet(mem'.batch[q].entries)
               /\ Cardinality(Ingest!Takes(q)') <= Ingest!Most
    <3>1. mem'.batch[q] = mem.batch[q] /\ Ingest!Takes(q)' = Ingest!Takes(q)
      BY <1>6
    <3> QED BY <2>2, <3>1, Same DEF Ingest!Brief
  <2> HIDE DEF b
  <2> QED BY <1>13, <2>1, <2>2, Same DEF Ingest!Brief
<1>15. \A c \in Ingest!Good : c \notin Ingest!ToSet(b.entries) => db'.rows[c] = db.rows[c]
  BY <1>3, <1>5
<1>16. Ingest!OnlyAccepted'
  <2>1. \A c \in Ingest!Good : db'.rows[c] > 0 => c \in db.accepted
    <3>1. \A c \in Ingest!ToSet(b.entries) : c \in db.accepted
      BY <1>2 DEF Ingest!OnlyAccepted
    <3> QED BY <1>15, <3>1 DEF Ingest!OnlyAccepted
  <2> QED BY <1>7, <1>10, <2>1 DEF Ingest!OnlyAccepted
<1>17. Ingest!OneEach'
  <2>1. \A c \in Posted : c \in Ingest!Good /\ c \notin Ingest!ToSet(b.entries)
    BY <1>1, PostedGood
  <2>2. \A c \in Posted : db'.rows[c] <= 1
    BY <1>15, <2>1 DEF Ingest!OneEach
  <2>3. \A c \in Ingest!ToSet(red.queue) : db'.rows[c] = 0
    <3>1. Ingest!ToSet(red.queue) \subseteq Posted
      BY Parts, SetOf
    <3> QED BY <1>15, <2>1, <3>1 DEF Ingest!OneEach
  <2>4. \A w \in Ingest!Writers, c \in Ingest!Good : Ingest!Holds(w, c) =>
           /\ db'.rows[c] = 0 /\ c \notin Ingest!ToSet(red.queue) \cup Ingest!ToSet(red.stream)
           /\ \A q \in Processes : c \notin Ingest!Seen(q)
    BY <1>2, <1>15 DEF Ingest!OneEach
  <2> QED BY <1>7, <1>10, <2>2, <2>3, <2>4 DEF Ingest!OneEach
<1>18. Ingest!Copies'
  <2> SUFFICES ASSUME NEW c \in Captured \cap Ingest!Good
               PROVE  db'.rows[c] + Cardinality(Ingest!Future(c)') + Ingest!InHand(c)'
                        <= Cardinality(Processes) + (MaxOdd - odd')
    BY Same DEF Ingest!Copies
  <2>1. db.rows[c] + Cardinality(Ingest!Future(c)) + Ingest!InHand(c) <= Cardinality(Processes) + (MaxOdd - odd)
    BY Same DEF Ingest!Copies
  <2>2. PICK f \in Nat, f1 \in Nat : f = Cardinality(Ingest!Future(c)) /\ f1 = Cardinality(Ingest!Future(c)')
    BY FutureTypes
  <2>3. PICK r \in Nat, h \in Nat : r = db.rows[c] /\ h = Ingest!InHand(c)
    BY Parts DEF Ingest!InHand
  <2>4. db'.rows[c] + f1 <= r + f
    <3>1. CASE c \in kept
      <4>1. c \in Ingest!ToSet(b.entries)
        BY <1>3, <1>5, <3>1
      <4>2. Ingest!Future(c)' = Ingest!Future(c) \ {p} /\ p \in Ingest!Future(c)
        BY <1>9, <4>1
      <4>3. IsFiniteSet(Ingest!Future(c))
        BY FutureTypes
      <4>4. Cardinality(Ingest!Future(c) \ {p}) = Cardinality(Ingest!Future(c)) - 1
        BY <4>2, <4>3, FS_RemoveElement
      <4>5. f1 = f - 1
        BY <2>2, <4>2, <4>4
      <4> QED BY <2>3, <3>1, <4>5
    <3>2. CASE c \notin kept
      <4>1. Ingest!Future(c)' \subseteq Ingest!Future(c)
        BY <1>9
      <4>2. f1 <= f
        BY <2>2, <4>1, FutureTypes, FS_Subset
      <4> QED BY <2>3, <3>2, <4>2
    <3> QED BY <3>1, <3>2
  <2>5. db'.rows[c] \in Nat
    BY <2>3
  <2>6. PICK n \in Nat : n = Cardinality(Processes)
    BY Finite
  <2> QED BY <1>10, <1>11, <2>1, <2>2, <2>3, <2>4, <2>5, <2>6
<1>19. Ingest!Promised'
  <2> DEFINE new == {<<c, db'.rows[c]>> : c \in kept}
             old == {p} \X T
  <2>1. IsFiniteSet(kept) /\ Cardinality(kept) \in Nat /\ Cardinality(kept) <= Cardinality(T)
    BY <1>3, <1>5, FS_Subset, FS_CardinalityType
  <2>2. IsFiniteSet(new) /\ Cardinality(new) \in Nat /\ Cardinality(new) <= Cardinality(T)
    <3>1. [c \in kept |-> <<c, db'.rows[c]>>] \in Surjection(kept, new)
      BY DEF Surjection
    <3>2. IsFiniteSet(new) /\ Cardinality(new) <= Cardinality(kept)
      BY <2>1, <3>1, FS_Surjection
    <3> HIDE DEF new
    <3> QED BY <1>3, <2>1, <3>2, FS_CardinalityType
  <2>3. Ingest!Snapshots' \subseteq Ingest!Snapshots \cup new
    <3>1. ASSUME NEW c \in Ingest!Good, NEW i \in 1..db'.rows[c]
          PROVE  <<c, i>> \in Ingest!Snapshots \cup new
      <4>0. db.rows[c] \in Nat
        BY Parts
      <4>1. CASE c \in kept /\ i = db'.rows[c]
        BY <4>1
      <4>2. CASE ~(c \in kept /\ i = db'.rows[c])
        <5>1. i \in 1..db.rows[c]
          BY <3>1, <4>0, <4>2
        <5> QED BY <5>1 DEF Ingest!Snapshots
      <4> QED BY <4>1, <4>2
    <3> HIDE DEF new
    <3> QED BY <3>1 DEF Ingest!Snapshots
  <2>4. /\ IsFiniteSet(Ingest!Snapshots') /\ Cardinality(Ingest!Snapshots') \in Nat
        /\ Cardinality(Ingest!Snapshots') <= Ingest!Stored + Cardinality(T)
    <3> HIDE DEF new
    <3>1. /\ IsFiniteSet(Ingest!Snapshots') /\ Cardinality(Ingest!Snapshots') \in Nat
          /\ Cardinality(Ingest!Snapshots') <= Ingest!Stored + Cardinality(new)
      BY <2>2, <2>3, Grows, PromisedTypes
    <3> QED BY <1>3, <2>2, <3>1, PromisedTypes
  <2>5. Ingest!Grants' = Ingest!Grants \ old /\ old \subseteq Ingest!Grants
    <3>1. /\ Ingest!Grants = UNION {{q} \X Ingest!Takes(q) : q \in Processes}
          /\ Ingest!Grants' = UNION {{q} \X Ingest!Takes(q)' : q \in Processes}
      BY DEF Ingest!Grants
    <3> QED BY <1>2, <1>6, <3>1
  <2>6. Cardinality(old) = Cardinality(T) /\ IsFiniteSet(old)
    <3>1. IsFiniteSet({p}) /\ Cardinality({p}) = 1
      BY FS_Singleton
    <3>2. IsFiniteSet(old) /\ Cardinality(old) = Cardinality({p}) * Cardinality(T)
      BY <1>3, <3>1, FS_Product
    <3> QED BY <1>3, <3>1, <3>2
  <2> HIDE DEF old
  <2>7. Cardinality(Ingest!Grants') = Cardinality(Ingest!Grants) - Cardinality(T) /\ Cardinality(Ingest!Grants') \in Nat
    <3>1. Ingest!Grants \cap old = old
      BY <2>5
    <3>2. /\ IsFiniteSet(Ingest!Grants \ old)
          /\ Cardinality(Ingest!Grants \ old) = Cardinality(Ingest!Grants) - Cardinality(Ingest!Grants \cap old)
      BY PromisedTypes, FS_Difference
    <3> QED BY <2>5, <2>6, <3>1, <3>2, FS_CardinalityType
  <2>8. Cardinality(Ingest!Snapshots') + Cardinality(Ingest!Grants') + Cardinality(Ingest!Granted')
          <= Ingest!Stored + Cardinality(Ingest!Grants) + Cardinality(Ingest!Granted)
    BY <1>3, <1>10, <2>4, <2>7, PromisedTypes
  <2> QED BY <1>10, <2>4, <2>7, <2>8, PromisedStays
<1>20. ASSUME NEW c \in Ingest!Doomed'
       PROVE  c \in Ingest!Doomed \/ c \in Ingest!ToSet(b.entries) \ kept
  <2>1. /\ c \in db.accepted \cap Ingest!Good /\ ~Ingest!Kept(c)'
        /\ c \in Ingest!ToSet(red.stream) => Ingest!Deleting(c)'
    BY <1>20 DEF Ingest!Doomed
  <2>2. db'.rows[c] \in Nat /\ db.rows[c] \in Nat /\ db.rows[c] <= db'.rows[c] /\ (c \in kept => db'.rows[c] > 0)
    BY <2>1, Parts
  <2>3. ~Ingest!Kept(c) /\ c \notin kept
    BY <1>10, <2>1, <2>2 DEF Ingest!Kept
  <2> QED BY <1>8, <2>1, <2>3 DEF Ingest!Doomed
<1> QED BY <1>12, <1>14, <1>16, <1>17, <1>18, <1>19, <1>20

LEMMA IngestStores ==
    ASSUME Ingest!IInv, NEW p \in Processes, Ingest!Commit(p) \/ Ingest!CommitFails(p)
    PROVE  Ingest!IInv'
<1> USE DEF Ingest!IInv
<1> DEFINE b == mem.batch[p]
           E == Ingest!ToSet(b.entries)
           G == E \cap Ingest!Good
<1>1. /\ b # None /\ b.step = "checked" /\ red' = red /\ mem' = [mem EXCEPT !.batch[p].step = "stored"]
  BY DEF Ingest!Commit, Ingest!CommitFails
<1>2. PICK kept \in SUBSET b.take :
        \/ /\ odd' = odd /\ kept = b.take
           /\ db' = [db EXCEPT !.rows = [c \in Ingest!Good |-> IF c \in kept THEN db.rows[c] + 1 ELSE db.rows[c]],
                               !.refused = db.refused \cup (G \ kept)]
        \/ /\ odd > 0 /\ odd' = odd - 1
           /\ db' = [db EXCEPT !.rows = [c \in Ingest!Good |-> IF c \in kept THEN db.rows[c] + 1 ELSE db.rows[c]]]
  <2>1. CASE Ingest!Commit(p)
    BY <2>1 DEF Ingest!Commit
  <2>2. CASE Ingest!CommitFails(p)
    <3>1. PICK k \in {{}} \cup {b.take \ {c} : c \in b.take} :
            db' = [db EXCEPT !.rows = [c \in Ingest!Good |-> IF c \in k THEN db.rows[c] + 1 ELSE db.rows[c]]]
      BY <2>2 DEF Ingest!CommitFails
    <3>2. k \in SUBSET b.take
      OBVIOUS
    <3> QED BY <2>2, <3>1, <3>2 DEF Ingest!CommitFails, Ingest!Fault
  <2> QED BY <2>1, <2>2
<1>3. G \subseteq Ingest!Good /\ IsFiniteSet(G) /\ Cardinality(G) <= Batch
  <2>1. b.entries \in Seq(Captured) /\ Len(b.entries) \in 1..Batch
    BY <1>1, BatchTypes DEF Ingest!Brief
  <2>2. IsFiniteSet(E) /\ Cardinality(E) <= Len(b.entries) /\ Cardinality(E) \in Nat
    BY <2>1, SetOf
  <2> HIDE DEF E, b
  <2>3. IsFiniteSet(G) /\ Cardinality(G) <= Cardinality(E) /\ Cardinality(G) \in Nat
    BY <2>2, FS_Subset, FS_CardinalityType
  <2>4. Batch \in Nat
    BY Parts
  <2>5. Cardinality(G) <= Batch
    BY <2>1, <2>2, <2>3, <2>4
  <2> QED BY <2>3, <2>5
<1> HIDE DEF G, E
<1>4. /\ db' \in [cap : Caps, accepted : SUBSET Ingest!Calls, rows : [Ingest!Good -> Nat],
                  refused : SUBSET Ingest!Good]
      /\ db'.cap = db.cap /\ db'.accepted = db.accepted /\ db.refused \subseteq db'.refused
      /\ \A c \in Ingest!Good : db'.rows[c] = IF c \in kept THEN db.rows[c] + 1 ELSE db.rows[c]
      /\ odd' = odd => G \ kept \subseteq db'.refused
      /\ \/ odd' = odd
         \/ odd > 0 /\ odd' = odd - 1
  <2> DEFINE rows == [c \in Ingest!Good |-> IF c \in kept THEN db.rows[c] + 1 ELSE db.rows[c]]
  <2>1. db \in [cap : Caps, accepted : SUBSET Ingest!Calls, rows : [Ingest!Good -> Nat],
                refused : SUBSET Ingest!Good]
    BY DEF Ingest!TypeOK
  <2>2. rows \in [Ingest!Good -> Nat]
    BY Parts
  <2>3. \A c \in Ingest!Good : rows[c] = IF c \in kept THEN db.rows[c] + 1 ELSE db.rows[c]
    OBVIOUS
  <2> HIDE DEF rows
  <2>4. CASE odd' = odd /\ db' = [db EXCEPT !.rows = rows, !.refused = db.refused \cup (G \ kept)]
    <3>1. /\ db'.cap = db.cap /\ db'.accepted = db.accepted /\ db'.rows = rows
          /\ db'.refused = db.refused \cup (G \ kept)
      BY <2>1, <2>4
    <3>2. db' \in [cap : Caps, accepted : SUBSET Ingest!Calls, rows : [Ingest!Good -> Nat],
                   refused : SUBSET Ingest!Good]
      BY <1>3, <2>1, <2>2, <2>4
    <3> QED BY <2>3, <2>4, <3>1, <3>2
  <2>5. CASE odd > 0 /\ odd' = odd - 1 /\ db' = [db EXCEPT !.rows = rows]
    <3>1. /\ db'.cap = db.cap /\ db'.accepted = db.accepted /\ db'.rows = rows
          /\ db'.refused = db.refused
      BY <2>1, <2>5
    <3>2. db' \in [cap : Caps, accepted : SUBSET Ingest!Calls, rows : [Ingest!Good -> Nat],
                   refused : SUBSET Ingest!Good]
      BY <2>1, <2>2, <2>5
    <3>3. odd' # odd
      BY <2>5, Parts
    <3> QED BY <2>3, <2>5, <3>1, <3>2, <3>3
  <2> QED BY <1>2, <2>4, <2>5 DEF rows
<1>5. /\ Ingest!TypeOK' /\ Ingest!Brief' /\ Ingest!OnlyAccepted' /\ Ingest!OneEach'
      /\ Ingest!Copies' /\ Ingest!Promised'
      /\ \A c \in Ingest!Doomed' : c \in Ingest!Doomed \/ c \in E \ kept
  <2>1. /\ mem.batch[p] # None /\ mem.batch[p].step = "checked" /\ kept \in SUBSET mem.batch[p].take
        /\ mem' = [mem EXCEPT !.batch[p].step = "stored"] /\ red' = red
    BY <1>1
  <2>2. odd' = odd \/ (odd > 0 /\ odd' = odd - 1)
    BY <1>4
  <2>3. \A c \in Ingest!Doomed' : c \in Ingest!Doomed \/ c \in Ingest!ToSet(mem.batch[p].entries) \ kept
    BY <1>4, <2>1, <2>2, IngestCommits
  <2>4. /\ Ingest!TypeOK' /\ Ingest!Brief' /\ Ingest!OnlyAccepted' /\ Ingest!OneEach'
        /\ Ingest!Copies' /\ Ingest!Promised'
    BY <1>4, <2>1, <2>2, IngestCommits
  <2> QED BY <2>3, <2>4 DEF E
<1>6. Ingest!Doomed' \subseteq Ingest!Good
  BY DEF Ingest!Doomed
<1>7. Ingest!FewDoomed'
  <2>1. CASE odd' = odd
    <3>1. ASSUME NEW c \in Ingest!Doomed'
          PROVE  c \notin db'.refused
      BY <3>1 DEF Ingest!Doomed, Ingest!Kept
    <3>2. Ingest!Doomed' \subseteq Ingest!Doomed
      BY <1>4, <1>5, <1>6, <2>1, <3>1 DEF G
    <3> QED BY <2>1, <3>2, Fewer
  <2>2. CASE odd > 0 /\ odd' = odd - 1
    <3>1. Ingest!Doomed' \subseteq Ingest!Doomed \cup G
      BY <1>5, <1>6 DEF G
    <3> QED BY <1>3, <2>2, <3>1, MoreDoomed
  <2> QED BY <1>4, <2>1, <2>2
<1> QED BY <1>5, <1>7

LEMMA IngestDeletes ==
    ASSUME Ingest!IInv, NEW p \in Processes, Ingest!Delete(p)
    PROVE  Ingest!IInv'
<1> USE DEF Ingest!IInv
<1> DEFINE b == mem.batch[p]
           e == b.entries
           c == Head(e)
           rest == Tail(e)
           y == IF rest = <<>> THEN None ELSE [b EXCEPT !.entries = rest]
           stream == Ingest!RemoveFirst(red.stream, c)
<1>1. /\ b # None /\ b.step = "stored" /\ db' = db /\ odd' = odd
      /\ red' = [red EXCEPT !.stream = stream]
      /\ mem' = IF rest = <<>> THEN [mem EXCEPT !.batch[p] = None] ELSE [mem EXCEPT !.batch[p].entries = rest]
  BY DEF Ingest!Delete, Ingest!Without
<1>2. mem' = [mem EXCEPT !.batch[p] = y]
  BY <1>1
<1>3. b \in Ingest!Batches /\ e \in Seq(Captured) /\ Len(e) \in 1..Batch
  BY <1>1, BatchTypes DEF Ingest!Brief
<1>4. /\ rest \in Seq(Captured) /\ Len(rest) = Len(e) - 1
      /\ Ingest!ToSet(e) = {c} \cup Ingest!ToSet(rest)
  <2>1. e # <<>>
    BY <1>3, LenProperties
  <2> HIDE DEF e
  <2> QED BY <1>3, <2>1, HeadTailSet
<1>5. stream \in Seq(Captured) /\ Ingest!ToSet(stream) = Ingest!ToSet(red.stream) \ {c} /\ Ingest!IsInjective(stream)
  BY Parts, RemoveSet DEF Ingest!OneEach
<1>6. rest # <<>> => Len(rest) \in 1..Batch
  <2>1. Batch \in Nat
    BY Parts
  <2> HIDE DEF rest, e
  <2>2. rest # <<>> => Len(rest) # 0
    BY <1>4, EmptySeq
  <2> QED BY <1>3, <1>4, <2>1, <2>2
<1> HIDE DEF stream
<1>7. /\ y \in Ingest!Batches \cup {None}
      /\ y # None => y.step = "stored" /\ y.step # "checked" /\ y.entries = rest /\ Len(y.entries) \in 1..Batch
      /\ (IF y = None THEN {} ELSE Ingest!ToSet(y.entries)) = Ingest!ToSet(rest)
  <2> HIDE DEF rest, e
  <2>1. CASE rest = <<>>
    <3>1. Ingest!ToSet(rest) = {}
      BY <2>1 DEF Ingest!ToSet
    <3> QED BY <2>1, <3>1
  <2>2. CASE rest # <<>>
    <3>1. y \in Ingest!Batches /\ y.step = "stored" /\ y.entries = rest
      BY <1>1, <1>3, <1>4, <2>2 DEF Ingest!Batches
    <3>2. y # None
      BY <3>1, IngestAssumption DEF IngestAssumption
    <3> QED BY <1>6, <2>2, <3>1, <3>2
  <2> QED BY <2>1, <2>2
<1> HIDE DEF y, rest, c
<1>8. /\ mem' \in [hand : [Ingest!Writers -> Ingest!Hands \cup {None}],
                   batch : [Processes -> Ingest!Batches \cup {None}]]
      /\ mem'.hand = mem.hand /\ mem'.batch[p] = y
      /\ \A q \in Processes \ {p} : mem'.batch[q] = mem.batch[q]
      /\ \A q \in Processes \ {p} : Ingest!Seen(q)' = Ingest!Seen(q) /\ Ingest!Takes(q)' = Ingest!Takes(q)
      /\ Ingest!Seen(p)' = Ingest!ToSet(rest) /\ Ingest!Takes(p)' = {}
      /\ \A x : Ingest!Deleting(x)' <=>
           \/ y # None /\ x \in Ingest!ToSet(y.entries) /\ y.step = "stored"
           \/ \E q \in Processes \ {p} : x \in Ingest!Seen(q) /\ mem.batch[q].step = "stored"
  <2>1. /\ mem' = [mem EXCEPT !.batch[p] = y] /\ y \in Ingest!Batches \cup {None} /\ Ingest!TypeOK
    BY <1>2, <1>7
  <2>2. /\ Ingest!Seen(p)' = IF y = None THEN {} ELSE Ingest!ToSet(y.entries)
        /\ Ingest!Takes(p)' = IF y # None /\ y.step = "checked" THEN y.take ELSE {}
        /\ \A x : Ingest!Deleting(x)' <=>
             \/ y # None /\ x \in Ingest!ToSet(y.entries) /\ y.step = "stored"
             \/ \E q \in Processes \ {p} : x \in Ingest!Seen(q) /\ mem.batch[q].step = "stored"
    BY ONLY p \in Processes, <2>1, BatchMoves
  <2>3. /\ mem' \in [hand : [Ingest!Writers -> Ingest!Hands \cup {None}],
                     batch : [Processes -> Ingest!Batches \cup {None}]]
        /\ mem'.hand = mem.hand /\ mem'.batch[p] = y
        /\ \A q \in Processes \ {p} : mem'.batch[q] = mem.batch[q]
        /\ \A q \in Processes \ {p} : Ingest!Seen(q)' = Ingest!Seen(q) /\ Ingest!Takes(q)' = Ingest!Takes(q)
    BY ONLY p \in Processes, <2>1, BatchMoves
  <2> QED BY <1>7, <2>2, <2>3
<1>9. Ingest!Seen(p) = Ingest!ToSet(e) /\ Ingest!Takes(p) = {}
  BY <1>1 DEF Ingest!Seen, Ingest!Takes
<1>10. /\ red' \in [queue : Seq(Posted), dead : SUBSET Posted, stream : Seq(Captured)]
       /\ red'.queue = red.queue /\ red'.dead = red.dead /\ red'.stream = stream
  <2>1. red \in [queue : Seq(Posted), dead : SUBSET Posted, stream : Seq(Captured)]
    BY DEF Ingest!TypeOK
  <2> QED BY <1>1, <1>5, <2>1
<1>11. \A q \in Processes : Ingest!Seen(q)' \subseteq Ingest!Seen(q)
  BY <1>4, <1>8, <1>9
<1>12. \A x : Ingest!Deleting(x) => Ingest!Deleting(x)' \/ x = c
  BY <1>4, <1>7, <1>8, <1>9 DEF Ingest!Deleting
<1>13. \A x : Ingest!Deleting(x)' => Ingest!Deleting(x)
  BY <1>1, <1>4, <1>7, <1>8, <1>9 DEF Ingest!Deleting
<1>14. Ingest!Deleting(c)
  BY <1>1, <1>4, <1>9 DEF Ingest!Deleting
<1>15. \A x : Ingest!Future(x)' \subseteq Ingest!Future(x)
  <2>1. ASSUME NEW x, NEW q \in Ingest!Future(x)'
        PROVE  q \in Ingest!Future(x)
    <3>1. q \in Processes
      BY DEF Ingest!Future
    <3>2. IF x \in Ingest!Seen(q)' THEN mem'.batch[q].step # "stored" ELSE x \in Ingest!ToSet(stream)
      BY <1>10, <2>1 DEF Ingest!Future
    <3>3. CASE q # p
      BY <1>5, <1>8, <3>1, <3>2, <3>3 DEF Ingest!Future
    <3>4. CASE q = p
      <4>1. x \notin Ingest!ToSet(rest)
        <5>1. ASSUME x \in Ingest!ToSet(rest)
              PROVE  FALSE
          <6>1. y # None
            BY <1>7, <5>1
          <6> QED BY <1>7, <1>8, <3>2, <3>4, <5>1, <6>1
        <5> QED BY <5>1
      <4>2. x \in Ingest!ToSet(red.stream) /\ x # c
        BY <1>5, <1>8, <3>2, <3>4, <4>1
      <4>3. x \notin Ingest!Seen(p)
        BY <1>4, <1>9, <4>1, <4>2
      <4> QED BY <3>1, <3>4, <4>2, <4>3 DEF Ingest!Future
    <3> QED BY <3>3, <3>4
  <2> QED BY <2>1
<1>16. /\ \A w, x : Ingest!Holds(w, x)' = Ingest!Holds(w, x)
       /\ \A x : Ingest!InHand(x)' = Ingest!InHand(x)
       /\ Ingest!Granted' = Ingest!Granted
  BY <1>8, SameHands
<1>17. Ingest!TypeOK'
  BY <1>1, <1>8, <1>10 DEF Ingest!TypeOK
<1>18. Ingest!Brief'
  <2>1. Ingest!Most' = Ingest!Most /\ Ingest!Most \in Nat
    BY <1>1, Parts DEF Ingest!Most
  <2>2. mem'.batch[p] # None =>
          /\ Len(mem'.batch[p].entries) \in 1..Batch
          /\ Ingest!Takes(p)' \subseteq Ingest!ToSet(mem'.batch[p].entries)
          /\ Cardinality(Ingest!Takes(p)') <= Ingest!Most
    <3>1. Cardinality({}) = 0
      BY FS_EmptySet
    <3> QED BY <1>7, <1>8, <2>1, <3>1
  <2> QED BY <1>8, <2>1, <2>2, Same DEF Ingest!Brief
<1>19. Ingest!OnlyAccepted'
  BY <1>1, <1>5, <1>10, <1>11, <1>16 DEF Ingest!OnlyAccepted
<1>20. Ingest!OneEach'
  <2>1. \A w \in Ingest!Writers, x \in Ingest!Good : Ingest!Holds(w, x) =>
           /\ db.rows[x] = 0 /\ x \notin Ingest!ToSet(red.queue) \cup Ingest!ToSet(stream)
           /\ \A q \in Processes : x \notin Ingest!Seen(q)'
    BY <1>5, <1>11 DEF Ingest!OneEach
  <2> QED BY <1>1, <1>5, <1>10, <1>16, <2>1 DEF Ingest!OneEach
<1>21. Ingest!Copies'
  <2> SUFFICES ASSUME NEW x \in Captured \cap Ingest!Good
               PROVE  db.rows[x] + Cardinality(Ingest!Future(x)') + Ingest!InHand(x)
                        <= Cardinality(Processes) + (MaxOdd - odd)
    BY <1>1, <1>16, Same DEF Ingest!Copies
  <2>1. db.rows[x] + Cardinality(Ingest!Future(x)) + Ingest!InHand(x) <= Cardinality(Processes) + (MaxOdd - odd)
    BY Same DEF Ingest!Copies
  <2>2. PICK f \in Nat, f1 \in Nat : f = Cardinality(Ingest!Future(x)) /\ f1 = Cardinality(Ingest!Future(x)')
    BY FutureTypes
  <2>3. f1 <= f
    <3>1. Ingest!Future(x)' \subseteq Ingest!Future(x)
      BY <1>15
    <3> QED BY <2>2, <3>1, FutureTypes, FS_Subset
  <2>4. PICK r \in Nat, h \in Nat : r = db.rows[x] /\ h = Ingest!InHand(x)
    BY Parts DEF Ingest!InHand
  <2>5. PICK k \in Nat : k = Cardinality(Processes) + (MaxOdd - odd)
    BY Parts, Finite
  <2> QED BY <2>1, <2>2, <2>3, <2>4, <2>5
<1>22. Ingest!FewDoomed'
  <2>1. ASSUME NEW x \in Ingest!Doomed'
        PROVE  x \in Ingest!Doomed
    <3>1. /\ x \in db.accepted \cap Ingest!Good /\ ~Ingest!Kept(x)'
          /\ x \in Ingest!ToSet(stream) => Ingest!Deleting(x)'
      BY <1>1, <1>10 DEF Ingest!Doomed
    <3>2. ~Ingest!Kept(x)
      BY <1>1, <1>10, <1>16, <3>1 DEF Ingest!Kept
    <3>3. x \in Ingest!ToSet(red.stream) => Ingest!Deleting(x)
      BY <1>5, <1>13, <1>14, <3>1
    <3> QED BY <3>1, <3>2, <3>3 DEF Ingest!Doomed
  <2> QED BY <1>1, <2>1, Fewer
<1>23. Ingest!Promised'
  <2>1. Ingest!Grants' \subseteq Ingest!Grants
    BY <1>8 DEF Ingest!Grants
  <2> QED BY <1>1, <1>16, <2>1, PromisedSame
<1> QED BY <1>17, <1>18, <1>19, <1>20, <1>21, <1>22, <1>23

LEMMA IngestRestarts ==
    ASSUME Ingest!IInv, NEW p \in Processes, Ingest!Restarts(p)
    PROVE  Ingest!IInv'
<1> USE DEF Ingest!IInv
<1>1. /\ mem.batch[p] # None /\ red' = red /\ db' = db /\ odd > 0 /\ odd' = odd - 1
      /\ mem' = [mem EXCEPT !.batch[p] = None]
  BY DEF Ingest!Restarts, Ingest!Fault
<1>2. /\ mem' \in [hand : [Ingest!Writers -> Ingest!Hands \cup {None}],
                   batch : [Processes -> Ingest!Batches \cup {None}]]
      /\ mem'.hand = mem.hand /\ mem'.batch[p] = None
      /\ \A q \in Processes \ {p} : mem'.batch[q] = mem.batch[q]
      /\ \A q \in Processes \ {p} : Ingest!Seen(q)' = Ingest!Seen(q) /\ Ingest!Takes(q)' = Ingest!Takes(q)
      /\ Ingest!Seen(p)' = {} /\ Ingest!Takes(p)' = {}
      /\ \A c : Ingest!Deleting(c)' <=>
           \E q \in Processes \ {p} : c \in Ingest!Seen(q) /\ mem.batch[q].step = "stored"
      /\ \A c : \A q \in Processes \ {p} : q \in Ingest!Future(c)' <=> q \in Ingest!Future(c)
  BY <1>1, BatchMoves
<1>3. \A q \in Processes : Ingest!Seen(q)' \subseteq Ingest!Seen(q)
  BY <1>2
<1>4. \A c : Ingest!Deleting(c)' => Ingest!Deleting(c)
  BY <1>2 DEF Ingest!Deleting
<1>5. /\ \A w, c : Ingest!Holds(w, c)' = Ingest!Holds(w, c)
      /\ \A c : Ingest!InHand(c)' = Ingest!InHand(c)
      /\ Ingest!Granted' = Ingest!Granted
  BY <1>2, SameHands
<1>6. Ingest!TypeOK'
  <2>1. odd' \in 0..MaxOdd
    BY <1>1, Parts
  <2> QED BY <1>1, <1>2, <2>1 DEF Ingest!TypeOK
<1>7. Ingest!Brief'
  <2>1. Ingest!Most' = Ingest!Most
    BY <1>1 DEF Ingest!Most
  <2> QED BY <1>2, <2>1 DEF Ingest!Brief
<1>8. Ingest!OnlyAccepted'
  BY <1>1, <1>3, <1>5 DEF Ingest!OnlyAccepted
<1>9. Ingest!OneEach'
  BY <1>1, <1>3, <1>5 DEF Ingest!OneEach
<1>10. Ingest!Copies'
  <2> SUFFICES ASSUME NEW c \in Captured \cap Ingest!Good
               PROVE  db.rows[c] + Cardinality(Ingest!Future(c)') + Ingest!InHand(c)
                        <= Cardinality(Processes) + (MaxOdd - odd')
    BY <1>1, <1>5, Same DEF Ingest!Copies
  <2>1. db.rows[c] + Cardinality(Ingest!Future(c)) + Ingest!InHand(c) <= Cardinality(Processes) + (MaxOdd - odd)
    BY Same DEF Ingest!Copies
  <2>2. PICK f \in Nat, f1 \in Nat : f = Cardinality(Ingest!Future(c)) /\ f1 = Cardinality(Ingest!Future(c)')
    BY FutureTypes
  <2>3. f1 <= f + 1
    <3>1. IsFiniteSet({p}) /\ Cardinality({p}) = 1
      BY FS_Singleton
    <3>2. Ingest!Future(c)' \subseteq Ingest!Future(c) \cup {p}
      <4>1. Ingest!Future(c)' \subseteq Processes
        BY FutureTypes
      <4> QED BY <1>2, <4>1
    <3>3. Cardinality(Ingest!Future(c)') <= Cardinality(Ingest!Future(c)) + Cardinality({p})
      BY <3>1, <3>2, FutureTypes, Grows
    <3> QED BY <2>2, <3>1, <3>3
  <2>4. PICK r \in Nat, h \in Nat : r = db.rows[c] /\ h = Ingest!InHand(c)
    BY Parts DEF Ingest!InHand
  <2>5. PICK k \in Nat : k = Cardinality(Processes)
    BY Finite
  <2>6. MaxOdd - odd' = MaxOdd - odd + 1 /\ MaxOdd - odd \in Nat
    BY <1>1, Parts
  <2> QED BY <2>1, <2>2, <2>3, <2>4, <2>5, <2>6
<1>11. Ingest!FewDoomed'
  <2>1. Ingest!Doomed' \subseteq Ingest!Doomed \cup {}
    BY <1>1, <1>4, <1>5 DEF Ingest!Doomed, Ingest!Kept
  <2>2. Cardinality({}) <= Batch /\ IsFiniteSet({})
    BY FS_EmptySet, Parts
  <2> QED BY <1>1, <2>1, <2>2, MoreDoomed
<1>12. Ingest!Promised'
  <2>1. Ingest!Grants' \subseteq Ingest!Grants
    BY <1>2 DEF Ingest!Grants
  <2> QED BY <1>1, <1>5, <2>1, PromisedSame
<1> QED BY <1>6, <1>7, <1>8, <1>9, <1>10, <1>11, <1>12

-----------------------------------------------------------------------------
(***************************************************************************)
(* It holds at first, it is kept, and it says what was asked.              *)
(***************************************************************************)
LEMMA IngestInitially == Ingest!Init => Ingest!IInv
<1> SUFFICES ASSUME Ingest!Init
             PROVE  Ingest!IInv
  OBVIOUS
<1>1. /\ mem = [hand |-> [w \in Ingest!Writers |-> None], batch |-> [p \in Processes |-> None]]
      /\ red = [queue |-> <<>>, dead |-> {}, stream |-> <<>>]
      /\ odd = MaxOdd
  BY DEF Ingest!Init
<1>2. PICK cap \in Caps : db = [cap |-> cap, accepted |-> {}, rows |-> [c \in Ingest!Good |-> 0], refused |-> {}]
  BY DEF Ingest!Init
<1>3. Ingest!TypeOK
  <2>1. mem \in [hand : [Ingest!Writers -> Ingest!Hands \cup {None}], batch : [Processes -> Ingest!Batches \cup {None}]]
    BY <1>1
  <2>2. red \in [queue : Seq(Posted), dead : SUBSET Posted, stream : Seq(Captured)]
    BY <1>1
  <2>3. db \in [cap : Caps, accepted : SUBSET Ingest!Calls, rows : [Ingest!Good -> Nat], refused : SUBSET Ingest!Good]
    BY <1>2
  <2>4. odd \in 0..MaxOdd
    BY <1>1, IngestAssumption DEF IngestAssumption
  <2> QED BY <2>1, <2>2, <2>3, <2>4 DEF Ingest!TypeOK
<1>4. /\ \A w \in Ingest!Writers : mem.hand[w] = None /\ \A c : ~Ingest!Holds(w, c)
      /\ \A p \in Processes : mem.batch[p] = None /\ Ingest!Seen(p) = {} /\ Ingest!Takes(p) = {}
      /\ red.queue = <<>> /\ red.stream = <<>> /\ red.dead = {}
      /\ db.accepted = {} /\ \A c \in Ingest!Good : db.rows[c] = 0
  BY <1>1, <1>2 DEF Ingest!Holds, Ingest!Seen, Ingest!Takes
<1>5. Ingest!ToSet(red.queue) = {} /\ Ingest!ToSet(red.stream) = {}
  BY <1>4 DEF Ingest!ToSet
<1>6. Ingest!Brief
  BY <1>4 DEF Ingest!Brief
<1>7. Ingest!OnlyAccepted
  BY <1>4, <1>5 DEF Ingest!OnlyAccepted, Ingest!Writers
<1>8. Ingest!OneEach
  <2>1. Ingest!IsInjective(red.queue) /\ Ingest!IsInjective(red.stream)
    BY <1>4 DEF Ingest!IsInjective
  <2>2. \A c \in Posted : db.rows[c] <= 1
    BY <1>4, PostedGood
  <2> QED BY <1>4, <1>5, <2>1, <2>2 DEF Ingest!OneEach
<1>9. Ingest!Copies
  <2> SUFFICES ASSUME NEW c \in Captured \cap Ingest!Good
               PROVE  db.rows[c] + Cardinality(Ingest!Future(c)) + Ingest!InHand(c)
                        <= Cardinality(Processes) + (MaxOdd - odd)
    BY Same DEF Ingest!Copies
  <2>1. Ingest!Future(c) = {} /\ Ingest!InHand(c) = 0
    BY <1>4, <1>5 DEF Ingest!Future, Ingest!InHand
  <2>2. Cardinality({}) = 0 /\ db.rows[c] = 0
    BY <1>4, FS_EmptySet
  <2>3. Cardinality(Processes) + (MaxOdd - odd) >= 0
    BY <1>3, Parts, Finite
  <2> QED BY <2>1, <2>2, <2>3
<1>10. Ingest!FewDoomed
  <2>1. Ingest!Doomed = {}
    BY <1>4 DEF Ingest!Doomed
  <2>2. Cardinality({}) = 0 /\ IsFiniteSet({})
    BY FS_EmptySet
  <2>3. MaxOdd - odd = 0 /\ 0 * Batch = 0
    BY <1>1, IngestAssumption DEF IngestAssumption
  <2> QED BY <2>1, <2>2, <2>3, Same DEF Ingest!FewDoomed
<1>11. Ingest!Promised
  <2>1. Ingest!Snapshots = {} /\ Ingest!Grants = {} /\ Ingest!Granted = {}
    BY <1>4 DEF Ingest!Snapshots, Ingest!Grants, Ingest!Granted
  <2>2. Cardinality({}) = 0 /\ IsFiniteSet({})
    BY FS_EmptySet
  <2>3. 0 <= db.cap + (Cardinality(Processes) + Cardinality(Ingest!Writers) - 1) * Ingest!Most
    <3>1. PICK n \in Int, M \in Nat, k \in Nat :
            n = Cardinality(Processes) + Cardinality(Ingest!Writers) - 1 /\ n >= 0 - 1 /\ M = Ingest!Most /\ k = db.cap
      BY <1>3, Parts, Finite
    <3>2. M <= k
      BY <1>3, <3>1, Parts DEF Ingest!Most
    <3>3. 0 <= k + n * M
      <4>1. CASE n = 0 - 1
        <5>1. n * M = 0 - M
          BY <4>1
        <5> QED BY <3>2, <5>1
      <4>2. CASE n # 0 - 1
        <5>1. n \in Nat
          BY <3>1, <4>2
        <5>2. \A i, j \in Nat : i * j \in Nat
          OBVIOUS
        <5>3. PICK m \in Nat : m = n * M
          BY <5>1, <5>2
        <5> QED BY <5>3
      <4> QED BY <4>1, <4>2
    <3> QED BY <3>1, <3>3
  <2> QED BY <2>1, <2>2, <2>3, Same DEF Ingest!Promised, Ingest!Stored
<1> QED BY <1>3, <1>6, <1>7, <1>8, <1>9, <1>10, <1>11 DEF Ingest!IInv

LEMMA IngestStep == Ingest!IInv /\ Ingest!Next => Ingest!IInv'
<1> SUFFICES ASSUME Ingest!IInv, Ingest!Next
             PROVE  Ingest!IInv'
  OBVIOUS
<1>1. CASE \E c \in Ingest!Calls : Ingest!Post(c) \/ Ingest!Capture(c)
  BY <1>1, IngestArrives
<1>2. CASE \E h \in Handlers, c \in Ingest!Calls : Ingest!TakeOver(h, c)
  BY <1>2, IngestTakesOver
<1>3. CASE \E w \in Ingest!Writers : Ingest!Serves(w) \/ Ingest!PersistFails(w) \/ Ingest!Stops(w)
  BY <1>3, IngestPops, IngestChecks, IngestPersists, IngestDrops DEF Ingest!Serves
<1>4. CASE \E p \in Processes : Ingest!Empties(p) \/ Ingest!CommitFails(p) \/ Ingest!Restarts(p)
  BY <1>4, IngestReads, IngestBatchChecks, IngestStores, IngestDeletes, IngestRestarts DEF Ingest!Empties
<1> QED BY <1>1, <1>2, <1>3, <1>4 DEF Ingest!Next

LEMMA Unmoved ==
    ASSUME Ingest!IInv, UNCHANGED backend
    PROVE  Ingest!IInv'
<1> USE DEF Ingest!IInv
<1>1. mem' = mem /\ red' = red /\ db' = db /\ odd' = odd
  BY DEF backend
<1>2. /\ \A w, c : Ingest!Holds(w, c)' = Ingest!Holds(w, c)
      /\ \A c : Ingest!InHand(c)' = Ingest!InHand(c) /\ Ingest!Future(c)' = Ingest!Future(c)
      /\ Ingest!Granted' = Ingest!Granted /\ Ingest!Grants' = Ingest!Grants
      /\ \A p : Ingest!Seen(p)' = Ingest!Seen(p)
      /\ Ingest!Brief'
  BY <1>1, SameHands, SameBatches
<1>3. Ingest!TypeOK'
  BY <1>1 DEF Ingest!TypeOK
<1>4. Ingest!OnlyAccepted'
  BY <1>1, <1>2 DEF Ingest!OnlyAccepted
<1>5. Ingest!OneEach'
  BY <1>1, <1>2 DEF Ingest!OneEach
<1>6. Ingest!Copies'
  BY <1>1, <1>2 DEF Ingest!Copies
<1>7. Ingest!FewDoomed'
  <2>1. Ingest!Doomed' \subseteq Ingest!Doomed
    BY <1>1 DEF Ingest!Doomed, Ingest!Kept, Ingest!Deleting, Ingest!Seen, Ingest!Holds
  <2> QED BY <1>1, <2>1, Fewer
<1>8. Ingest!Promised'
  BY <1>1, <1>2, PromisedSame
<1> QED BY <1>2, <1>3, <1>4, <1>5, <1>6, <1>7, <1>8

LEMMA IngestSays == Ingest!IInv => Ingest!TypeOK /\ Ingest!LostByFault /\ Ingest!Repeats /\ Ingest!WithinLimit
<1> SUFFICES ASSUME Ingest!IInv
             PROVE  Ingest!LostByFault /\ Ingest!Repeats /\ Ingest!WithinLimit
  BY DEF Ingest!IInv
<1> USE DEF Ingest!IInv
<1>1. Ingest!LostByFault
  <2>1. Ingest!Lost \subseteq Ingest!Doomed
    BY DEF Ingest!Lost, Ingest!Held, Ingest!Doomed, Ingest!Kept, Ingest!Holds
  <2>2. IsFiniteSet(Ingest!Doomed) /\ Cardinality(Ingest!Doomed) <= (MaxOdd - odd) * Batch
    BY Same DEF Ingest!FewDoomed
  <2>3. /\ Cardinality(Ingest!Lost) \in Nat /\ Cardinality(Ingest!Doomed) \in Nat
        /\ Cardinality(Ingest!Lost) <= Cardinality(Ingest!Doomed)
    BY <2>1, <2>2, FS_Subset, FS_CardinalityType
  <2>4. PICK k \in Nat : k = (MaxOdd - odd) * Batch
    <3>1. \A i, j \in Nat : i * j \in Nat
      OBVIOUS
    <3>2. MaxOdd - odd \in Nat /\ Batch \in Nat
      BY Parts
    <3> QED BY <3>1, <3>2
  <2>5. Cardinality(Ingest!Lost) <= k
    BY <2>2, <2>3, <2>4
  <2> QED BY <2>4, <2>5, Same DEF Ingest!LostByFault
<1>2. Ingest!Repeats
  <2>1. ASSUME NEW c \in Captured \cap Ingest!Good
        PROVE  db.rows[c] <= Cardinality(Processes) + (MaxOdd - odd)
    <3>1. db.rows[c] + Cardinality(Ingest!Future(c)) + Ingest!InHand(c) <= Cardinality(Processes) + (MaxOdd - odd)
      BY Same DEF Ingest!Copies
    <3>2. db.rows[c] \in Nat /\ Cardinality(Ingest!Future(c)) \in Nat /\ Ingest!InHand(c) \in Nat
      BY Parts, FutureTypes DEF Ingest!InHand
    <3>3. Cardinality(Processes) + (MaxOdd - odd) \in Nat
      BY Parts, Finite
    <3> QED BY <3>1, <3>2, <3>3
  <2> QED BY <2>1, Same DEF Ingest!Repeats, Ingest!OneEach
<1>3. Ingest!WithinLimit
  <2>1. PICK k \in Int : k = db.cap + (Cardinality(Processes) + Cardinality(Ingest!Writers) - 1) * Ingest!Most
    BY Parts, Finite
  <2>2. Ingest!Stored <= k
    BY <2>1, PromisedTypes
  <2> QED BY <2>1, <2>2, Same DEF Ingest!WithinLimit, Ingest!Most
<1> QED BY <1>1, <1>2, <1>3

(* The other services leave what is ingested alone: it is not there.       *)
IngestInv == at = "ingest" => Ingest!IInv

LEMMA IngestAlways == Spec => []IngestInv
<1>1. Init => IngestInv
  BY IngestInitially DEF Init, IngestInv
<1>2. IngestInv /\ [Next]_vars => IngestInv'
  <2> SUFFICES ASSUME IngestInv, [Next]_vars, at' = "ingest"
               PROVE  Ingest!IInv'
    BY DEF IngestInv
  <2>1. at = "ingest" /\ Ingest!IInv
    BY DEF IngestInv, Next, vars
  <2>2. CASE Ingest!Next
    BY <2>1, <2>2, IngestStep
  <2>3. CASE UNCHANGED vars
    BY <2>1, <2>3, Unmoved DEF vars, backend
  <2> QED BY <2>1, <2>2, <2>3 DEF Next
<1> QED BY <1>1, <1>2, PTL DEF Spec

USE ServicesAssumption

-----------------------------------------------------------------------------
(***************************************************************************)
(* The breaker.                                                            *)
(***************************************************************************)

BreakerInv == at = "breaker" => Breaker!IInv

(* Outside the breaker's behaviors its variables rest.                     *)
Rests == at # "breaker" => NoBreaker

LEMMA BreakerStep ==
    ASSUME Breaker!IInv, Breaker!Next
    PROVE  Breaker!IInv'
<1> USE DEF Breaker!IInv, Breaker!TypeOK
<1>1. CASE Breaker!Call
  BY <1>1 DEF Breaker!Call, Breaker!Pass, Breaker!Bypass, Breaker!Probe
<1>2. ASSUME Breaker!Outcome, UNCHANGED up, posts' \in 0..MaxPosts PROVE Breaker!IInv'
  <2>1. CASE up
    BY <1>2, <2>1 DEF Breaker!Outcome, Breaker!Reset
  <2>2. CASE ~up
    <3>1. failures \in 0..Threshold /\ Threshold \in Nat \ {0} /\ Breaker!RecordFailure
      BY <1>2, <2>2 DEF Breaker!Outcome
    <3>2. CASE failures + 1 >= Threshold
      <4>1. failures' = Threshold /\ circuit' = "open" /\ ripe' = FALSE
        BY <3>1, <3>2 DEF Breaker!RecordFailure, Breaker!OpensAt
      <4>2. Threshold \in 0..Threshold
        BY <3>1
      <4> QED BY <1>2, <4>1, <4>2
    <3>3. CASE ~(failures + 1 >= Threshold)
      <4>1. failures' = failures + 1 /\ failures + 1 \in 0..Threshold /\ failures + 1 # Threshold
        BY <3>1, <3>3 DEF Breaker!RecordFailure, Breaker!OpensAt
      <4>2. UNCHANGED <<circuit, ripe>> /\ failures # Threshold
        BY <3>1, <3>3 DEF Breaker!RecordFailure, Breaker!OpensAt
      <4> QED BY <1>2, <4>1, <4>2
    <3> QED BY <3>2, <3>3
  <2> QED BY <2>1, <2>2
<1>3. CASE Breaker!PostEnds
  BY <1>2, <1>3 DEF Breaker!PostEnds
<1>4. CASE Breaker!HealthCheck
  BY <1>2, <1>4 DEF Breaker!HealthCheck
<1>5. CASE Breaker!Ripen
  BY <1>5 DEF Breaker!Ripen
<1>6. CASE Breaker!ServiceChanges
  BY <1>6 DEF Breaker!ServiceChanges
<1> QED BY <1>1, <1>3, <1>4, <1>5, <1>6 DEF Breaker!Next

LEMMA BreakerInitially == Init => BreakerInv /\ Rests
<1> SUFFICES ASSUME Init PROVE BreakerInv /\ Rests
  OBVIOUS
<1>1. CASE at = "breaker" /\ Breaker!Init
  <2>1. circuit = "closed" /\ failures = 0 /\ ripe = FALSE /\ posts = 0 /\ up \in BOOLEAN
    BY <1>1 DEF Breaker!Init
  <2>2. 0 \in 0..Threshold /\ 0 \in 0..MaxPosts /\ 0 # Threshold
    OBVIOUS
  <2>3. Breaker!TypeOK
    BY <2>1, <2>2 DEF Breaker!TypeOK
  <2> QED BY <1>1, <2>1, <2>2, <2>3 DEF Breaker!IInv, BreakerInv, Rests
<1>2. CASE at # "breaker" /\ NoBreaker
  BY <1>2 DEF BreakerInv, Rests
<1> QED BY <1>1, <1>2 DEF Init

LEMMA BreakerAlways ==
    BreakerInv /\ Rests /\ [Next]_vars => (BreakerInv /\ Rests)'
<1> SUFFICES ASSUME BreakerInv, Rests, [Next]_vars PROVE (BreakerInv /\ Rests)'
  OBVIOUS
<1>1. CASE at = "breaker" /\ Next
  <2>1. Breaker!Next /\ at' = at
    BY <1>1 DEF Next
  <2>2. Breaker!IInv'
    BY <1>1, <2>1, BreakerStep DEF BreakerInv
  <2> QED BY <1>1, <2>1, <2>2 DEF BreakerInv, Rests
<1>2. CASE at # "breaker" /\ Next
  <2>1. UNCHANGED <<at, breaker>>
    BY <1>2 DEF Next
  <2> QED BY <1>2, <2>1 DEF BreakerInv, Rests, NoBreaker, breaker
<1>3. CASE UNCHANGED vars
  BY <1>3 DEF vars, breaker, BreakerInv, Rests, NoBreaker, Breaker!IInv, Breaker!TypeOK
<1> QED BY <1>1, <1>2, <1>3

(* The circuit is open exactly when the failures counted since the last    *)
(* success or probe have reached the threshold, in whatever order late     *)
(* answers and health checks come (recordCircuitFailure,                   *)
(* resetCircuitBreaker).                                                   *)
THEOREM BreakerInvariant == Spec => [](BreakerInv /\ Rests)
  BY BreakerInitially, BreakerAlways, PTL DEF Spec

(* An open circuit closes only by way of half open: no late success and no *)
(* health check closes it before the recovery time.                        *)
THEOREM OpenClosesByProbe == Spec => ClosesByProbe
<1>1. BreakerInv /\ Rests /\ [Next]_vars => [circuit = "open" => circuit' # "closed"]_(Breaker!bvars)
  <2> SUFFICES ASSUME Rests, [Next]_vars, circuit = "open" PROVE circuit' # "closed"
    BY DEF Breaker!bvars
  <2>1. CASE Next
    <3>1. at = "breaker" /\ Breaker!Next
      BY <2>1 DEF Next, Rests, NoBreaker
    <3> QED BY <3>1 DEF Breaker!Next, Breaker!Call, Breaker!Pass, Breaker!Bypass, Breaker!Probe,
            Breaker!PostEnds, Breaker!HealthCheck, Breaker!Outcome, Breaker!Reset, Breaker!RecordFailure,
            Breaker!Ripen, Breaker!ServiceChanges
  <2>2. CASE UNCHANGED vars
    BY <2>2 DEF vars, breaker
  <2> QED BY <2>1, <2>2
<1> QED BY <1>1, BreakerInvariant, PTL DEF Spec, ClosesByProbe, Breaker!ClosesByProbe

-----------------------------------------------------------------------------
(***************************************************************************)
(* The windows usage is counted in.                                        *)
(***************************************************************************)

Moments == [month : Nat, day : Nat, time : Nat]

LEMMA OccurrenceIsMoment ==
    ASSUME NEW anchor \in Moments, NEW m \in Window!Months
    PROVE  /\ Window!Occurrence(anchor, m) \in Moments
           /\ Window!Occurrence(anchor, m).month = m
  BY DEF Window!Months, Window!Occurrence, Moments

LEMMA NeverBeforeItself ==
    ASSUME NEW a \in Moments
    PROVE  ~Window!Before(a, a)
  BY DEF Window!Before, Moments

(* The month that holds a moment, for an anchor of an earlier month.       *)
LEMMA MonthHolds ==
    ASSUME NEW anchor \in Moments, NEW now \in Moments,
           now.month - 1 \in Window!Months, now.month \in Window!Months, now.month + 1 \in Window!Months
    PROVE  /\ ~Window!Before(now, Window!Monthly(anchor, now).start)
           /\ Window!Before(now, Window!Monthly(anchor, now).next)
           /\ Window!Monthly(anchor, Window!Monthly(anchor, now).next).start = Window!Monthly(anchor, now).next
<1> DEFINE occ(m) == Window!Occurrence(anchor, m)
<1>1. \A m \in Window!Months : occ(m) \in Moments /\ occ(m).month = m
  BY OccurrenceIsMoment
<1>2. /\ Window!Monthly(anchor, now).start = occ(Window!StartMonth(anchor, now))
      /\ Window!Monthly(anchor, now).next = occ(Window!StartMonth(anchor, now) + 1)
  BY DEF Window!Monthly
<1>3. Window!StartMonth(anchor, now) = IF Window!Before(now, occ(now.month)) THEN now.month - 1 ELSE now.month
  BY DEF Window!StartMonth
<1>4. now.month \in Nat
  BY DEF Moments
<1>5. /\ occ(now.month - 1).month = now.month - 1 /\ occ(now.month + 1).month = now.month + 1
      /\ occ(now.month - 1).month < now.month /\ now.month < occ(now.month + 1).month
  BY <1>1, <1>4
<1>6. ASSUME NEW m \in Window!Months
      PROVE  Window!Monthly(anchor, occ(m)).start = occ(m)
  <2>1. ~Window!Before(occ(m), occ(m))
    BY <1>1, NeverBeforeItself
  <2>2. Window!StartMonth(anchor, occ(m)) = m
    BY <1>1, <2>1 DEF Window!StartMonth
  <2> QED BY <2>2 DEF Window!Monthly
<1> HIDE DEF occ
<1>7. CASE Window!Before(now, occ(now.month))
  <2>1. ~Window!Before(now, occ(now.month - 1))
    BY ONLY <1>5, <1>4 DEF Window!Before
  <2> QED BY <1>2, <1>3, <1>4, <1>6, <1>7, <2>1
<1>8. CASE ~Window!Before(now, occ(now.month))
  <2>1. Window!Before(now, occ(now.month + 1))
    BY ONLY <1>5, <1>4 DEF Window!Before
  <2> QED BY <1>2, <1>3, <1>4, <1>6, <1>8, <2>1
<1> QED BY <1>7, <1>8

(* The first period that has not ended holds the present. *)
LEMMA PeriodHolds ==
    ASSUME NEW start \in Nat, NEW end \in Nat, NEW now \in Nat, start < end, start <= now,
           Window!Paid(start, end, now) # None
    PROVE  now \in Window!Paid(start, end, now).start..Window!Paid(start, end, now).end
<1> DEFINE later(k) == Window!Later(start, end, k)
           open == Window!Open(start, end, now)
<1>1. CASE now <= end
  BY <1>1 DEF Window!Paid
<1>2. CASE ~(now <= end)
  <2>1. Window!Paid(start, end, now) = Window!Rolled(start, end, now)
    BY <1>2 DEF Window!Paid
  <2>2. open # {} /\ Window!Rolled(start, end, now) = later(CHOOSE k \in open : \A j \in open : k <= j)
    BY <2>1 DEF Window!Rolled
  <2>3. open \in SUBSET Nat
    BY DEF Window!Open
  <2> DEFINE k == CHOOSE x \in open : \A j \in open : x <= j
  <2> HIDE DEF open
  <2>4. k \in open /\ \A j \in open : k <= j
    BY <2>2, <2>3, Least
  <2> HIDE DEF k
  <2>5. k \in Nat /\ k \in 0..(MaxPeriods - 1) /\ now <= end + k * (end - start + 1)
    BY <2>3, <2>4 DEF Window!Open, open, Window!Later
  <2>6. k # 0
    BY <1>2, <2>5
  <2>7. k - 1 \in 0..(MaxPeriods - 1) /\ k - 1 \notin open
    BY <2>3, <2>4, <2>5, <2>6
  <2>8. ~(now <= end + (k - 1) * (end - start + 1))
    BY <2>7 DEF Window!Open, open, Window!Later
  <2>9. k * (end - start + 1) = (k - 1) * (end - start + 1) + (end - start + 1)
    BY <2>5
  <2>10. start + k * (end - start + 1) <= now
    <3> DEFINE before == (k - 1) * (end - start + 1)
               after == k * (end - start + 1)
    <3>1. before \in Int /\ after \in Int /\ after = before + (end - start + 1) /\ ~(now <= end + before)
      BY <2>5, <2>8, <2>9
    <3> HIDE DEF before, after
    <3>2. start + after <= now
      BY <3>1
    <3> QED BY <3>2 DEF after
  <2>11. later(k).start = start + k * (end - start + 1) /\ later(k).end = end + k * (end - start + 1)
    BY DEF Window!Later
  <2>12. Window!Paid(start, end, now) = later(k)
    BY <2>1, <2>2 DEF k
  <2>13. k * (end - start + 1) \in Int
    BY <2>5
  <2> QED BY <2>5, <2>10, <2>11, <2>12, <2>13
<1> QED BY <1>1, <1>2

(* If there is none, the one after the last that is looked at has begun.   *)
LEMMA PeriodsOver ==
    ASSUME NEW start \in Nat, NEW end \in Nat, NEW now \in Nat, start < end, start <= now,
           Window!Paid(start, end, now) = None
    PROVE  Window!Later(start, end, MaxPeriods).start <= now
<1> DEFINE later(k) == Window!Later(start, end, k)
           open == Window!Open(start, end, now)
<1>n. None \notin [start : Nat, end : Nat]
  OBVIOUS
<1>1. ~(now <= end)
  <2>1. [start |-> start, end |-> end] # None
    BY <1>n
  <2> QED BY <2>1 DEF Window!Paid
<1>2. Window!Rolled(start, end, now) = None
  BY <1>1 DEF Window!Paid
<1>3. open = {}
  <2> SUFFICES ASSUME open # {} PROVE FALSE
    OBVIOUS
  <2>1. open \in SUBSET Nat
    BY DEF Window!Open
  <2> DEFINE k == CHOOSE x \in open : \A j \in open : x <= j
  <2>2. later(k) = None
    BY <1>2 DEF Window!Rolled
  <2> HIDE DEF open
  <2>3. k \in Nat
    BY <2>1, Least
  <2> HIDE DEF k
  <2>4. k * (end - start + 1) \in Nat
    <3>1. end - start + 1 \in Nat
      OBVIOUS
    <3> DEFINE d == end - start + 1
    <3> HIDE DEF d
    <3>2. d \in Nat => k * d \in Nat
      BY <2>3
    <3> QED BY <3>1, <3>2 DEF d
  <2>5. later(k) = [start |-> start + k * (end - start + 1), end |-> end + k * (end - start + 1)]
    BY DEF Window!Later
  <2> DEFINE p == k * (end - start + 1)
  <2> HIDE DEF p
  <2>6. p \in Nat /\ start + p \in Nat /\ end + p \in Nat
    BY <2>4 DEF p
  <2>7. [start |-> start + p, end |-> end + p] \in [start : Nat, end : Nat]
    BY <2>6
  <2> QED BY <1>n, <2>2, <2>5, <2>7 DEF p
<1>4. later(MaxPeriods).start = start + MaxPeriods * (end - start + 1)
  BY DEF Window!Later
<1>5. CASE MaxPeriods = 0
  BY <1>4, <1>5
<1>6. CASE MaxPeriods # 0
  <2> DEFINE k == MaxPeriods - 1
             before == k * (end - start + 1)
             after == MaxPeriods * (end - start + 1)
  <2>1. k \in 0..(MaxPeriods - 1) /\ k \notin open
    BY <1>3, <1>6
  <2>2. ~(now <= end + before)
    BY <2>1 DEF Window!Open, Window!Later
  <2>3. before \in Int /\ after \in Int /\ after = before + (end - start + 1)
    BY <1>6
  <2> HIDE DEF before, after
  <2>4. start + after <= now
    BY <2>2, <2>3
  <2> QED BY <1>4, <2>4 DEF after
<1> QED BY <1>5, <1>6

(* What is asked for, and the answer.                                      *)
AskedFree == \E anchor \in Moments, now \in Moments :
    /\ mem = [anchor |-> anchor, now |-> now]
    /\ now.month - 1 \in Window!Months /\ now.month \in Window!Months /\ now.month + 1 \in Window!Months
    /\ db # None => db = Window!Monthly(anchor, now)

AskedPaid == \E start \in Nat, end \in Nat, now \in Nat :
    /\ mem = [start |-> start, end |-> end, now |-> now]
    /\ db # None => db = [paid |-> Window!Paid(start, end, now)]

WindowInv == at = "window" => AskedFree \/ AskedPaid

LEMMA WindowInitially == Init => WindowInv
<1> SUFFICES ASSUME Init, at = "window" PROVE AskedFree \/ AskedPaid
  BY DEF WindowInv
<1>1. Window!Init
  BY DEF Init
<1>2. ASSUME NEW a \in Window!Months, NEW n \in Window!Months, a < n, n + 1 \in Window!Months,
             NEW anchor \in Window!MomentsOf(a), NEW now \in Window!MomentsOf(n),
             mem = [anchor |-> anchor, now |-> now]
      PROVE  AskedFree
  <2>1. Window!Months = 1..Len(Days) /\ Len(Days) \in Nat /\ \A m \in 1..Len(Days) : Days[m] \in Nat
    BY DEF Window!Months
  <2>2. anchor \in Moments /\ now \in Moments /\ now.month = n
    <3>1. ASSUME NEW m \in Window!Months, NEW x \in Window!MomentsOf(m)
          PROVE  x \in Moments /\ x.month = m
      <4>1. x \in [month : {m}, day : 1..Days[m], time : Times]
        BY DEF Window!MomentsOf
      <4>2. x = [month |-> x.month, day |-> x.day, time |-> x.time]
        BY <4>1
      <4>3. x.month = m /\ x.day \in 1..Days[m] /\ x.time \in Times
        BY <4>1
      <4>4. m \in Nat /\ 1..Days[m] \subseteq Nat
        BY <2>1
      <4>5. x.month \in Nat /\ x.day \in Nat /\ x.time \in Nat
        BY <4>3, <4>4
      <4> QED BY <4>2, <4>3, <4>5 DEF Moments
    <3> QED BY <3>1
  <2>3. n - 1 \in Window!Months
    BY <1>2, <2>1
  <2>4. db = None
    BY <1>1 DEF Window!Init
  <2> QED BY <1>2, <2>2, <2>3, <2>4 DEF AskedFree
<1>3. ASSUME NEW start \in Clock, NEW end \in Clock, NEW now \in Clock,
             mem = [start |-> start, end |-> end, now |-> now]
      PROVE  AskedPaid
  BY <1>1, <1>3 DEF Window!Init, AskedPaid
<1> QED BY <1>1, <1>2, <1>3 DEF Window!Init

LEMMA WindowAlways == WindowInv /\ [Next]_vars => WindowInv'
<1> SUFFICES ASSUME WindowInv, [Next]_vars, at' = "window" PROVE (AskedFree \/ AskedPaid)'
  BY DEF WindowInv
<1>1. at = "window" /\ (AskedFree \/ AskedPaid)
  BY DEF WindowInv, Next, vars
<1>2. CASE Next
  <2>1. Window!GetUsageWindow
    BY <1>1, <1>2 DEF Next, Window!Next
  <2>2. CASE AskedFree
    <3>1. PICK anchor \in Moments, now \in Moments :
             /\ mem = [anchor |-> anchor, now |-> now]
             /\ now.month - 1 \in Window!Months /\ now.month \in Window!Months /\ now.month + 1 \in Window!Months
      BY <2>2 DEF AskedFree
    <3>2. Window!Free /\ mem.anchor = anchor /\ mem.now = now
      BY <3>1 DEF Window!Free
    <3>3. db' = Window!Monthly(anchor, now) /\ mem' = mem
      BY <2>1, <3>2 DEF Window!GetUsageWindow
    <3> QED BY <3>1, <3>3 DEF AskedFree
  <2>3. CASE AskedPaid
    <3>1. PICK start \in Nat, end \in Nat, now \in Nat : mem = [start |-> start, end |-> end, now |-> now]
      BY <2>3 DEF AskedPaid
    <3>2. ~Window!Free /\ mem.start = start /\ mem.end = end /\ mem.now = now
      BY <3>1 DEF Window!Free
    <3>3. db' = [paid |-> Window!Paid(start, end, now)] /\ mem' = mem
      BY <2>1, <3>2 DEF Window!GetUsageWindow
    <3> QED BY <3>1, <3>3 DEF AskedPaid
  <2> QED BY <1>1, <2>2, <2>3
<1>3. CASE UNCHANGED vars
  <2>1. mem' = mem /\ db' = db
    BY <1>3 DEF vars, backend
  <2> QED BY <1>1, <2>1 DEF AskedFree, AskedPaid
<1> QED BY <1>2, <1>3

LEMMA WindowHolds ==
    ASSUME WindowInv, at = "window"
    PROVE  Window!HoldsNow /\ Window!PaidHoldsNow
<1>1. CASE AskedFree
  <2>1. PICK anchor \in Moments, now \in Moments :
           /\ mem = [anchor |-> anchor, now |-> now]
           /\ now.month - 1 \in Window!Months /\ now.month \in Window!Months /\ now.month + 1 \in Window!Months
           /\ db # None => db = Window!Monthly(anchor, now)
    BY <1>1 DEF AskedFree
  <2>2. Window!Free /\ mem.anchor = anchor /\ mem.now = now
    BY <2>1 DEF Window!Free
  <2>3. Window!HoldsNow
    BY <2>1, <2>2, MonthHolds DEF Window!HoldsNow
  <2> QED BY <2>2, <2>3 DEF Window!PaidHoldsNow
<1>2. CASE AskedPaid
  <2>1. PICK start \in Nat, end \in Nat, now \in Nat :
           /\ mem = [start |-> start, end |-> end, now |-> now]
           /\ db # None => db = [paid |-> Window!Paid(start, end, now)]
    BY <1>2 DEF AskedPaid
  <2>2. ~Window!Free /\ mem.start = start /\ mem.end = end /\ mem.now = now
    BY <2>1 DEF Window!Free
  <2>3. ASSUME db # None, start < end, start <= now
        PROVE  IF db.paid = None THEN Window!Later(start, end, MaxPeriods).start <= now
               ELSE now \in db.paid.start..db.paid.end
    <3>1. db.paid = Window!Paid(start, end, now)
      BY <2>1, <2>3
    <3> QED BY <2>3, <3>1, PeriodHolds, PeriodsOver
  <2>4. Window!PaidHoldsNow
    BY <2>2, <2>3 DEF Window!PaidHoldsNow
  <2> QED BY <2>2, <2>4 DEF Window!HoldsNow
<1> QED BY <1>1, <1>2 DEF WindowInv

(* Usage is counted in a window that holds the moment it is asked for, the *)
(* next one starts where it ends, and so does a paid period rolled         *)
(* forward unless its successor is too late, for any calendar and any      *)
(* anchor (get_anniversary_monthly_bounds_utc,                             *)
(* _roll_forward_billing_window).                                          *)
THEOREM WindowsHold == Spec => [](at = "window" => Window!HoldsNow /\ Window!PaidHoldsNow)
<1>1. Spec => []WindowInv
  BY WindowInitially, WindowAlways, PTL DEF Spec
<1>2. WindowInv => (at = "window" => Window!HoldsNow /\ Window!PaidHoldsNow)
  BY WindowHolds
<1> QED BY <1>1, <1>2, PTL

-----------------------------------------------------------------------------
(***************************************************************************)
(* Operational alerts.  The process remembers in mem, red is its clock,    *)
(* and db is the channel.                                                  *)
(***************************************************************************)

Messages == [kind : {"alert", "recovery"}, now : 0..MaxTime \cup {None}]

AlertsType ==
    /\ mem = [active |-> mem.active, last |-> mem.last, at |-> mem.at]
    /\ mem.active \in BOOLEAN
    /\ mem.last \in [Alerts!Kinds -> 0..MaxTime \cup {None}]
    /\ mem.at \in [Threads -> Messages \cup {None}]
    /\ red \in 0..MaxTime
    /\ db \in [Alerts!Kinds -> SUBSET (0..MaxTime)]

(* What was sent last is remembered, whatever thread sent it. *)
Newest == \A k \in Alerts!Kinds : \A s \in db[k] : mem.last[k] # None /\ s <= mem.last[k]

LEMMA SameCount == \A S : Alerts!Cardinality(S) = Cardinality(S)
  BY DEF Alerts!Cardinality, Cardinality

(* Alerts!Paired, in the terms of this module. *)
Balanced ==
    Cardinality(db["recovery"]) + (Cardinality(Alerts!Recovering) + (IF mem.active THEN 1 ELSE 0))
        <= Cardinality(db["alert"])

AlertsInv == at = "alerts" => AlertsType /\ Newest /\ Alerts!Spaced /\ Balanced

LEMMA NoneIsNoTime == None \notin 0..MaxTime /\ None \notin Messages
<1>1. None \notin Nat /\ None \notin [kind : {"alert", "recovery"}, now : Nat \cup {None}]
  OBVIOUS
<1>2. ASSUME NEW x \in Messages PROVE x \in [kind : {"alert", "recovery"}, now : Nat \cup {None}]
  BY DEF Messages
<1>3. 0..MaxTime \subseteq Nat
  OBVIOUS
<1> QED BY <1>1, <1>2, <1>3

(* What is counted is finite. *)
LEMMA AlertsCounted ==
    ASSUME AlertsType
    PROVE  /\ \A k \in Alerts!Kinds : IsFiniteSet(db[k]) /\ Cardinality(db[k]) \in Nat
           /\ IsFiniteSet(Alerts!Recovering) /\ Cardinality(Alerts!Recovering) \in Nat
<1>1. IsFiniteSet(0..MaxTime)
  BY FS_Interval
<1>2. ASSUME NEW k \in Alerts!Kinds PROVE IsFiniteSet(db[k])
  BY <1>1, FS_Subset DEF AlertsType
<1>3. IsFiniteSet(Alerts!Recovering)
  BY FS_Subset DEF Alerts!Recovering
<1> QED BY <1>2, <1>3, FS_CardinalityType

LEMMA PairedIsBalanced ==
    ASSUME AlertsType
    PROVE  Alerts!Paired <=> Balanced
<1> DEFINE a == Cardinality(db["recovery"])
           b == Cardinality(Alerts!Recovering)
           c == IF mem.active THEN 1 ELSE 0
<1>1. a \in Nat /\ b \in Nat /\ c \in Nat
  BY AlertsCounted DEF Alerts!Kinds
<1>2. Alerts!Paired <=> a + b + c <= Cardinality(db["alert"])
  BY SameCount DEF Alerts!Paired
<1>3. Balanced <=> a + (b + c) <= Cardinality(db["alert"])
  BY DEF Balanced
<1> HIDE DEF a, b, c
<1>4. a + b + c = a + (b + c)
  BY <1>1
<1> QED BY <1>2, <1>3, <1>4

LEMMA AlertsInitially == Init => AlertsInv
<1> SUFFICES ASSUME Init, at = "alerts"
             PROVE  AlertsType /\ Newest /\ Alerts!Spaced /\ Balanced
  BY DEF AlertsInv
<1>1. Alerts!Init
  BY DEF Init
<1>2. AlertsType
  BY <1>1 DEF Alerts!Init, AlertsType, Alerts!Kinds
<1>3. Newest /\ Alerts!Spaced
  BY <1>1 DEF Alerts!Init, Newest, Alerts!Spaced, Alerts!Kinds
<1>4. Balanced
  <2>1. Alerts!Recovering = {} /\ db["recovery"] = {} /\ db["alert"] = {} /\ mem.active = FALSE
    BY <1>1 DEF Alerts!Init, Alerts!Recovering, Alerts!Idle, Alerts!Kinds
  <2> QED BY <2>1, FS_EmptySet DEF Balanced
<1> QED BY <1>2, <1>3, <1>4

(* A thread begins or goes on, and nothing is sent. *)
LEMMA NothingSent ==
    ASSUME AlertsType, Newest, Alerts!Spaced, Balanced, AlertsType',
           UNCHANGED db, mem'.last = mem.last,
           Cardinality(Alerts!Recovering') + (IF mem'.active THEN 1 ELSE 0)
               <= Cardinality(Alerts!Recovering) + (IF mem.active THEN 1 ELSE 0)
    PROVE  (Newest /\ Alerts!Spaced /\ Balanced)'
<1>1. Newest' /\ Alerts!Spaced'
  BY DEF Newest, Alerts!Spaced
<1>2. Balanced'
  <2> DEFINE now == Cardinality(Alerts!Recovering) + (IF mem.active THEN 1 ELSE 0)
             then == Cardinality(Alerts!Recovering') + (IF mem'.active THEN 1 ELSE 0)
  <2>1. now \in Nat /\ Cardinality(db["recovery"]) \in Nat /\ Cardinality(db["alert"]) \in Nat
    BY AlertsCounted DEF Alerts!Kinds
  <2>2. then \in Nat
    <3>1. IsFiniteSet(Alerts!Recovering')
      BY FS_Subset DEF Alerts!Recovering
    <3>2. Cardinality(Alerts!Recovering') \in Nat
      BY <3>1, FS_CardinalityType
    <3> QED BY <3>2
  <2>3. Cardinality(db["recovery"]) + now <= Cardinality(db["alert"])
    BY DEF Balanced
  <2> HIDE DEF now, then
  <2>4. Cardinality(db["recovery"]) + then <= Cardinality(db["alert"])
    BY <2>1, <2>2, <2>3 DEF now, then
  <2> QED BY <2>4 DEF Balanced, then
<1> QED BY <1>1, <1>2

(* What a thread does to what it is about to send. *)
Turns(t, message) ==
    /\ mem'.at = [mem.at EXCEPT ![t] = message] /\ message \in Messages \cup {None}
    /\ mem' = [active |-> mem'.active, last |-> mem'.last, at |-> mem'.at]
    /\ UNCHANGED red

IsRecovery(message) == message # None /\ message.kind = "recovery"

LEMMA RecoveringTurns ==
    ASSUME AlertsType, NEW t \in Threads, NEW message, Turns(t, message)
    PROVE  /\ Alerts!Recovering' = IF IsRecovery(message) THEN Alerts!Recovering \cup {t}
                                   ELSE Alerts!Recovering \ {t}
           /\ t \in Alerts!Recovering <=> IsRecovery(mem.at[t])
  BY DEF AlertsType, Turns, Alerts!Recovering, Alerts!Idle, IsRecovery

LEMMA RecoveringCount ==
    ASSUME AlertsType, NEW t \in Threads, NEW message, Turns(t, message)
    PROVE  /\ Cardinality(Alerts!Recovering) \in Nat /\ Cardinality(Alerts!Recovering') \in Nat
           /\ IsRecovery(message) => Cardinality(Alerts!Recovering') <= Cardinality(Alerts!Recovering) + 1
           /\ (IsRecovery(message) <=> IsRecovery(mem.at[t])) => Cardinality(Alerts!Recovering') = Cardinality(Alerts!Recovering)
           /\ ~IsRecovery(message) => Cardinality(Alerts!Recovering') <= Cardinality(Alerts!Recovering)
           /\ ~IsRecovery(message) /\ IsRecovery(mem.at[t]) =>
                  Cardinality(Alerts!Recovering') = Cardinality(Alerts!Recovering) - 1
<1> DEFINE R == Alerts!Recovering
<1>1. IsFiniteSet(R) /\ Cardinality(R) \in Nat
  BY AlertsCounted
<1>2. /\ Alerts!Recovering' = IF IsRecovery(message) THEN R \cup {t} ELSE R \ {t}
      /\ t \in R <=> IsRecovery(mem.at[t])
  BY RecoveringTurns
<1> HIDE DEF R
<1>3. /\ Cardinality(R \cup {t}) = IF t \in R THEN Cardinality(R) ELSE Cardinality(R) + 1
      /\ Cardinality(R \ {t}) = IF t \in R THEN Cardinality(R) - 1 ELSE Cardinality(R)
      /\ IsFiniteSet(R \cup {t}) /\ IsFiniteSet(R \ {t})
  BY <1>1, FS_AddElement, FS_RemoveElement
<1>4. Cardinality(R \cup {t}) \in Nat /\ Cardinality(R \ {t}) \in Nat
  BY <1>3, FS_CardinalityType
<1>5. CASE IsRecovery(message)
  <2>1. Alerts!Recovering' = R \cup {t}
    BY <1>2, <1>5
  <2> QED BY <1>1, <1>2, <1>3, <1>4, <1>5, <2>1 DEF R
<1>6. CASE ~IsRecovery(message)
  <2>1. Alerts!Recovering' = R \ {t}
    BY <1>2, <1>6
  <2> QED BY <1>1, <1>2, <1>3, <1>4, <1>6, <2>1 DEF R
<1> QED BY <1>5, <1>6

LEMMA TurnsTyped ==
    ASSUME AlertsType, NEW t \in Threads, NEW message, Turns(t, message), UNCHANGED db,
           mem'.last = mem.last, mem'.active \in BOOLEAN
    PROVE  AlertsType'
<1>1. mem'.at \in [Threads -> Messages \cup {None}]
  BY DEF AlertsType, Turns
<1> QED BY <1>1 DEF AlertsType, Turns

(* A message is sent: the one before it is a cooldown away. *)
LEMMA MessageSent ==
    ASSUME AlertsType, Newest, Alerts!Spaced, Balanced, NEW t \in Threads, NEW k \in Alerts!Kinds, NEW now \in 0..MaxTime,
           mem.at[t] # None, mem.at[t].kind = k, ~Alerts!Cooling(k, now), Turns(t, None),
           mem'.active = (mem.active \/ k = "alert"),
           mem'.last = [mem.last EXCEPT ![k] = now], db' = [db EXCEPT ![k] = @ \cup {now}]
    PROVE  AlertsType' /\ (Newest /\ Alerts!Spaced /\ Balanced)'
<1>1. AlertsType'
  <2>1. mem'.at \in [Threads -> Messages \cup {None}]
    BY DEF AlertsType, Turns
  <2>2. mem'.last \in [Alerts!Kinds -> 0..MaxTime \cup {None}] /\ db' \in [Alerts!Kinds -> SUBSET (0..MaxTime)]
    BY DEF AlertsType
  <2>3. mem'.active \in BOOLEAN
    BY DEF AlertsType
  <2> QED BY <2>1, <2>2, <2>3 DEF AlertsType, Turns
<1>2. \A s \in db[k] : s \in Nat /\ s + Cooldown <= now
  <2> SUFFICES ASSUME NEW s \in db[k] PROVE s \in Nat /\ s + Cooldown <= now
    OBVIOUS
  <2>1. s \in 0..MaxTime
    BY DEF AlertsType
  <2>2. mem.last[k] # None /\ s <= mem.last[k] /\ mem.last[k] \in 0..MaxTime
    BY DEF Newest, AlertsType
  <2>3. ~(now < mem.last[k] + Cooldown)
    BY <2>2 DEF Alerts!Cooling
  <2> QED BY <2>1, <2>2, <2>3
<1>3. /\ db'[k] = db[k] \cup {now} /\ mem'.last[k] = now
      /\ \A j \in Alerts!Kinds : j # k => db'[j] = db[j] /\ mem'.last[j] = mem.last[j]
  BY DEF AlertsType
<1>4. Newest'
  <2>1. ASSUME NEW s \in db'[k] PROVE mem'.last[k] # None /\ s <= mem'.last[k]
    BY <1>2, <1>3, <2>1, NoneIsNoTime
  <2>2. ASSUME NEW j \in Alerts!Kinds, j # k, NEW s \in db'[j] PROVE mem'.last[j] # None /\ s <= mem'.last[j]
    BY <1>3, <2>2 DEF Newest
  <2> QED BY <2>1, <2>2 DEF Newest
<1>5. Alerts!Spaced'
  <2>1. ASSUME NEW s \in db'[k], NEW u \in db'[k], s < u PROVE s + Cooldown <= u
    <3>1. s \in db[k] \/ s = now
      BY <1>3
    <3>2. u \in db[k] \/ u = now
      BY <1>3
    <3>3. CASE s \in db[k] /\ u \in db[k]
      BY <2>1, <3>3 DEF Alerts!Spaced
    <3>4. CASE s \in db[k] /\ u = now
      BY <1>2, <3>4
    <3>5. CASE s = now
      BY <1>2, <2>1, <3>2, <3>5
    <3> QED BY <3>1, <3>2, <3>3, <3>4, <3>5
  <2>2. ASSUME NEW j \in Alerts!Kinds, j # k, NEW s \in db'[j], NEW u \in db'[j], s < u PROVE s + Cooldown <= u
    BY <1>3, <2>2 DEF Alerts!Spaced
  <2> QED BY <2>1, <2>2 DEF Alerts!Spaced
<1>6. Cardinality(db'[k]) = Cardinality(db[k]) + 1
  <2>1. now \notin db[k]
    BY <1>2
  <2>2. IsFiniteSet(db[k])
    BY AlertsCounted
  <2>3. Cardinality(db[k] \cup {now}) = IF now \in db[k] THEN Cardinality(db[k]) ELSE Cardinality(db[k]) + 1
    BY <2>2, FS_AddElement
  <2>4. db'[k] = db[k] \cup {now}
    BY <1>3
  <2> HIDE DEF Alerts!Kinds
  <2> QED BY <2>1, <2>3, <2>4
<1>7. Balanced'
  <2>1. ~IsRecovery(None)
    BY DEF IsRecovery
  <2> DEFINE alerts == Cardinality(db["alert"])
             recoveries == Cardinality(db["recovery"])
             R == Cardinality(Alerts!Recovering)
             Rn == Cardinality(Alerts!Recovering')
  <2>2. alerts \in Nat /\ recoveries \in Nat /\ R \in Nat /\ Rn \in Nat /\ Rn <= R
    BY <2>1, AlertsCounted, RecoveringCount DEF Alerts!Kinds
  <2>3. recoveries + (R + (IF mem.active THEN 1 ELSE 0)) <= alerts
    BY DEF Balanced
  <2>4. CASE k = "alert"
    <3>1. Cardinality(db'["alert"]) = alerts + 1 /\ db'["recovery"] = db["recovery"]
      BY <1>3, <1>6, <2>4 DEF Alerts!Kinds
    <3>2. mem'.active = TRUE
      BY <2>4
    <3> HIDE DEF alerts, recoveries, R, Rn
    <3>3. recoveries + (Rn + 1) <= alerts + 1
      BY <2>2, <2>3
    <3> QED BY <3>1, <3>2, <3>3 DEF Balanced, alerts, recoveries, R, Rn
  <2>5. CASE k = "recovery"
    <3>1. Cardinality(db'["recovery"]) = recoveries + 1 /\ db'["alert"] = db["alert"]
      BY <1>3, <1>6, <2>5 DEF Alerts!Kinds
    <3>2. IsRecovery(mem.at[t])
      BY <2>5 DEF IsRecovery
    <3>3. Rn = R - 1
      BY <2>1, <3>2, RecoveringCount
    <3>4. mem'.active = mem.active
      BY <2>5 DEF AlertsType
    <3> HIDE DEF alerts, recoveries, R, Rn
    <3>5. recoveries + 1 + (Rn + (IF mem.active THEN 1 ELSE 0)) <= alerts
      BY <2>2, <2>3, <3>3
    <3> QED BY <3>1, <3>4, <3>5 DEF Balanced, alerts, recoveries, R, Rn
  <2> QED BY <2>4, <2>5 DEF Alerts!Kinds
<1> QED BY <1>1, <1>4, <1>5, <1>7

LEMMA AlertsStep ==
    ASSUME AlertsType, Newest, Alerts!Spaced, Balanced, Alerts!Next
    PROVE  AlertsType' /\ (Newest /\ Alerts!Spaced /\ Balanced)'
<1>1. CASE Alerts!Tick
  <2>1. UNCHANGED <<mem, db>> /\ red' \in 0..MaxTime
    BY <1>1 DEF Alerts!Tick, AlertsType
  <2>2. Alerts!Recovering' = Alerts!Recovering
    BY <2>1 DEF Alerts!Recovering, Alerts!Idle
  <2> QED BY <2>1, <2>2 DEF AlertsType, Newest, Alerts!Spaced, Balanced
<1>2. ASSUME NEW t \in Threads, Alerts!Degraded(t)
      PROVE  AlertsType' /\ (Newest /\ Alerts!Spaced /\ Balanced)'
  <2> DEFINE message == [kind |-> "alert", now |-> None]
  <2>1. mem' = [mem EXCEPT !.at = [mem.at EXCEPT ![t] = message]] /\ UNCHANGED <<red, db>>
    BY <1>2 DEF Alerts!Degraded, Alerts!About
  <2>2. message \in Messages /\ ~IsRecovery(message)
    BY DEF Messages, IsRecovery
  <2> HIDE DEF message
  <2>3. Turns(t, message) /\ mem'.last = mem.last /\ mem'.active = mem.active
    BY <2>1, <2>2 DEF Turns, AlertsType
  <2>4. AlertsType'
    BY <2>1, <2>3, TurnsTyped DEF AlertsType
  <2>5. Cardinality(Alerts!Recovering') <= Cardinality(Alerts!Recovering)
    BY <2>2, <2>3, RecoveringCount
  <2>6. Cardinality(Alerts!Recovering') \in Nat /\ Cardinality(Alerts!Recovering) \in Nat
    BY <2>3, RecoveringCount
  <2> QED BY <2>1, <2>3, <2>4, <2>5, <2>6, NothingSent
<1>3. ASSUME NEW t \in Threads, Alerts!Recovered(t)
      PROVE  AlertsType' /\ (Newest /\ Alerts!Spaced /\ Balanced)'
  <2> DEFINE message == [kind |-> "recovery", now |-> None]
  <2>1. /\ mem' = [mem EXCEPT !.active = FALSE, !.at = [mem.at EXCEPT ![t] = message]]
        /\ UNCHANGED <<red, db>> /\ mem.active
    BY <1>3 DEF Alerts!Recovered, Alerts!About
  <2>2. message \in Messages /\ IsRecovery(message)
    BY NoneIsNoTime DEF Messages, IsRecovery
  <2> HIDE DEF message
  <2>3. Turns(t, message) /\ mem'.last = mem.last /\ mem'.active = FALSE
    BY <2>1, <2>2 DEF Turns, AlertsType
  <2>4. AlertsType'
    BY <2>1, <2>3, TurnsTyped DEF AlertsType
  <2>5. Cardinality(Alerts!Recovering') <= Cardinality(Alerts!Recovering) + 1
    BY <2>2, <2>3, RecoveringCount
  <2>6. Cardinality(Alerts!Recovering') \in Nat /\ Cardinality(Alerts!Recovering) \in Nat
    BY <2>3, RecoveringCount
  <2>7. Cardinality(Alerts!Recovering') + (IF mem'.active THEN 1 ELSE 0)
            <= Cardinality(Alerts!Recovering) + (IF mem.active THEN 1 ELSE 0)
    BY <2>1, <2>3, <2>5, <2>6
  <2> QED BY <2>1, <2>3, <2>4, <2>7, NothingSent
<1>4. ASSUME NEW t \in Threads, Alerts!ReadTime(t)
      PROVE  AlertsType' /\ (Newest /\ Alerts!Spaced /\ Balanced)'
  <2> DEFINE message == [kind |-> mem.at[t].kind, now |-> red]
  <2>1. /\ mem' = [mem EXCEPT !.at = [mem.at EXCEPT ![t] = message]]
        /\ UNCHANGED <<red, db>> /\ mem.at[t] \in Messages
    BY <1>4 DEF Alerts!ReadTime, Alerts!About, Alerts!Idle, AlertsType
  <2>2. message \in Messages /\ (IsRecovery(message) <=> IsRecovery(mem.at[t]))
    BY <2>1, NoneIsNoTime DEF Messages, IsRecovery, AlertsType
  <2> HIDE DEF message
  <2>3. Turns(t, message) /\ mem'.last = mem.last /\ mem'.active = mem.active
    BY <2>1, <2>2 DEF Turns, AlertsType
  <2>4. AlertsType'
    BY <2>1, <2>3, TurnsTyped DEF AlertsType
  <2>5. Cardinality(Alerts!Recovering') = Cardinality(Alerts!Recovering)
    BY <2>2, <2>3, RecoveringCount
  <2>6. Cardinality(Alerts!Recovering') \in Nat
    BY <2>3, RecoveringCount
  <2> QED BY <2>1, <2>3, <2>4, <2>5, <2>6, NothingSent
<1>5. ASSUME NEW t \in Threads, Alerts!Emit(t)
      PROVE  AlertsType' /\ (Newest /\ Alerts!Spaced /\ Balanced)'
  <2> DEFINE k == mem.at[t].kind
             now == mem.at[t].now
  <2>1. mem.at[t] # None /\ k \in Alerts!Kinds /\ now \in 0..MaxTime /\ red' = red
    BY <1>5 DEF Alerts!Emit, Alerts!Idle, AlertsType, Messages, Alerts!Kinds
  <2>2. CASE Alerts!Cooling(k, now)
    <3>1. mem' = [mem EXCEPT !.at = [mem.at EXCEPT ![t] = None]] /\ UNCHANGED <<red, db>>
      BY <1>5, <2>2 DEF Alerts!Emit, Alerts!About
    <3>2. Turns(t, None) /\ mem'.last = mem.last /\ mem'.active = mem.active
      BY <3>1 DEF Turns, AlertsType
    <3>3. AlertsType'
      BY <3>1, <3>2, TurnsTyped DEF AlertsType
    <3>4. Cardinality(Alerts!Recovering') <= Cardinality(Alerts!Recovering)
      BY <3>2, RecoveringCount DEF IsRecovery
    <3>5. Cardinality(Alerts!Recovering') \in Nat /\ Cardinality(Alerts!Recovering) \in Nat
      BY <3>2, RecoveringCount
    <3> QED BY <3>1, <3>2, <3>3, <3>4, <3>5, NothingSent
  <2>3. CASE ~Alerts!Cooling(k, now)
    <3>1. /\ mem' = [active |-> mem.active \/ k = "alert",
                     last |-> [mem.last EXCEPT ![k] = now], at |-> [mem.at EXCEPT ![t] = None]]
          /\ db' = [db EXCEPT ![k] = @ \cup {now}]
      BY <1>5, <2>3 DEF Alerts!Emit, Alerts!About
    <3>2. Turns(t, None)
      BY <2>1, <3>1 DEF Turns
    <3>3. mem'.active = (mem.active \/ k = "alert")
      BY <3>1
    <3>4. mem'.last = [mem.last EXCEPT ![k] = now]
      BY <3>1
    <3> HIDE DEF k, now
    <3> QED BY <2>1, <2>3, <3>1, <3>2, <3>3, <3>4, MessageSent DEF k
  <2> QED BY <2>2, <2>3
<1> QED BY <1>1, <1>2, <1>3, <1>4, <1>5 DEF Alerts!Next

LEMMA AlertsAlways == AlertsInv /\ [Next]_vars => AlertsInv'
<1> SUFFICES ASSUME AlertsInv, [Next]_vars, at' = "alerts"
             PROVE  (AlertsType /\ Newest /\ Alerts!Spaced /\ Balanced)'
  BY DEF AlertsInv
<1>1. at = "alerts" /\ AlertsType /\ Newest /\ Alerts!Spaced /\ Balanced
  BY DEF AlertsInv, Next, vars
<1>2. CASE Next
  <2>1. Alerts!Next
    BY <1>1, <1>2 DEF Next
  <2> QED BY <1>1, <2>1, AlertsStep
<1>3. CASE UNCHANGED vars
  <2>1. UNCHANGED <<mem, red, db>>
    BY <1>3 DEF vars, backend
  <2>2. Alerts!Recovering' = Alerts!Recovering
    BY <2>1 DEF Alerts!Recovering, Alerts!Idle
  <2> QED BY <1>1, <2>1, <2>2 DEF AlertsType, Newest, Alerts!Spaced, Balanced
<1> QED BY <1>2, <1>3

(* Two alerts, and two recoveries, are a cooldown apart, and no recovery   *)
(* is sent for which there was no alert, however many threads measure the  *)
(* condition (_emit_alert_if_needed, _emit_recovery_if_needed).            *)
THEOREM AlertsKeepApart == Spec => [](at = "alerts" => Alerts!Spaced /\ Alerts!Paired)
<1>1. Spec => []AlertsInv
  BY AlertsInitially, AlertsAlways, PTL DEF Spec
<1>2. AlertsInv => (at = "alerts" => Alerts!Spaced /\ Alerts!Paired)
  BY PairedIsBalanced DEF AlertsInv
<1> QED BY <1>1, <1>2, PTL

-----------------------------------------------------------------------------
(***************************************************************************)
(* The ledger of snapshots.                                                *)
(***************************************************************************)

LedgerInv == at = "ledger" => Ledger!IInv

LEMMA LedgerInitially == Init => LedgerInv
  BY SMTT(30), ServicesAssumption
     DEF ServicesAssumption, Init, LedgerInv, Ledger!IInv, Ledger!Init, Ledger!TypeOK, Ledger!OneFill,
         Ledger!Eventful, Ledger!Fills, Ledger!Reads, Ledger!CountsAll, Ledger!CountsOnce, Ledger!Fresh,
         Ledger!Transactions

LEMMA LedgerGoes ==
    ASSUME Ledger!TypeOK, NEW s \in Sessions, NEW x \in Ledger!Transactions, Ledger!Goes(s, x)
    PROVE  /\ mem' \in [Sessions -> Ledger!Transactions]
           /\ mem'[s] = x
           /\ \A t \in Sessions \ {s} : mem'[t] = mem[t]
<1>1. mem \in [Sessions -> Ledger!Transactions]
  BY DEF Ledger!TypeOK
<1>2. mem' = [mem EXCEPT ![s] = x]
  BY DEF Ledger!Goes
<1> HIDE DEF Ledger!Transactions
<1> QED BY <1>1, <1>2

(* What may be said of a transaction that has no fill while nobody has.    *)
Read(x) ==
    db.fill = 0 /\ x.fill = 0 =>
        /\ x.step = "summed" => db.events = x.sum + x.passed
        /\ x.step \in {"short", "adding"} =>
             /\ x.sum < x.count /\ x.count <= x.sum + db.early + x.passed
             /\ db.rows + x.sum <= db.events + x.count

(* One session goes on, and neither adds a fill nor commits.               *)
LEMMA LedgerGoesOn ==
    ASSUME Ledger!IInv, NEW s \in Sessions, NEW x \in Ledger!Transactions,
           Ledger!Goes(s, x), UNCHANGED db, Read(x),
           \/ x.fill = 0
           \/ x.fill = mem[s].fill /\ x.late = mem[s].late /\ x.step # "adding"
    PROVE  Ledger!IInv'
<1> USE DEF Ledger!IInv
<1> HIDE DEF Ledger!Transactions
<1>1. /\ mem' \in [Sessions -> Ledger!Transactions]
      /\ mem'[s] = x
      /\ \A t \in Sessions \ {s} : mem'[t] = mem[t]
  BY LedgerGoes
<1>2. Ledger!TypeOK'
  BY <1>1 DEF Ledger!TypeOK
<1>3. Ledger!OneFill'
  <2>1. \A t \in Sessions : mem'[t].fill > 0 => mem'[t].fill = mem[t].fill
    BY <1>1
  <2>2. \A t \in Sessions : mem'[t].fill > 0 => db'.fill = 0 /\ mem'[t].step # "adding"
    BY <1>1, <2>1 DEF Ledger!OneFill
  <2>3. \A t, u \in Sessions : mem'[t].fill > 0 /\ mem'[u].fill > 0 => t = u
    BY <2>1 DEF Ledger!OneFill
  <2> QED BY <2>2, <2>3 DEF Ledger!OneFill
<1>4. Ledger!Fills'
  BY <1>1 DEF Ledger!Fills
<1>5. Ledger!Reads'
  BY <1>1 DEF Ledger!Reads, Read
<1>6. Ledger!Eventful' /\ Ledger!CountsAll' /\ Ledger!CountsOnce'
  BY DEF Ledger!Eventful, Ledger!CountsAll, Ledger!CountsOnce
<1> QED BY <1>2, <1>3, <1>4, <1>5, <1>6

LEMMA LedgerTypes ==
    ASSUME Ledger!TypeOK, NEW s \in Sessions
    PROVE  /\ mem[s] \in Ledger!Transactions
           /\ mem[s].sum \in Nat /\ mem[s].count \in Nat /\ mem[s].passed \in Nat
           /\ mem[s].fill \in Nat /\ mem[s].late \in Nat /\ mem[s].stored \in Nat
           /\ db.early \in Nat /\ db.rows \in Nat /\ db.events \in Nat
           /\ db.fill \in Nat /\ db.late \in Nat
<1>1. mem[s] \in Ledger!Transactions
  BY DEF Ledger!TypeOK
<1> QED BY <1>1 DEF Ledger!TypeOK, Ledger!Transactions

LEMMA LedgerSums ==
    ASSUME Ledger!IInv, NEW s \in Sessions, Ledger!SumLedger(s)
    PROVE  Ledger!IInv'
<1> DEFINE x == [mem[s] EXCEPT !.step = "summed", !.sum = Ledger!InLedger(s), !.passed = 0]
<1>1. Ledger!Goes(s, x) /\ UNCHANGED db
  BY DEF Ledger!SumLedger
<1>2. Ledger!TypeOK
  BY DEF Ledger!IInv
<1>3. Ledger!InLedger(s) = db.events + db.fill + mem[s].fill /\ Ledger!InLedger(s) \in Nat
  BY <1>2, LedgerTypes DEF Ledger!InLedger
<1>4. /\ x \in Ledger!Transactions
      /\ x.step = "summed" /\ x.sum = Ledger!InLedger(s) /\ x.passed = 0
      /\ x.fill = mem[s].fill /\ x.late = mem[s].late
  BY <1>2, <1>3, LedgerTypes DEF Ledger!Transactions
<1>5. Read(x)
  BY <1>2, <1>3, <1>4, LedgerTypes DEF Read
<1> HIDE DEF x
<1> QED BY <1>1, <1>4, <1>5, LedgerGoesOn

LEMMA LedgerCountsRows ==
    ASSUME Ledger!IInv, NEW s \in Sessions, Ledger!CountRows(s)
    PROVE  Ledger!IInv'
<1> DEFINE x == [mem[s] EXCEPT !.step = IF db.rows > mem[s].sum THEN "short" ELSE "checked", !.count = db.rows]
<1>1. Ledger!Goes(s, x) /\ UNCHANGED db /\ mem[s].step = "summed"
  BY DEF Ledger!CountRows
<1>2. Ledger!TypeOK
  BY DEF Ledger!IInv
<1>3. /\ x \in Ledger!Transactions
      /\ x.step = (IF db.rows > mem[s].sum THEN "short" ELSE "checked") /\ x.count = db.rows
      /\ x.sum = mem[s].sum /\ x.passed = mem[s].passed
      /\ x.fill = mem[s].fill /\ x.late = mem[s].late
  BY <1>2, LedgerTypes DEF Ledger!Transactions
<1>4. /\ db.rows <= db.early + db.events
      /\ db.fill = 0 /\ mem[s].fill = 0 => db.events = mem[s].sum + mem[s].passed
  BY <1>1 DEF Ledger!IInv, Ledger!Eventful, Ledger!Reads
<1>5. Read(x)
  <2> HIDE DEF x
  <2> QED BY <1>2, <1>3, <1>4, LedgerTypes DEF Read
<1>6. x.step # "adding"
  BY <1>3
<1> HIDE DEF x
<1> QED BY <1>1, <1>3, <1>5, <1>6, LedgerGoesOn

LEMMA LedgerFinds ==
    ASSUME Ledger!IInv, NEW s \in Sessions, Ledger!FindsFill(s)
    PROVE  Ledger!IInv'
<1> DEFINE x == [mem[s] EXCEPT !.step = IF db.fill + mem[s].fill > 0 THEN "checked" ELSE "adding"]
<1>1. Ledger!Goes(s, x) /\ UNCHANGED db /\ mem[s].step = "short"
  BY DEF Ledger!FindsFill
<1>2. Ledger!TypeOK
  BY DEF Ledger!IInv
<1>3. /\ x \in Ledger!Transactions
      /\ x.step = (IF db.fill + mem[s].fill > 0 THEN "checked" ELSE "adding") /\ x.count = mem[s].count
      /\ x.sum = mem[s].sum /\ x.passed = mem[s].passed
      /\ x.fill = mem[s].fill /\ x.late = mem[s].late
  BY <1>2, LedgerTypes DEF Ledger!Transactions
<1>4. Read(x)
  <2>1. Read(mem[s])
    BY DEF Ledger!IInv, Ledger!Reads, Read
  <2> HIDE DEF x
  <2> QED BY <1>1, <1>3, <2>1 DEF Read
<1>5. x.fill = 0 \/ x.step # "adding"
  <2> HIDE DEF x
  <2> QED BY <1>2, <1>3, LedgerTypes
<1> HIDE DEF x
<1> QED BY <1>1, <1>3, <1>4, <1>5, LedgerGoesOn

(* A transaction that stores a snapshot, or ends without effect.           *)
LEMMA LedgerStores ==
    ASSUME Ledger!IInv, NEW s \in Sessions, Ledger!Store(s)
    PROVE  Ledger!IInv'
<1> DEFINE x == [mem[s] EXCEPT !.step = "storing", !.stored = mem[s].stored + 1]
<1>1. Ledger!Goes(s, x) /\ UNCHANGED db
  BY DEF Ledger!Store
<1>2. Ledger!TypeOK
  BY DEF Ledger!IInv
<1>3. /\ x \in Ledger!Transactions /\ x.step = "storing"
      /\ x.fill = mem[s].fill /\ x.late = mem[s].late
  <2>1. mem[s] \in Ledger!Transactions /\ mem[s].stored + 1 \in Nat
    BY <1>2, LedgerTypes
  <2> QED BY <2>1 DEF Ledger!Transactions
<1>4. Read(x) /\ x.step # "adding"
  BY <1>3 DEF Read
<1> HIDE DEF x
<1> QED BY <1>1, <1>3, <1>4, LedgerGoesOn

LEMMA LedgerEnds ==
    ASSUME Ledger!IInv, NEW s \in Sessions, Ledger!LosesKey(s) \/ Ledger!Abort(s)
    PROVE  Ledger!IInv'
<1>1. CASE Ledger!LosesKey(s)
  <2> DEFINE x == [Ledger!Fresh EXCEPT !.step = "checked"]
  <2>1. Ledger!Goes(s, x) /\ UNCHANGED db
    BY <1>1 DEF Ledger!LosesKey
  <2>2. x \in Ledger!Transactions /\ x.step = "checked" /\ x.fill = 0
    BY DEF Ledger!Fresh, Ledger!Transactions
  <2>3. Read(x)
    BY <2>2 DEF Read
  <2> HIDE DEF x
  <2> QED BY <2>1, <2>2, <2>3, LedgerGoesOn
<1>2. CASE Ledger!Abort(s)
  <2>1. Ledger!Goes(s, Ledger!Fresh) /\ UNCHANGED db
    BY <1>2 DEF Ledger!Abort
  <2>2. Ledger!Fresh \in Ledger!Transactions /\ Ledger!Fresh.step = "idle" /\ Ledger!Fresh.fill = 0
    BY DEF Ledger!Fresh, Ledger!Transactions
  <2>3. Read(Ledger!Fresh)
    BY <2>2 DEF Read
  <2> QED BY <2>1, <2>2, <2>3, LedgerGoesOn
<1> QED BY <1>1, <1>2

(* One session adds the fill, and what it had read makes it the right one. *)
LEMMA LedgerAdds ==
    ASSUME Ledger!IInv, NEW s \in Sessions, Ledger!AddsFill(s)
    PROVE  Ledger!IInv'
<1> DEFINE x == [mem[s] EXCEPT !.step = "checked", !.fill = mem[s].count - mem[s].sum, !.late = mem[s].passed]
<1>1. /\ mem[s].step = "adding" /\ db.fill = 0 /\ UNCHANGED db /\ Ledger!Goes(s, x)
      /\ \A t \in Sessions \ {s} : mem[t].fill = 0
  BY DEF Ledger!AddsFill, Ledger!KeyIsFree
<1>2. Ledger!TypeOK
  BY DEF Ledger!IInv
<1>3. mem[s].fill = 0
  BY <1>1, <1>2, LedgerTypes DEF Ledger!IInv, Ledger!OneFill
<1>4. /\ mem[s].sum < mem[s].count /\ mem[s].count <= mem[s].sum + db.early + mem[s].passed
      /\ db.rows + mem[s].sum <= db.events + mem[s].count
  BY <1>1, <1>3 DEF Ledger!IInv, Ledger!Reads
<1>5. mem[s].count - mem[s].sum \in Nat /\ mem[s].count - mem[s].sum > 0
  BY <1>2, <1>4, LedgerTypes
<1>6. /\ x \in Ledger!Transactions /\ x.step = "checked"
      /\ x.fill = mem[s].count - mem[s].sum /\ x.late = mem[s].passed
  BY <1>2, <1>5, LedgerTypes DEF Ledger!Transactions
<1> HIDE DEF x, Ledger!Transactions
<1>7. /\ mem' \in [Sessions -> Ledger!Transactions]
      /\ mem'[s] = x
      /\ \A t \in Sessions \ {s} : mem'[t] = mem[t]
  BY <1>1, <1>2, <1>6, LedgerGoes
<1>8. Ledger!TypeOK'
  BY <1>1, <1>2, <1>7 DEF Ledger!TypeOK
<1>9. Ledger!OneFill'
  BY <1>1, <1>6, <1>7 DEF Ledger!OneFill
<1>10. Ledger!Fills'
  <2>1. db.rows <= db.events + x.fill /\ x.fill <= db.early + x.late
    <3>1. db.rows + mem[s].sum <= db.events + mem[s].count => db.rows <= db.events + (mem[s].count - mem[s].sum)
      BY <1>2, LedgerTypes
    <3>2. mem[s].count <= mem[s].sum + db.early + mem[s].passed
            => mem[s].count - mem[s].sum <= db.early + mem[s].passed
      BY <1>2, LedgerTypes
    <3> QED BY <1>4, <1>6, <3>1, <3>2
  <2> QED BY <1>1, <1>7, <2>1 DEF Ledger!Fills
<1>11. Ledger!Reads'
  BY <1>1, <1>5, <1>6, <1>7 DEF Ledger!IInv, Ledger!Reads
<1>12. Ledger!Eventful' /\ Ledger!CountsAll' /\ Ledger!CountsOnce'
  BY <1>1 DEF Ledger!IInv, Ledger!Eventful, Ledger!CountsAll, Ledger!CountsOnce
<1> QED BY <1>8, <1>9, <1>10, <1>11, <1>12 DEF Ledger!IInv

(* A commit brings a row and an event for each snapshot, and passes those  *)
(* who have read the ledger only.                                          *)
LEMMA LedgerCommits ==
    ASSUME Ledger!IInv, NEW s \in Sessions, Ledger!Commit(s)
    PROVE  Ledger!IInv'
<1>1. Ledger!TypeOK
  BY DEF Ledger!IInv
<1>2. PICK n \in Nat, f \in Nat, l \in Nat : n = mem[s].stored /\ f = mem[s].fill /\ l = mem[s].late
  BY <1>1, LedgerTypes
<1>3. /\ db' = [db EXCEPT !.rows = db.rows + n, !.events = db.events + n,
                          !.fill = db.fill + f, !.late = db.late + l]
      /\ mem' = [t \in Sessions |-> IF t = s THEN Ledger!Fresh ELSE Ledger!Passed(t, n)]
  BY <1>2 DEF Ledger!Commit
<1>13. /\ db.early \in Nat /\ db.rows \in Nat /\ db.events \in Nat /\ db.fill \in Nat /\ db.late \in Nat
  BY <1>1, LedgerTypes
<1>14. db \in [early : Nat, rows : Nat, events : Nat, fill : Nat, late : Nat]
  BY <1>1 DEF Ledger!TypeOK
<1>4. /\ db'.early = db.early /\ db'.rows = db.rows + n /\ db'.events = db.events + n
      /\ db'.fill = db.fill + f /\ db'.late = db.late + l
  BY <1>3, <1>14
<1>5. mem'[s] = Ledger!Fresh /\ mem'[s].fill = 0 /\ mem'[s].step = "idle"
  BY <1>3 DEF Ledger!Fresh
<1>6. ASSUME NEW t \in Sessions \ {s}
      PROVE  /\ mem'[t] \in Ledger!Transactions
             /\ mem'[t].step = mem[t].step /\ mem'[t].sum = mem[t].sum /\ mem'[t].count = mem[t].count
             /\ mem'[t].fill = mem[t].fill /\ mem'[t].late = mem[t].late
             /\ mem'[t].passed = IF mem[t].step = "summed" THEN mem[t].passed + n ELSE mem[t].passed
  <2>1. mem[t] \in Ledger!Transactions /\ mem[t].passed + n \in Nat
    BY <1>1, <1>2, LedgerTypes
  <2>2. mem'[t] = Ledger!Passed(t, n)
    BY <1>3
  <2> QED BY <2>1, <2>2 DEF Ledger!Passed, Ledger!Transactions
<1>7. Ledger!TypeOK'
  <2>1. Ledger!Fresh \in Ledger!Transactions
    BY DEF Ledger!Fresh, Ledger!Transactions
  <2>2. \A t \in Sessions : mem'[t] \in Ledger!Transactions
    BY <1>5, <1>6, <2>1
  <2>3. db' \in [early : Nat, rows : Nat, events : Nat, fill : Nat, late : Nat]
    <3>1. db.rows + n \in Nat
      BY <1>13
    <3>4. db.events + n \in Nat
      BY <1>13
    <3>2. db.fill + f \in Nat /\ db.late + l \in Nat
      BY <1>13
    <3> QED BY <1>3, <1>14, <3>1, <3>2, <3>4
  <2> HIDE DEF Ledger!Transactions
  <2> QED BY <1>3, <2>2, <2>3 DEF Ledger!TypeOK
<1>8. Ledger!OneFill'
  <2>1. \A t \in Sessions \ {s} : mem[t].fill > 0 => f = 0 /\ db.fill = 0 /\ mem[t].step # "adding"
    BY <1>2 DEF Ledger!IInv, Ledger!OneFill
  <2>2. \A t \in Sessions : mem'[t].fill > 0 => t # s /\ mem'[t].fill = mem[t].fill /\ mem'[t].step = mem[t].step
    BY <1>5, <1>6
  <2>3. \A t \in Sessions : mem'[t].fill > 0 => db'.fill = 0 /\ mem'[t].step # "adding"
    BY <1>4, <2>1, <2>2
  <2>4. \A t, u \in Sessions : mem'[t].fill > 0 /\ mem'[u].fill > 0 => t = u
    BY <2>2 DEF Ledger!IInv, Ledger!OneFill
  <2> QED BY <2>3, <2>4 DEF Ledger!OneFill
<1>9. Ledger!Eventful'
  <2>1. db.rows <= db.early + db.events
    BY DEF Ledger!IInv, Ledger!Eventful
  <2>2. db.rows + n <= db.early + (db.events + n)
    BY <1>13, <2>1
  <2> QED BY <1>4, <2>2 DEF Ledger!Eventful
<1>10. Ledger!Fills'
  <2> SUFFICES ASSUME NEW t \in Sessions, mem'[t].fill > 0
               PROVE  db'.rows <= db'.events + mem'[t].fill /\ mem'[t].fill <= db'.early + mem'[t].late
    BY DEF Ledger!Fills
  <2>1. t \in Sessions \ {s}
    BY <1>5
  <2>2. mem'[t].fill = mem[t].fill /\ mem'[t].late = mem[t].late
    BY <1>6, <2>1
  <2>3. db.rows <= db.events + mem[t].fill /\ mem[t].fill <= db.early + mem[t].late
    BY <2>2 DEF Ledger!IInv, Ledger!Fills
  <2>4. mem[t].fill \in Nat /\ mem[t].late \in Nat
    BY <1>1, LedgerTypes
  <2> QED BY SMTT(40), <1>4, <1>13, <2>2, <2>3, <2>4
<1>11. Ledger!Reads'
  <2> SUFFICES ASSUME NEW t \in Sessions, db'.fill = 0, mem'[t].fill = 0
               PROVE  Read(mem[t])'
    BY DEF Ledger!Reads, Read
  <2>1. CASE t = s
    BY <1>5, <2>1 DEF Read
  <2>2. CASE t # s
    <3>1. /\ mem'[t].step = mem[t].step /\ mem'[t].sum = mem[t].sum /\ mem'[t].count = mem[t].count
          /\ mem'[t].fill = mem[t].fill
          /\ mem'[t].passed = IF mem[t].step = "summed" THEN mem[t].passed + n ELSE mem[t].passed
      BY <1>6, <2>2
    <3>2. db.fill = 0 /\ mem[t].fill = 0
      <4>1. db.fill + f = 0 /\ db.fill \in Nat
        BY <1>4, <1>13
      <4> QED BY <3>1, <4>1
    <3>3. Read(mem[t])
      BY DEF Ledger!IInv, Ledger!Reads, Read
    <3>4. mem[t].sum \in Nat /\ mem[t].count \in Nat /\ mem[t].passed \in Nat
      BY <1>1, LedgerTypes
    <3>5. db'.early = db.early /\ db'.rows = db.rows + n /\ db'.events = db.events + n
      BY <1>4
    <3>6. ASSUME mem[t].step = "summed"
          PROVE  db'.events = mem'[t].sum + mem'[t].passed
      <4>1. db.events = mem[t].sum + mem[t].passed
        BY <3>2, <3>3, <3>6 DEF Read
      <4>2. mem'[t].sum = mem[t].sum /\ mem'[t].passed = mem[t].passed + n
        BY <3>1, <3>6
      <4> QED BY <3>4, <3>5, <4>1, <4>2
    <3>7. ASSUME mem[t].step \in {"short", "adding"}
          PROVE  /\ mem'[t].sum < mem'[t].count /\ mem'[t].count <= mem'[t].sum + db'.early + mem'[t].passed
                 /\ db'.rows + mem'[t].sum <= db'.events + mem'[t].count
      <4>1. /\ mem[t].sum < mem[t].count /\ mem[t].count <= mem[t].sum + db.early + mem[t].passed
            /\ db.rows + mem[t].sum <= db.events + mem[t].count
        BY <3>2, <3>3, <3>7 DEF Read
      <4>2. /\ mem'[t].sum = mem[t].sum /\ mem'[t].count = mem[t].count
            /\ mem'[t].passed = mem[t].passed
        BY <3>1, <3>7
      <4>3. db.rows + n + mem[t].sum <= db.events + n + mem[t].count
        <5>1. ASSUME NEW i \in Nat, NEW j \in Nat, NEW c \in Nat, NEW d \in Nat, i + c <= j + d
              PROVE  i + n + c <= j + n + d
          BY <5>1
        <5> QED BY <1>13, <3>4, <4>1, <5>1
      <4> QED BY <3>4, <3>5, <4>1, <4>2, <4>3
    <3> QED BY <3>1, <3>6, <3>7 DEF Read
  <2> QED BY <2>1, <2>2
<1>12. Ledger!CountsAll' /\ Ledger!CountsOnce'
  <2>1. /\ f > 0 => db.fill = 0 /\ db.rows <= db.events + f /\ f <= db.early + l
        /\ db.fill > 0 => db.rows <= db.events + db.fill
        /\ db.fill <= db.early + db.late
    BY <1>2 DEF Ledger!IInv, Ledger!CountsAll, Ledger!CountsOnce, Ledger!OneFill, Ledger!Fills
  <2>2. db'.fill > 0 => db'.rows <= db'.events + db'.fill
    BY SMTT(40), <1>4, <1>13, <2>1
  <2>3. db'.fill <= db'.early + db'.late
    BY SMTT(40), <1>4, <1>13, <2>1
  <2> QED BY <2>2, <2>3 DEF Ledger!CountsAll, Ledger!CountsOnce
<1> QED BY <1>7, <1>8, <1>9, <1>10, <1>11, <1>12 DEF Ledger!IInv

LEMMA LedgerPurges ==
    ASSUME Ledger!IInv, Ledger!Purge
    PROVE  Ledger!IInv'
<1> USE DEF Ledger!IInv
<1>1. /\ db' \in [early : Nat, rows : Nat, events : Nat, fill : Nat, late : Nat]
      /\ db'.early = db.early /\ db'.rows = db.rows - 1 /\ db'.events = db.events
      /\ db'.fill = db.fill /\ db'.late = db.late /\ UNCHANGED mem
      /\ db.rows \in Nat /\ db.early \in Nat /\ db.events \in Nat /\ db.fill \in Nat
  <2>1. /\ db \in [early : Nat, rows : Nat, events : Nat, fill : Nat, late : Nat]
        /\ db' = [db EXCEPT !.rows = db.rows - 1] /\ UNCHANGED mem /\ db.rows > 0
    BY DEF Ledger!Purge, Ledger!TypeOK
  <2>2. db.rows \in Nat /\ db.rows - 1 \in Nat
    BY <2>1
  <2> QED BY <2>1, <2>2
<1>2. Ledger!TypeOK'
  BY <1>1 DEF Ledger!TypeOK
<1>3. Ledger!OneFill' /\ Ledger!Eventful' /\ Ledger!CountsAll' /\ Ledger!CountsOnce'
  <2>1. Ledger!OneFill'
    BY <1>1 DEF Ledger!OneFill
  <2>2. Ledger!Eventful'
    BY <1>1 DEF Ledger!Eventful
  <2>3. Ledger!CountsAll'
    BY <1>1 DEF Ledger!CountsAll
  <2>4. Ledger!CountsOnce'
    BY <1>1, LedgerTypes DEF Ledger!CountsOnce, Ledger!TypeOK
  <2> QED BY <2>1, <2>2, <2>3, <2>4
<1>4. Ledger!Fills'
  <2> SUFFICES ASSUME NEW t \in Sessions, mem'[t].fill > 0
               PROVE  db'.rows <= db'.events + mem'[t].fill /\ mem'[t].fill <= db'.early + mem'[t].late
    BY DEF Ledger!Fills
  <2>1. mem'[t] = mem[t] /\ mem[t].fill \in Nat
    BY <1>1, LedgerTypes
  <2>2. db.rows <= db.events + mem[t].fill /\ mem[t].fill <= db.early + mem[t].late
    BY <2>1 DEF Ledger!Fills
  <2> QED BY <1>1, <2>1, <2>2
<1>5. Ledger!Reads'
  <2> SUFFICES ASSUME NEW t \in Sessions
               PROVE  Read(mem[t])'
    BY DEF Ledger!Reads, Read
  <2>1. mem[t].sum \in Nat /\ mem[t].count \in Nat
    BY LedgerTypes
  <2>2. Read(mem[t]) /\ mem'[t] = mem[t]
    BY <1>1 DEF Ledger!Reads, Read
  <2>3. \A i \in Int, j, k \in Nat : i + j <= k => i - 1 + j <= k
    OBVIOUS
  <2>4. ASSUME NEW k \in Nat, db.rows + mem[t].sum <= k
        PROVE  db.rows - 1 + mem[t].sum <= k
    <3>1. db.rows \in Int
      BY <1>1
    <3> QED BY <2>1, <2>3, <2>4, <3>1
  <2>5. db.events + mem[t].count \in Nat
    BY <1>1, <2>1
  <2> QED BY <1>1, <2>1, <2>2, <2>4, <2>5 DEF Read
<1> QED BY <1>2, <1>3, <1>4, <1>5

LEMMA LedgerAlways == LedgerInv /\ [Next]_vars => LedgerInv'
<1> SUFFICES ASSUME LedgerInv, [Next]_vars, at' = "ledger"
             PROVE  Ledger!IInv'
  BY DEF LedgerInv
<1>1. at = "ledger" /\ Ledger!IInv
  BY DEF LedgerInv, Next, vars
<1>2. CASE Next
  <2>1. Ledger!Next
    BY <1>1, <1>2 DEF Next
  <2> QED BY <1>1, <2>1, LedgerSums, LedgerCountsRows, LedgerFinds, LedgerStores, LedgerEnds, LedgerAdds,
             LedgerCommits, LedgerPurges DEF Ledger!Next
<1>3. CASE UNCHANGED vars
  <2>1. UNCHANGED <<mem, db>>
    BY <1>3 DEF vars, backend
  <2> QED BY <1>1, <2>1 DEF Ledger!IInv, Ledger!TypeOK, Ledger!OneFill, Ledger!Eventful, Ledger!Fills,
                            Ledger!Reads, Ledger!CountsAll, Ledger!CountsOnce
<1> QED BY <1>2, <1>3

(* Once a window was filled up its ledger counts every snapshot there is,  *)
(* and counts twice only what was stored between the two readings of the   *)
(* session that filled it up, however many sessions store, purge and ask   *)
(* (ensure_snapshot_usage_backfill_current_window, append_usage).          *)
THEOREM LedgerCounts == Spec => [](at = "ledger" => Ledger!CountsAll /\ Ledger!CountsOnce)
<1>1. Spec => []LedgerInv
  BY LedgerInitially, LedgerAlways, PTL DEF Spec
<1>2. LedgerInv => (at = "ledger" => Ledger!CountsAll /\ Ledger!CountsOnce)
  BY DEF LedgerInv, Ledger!IInv
<1> QED BY <1>1, <1>2, PTL
-----------------------------------------------------------------------------
(***************************************************************************)
(* The services together.                                                  *)
(***************************************************************************)

(* Whatever service runs, its state has its type; and calls are accepted   *)
(* before they are anywhere, are in one place each, and what is doomed and *)
(* what was granted stay within their bounds, step by step, as the breaker *)
(* and the ledger keep theirs (save_snapshot, process_snapshot_stream,     *)
(* append_usage, recordCircuitFailure).                                    *)
THEOREM ServicesTyped == Spec => []TypeOK
<1>1. Spec => []AlertsInv
  BY AlertsInitially, AlertsAlways, PTL DEF Spec
<1>2. Spec => []LedgerInv
  BY LedgerInitially, LedgerAlways, PTL DEF Spec
<1>3. AlertsInv => (at = "alerts" => Alerts!TypeOK)
  BY DEF AlertsInv, AlertsType, Messages, Alerts!TypeOK, Alerts!Kinds, Alerts!Idle
<1>4. AlertsInv /\ LedgerInv /\ IngestInv /\ BreakerInv => TypeOK
  BY <1>3 DEF TypeOK, IngestInv, LedgerInv, BreakerInv
<1> QED BY <1>1, <1>2, <1>4, IngestAlways, BreakerInvariant, PTL

(* A call the API answered with "accepted" is stored, on its way, refused  *)
(* by the plan or among the dead letters, but for a batch by each failure  *)
(* and each crash; no recovery is told without an alert; and a ledger that *)
(* was filled up counts every snapshot: for any number of processes, calls *)
(* and threads (save_snapshot, process_snapshot_stream,                    *)
(* save_snapshots_batch_async).                                            *)
THEOREM NothingUnaccounted == Spec => []Accounted
<1>1. Spec => [](at = "ingest" => Ingest!LostByFault)
  <2>1. IngestInv => (at = "ingest" => Ingest!LostByFault)
    BY IngestSays DEF IngestInv
  <2> QED BY <2>1, IngestAlways, PTL
<1>2. /\ at = "ingest" => Ingest!LostByFault
      /\ at = "alerts" => Alerts!Spaced /\ Alerts!Paired
      /\ at = "ledger" => Ledger!CountsAll /\ Ledger!CountsOnce
      => Accounted
  BY DEF Accounted
<1> QED BY <1>1, <1>2, AlertsKeepApart, LedgerCounts, PTL

(* A posted call is stored once, a captured one once by each process and   *)
(* once more for each crash; the plan's limit is passed by no more than    *)
(* what was in flight; and the bounds of alerts, of the ledger and of the  *)
(* windows of usage hold (check_snapshot_limit, save_snapshots_batch_async *)
(* and the modules above).                                                 *)
THEOREM EverythingBounded == Spec => []Bounded
<1>1. Spec => [](at = "ingest" => Ingest!Repeats /\ Ingest!WithinLimit)
  <2>1. IngestInv => (at = "ingest" => Ingest!Repeats /\ Ingest!WithinLimit)
    BY IngestSays DEF IngestInv
  <2> QED BY <2>1, IngestAlways, PTL
<1>2. /\ at = "ingest" => Ingest!Repeats /\ Ingest!WithinLimit
      /\ at = "alerts" => Alerts!Spaced /\ Alerts!Paired
      /\ at = "ledger" => Ledger!CountsAll /\ Ledger!CountsOnce
      /\ at = "window" => Window!HoldsNow /\ Window!PaidHoldsNow
      => Bounded
  BY DEF Bounded
<1> QED BY <1>1, <1>2, AlertsKeepApart, LedgerCounts, WindowsHold, PTL
=============================================================================
