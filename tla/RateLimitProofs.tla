--------------------------- MODULE RateLimitProofs ---------------------------
(***************************************************************************)
(* Proofs about RateLimit: for every number of processes, addresses and    *)
(* files, every limit and window and every number of crashes, outages and  *)
(* lost answers, what a store admits in a window and what it may refuse.   *)
(* Of Redis both are shown only as far as the clocks of the processes      *)
(* agree, with windows that are shorter (limits) or longer (refusals) by   *)
(* their spread.                                                           *)
(***************************************************************************)
EXTENDS RateLimit, FiniteSetTheorems, WellFoundedInduction, TLAPS

-----------------------------------------------------------------------------
(***************************************************************************)
(* Deques                                                                  *)
(***************************************************************************)

InOrder(d) == \A i, j \in DOMAIN d : i <= j => d[i] <= d[j]

\* Min is the least of a nonempty set of natural numbers.
LEMMA MinIsLeast ==
  ASSUME NEW S \in SUBSET Nat, S # {}
  PROVE  Min(S) \in S /\ \A x \in S : Min(S) <= x
<1>1. \E x \in S : \A y \in S : <<y, x>> \notin OpToRel(<, Nat)
  BY NatLessThanWellFounded, WFMin
<1>2. PICK x \in S : \A y \in S : <<y, x>> \notin OpToRel(<, Nat)
  BY <1>1
<1>3. \A y \in S : x <= y
  <2> TAKE y \in S
  <2>1. ~ (y < x)
    BY <1>2 DEF OpToRel
  <2> QED
    BY <2>1
<1> QED
  BY <1>3 DEF Min

\* Trim cuts a deque at a point before which everything is older than the
\* cutoff and from which, if the deque is in order, nothing is.
LEMMA TrimCuts ==
  ASSUME NEW d \in Seq(Nat), NEW c \in Int, InOrder(d)
  PROVE  \E m \in 1..(Len(d) + 1) :
           /\ Len(Trim(d, c)) = Len(d) + 1 - m
           /\ \A i \in 1..(Len(d) + 1 - m) : Trim(d, c)[i] = d[i + m - 1]
           /\ \A i \in 1..(m - 1) : d[i] < c
           /\ \A i \in m..Len(d) : c <= d[i]
<1>1. CASE Fresh(d, c) = {}
  <2>1. Trim(d, c) = <<>>
    BY <1>1 DEF Trim
  <2>2. \A i \in 1..Len(d) : d[i] < c
    BY <1>1 DEF Fresh
  <2> QED
    BY <2>1, <2>2
<1>2. CASE Fresh(d, c) # {}
  <2>1. Fresh(d, c) \in SUBSET Nat /\ Fresh(d, c) \subseteq 1..Len(d)
    BY DEF Fresh
  <2> DEFINE m == Min(Fresh(d, c))
  <2>2. m \in Fresh(d, c) /\ \A x \in Fresh(d, c) : m <= x
    BY <1>2, <2>1, MinIsLeast
  <2>3. m \in 1..Len(d) /\ c <= d[m]
    BY <2>1, <2>2 DEF Fresh
  <2>4. \A i \in 1..(m - 1) : d[i] < c
    <3> TAKE i \in 1..(m - 1)
    <3>1. i \in 1..Len(d) /\ i \notin Fresh(d, c)
      BY <2>2, <2>3
    <3> QED
      BY <3>1 DEF Fresh
  <2>5. \A i \in m..Len(d) : c <= d[i]
    BY <2>3 DEF InOrder
  <2>6. Trim(d, c) = SubSeq(d, m, Len(d))
    BY <1>2 DEF Trim
  <2> HIDE DEF m
  <2>7. Len(SubSeq(d, m, Len(d))) = Len(d) + 1 - m
    BY <2>3
  <2>8. \A i \in 1..(Len(d) + 1 - m) : SubSeq(d, m, Len(d))[i] = d[i + m - 1]
    BY <2>3
  <2>9. m \in 1..(Len(d) + 1)
    BY <2>3
  <2> QED
    BY <2>4, <2>5, <2>6, <2>7, <2>8, <2>9
<1> QED
  BY <1>1, <1>2

\* What Trim leaves is a deque in order, with nothing older than the cutoff,
\* made of what was there.
LEMMA TrimLeaves ==
  ASSUME NEW d \in Seq(Nat), NEW c \in Int, InOrder(d)
  PROVE  /\ Trim(d, c) \in Seq(Nat) /\ InOrder(Trim(d, c))
         /\ Len(Trim(d, c)) <= Len(d)
         /\ \A i \in DOMAIN Trim(d, c) : c <= Trim(d, c)[i]
         /\ \A i \in DOMAIN Trim(d, c) : \E j \in DOMAIN d : Trim(d, c)[i] = d[j]
<1>1. PICK m \in 1..(Len(d) + 1) :
           /\ Len(Trim(d, c)) = Len(d) + 1 - m
           /\ \A i \in 1..(Len(d) + 1 - m) : Trim(d, c)[i] = d[i + m - 1]
           /\ \A i \in 1..(m - 1) : d[i] < c
           /\ \A i \in m..Len(d) : c <= d[i]
  BY TrimCuts
<1>2. Trim(d, c) \in Seq(Nat)
  <2>1. CASE Fresh(d, c) = {}
    BY <2>1 DEF Trim
  <2>2. CASE Fresh(d, c) # {}
    <3>1. Fresh(d, c) \in SUBSET Nat /\ Fresh(d, c) \subseteq 1..Len(d)
      BY DEF Fresh
    <3>2. Min(Fresh(d, c)) \in 1..Len(d)
      BY <2>2, <3>1, MinIsLeast
    <3> QED
      BY <2>2, <3>2 DEF Trim
  <2> QED
    BY <2>1, <2>2
<1>3. DOMAIN Trim(d, c) = 1..(Len(d) + 1 - m)
  <2>1. DOMAIN Trim(d, c) = 1..Len(Trim(d, c))
    BY <1>2
  <2>2. Len(Trim(d, c)) = Len(d) + 1 - m
    BY <1>1
  <2> QED
    BY <2>1, <2>2, Zenon
<1>4. \A i \in DOMAIN Trim(d, c) : i + m - 1 \in m..Len(d) /\ Trim(d, c)[i] = d[i + m - 1]
  <2> TAKE i \in DOMAIN Trim(d, c)
  <2>1. i \in 1..(Len(d) + 1 - m)
    BY <1>3
  <2>2. Trim(d, c)[i] = d[i + m - 1]
    BY <1>1, <2>1
  <2> QED
    BY <2>1, <2>2
<1>5. InOrder(Trim(d, c))
  <2> SUFFICES ASSUME NEW i \in DOMAIN Trim(d, c), NEW j \in DOMAIN Trim(d, c), i <= j
               PROVE  Trim(d, c)[i] <= Trim(d, c)[j]
    BY DEF InOrder
  <2>1. /\ i + m - 1 \in DOMAIN d /\ j + m - 1 \in DOMAIN d
        /\ i + m - 1 <= j + m - 1
    BY <1>3
  <2>2. d[i + m - 1] <= d[j + m - 1]
    BY <2>1 DEF InOrder
  <2> QED
    BY <1>4, <2>2
<1>6. \A i \in DOMAIN Trim(d, c) : c <= Trim(d, c)[i]
  BY <1>1, <1>4
<1>7. \A i \in DOMAIN Trim(d, c) : \E j \in DOMAIN d : Trim(d, c)[i] = d[j]
  <2> TAKE i \in DOMAIN Trim(d, c)
  <2>1. i + m - 1 \in DOMAIN d
    BY <1>4
  <2> QED
    BY <1>4, <2>1
<1> QED
  BY <1>1, <1>2, <1>5, <1>6, <1>7

\* What a later cutoff leaves does not depend on an earlier trim.
LEMMA TrimTwice ==
  ASSUME NEW d \in Seq(Nat), NEW c \in Int, NEW e \in Int, c <= e, InOrder(d)
  PROVE  Len(Trim(Trim(d, c), e)) = Len(Trim(d, e))
<1> DEFINE t == Trim(d, c)
<1>1. PICK m \in 1..(Len(d) + 1) :
           /\ Len(t) = Len(d) + 1 - m
           /\ \A i \in 1..(Len(d) + 1 - m) : t[i] = d[i + m - 1]
           /\ \A i \in 1..(m - 1) : d[i] < c
           /\ \A i \in m..Len(d) : c <= d[i]
  BY TrimCuts
<1>2. t \in Seq(Nat) /\ InOrder(t)
  BY TrimLeaves
<1> HIDE DEF t
<1>3. PICK k \in 1..(Len(t) + 1) :
           /\ Len(Trim(t, e)) = Len(t) + 1 - k
           /\ \A i \in 1..(k - 1) : t[i] < e
           /\ \A i \in k..Len(t) : e <= t[i]
  BY <1>2, TrimCuts
<1>4. PICK n \in 1..(Len(d) + 1) :
           /\ Len(Trim(d, e)) = Len(d) + 1 - n
           /\ \A i \in 1..(n - 1) : d[i] < e
           /\ \A i \in n..Len(d) : e <= d[i]
  BY TrimCuts
<1>5. \A i \in 1..Len(d) : d[i] \in Int
  OBVIOUS
<1>6. ~ (n < k + m - 1)
  <2> SUFFICES ASSUME n < k + m - 1
               PROVE  FALSE
    OBVIOUS
  <2>1. n \in 1..Len(d) /\ e <= d[n]
    BY <1>1, <1>3, <1>4
  <2>2. CASE n < m
    BY <1>1, <1>5, <2>1, <2>2
  <2>3. CASE n >= m
    <3>1. n - m + 1 \in 1..(k - 1) /\ n - m + 1 \in 1..(Len(d) + 1 - m)
      BY <2>1, <2>3, <1>1, <1>3
    <3>2. t[n - m + 1] = d[n - m + 1 + m - 1] /\ t[n - m + 1] < e
      BY <1>1, <1>3, <3>1
    <3>3. n - m + 1 + m - 1 = n
      OBVIOUS
    <3> QED
      BY <1>5, <2>1, <3>2, <3>3
  <2> QED
    BY <2>2, <2>3
<1>7. ~ (k + m - 1 < n)
  <2> SUFFICES ASSUME k + m - 1 < n
               PROVE  FALSE
    OBVIOUS
  <2>1. k + m - 1 \in 1..(n - 1) /\ k \in k..Len(t) /\ k \in 1..(Len(d) + 1 - m)
    BY <1>1, <1>3, <1>4
  <2>2. e <= t[k] /\ t[k] = d[k + m - 1] /\ d[k + m - 1] < e
    BY <1>1, <1>3, <1>4, <2>1
  <2>3. k + m - 1 \in 1..Len(d)
    BY <1>4, <2>1
  <2> QED
    BY <1>5, <2>2, <2>3
<1>8. n = k + m - 1
  BY <1>6, <1>7
<1>9. Len(Trim(t, e)) = Len(Trim(d, e))
  BY <1>1, <1>3, <1>4, <1>8
<1> QED
  BY <1>9 DEF t

\* A new entry that is not older than the cutoff stays.
LEMMA TrimKeepsNew ==
  ASSUME NEW d \in Seq(Nat), NEW c \in Int, NEW x \in Nat, c <= x,
         InOrder(d), \A i \in DOMAIN d : d[i] <= x
  PROVE  /\ InOrder(Append(d, x))
         /\ Len(Trim(Append(d, x), c)) = Len(Trim(d, c)) + 1
<1> DEFINE a == Append(d, x)
<1>1. /\ a \in Seq(Nat) /\ Len(a) = Len(d) + 1
      /\ \A i \in 1..Len(d) : a[i] = d[i]
      /\ a[Len(d) + 1] = x
  OBVIOUS
<1> HIDE DEF a
<1>2. InOrder(a)
  <2> SUFFICES ASSUME NEW i \in 1..(Len(d) + 1), NEW j \in 1..(Len(d) + 1), i <= j
               PROVE  a[i] <= a[j]
    BY <1>1 DEF InOrder
  <2>1. CASE j <= Len(d)
    <3>1. i \in 1..Len(d) /\ j \in 1..Len(d)
      BY <2>1
    <3>2. d[i] <= d[j]
      BY <3>1 DEF InOrder
    <3>3. a[i] = d[i] /\ a[j] = d[j]
      BY <1>1, <3>1
    <3> QED
      BY <3>2, <3>3
  <2>2. CASE j = Len(d) + 1 /\ i <= Len(d)
    BY <1>1, <2>2
  <2>3. CASE j = Len(d) + 1 /\ i = Len(d) + 1
    BY <1>1, <2>3
  <2> QED
    BY <2>1, <2>2, <2>3
<1>3. PICK k \in 1..(Len(a) + 1) :
           /\ Len(Trim(a, c)) = Len(a) + 1 - k
           /\ \A i \in 1..(k - 1) : a[i] < c
           /\ \A i \in k..Len(a) : c <= a[i]
  BY <1>1, <1>2, TrimCuts
<1>4. PICK n \in 1..(Len(d) + 1) :
           /\ Len(Trim(d, c)) = Len(d) + 1 - n
           /\ \A i \in 1..(n - 1) : d[i] < c
           /\ \A i \in n..Len(d) : c <= d[i]
  BY TrimCuts
<1>5. \A i \in 1..Len(a) : a[i] \in Int
  BY <1>1
<1>6. ~ (k < n)
  <2> SUFFICES ASSUME k < n
               PROVE  FALSE
    OBVIOUS
  <2>1. k \in k..Len(a) /\ k \in 1..(n - 1) /\ k \in 1..Len(d)
    BY <1>1, <1>3, <1>4
  <2>2. c <= a[k] /\ d[k] < c
    BY <1>3, <1>4, <2>1
  <2>3. a[k] = d[k]
    BY <1>1, <2>1
  <2>4. a[k] \in Int
    BY <1>5, <2>1, <1>1
  <2> QED
    BY <2>2, <2>3, <2>4
<1>7. ~ (n < k)
  <2> SUFFICES ASSUME n < k
               PROVE  FALSE
    OBVIOUS
  <2>1. n \in 1..(k - 1) /\ n \in 1..Len(a)
    BY <1>1, <1>3, <1>4
  <2>2. a[n] < c
    BY <1>3, <2>1
  <2>3. CASE n <= Len(d)
    <3>1. n \in n..Len(d) /\ n \in 1..Len(d)
      BY <1>4, <2>3
    <3>2. c <= d[n] /\ a[n] = d[n] /\ a[n] \in Int
      BY <1>1, <1>4, <1>5, <2>1, <3>1
    <3> QED
      BY <2>2, <3>2
  <2>4. CASE n = Len(d) + 1
    BY <1>1, <2>2, <2>4
  <2> QED
    BY <2>3, <2>4
<1> QED
  BY <1>1, <1>2, <1>3, <1>4, <1>6, <1>7 DEF a

\* Nothing that is newer than the whole deque is left.
LEMMA TrimAll ==
  ASSUME NEW d \in Seq(Nat), NEW c \in Int, \A i \in DOMAIN d : d[i] < c
  PROVE  Trim(d, c) = <<>>
<1>1. Fresh(d, c) = {}
  BY DEF Fresh
<1> QED
  BY <1>1 DEF Trim

-----------------------------------------------------------------------------
(***************************************************************************)
(* Buckets, and the sizes of sets                                          *)
(***************************************************************************)

LEMMA LimitsArePositive ==
  ASSUME NEW b \in Buckets
  PROVE  /\ MaxEvents(b) \in Nat \ {0} /\ Window(b) \in Nat \ {0}
BY LimiterAssumption DEF Buckets, PerIp, PerFile, MaxEvents, Window, Limits

\* Every bucket that a handler names is one.
LEMMA HandlersNameBuckets ==
  /\ \A ip \in Ips, limit \in UploadLimits : PerIp(limit, ip) \in Buckets
  /\ \A ip \in Ips : PerIp("delete_per_ip", ip) \in Buckets
  /\ \A ip \in Ips : PerIp("fetch_per_ip", ip) \in Buckets
  /\ \A ip \in Ips, file \in Files : PerFile(file, ip) \in Buckets
<1>1. UploadLimits \subseteq {"upload_per_ip", "upload_per_ip_foreign"}
  BY DEF UploadLimits
<1>2. DOMAIN Limits = {"upload_per_ip", "upload_per_ip_foreign", "fetch_per_ip",
                       "fetch_per_file_ip", "delete_per_ip"}
  BY DEF Limits
<1> QED
  BY <1>1, <1>2 DEF Buckets, PerIp, PerFile

\* What covers a set is at least as large.
LEMMA CoverIsLarger ==
  ASSUME NEW S, NEW T, NEW f, IsFiniteSet(S), \A y \in T : \E x \in S : f[x] = y
  PROVE  IsFiniteSet(T) /\ Cardinality(T) <= Cardinality(S)
<1> DEFINE U == {x \in S : f[x] \in T}
           g == [x \in U |-> f[x]]
<1>1. IsFiniteSet(U) /\ Cardinality(U) <= Cardinality(S)
  BY FS_Subset
<1>2. g \in Surjection(U, T)
  BY DEF Surjection
<1> HIDE DEF U, g
<1>3. IsFiniteSet(T) /\ Cardinality(T) <= Cardinality(U)
  BY <1>1, <1>2, FS_Surjection
<1>4. Cardinality(S) \in Nat /\ Cardinality(T) \in Nat /\ Cardinality(U) \in Nat
  BY <1>1, <1>3, FS_CardinalityType
<1> QED
  BY <1>1, <1>3, <1>4

\* The admitted checks of store from time t on in a history.
AdmittedIn(history, store, t) ==
  {i \in DOMAIN history :
     history[i].store = store /\ history[i].outcome = "admitted" /\ t <= history[i].at}

\* A part of the history of a bucket is finite.
LEMMA HistoriesAreFinite ==
  ASSUME NEW history \in Seq(Entries), NEW S \in SUBSET (DOMAIN history)
  PROVE  IsFiniteSet(S) /\ Cardinality(S) \in Nat
<1>1. DOMAIN history = 1..Len(history) /\ IsFiniteSet(1..Len(history))
  BY FS_Interval
<1> QED
  BY <1>1, FS_Subset, FS_CardinalityType

\* A history that grows by checks of other stores, or by checks that were not
\* admitted, counts the same; one more admitted check counts one more.
LEMMA HistoryGrows ==
  ASSUME NEW old \in Seq(Entries), NEW new \in Seq(Entries), NEW store, NEW t \in Int,
         Len(old) < Len(new), \A i \in 1..Len(old) : new[i] = old[i],
         \A i \in (Len(old) + 1)..(Len(new) - 1) :
           new[i].store # store \/ new[i].outcome # "admitted"
  PROVE  Cardinality(AdmittedIn(new, store, t)) =
           IF /\ new[Len(new)].store = store /\ new[Len(new)].outcome = "admitted"
              /\ t <= new[Len(new)].at
           THEN Cardinality(AdmittedIn(old, store, t)) + 1
           ELSE Cardinality(AdmittedIn(old, store, t))
<1> DEFINE A == AdmittedIn(old, store, t)
           B == AdmittedIn(new, store, t)
           n == Len(new)
<1>1. IsFiniteSet(A) /\ A \subseteq 1..Len(old)
  BY HistoriesAreFinite DEF AdmittedIn
<1>2. \A i : i \in B <=>
         i \in 1..n /\ new[i].store = store /\ new[i].outcome = "admitted" /\ t <= new[i].at
  BY DEF AdmittedIn
<1>3. \A i : i \in A <=>
         /\ i \in 1..Len(old) /\ old[i].store = store /\ old[i].outcome = "admitted"
         /\ t <= old[i].at
  BY DEF AdmittedIn
<1>4. \A i \in 1..Len(old) : i \in B <=> i \in A
  BY <1>2, <1>3
<1>5. n \in Nat /\ n \in 1..n /\ n \notin 1..Len(old) /\ Len(old) \in Nat
  OBVIOUS
<1>6. \A i \in 1..n : i \in 1..Len(old) \/ i \in (Len(old) + 1)..(n - 1) \/ i = n
  BY <1>5
<1>7. \A i \in (Len(old) + 1)..(n - 1) : i \notin B
  BY <1>2
<1>8. \A i \in B : i \in A \/ i = n
  BY <1>2, <1>4, <1>6, <1>7
<1>9. A \subseteq B
  BY <1>1, <1>4
<1>10. n \notin A
  BY <1>1, <1>5
<1>11. CASE n \in B
  <2>1. B = A \cup {n}
    BY <1>8, <1>9, <1>11
  <2>2. Cardinality(B) = Cardinality(A) + 1
    BY <1>1, <1>10, <2>1, FS_AddElement
  <2>3. new[n].store = store /\ new[n].outcome = "admitted" /\ t <= new[n].at
    BY <1>2, <1>11
  <2> QED
    BY <2>2, <2>3
<1>12. CASE n \notin B
  <2>1. B = A
    BY <1>8, <1>9, <1>12
  <2>2. ~ (new[n].store = store /\ new[n].outcome = "admitted" /\ t <= new[n].at)
    BY <1>2, <1>5, <1>12
  <2> QED
    BY <2>1, <2>2
<1> QED
  BY <1>11, <1>12

-----------------------------------------------------------------------------
(***************************************************************************)
(* What a check does to a store                                            *)
(***************************************************************************)

\* A check in memory: the deque stays in order and within the limit, every
\* cutoff in the window finds one more entry if and only if the check allows,
\* and it refuses only a deque with max_events entries of the window.
LEMMA MemoryChecks ==
  ASSUME TypeOK, DequesInOrder, NEW p \in Procs, NEW b \in Buckets, NEW allowed \in BOOLEAN,
         MemoryCheck(p, b, allowed)
  PROVE  /\ deques' \in [Procs -> [Buckets -> Seq(Nat)]]
         /\ \A q \in Procs, c \in Buckets :
              q # p \/ c # b => deques'[q][c] = deques[q][c]
         /\ InOrder(deques'[p][b])
         /\ \A i \in DOMAIN deques'[p][b] : deques'[p][b][i] <= Clock(p)
         /\ Len(deques'[p][b]) <= MaxEvents(b)
         /\ \A t \in (now - Window(b))..now :
              Len(Trim(deques'[p][b], t + skew[p])) =
                IF allowed THEN Len(Trim(deques[p][b], t + skew[p])) + 1
                ELSE Len(Trim(deques[p][b], t + skew[p]))
         /\ ~ allowed => Len(Trim(deques[p][b], now - Window(b) + skew[p])) >= MaxEvents(b)
<1> DEFINE d == deques[p][b]
           cutoff == Clock(p) - Window(b)
           d1 == Trim(d, cutoff)
           d2 == IF allowed THEN Append(d1, Clock(p)) ELSE d1
<1>1. /\ Clock(p) \in Nat /\ cutoff \in Int /\ cutoff <= Clock(p)
      /\ now \in Nat /\ skew[p] \in Nat /\ Clock(p) = now + skew[p]
      /\ Window(b) \in Nat /\ MaxEvents(b) \in Nat
  <2>1. now \in Nat /\ skew[p] \in Nat
    BY LimiterAssumption DEF TypeOK
  <2>2. Window(b) \in Nat /\ MaxEvents(b) \in Nat
    BY LimitsArePositive
  <2> QED
    BY <2>1, <2>2 DEF Clock
<1>2. /\ d \in Seq(Nat) /\ InOrder(d) /\ \A i \in DOMAIN d : d[i] <= Clock(p)
      /\ Len(d) <= MaxEvents(b)
  BY DEF TypeOK, DequesInOrder, InOrder
<1>3. /\ allowed <=> Len(d1) < MaxEvents(b)
      /\ deques' = [deques EXCEPT ![p][b] = d2]
  BY DEF MemoryCheck
<1>4. deques \in [Procs -> [Buckets -> Seq(Nat)]]
  BY DEF TypeOK
<1> HIDE DEF d, cutoff
<1>5. /\ d1 \in Seq(Nat) /\ InOrder(d1) /\ Len(d1) <= Len(d)
      /\ \A i \in DOMAIN d1 : \E j \in DOMAIN d : d1[i] = d[j]
  BY <1>1, <1>2, TrimLeaves
<1>6. \A i \in DOMAIN d1 : d1[i] <= Clock(p)
  BY <1>2, <1>5
<1> HIDE DEF d1
<1>7. /\ d2 \in Seq(Nat) /\ InOrder(d2) /\ \A i \in DOMAIN d2 : d2[i] <= Clock(p)
      /\ Len(d2) <= MaxEvents(b)
  <2>1. CASE allowed
    <3>1. InOrder(Append(d1, Clock(p)))
      BY <1>1, <1>5, <1>6, TrimKeepsNew
    <3>2. Len(d1) + 1 <= MaxEvents(b)
      BY <1>1, <1>3, <1>5, <2>1
    <3>3. /\ Append(d1, Clock(p)) \in Seq(Nat) /\ Len(Append(d1, Clock(p))) = Len(d1) + 1
          /\ \A i \in 1..Len(d1) : Append(d1, Clock(p))[i] = d1[i]
          /\ Append(d1, Clock(p))[Len(d1) + 1] = Clock(p)
      BY <1>1, <1>5
    <3>4. \A i \in DOMAIN Append(d1, Clock(p)) : Append(d1, Clock(p))[i] <= Clock(p)
      <4>1. \A i \in 1..Len(d1) : d1[i] <= Clock(p)
        BY <1>5, <1>6
      <4>2. DOMAIN Append(d1, Clock(p)) = 1..(Len(d1) + 1)
        BY <1>1, <1>5
      <4> QED
        BY <1>1, <3>3, <4>1, <4>2
    <3> QED
      BY <2>1, <3>1, <3>2, <3>3, <3>4
  <2>2. CASE ~ allowed
    BY <1>1, <1>2, <1>5, <1>6, <2>2
  <2> QED
    BY <2>1, <2>2
<1>8. \A t \in (now - Window(b))..now :
        Len(Trim(d2, t + skew[p])) =
          IF allowed THEN Len(Trim(d, t + skew[p])) + 1 ELSE Len(Trim(d, t + skew[p]))
  <2> TAKE t \in (now - Window(b))..now
  <2>1. t + skew[p] \in Int /\ cutoff <= t + skew[p] /\ t + skew[p] <= Clock(p)
    BY <1>1 DEF cutoff
  <2>2. Len(Trim(d1, t + skew[p])) = Len(Trim(d, t + skew[p]))
    BY <1>1, <1>2, <2>1, TrimTwice DEF d1
  <2>3. allowed => Len(Trim(d2, t + skew[p])) = Len(Trim(d1, t + skew[p])) + 1
    BY <1>1, <1>5, <1>6, <2>1, TrimKeepsNew
  <2> QED
    BY <2>2, <2>3
<1>9. ~ allowed => Len(Trim(d, now - Window(b) + skew[p])) >= MaxEvents(b)
  <2>1. now - Window(b) + skew[p] = cutoff
    BY <1>1 DEF cutoff
  <2>2. ~ allowed => Len(d1) >= MaxEvents(b)
    BY <1>1, <1>3, <1>5
  <2> QED
    BY <2>1, <2>2 DEF d1
<1> HIDE DEF d2
<1>10. deques' \in [Procs -> [Buckets -> Seq(Nat)]] /\ deques'[p][b] = d2
  BY <1>3, <1>4, <1>7
<1>11. \A q \in Procs, c \in Buckets : q # p \/ c # b => deques'[q][c] = deques[q][c]
  BY <1>3, <1>4
<1> QED
  BY <1>7, <1>8, <1>9, <1>10, <1>11 DEF d

\* The script: the set stays within the limit and keeps what is in the window
\* by the caller's clock while the key lives, a new event is in it with a key
\* that outlives the event, nothing else is added, and it refuses only a full
\* set of members in the window.
LEMMA ScriptDoes ==
  ASSUME TypeOK, LogShape, NEW p \in Procs, NEW b \in Buckets, NEW nonce \in Nonces,
         NEW ran \in BOOLEAN, Script(p, b, <<Clock(p), nonce>>, ran)
  PROVE  /\ redis' \in [Buckets -> [members : SUBSET (Nat \X Nonces), deadline : Nat]]
         /\ \A c \in Buckets : c # b => redis'[c] = redis[c]
         /\ IsFiniteSet(redis'[b].members)
         /\ Cardinality(redis'[b].members) <= MaxEvents(b)
         /\ \A m \in redis[b].members :
              m[1] > Clock(p) - Window(b) /\ redis[b].deadline > now => m \in redis'[b].members
         /\ redis'[b].deadline \in {redis[b].deadline, now + Window(b) + Slack}
         /\ ran => /\ <<Clock(p), nonce>> \in redis'[b].members
                   /\ redis'[b].deadline = now + Window(b) + Slack
         /\ \A m \in redis'[b].members :
              m \in redis[b].members \/ (ran /\ m = <<Clock(p), nonce>>)
         /\ ~ ran => /\ Cardinality(redis'[b].members) >= MaxEvents(b)
                     /\ \A m \in redis'[b].members : m[1] > Clock(p) - Window(b)
<1> DEFINE member == <<Clock(p), nonce>>
           kept == Kept(b, Clock(p) - Window(b))
           full == [members |-> kept \cup {member}, deadline |-> now + Window(b) + Slack]
           less == [redis[b] EXCEPT !.members = kept]
<1>1. /\ Clock(p) \in Nat /\ now \in Nat /\ Window(b) \in Nat /\ MaxEvents(b) \in Nat
      /\ Slack \in Nat /\ member \in Nat \X Nonces
  <2>1. now \in Nat /\ skew[p] \in Nat /\ Slack \in Nat
    BY LimiterAssumption DEF TypeOK
  <2>2. Window(b) \in Nat /\ MaxEvents(b) \in Nat
    BY LimitsArePositive
  <2> QED
    BY <2>1, <2>2 DEF Clock
<1>2. /\ redis \in [Buckets -> [members : SUBSET (Nat \X Nonces), deadline : Nat]]
      /\ IsFiniteSet(redis[b].members) /\ redis[b].members \subseteq Nat \X Nonces
      /\ redis[b].deadline \in Nat
      /\ Cardinality(redis[b].members) <= MaxEvents(b)
  BY DEF TypeOK, LogShape
<1>3. \A m : m \in kept => m \in redis[b].members /\ m[1] > Clock(p) - Window(b)
  BY DEF Kept, Stored
<1>4. \A m \in redis[b].members :
        m[1] > Clock(p) - Window(b) /\ redis[b].deadline > now => m \in kept
  BY <1>1, <1>2 DEF Kept, Stored
<1>5. IsFiniteSet(kept) /\ Cardinality(kept) \in Nat
  BY <1>2, <1>3, FS_Subset, FS_CardinalityType
<1>6. /\ ran <=> Cardinality(kept) < MaxEvents(b)
      /\ redis' = [redis EXCEPT ![b] = IF ran THEN full ELSE less]
  BY DEF Script
<1> HIDE DEF kept
<1>7. /\ full \in [members : SUBSET (Nat \X Nonces), deadline : Nat]
      /\ less \in [members : SUBSET (Nat \X Nonces), deadline : Nat]
      /\ less.members = kept /\ less.deadline = redis[b].deadline
      /\ full.members = kept \cup {member} /\ full.deadline = now + Window(b) + Slack
  BY <1>1, <1>2, <1>3
<1> HIDE DEF full, less
<1>8. /\ redis' \in [Buckets -> [members : SUBSET (Nat \X Nonces), deadline : Nat]]
      /\ \A c \in Buckets : c # b => redis'[c] = redis[c]
      /\ redis'[b] = IF ran THEN full ELSE less
  BY <1>2, <1>6, <1>7
<1>9. CASE ran
  <2>1. /\ redis'[b].members = kept \cup {member}
        /\ redis'[b].deadline = now + Window(b) + Slack
    BY <1>7, <1>8, <1>9
  <2>2. /\ IsFiniteSet(redis'[b].members)
        /\ Cardinality(redis'[b].members) <= Cardinality(kept) + 1
    <3> HIDE DEF member
    <3>1. /\ IsFiniteSet(kept \cup {member})
          /\ Cardinality(kept \cup {member}) \in {Cardinality(kept), Cardinality(kept) + 1}
      BY <1>5, FS_AddElement
    <3> QED
      BY <1>5, <2>1, <3>1
  <2>3. Cardinality(redis'[b].members) <= MaxEvents(b)
    <3>1. Cardinality(redis'[b].members) \in Nat
      BY <2>2, FS_CardinalityType
    <3> QED
      BY <1>1, <1>5, <1>6, <1>9, <2>2, <3>1
  <2> QED
    BY <1>3, <1>4, <1>8, <1>9, <2>1, <2>2, <2>3
<1>10. CASE ~ ran
  <2>1. redis'[b].members = kept /\ redis'[b].deadline = redis[b].deadline
    BY <1>7, <1>8, <1>10
  <2>2. Cardinality(kept) <= MaxEvents(b)
    <3>1. Cardinality(kept) <= Cardinality(redis[b].members)
      BY <1>2, <1>3, FS_Subset
    <3>2. Cardinality(redis[b].members) \in Nat
      BY <1>2, FS_CardinalityType
    <3> QED
      BY <1>1, <1>2, <1>5, <3>1, <3>2
  <2>3. Cardinality(kept) >= MaxEvents(b)
    BY <1>1, <1>5, <1>6, <1>10
  <2> QED
    BY <1>3, <1>4, <1>5, <1>8, <1>10, <2>1, <2>2, <2>3
<1> QED
  BY <1>9, <1>10

-----------------------------------------------------------------------------
(***************************************************************************)
(* Every way a check goes: one new entry of a deque, one of Redis, or one  *)
(* of Redis and then, the answer lost, one of the deque                    *)
(***************************************************************************)

MemoryPart(p, b) ==
  \E allowed \in BOOLEAN :
    /\ MemoryCheck(p, b, allowed)
    /\ log'[b][Len(log'[b])] = Entry(MemoryOf(p), None, OutcomeOf(allowed))

RedisPart(p, b) ==
  \E nonce \in Nonces, ran \in BOOLEAN, outcome \in {"admitted", "refused", "lost", "unheard"} :
    /\ Script(p, b, <<Clock(p), nonce>>, ran)
    /\ ran <=> outcome \in {"admitted", "lost"}
    /\ log'[b][Len(log[b]) + 1] = Entry(Redis, <<Clock(p), nonce>>, outcome)

Checked(p, b) ==
  /\ backend[p] # "none"
  /\ UNCHANGED <<now, spread, skew, backend, reachable, lives>>
  /\ log' \in [Buckets -> Seq(Entries)]
  /\ \A c \in Buckets : c # b => log'[c] = log[c]
  /\ \A i \in 1..Len(log[b]) : log'[b][i] = log[b][i]
  /\ \/ /\ Len(log'[b]) = Len(log[b]) + 1
        /\ MemoryPart(p, b) /\ redis' = redis
     \/ /\ Len(log'[b]) = Len(log[b]) + 1
        /\ RedisPart(p, b) /\ deques' = deques
     \/ /\ Len(log'[b]) = Len(log[b]) + 2
        /\ RedisPart(p, b) /\ MemoryPart(p, b)

LEMMA CheckIsChecked ==
  ASSUME TypeOK, LogShape, NEW p \in Procs, NEW b \in Buckets, NEW allowed \in BOOLEAN,
         Check(p, b, allowed)
  PROVE  Checked(p, b)
<1> DEFINE inMemory == Entry(MemoryOf(p), None, OutcomeOf(allowed))
<1>1. /\ log \in [Buckets -> Seq(Entries)] /\ now \in Nat /\ Clock(p) \in Nat
      /\ MemoryOf(p) \in (Procs \cup {"redis"}) \X Nat
      /\ Redis \in (Procs \cup {"redis"}) \X Nat
  <2>1. now \in Nat /\ skew[p] \in Nat
    BY LimiterAssumption DEF TypeOK
  <2>2. lives[p] \in Nat /\ lives["redis"] \in Nat
    BY DEF TypeOK
  <2> QED
    BY <2>1, <2>2 DEF LogShape, Clock, MemoryOf, Redis
<1>2. inMemory \in Entries
  BY <1>1 DEF Entry, Entries, OutcomeOf
<1>3. \A nonce \in Nonces : \A outcome \in {"admitted", "refused", "lost", "unheard"} :
        Entry(Redis, <<Clock(p), nonce>>, outcome) \in Entries
  BY <1>1 DEF Entry, Entries
<1>4. backend[p] # "none" /\ UNCHANGED <<now, spread, skew, backend, reachable, lives>>
  BY DEF Check, clocks
<1> HIDE DEF inMemory
<1>5. CASE log' = [log EXCEPT ![b] = Append(@, inMemory)] /\ MemoryCheck(p, b, allowed)
           /\ redis' = redis
  <2>1. /\ log' \in [Buckets -> Seq(Entries)]
        /\ \A c \in Buckets : c # b => log'[c] = log[c]
        /\ log'[b] = Append(log[b], inMemory)
    BY <1>1, <1>2, <1>5
  <2>2. /\ Len(log'[b]) = Len(log[b]) + 1 /\ log'[b][Len(log[b]) + 1] = inMemory
        /\ \A i \in 1..Len(log[b]) : log'[b][i] = log[b][i]
    BY <1>1, <1>2, <2>1
  <2>3. MemoryPart(p, b)
    BY <1>5, <2>2 DEF MemoryPart, inMemory
  <2> QED
    BY <1>4, <1>5, <2>1, <2>2, <2>3 DEF Checked
<1>6. CASE AskRedis(p, b, allowed)
  <2>1. PICK nonce \in Nonces :
           /\ Script(p, b, <<Clock(p), nonce>>, allowed)
           /\ log' = [log EXCEPT ![b] =
                        Append(@, Entry(Redis, <<Clock(p), nonce>>, OutcomeOf(allowed)))]
    BY <1>6 DEF AskRedis, Record
  <2> DEFINE e == Entry(Redis, <<Clock(p), nonce>>, OutcomeOf(allowed))
  <2>2. e \in Entries
    BY <1>3 DEF OutcomeOf
  <2> HIDE DEF e
  <2>3. /\ log' \in [Buckets -> Seq(Entries)]
        /\ \A c \in Buckets : c # b => log'[c] = log[c]
        /\ log'[b] = Append(log[b], e)
    BY <1>1, <2>1, <2>2 DEF e
  <2>4. /\ Len(log'[b]) = Len(log[b]) + 1 /\ log'[b][Len(log[b]) + 1] = e
        /\ \A i \in 1..Len(log[b]) : log'[b][i] = log[b][i]
    BY <1>1, <2>2, <2>3
  <2>5. OutcomeOf(allowed) \in {"admitted", "refused"} /\ (allowed <=> OutcomeOf(allowed) = "admitted")
    BY DEF OutcomeOf
  <2>6. RedisPart(p, b)
    BY <2>1, <2>4, <2>5 DEF RedisPart, e
  <2>7. deques' = deques
    BY <1>6 DEF AskRedis
  <2> QED
    BY <1>4, <2>3, <2>4, <2>6, <2>7 DEF Checked
<1>7. CASE AnswerLost(p, b, allowed)
  <2>1. PICK nonce \in Nonces, ran \in BOOLEAN :
           /\ Script(p, b, <<Clock(p), nonce>>, ran)
           /\ log' = [log EXCEPT ![b] =
                        @ \o <<Entry(Redis, <<Clock(p), nonce>>, IF ran THEN "lost" ELSE "unheard"),
                               inMemory>>]
    BY <1>7 DEF AnswerLost, inMemory
  <2> DEFINE outcome == IF ran THEN "lost" ELSE "unheard"
             e == Entry(Redis, <<Clock(p), nonce>>, outcome)
  <2>2. e \in Entries
    BY <1>3
  <2>3. outcome \in {"lost", "unheard"} /\ (ran <=> outcome = "lost")
    OBVIOUS
  <2> HIDE DEF e
  <2>4. /\ log' \in [Buckets -> Seq(Entries)]
        /\ \A c \in Buckets : c # b => log'[c] = log[c]
        /\ log'[b] = log[b] \o <<e, inMemory>>
    <3>1. <<e, inMemory>> \in Seq(Entries)
      BY <1>2, <2>2
    <3>2. log' = [log EXCEPT ![b] = log[b] \o <<e, inMemory>>]
      BY <1>1, <2>1 DEF e
    <3>3. log[b] \o <<e, inMemory>> \in Seq(Entries)
      BY <1>1, <3>1
    <3> QED
      BY <1>1, <3>2, <3>3
  <2>5. /\ Len(log'[b]) = Len(log[b]) + 2 /\ log'[b][Len(log[b]) + 1] = e
        /\ log'[b][Len(log[b]) + 2] = inMemory
        /\ \A i \in 1..Len(log[b]) : log'[b][i] = log[b][i]
    <3>1. log[b] \in Seq(Entries) /\ <<e, inMemory>> \in Seq(Entries) /\ Len(<<e, inMemory>>) = 2
      BY <1>1, <1>2, <2>2
    <3> QED
      BY <2>4, <3>1
  <2>6. RedisPart(p, b)
    <3> HIDE DEF outcome
    <3> QED
      BY <2>1, <2>3, <2>5 DEF RedisPart, e
  <2>7. MemoryPart(p, b)
    BY <1>7, <2>5 DEF MemoryPart, AnswerLost, inMemory
  <2> QED
    BY <1>4, <2>4, <2>5, <2>6, <2>7 DEF Checked
<1> QED
  BY <1>5, <1>6, <1>7 DEF Check, AskMemory, RedisFails, Record, inMemory

\* What a check adds to the history: the last entry is of the deque, or there
\* is one only, of Redis.
LEMMA NewEntries ==
  ASSUME TypeOK, LogShape, NEW p \in Procs, NEW b \in Buckets, Checked(p, b)
  PROVE  /\ Len(log[b]) \in Nat /\ Len(log'[b]) \in Nat /\ Len(log[b]) < Len(log'[b])
         /\ DOMAIN log[b] = 1..Len(log[b]) /\ DOMAIN log'[b] = 1..Len(log'[b])
         /\ \A i \in (Len(log[b]) + 1)..Len(log'[b]) :
              \/ /\ i = Len(log'[b]) /\ MemoryPart(p, b)
                 /\ log'[b][i].at = now /\ log'[b][i].store = MemoryOf(p)
                 /\ log'[b][i].member = None /\ log'[b][i].outcome \in {"admitted", "refused"}
              \/ /\ i = Len(log[b]) + 1 /\ RedisPart(p, b)
                 /\ log'[b][i].at = now /\ log'[b][i].store = Redis
                 /\ \E nonce \in Nonces : log'[b][i].member = <<Clock(p), nonce>>
<1>1. log[b] \in Seq(Entries) /\ log'[b] \in Seq(Entries)
  BY DEF LogShape, Checked
<1>2. /\ Len(log[b]) \in Nat /\ Len(log'[b]) \in Nat
      /\ DOMAIN log[b] = 1..Len(log[b]) /\ DOMAIN log'[b] = 1..Len(log'[b])
  BY <1>1
<1>3. MemoryPart(p, b) =>
        /\ log'[b][Len(log'[b])].at = now /\ log'[b][Len(log'[b])].store = MemoryOf(p)
        /\ log'[b][Len(log'[b])].member = None
        /\ log'[b][Len(log'[b])].outcome \in {"admitted", "refused"}
  BY DEF MemoryPart, Entry, OutcomeOf
<1>4. RedisPart(p, b) =>
        /\ log'[b][Len(log[b]) + 1].at = now /\ log'[b][Len(log[b]) + 1].store = Redis
        /\ \E nonce \in Nonces : log'[b][Len(log[b]) + 1].member = <<Clock(p), nonce>>
  BY DEF RedisPart, Entry
<1>5. CASE Len(log'[b]) = Len(log[b]) + 1 /\ MemoryPart(p, b)
  <2>1. \A i \in (Len(log[b]) + 1)..Len(log'[b]) : i = Len(log'[b])
    BY <1>2, <1>5
  <2>2. Len(log[b]) < Len(log'[b])
    BY <1>2, <1>5
  <2> QED
    BY <1>2, <1>3, <1>5, <2>1, <2>2, Zenon
<1>6. CASE Len(log'[b]) = Len(log[b]) + 1 /\ RedisPart(p, b)
  <2>1. \A i \in (Len(log[b]) + 1)..Len(log'[b]) : i = Len(log[b]) + 1
    BY <1>2, <1>6
  <2>2. Len(log[b]) < Len(log'[b])
    BY <1>2, <1>6
  <2> QED
    BY <1>2, <1>4, <1>6, <2>1, <2>2, Zenon
<1>7. CASE Len(log'[b]) = Len(log[b]) + 2 /\ RedisPart(p, b) /\ MemoryPart(p, b)
  <2>1. \A i \in (Len(log[b]) + 1)..Len(log'[b]) : i = Len(log[b]) + 1 \/ i = Len(log'[b])
    BY <1>2, <1>7
  <2>2. Len(log[b]) < Len(log'[b])
    BY <1>2, <1>7
  <2> QED
    BY <1>2, <1>3, <1>4, <1>7, <2>1, <2>2, Zenon
<1> QED
  BY <1>5, <1>6, <1>7 DEF Checked

\* A check leaves the history in its shape.
LEMMA CheckKeepsShape ==
  ASSUME TypeOK, LogShape, NEW p \in Procs, NEW b \in Buckets, Checked(p, b)
  PROVE  /\ LogShape'
         /\ \A c \in Buckets : /\ Cardinality(redis'[c].members) <= MaxEvents(c)
                               /\ \A i \in DOMAIN log'[c] : log'[c][i].at \in 0..now
<1>1. /\ now \in Nat /\ spread \in Nat /\ skew \in [Procs -> 0..spread]
      /\ lives \in [Procs \cup {"redis"} -> Nat] /\ lives' = lives /\ spread' = spread
      /\ "redis" \notin Procs /\ \A m \in Nat \X Nonces : m # None
  BY LimiterAssumption DEF TypeOK, Checked
<1>2. /\ redis' \in [Buckets -> [members : SUBSET (Nat \X Nonces), deadline : Nat]]
      /\ \A c \in Buckets : IsFiniteSet(redis'[c].members)
      /\ \A c \in Buckets : Cardinality(redis'[c].members) <= MaxEvents(c)
  <2>1. CASE redis' = redis
    BY <2>1 DEF LogShape, TypeOK
  <2>2. CASE RedisPart(p, b)
    <3>1. PICK nonce \in Nonces, ran \in BOOLEAN : Script(p, b, <<Clock(p), nonce>>, ran)
      BY <2>2 DEF RedisPart
    <3>2. /\ redis' \in [Buckets -> [members : SUBSET (Nat \X Nonces), deadline : Nat]]
          /\ \A c \in Buckets : c # b => redis'[c] = redis[c]
          /\ IsFiniteSet(redis'[b].members)
          /\ Cardinality(redis'[b].members) <= MaxEvents(b)
      BY <3>1, ScriptDoes
    <3>3. \A c \in Buckets : IsFiniteSet(redis[c].members) /\ Cardinality(redis[c].members) <= MaxEvents(c)
      BY DEF LogShape, TypeOK
    <3> QED
      BY <3>2, <3>3
  <2> QED
    BY <2>1, <2>2 DEF Checked
<1> DEFINE Good(x) == /\ x.at \in 0..now /\ x.store[2] <= lives[x.store[1]]
                      /\ x.store[1] \in Procs => x.member = None /\ x.outcome \in {"admitted", "refused"}
                      /\ x.store[1] = "redis" =>
                           x.member # None /\ x.at <= x.member[1] /\ x.member[1] <= x.at + spread
<1>3. \A c \in Buckets : \A i \in DOMAIN log[c] : Good(log[c][i])
  BY DEF LogShape, TypeOK
<1>4. \A i \in (Len(log[b]) + 1)..Len(log'[b]) : Good(log'[b][i])
  <2> TAKE i \in (Len(log[b]) + 1)..Len(log'[b])
  <2> DEFINE x == log'[b][i]
  <2>1. CASE x.at = now /\ x.store = MemoryOf(p) /\ x.member = None
             /\ x.outcome \in {"admitted", "refused"}
    BY <1>1, <2>1 DEF MemoryOf
  <2>2. CASE x.at = now /\ x.store = Redis /\ \E nonce \in Nonces : x.member = <<Clock(p), nonce>>
    <3>1. PICK nonce \in Nonces : x.member = <<Clock(p), nonce>>
      BY <2>2
    <3>2. skew[p] \in 0..spread /\ Clock(p) = now + skew[p] /\ Clock(p) \in Nat
      BY <1>1 DEF Clock
    <3>3. x.member \in Nat \X Nonces /\ x.member[1] = now + skew[p]
      BY <3>1, <3>2
    <3>4. x.store[1] = "redis" /\ x.store[2] = lives["redis"]
      BY <2>2 DEF Redis
    <3> HIDE DEF x
    <3>5. x.member # None /\ x.at <= x.member[1] /\ x.member[1] <= x.at + spread
      BY <1>1, <2>2, <3>2, <3>3
    <3>6. x.at \in 0..now /\ x.store[2] <= lives[x.store[1]] /\ x.store[1] \notin Procs
      BY <1>1, <2>2, <3>4
    <3> QED
      BY <3>5, <3>6 DEF x
  <2> HIDE DEF Good
  <2> QED
    BY NewEntries, <2>1, <2>2
<1>5. \A c \in Buckets : \A i \in DOMAIN log'[c] : Good(log'[c][i])
  <2> TAKE c \in Buckets
  <2> HIDE DEF Good
  <2>1. CASE c # b
    BY <1>3, <2>1 DEF Checked
  <2>2. CASE c = b
    <3> SUFFICES ASSUME NEW i \in DOMAIN log'[b]
                 PROVE  Good(log'[b][i])
      BY <2>2
    <3>1. /\ Len(log[b]) \in Nat /\ Len(log'[b]) \in Nat
          /\ DOMAIN log[b] = 1..Len(log[b]) /\ DOMAIN log'[b] = 1..Len(log'[b])
      BY NewEntries
    <3>2. CASE i \in 1..Len(log[b])
      BY <1>3, <3>1, <3>2 DEF Checked
    <3>3. CASE i \in (Len(log[b]) + 1)..Len(log'[b])
      BY <1>4, <3>3
    <3> QED
      BY <3>1, <3>2, <3>3
  <2> QED
    BY <2>1, <2>2
<1>6. log' \in [Buckets -> Seq(Entries)]
  BY DEF Checked
<1> QED
  BY <1>1, <1>2, <1>5, <1>6 DEF LogShape

\* A check leaves the deques in order, within their limits, and in agreement
\* with the history.
LEMMA CheckKeepsDeques ==
  ASSUME TypeOK, LogShape, DequesInOrder, DequesCount,
         NEW p \in Procs, NEW b \in Buckets, Checked(p, b)
  PROVE  /\ deques' \in [Procs -> [Buckets -> Seq(Nat)]]
         /\ \A q \in Procs, c \in Buckets : Len(deques'[q][c]) <= MaxEvents(c)
         /\ DequesInOrder' /\ DequesCount'
<1>1. /\ now' = now /\ spread' = spread /\ skew' = skew /\ backend' = backend /\ lives' = lives
      /\ now \in Nat /\ spread \in 0..MaxSkew /\ skew \in [Procs -> 0..spread] /\ backend[p] # "none"
      /\ "redis" \notin Procs
      /\ deques \in [Procs -> [Buckets -> Seq(Nat)]]
      /\ \A q \in Procs, c \in Buckets : Len(deques[q][c]) <= MaxEvents(c)
  BY LimiterAssumption DEF Checked, TypeOK
<1>2. /\ \A q \in Procs : MemoryOf(q)' = MemoryOf(q) /\ MemoryOf(q) # Redis /\ Clock(q)' = Clock(q)
      /\ \A q \in Procs : q # p => MemoryOf(q) # MemoryOf(p)
  BY <1>1 DEF MemoryOf, Redis, Clock
<1>3. /\ Len(log[b]) \in Nat /\ Len(log'[b]) \in Nat /\ Len(log[b]) < Len(log'[b])
      /\ log[b] \in Seq(Entries) /\ log'[b] \in Seq(Entries)
      /\ \A i \in 1..Len(log[b]) : log'[b][i] = log[b][i]
      /\ \A c \in Buckets : c # b => log'[c] = log[c]
  BY NewEntries DEF Checked, LogShape
<1>4. \A c \in Buckets : \A store : \A t \in Int :
        /\ AdmittedFrom(c, store, t) = AdmittedIn(log[c], store, t)
        /\ AdmittedFrom(c, store, t)' = AdmittedIn(log'[c], store, t)
  BY DEF AdmittedFrom, AdmittedIn
<1>5. \A c \in Buckets : Window(c) \in Nat
  BY LimitsArePositive
<1>6. ASSUME NEW q \in Procs, NEW t \in Int,
             \A i \in (Len(log[b]) + 1)..Len(log'[b]) :
               log'[b][i].store # MemoryOf(q) \/ log'[b][i].outcome # "admitted"
      PROVE  Cardinality(AdmittedIn(log'[b], MemoryOf(q), t)) =
               Cardinality(AdmittedIn(log[b], MemoryOf(q), t))
  <2>1. \A i \in (Len(log[b]) + 1)..(Len(log'[b]) - 1) :
          log'[b][i].store # MemoryOf(q) \/ log'[b][i].outcome # "admitted"
    BY <1>3, <1>6
  <2>2. log'[b][Len(log'[b])].store # MemoryOf(q) \/ log'[b][Len(log'[b])].outcome # "admitted"
    BY <1>3, <1>6
  <2> QED
    BY <1>3, <2>1, <2>2, HistoryGrows
<1>7. CASE deques' = deques /\ \A i \in (Len(log[b]) + 1)..Len(log'[b]) : log'[b][i].store = Redis
  <2>1. DequesInOrder'
    BY <1>1, <1>2, <1>7 DEF DequesInOrder
  <2>2. DequesCount'
    <3> SUFFICES ASSUME NEW q \in Procs, NEW c \in Buckets, NEW t \in (now - Window(c))..now,
                        backend[q] # "none"
                 PROVE  Cardinality(AdmittedIn(log'[c], MemoryOf(q), t)) =
                          Len(Trim(deques[q][c], t + skew[q]))
      BY <1>1, <1>2, <1>4, <1>5, <1>7 DEF DequesCount
    <3>1. t \in Int
      BY <1>1, <1>5
    <3>2. Cardinality(AdmittedIn(log[c], MemoryOf(q), t)) = Len(Trim(deques[q][c], t + skew[q]))
      BY <1>4, <3>1 DEF DequesCount
    <3>3. CASE c # b
      BY <1>3, <3>2, <3>3
    <3>4. CASE c = b
      BY <1>2, <1>6, <1>7, <3>1, <3>2, <3>4
    <3> QED
      BY <3>3, <3>4
  <2> QED
    BY <1>1, <1>7, <2>1, <2>2
<1>8. CASE MemoryPart(p, b)
           /\ \A i \in (Len(log[b]) + 1)..(Len(log'[b]) - 1) : log'[b][i].store = Redis
  <2>1. PICK allowed \in BOOLEAN :
           /\ MemoryCheck(p, b, allowed)
           /\ log'[b][Len(log'[b])] = Entry(MemoryOf(p), None, OutcomeOf(allowed))
    BY <1>8 DEF MemoryPart
  <2>2. /\ deques' \in [Procs -> [Buckets -> Seq(Nat)]]
        /\ \A q \in Procs, c \in Buckets : q # p \/ c # b => deques'[q][c] = deques[q][c]
        /\ InOrder(deques'[p][b])
        /\ \A i \in DOMAIN deques'[p][b] : deques'[p][b][i] <= Clock(p)
        /\ Len(deques'[p][b]) <= MaxEvents(b)
        /\ \A t \in (now - Window(b))..now :
              Len(Trim(deques'[p][b], t + skew[p])) =
                IF allowed THEN Len(Trim(deques[p][b], t + skew[p])) + 1
                ELSE Len(Trim(deques[p][b], t + skew[p]))
    BY <2>1, MemoryChecks
  <2>3. \A q \in Procs, c \in Buckets : Len(deques'[q][c]) <= MaxEvents(c)
    BY <1>1, <2>2
  <2>4. DequesInOrder'
    <3> SUFFICES ASSUME NEW q \in Procs, NEW c \in Buckets
                 PROVE  /\ InOrder(deques'[q][c])
                        /\ \A i \in DOMAIN deques'[q][c] : deques'[q][c][i] <= Clock(q)
                        /\ backend[q] = "none" => deques'[q][c] = <<>>
      BY <1>1, <1>2 DEF DequesInOrder, InOrder
    <3>1. CASE q # p \/ c # b
      BY <2>2, <3>1 DEF DequesInOrder, InOrder
    <3>2. CASE q = p /\ c = b
      BY <1>1, <2>2, <3>2
    <3> QED
      BY <3>1, <3>2
  <2>5. DequesCount'
    <3> SUFFICES ASSUME NEW q \in Procs, NEW c \in Buckets, NEW t \in (now - Window(c))..now,
                        backend[q] # "none"
                 PROVE  Cardinality(AdmittedIn(log'[c], MemoryOf(q), t)) =
                          Len(Trim(deques'[q][c], t + skew[q]))
      BY <1>1, <1>2, <1>4, <1>5 DEF DequesCount
    <3>1. t \in Int
      BY <1>1, <1>5
    <3>2. Cardinality(AdmittedIn(log[c], MemoryOf(q), t)) = Len(Trim(deques[q][c], t + skew[q]))
      BY <1>4, <3>1 DEF DequesCount
    <3>3. CASE c # b
      BY <1>3, <2>2, <3>2, <3>3
    <3>4. log'[b][Len(log'[b])].store = MemoryOf(p)
      BY <2>1 DEF Entry
    <3>5. CASE c = b /\ q # p
      <4>1. \A i \in (Len(log[b]) + 1)..Len(log'[b]) : log'[b][i].store # MemoryOf(q)
        BY <1>2, <1>3, <1>8, <3>4, <3>5
      <4> QED
        BY <1>6, <2>2, <3>1, <3>2, <3>5, <4>1
    <3>6. CASE c = b /\ q = p
      <4>1. /\ log'[b][Len(log'[b])].at = now
            /\ allowed <=> log'[b][Len(log'[b])].outcome = "admitted"
        BY <2>1 DEF Entry, OutcomeOf
      <4>2. t <= now
        BY <1>1, <1>5
      <4>3. \A i \in (Len(log[b]) + 1)..(Len(log'[b]) - 1) : log'[b][i].store # MemoryOf(p)
        BY <1>2, <1>8
      <4>4. Cardinality(AdmittedIn(log'[b], MemoryOf(p), t)) =
              IF allowed THEN Cardinality(AdmittedIn(log[b], MemoryOf(p), t)) + 1
              ELSE Cardinality(AdmittedIn(log[b], MemoryOf(p), t))
        <5> DEFINE last == log'[b][Len(log'[b])]
        <5>1. Cardinality(AdmittedIn(log'[b], MemoryOf(p), t)) =
                IF last.store = MemoryOf(p) /\ last.outcome = "admitted" /\ t <= last.at
                THEN Cardinality(AdmittedIn(log[b], MemoryOf(p), t)) + 1
                ELSE Cardinality(AdmittedIn(log[b], MemoryOf(p), t))
          BY <1>3, <3>1, <4>3, HistoryGrows
        <5>2. last.store = MemoryOf(p) /\ last.at = now /\ (allowed <=> last.outcome = "admitted")
          BY <3>4, <4>1
        <5> HIDE DEF last
        <5> QED
          BY <4>2, <5>1, <5>2
      <4> QED
        BY <2>2, <3>2, <3>6, <4>4
    <3> QED
      BY <3>3, <3>5, <3>6
  <2> QED
    BY <2>2, <2>3, <2>4, <2>5
<1>9. \A i \in (Len(log[b]) + 1)..Len(log'[b]) :
        log'[b][i].store = Redis \/ (i = Len(log'[b]) /\ MemoryPart(p, b))
  BY NewEntries
<1>10. CASE MemoryPart(p, b)
  <2>1. \A i \in (Len(log[b]) + 1)..(Len(log'[b]) - 1) : log'[b][i].store = Redis
    BY <1>3, <1>9
  <2> QED
    BY <1>8, <1>10, <2>1
<1>11. CASE ~ MemoryPart(p, b)
  <2>1. deques' = deques
    BY <1>11 DEF Checked
  <2> QED
    BY <1>7, <1>9, <1>11, <2>1
<1> QED
  BY <1>10, <1>11

\* A check leaves Redis with every event that may count, and no other.
LEMMA CheckKeepsRedis ==
  ASSUME TypeOK, LogShape, RedisHolds, MembersAreEvents,
         NEW p \in Procs, NEW b \in Buckets, Checked(p, b)
  PROVE  RedisHolds' /\ MembersAreEvents'
<1>1. /\ now' = now /\ spread' = spread /\ Redis' = Redis /\ now \in Nat /\ spread \in Nat /\ Slack \in Nat
      /\ skew \in [Procs -> 0..spread] /\ MemoryOf(p) # Redis
  BY LimiterAssumption DEF Checked, TypeOK, Redis, MemoryOf
<1>2. /\ Len(log[b]) \in Nat /\ Len(log'[b]) \in Nat /\ Len(log[b]) < Len(log'[b])
      /\ DOMAIN log[b] = 1..Len(log[b]) /\ DOMAIN log'[b] = 1..Len(log'[b])
      /\ \A i \in 1..Len(log[b]) : log'[b][i] = log[b][i]
      /\ \A c \in Buckets : c # b => log'[c] = log[c]
  BY NewEntries DEF Checked
<1>3. \A i \in DOMAIN log'[b] : i \in DOMAIN log[b] \/ i \in (Len(log[b]) + 1)..Len(log'[b])
  BY <1>2
<1>4. \A c \in Buckets : Window(c) \in Nat
  BY LimitsArePositive
<1> DEFINE Held(x, c) ==
             x.store = Redis /\ x.outcome \in {"admitted", "lost"} /\ x.at > now - Window(c) + spread =>
               x.member \in redis'[c].members /\ redis'[c].deadline >= x.at + Window(c) + Slack
           Stamped(c, m) ==
             \E i \in DOMAIN log'[c] :
               /\ log'[c][i].store = Redis /\ log'[c][i].outcome \in {"admitted", "lost"}
               /\ log'[c][i].member = m
<1>5. SUFFICES ASSUME NEW c \in Buckets
               PROVE  /\ \A i \in DOMAIN log'[c] : Held(log'[c][i], c)
                      /\ \A m \in redis'[c].members : Stamped(c, m)
  BY <1>1 DEF RedisHolds, MembersAreEvents
<1>6. CASE c # b
  <2>1. redis'[c] = redis[c]
    <3>1. CASE RedisPart(p, b)
      <4>1. PICK nonce \in Nonces, ran \in BOOLEAN : Script(p, b, <<Clock(p), nonce>>, ran)
        BY <3>1 DEF RedisPart
      <4> QED
        BY <1>6, <4>1, ScriptDoes
    <3> QED
      BY <3>1 DEF Checked
  <2> QED
    BY <1>2, <1>6, <2>1 DEF RedisHolds, MembersAreEvents
<1>7. CASE c = b /\ ~ RedisPart(p, b)
  <2>1. redis' = redis
    BY <1>7 DEF Checked
  <2>2. \A i \in (Len(log[b]) + 1)..Len(log'[b]) : log'[b][i].store # Redis
    BY <1>1, <1>7, NewEntries
  <2>3. \A i \in DOMAIN log'[b] : Held(log'[b][i], b)
    <3> TAKE i \in DOMAIN log'[b]
    <3>1. CASE i \in DOMAIN log[b]
      BY <1>2, <2>1, <3>1 DEF RedisHolds
    <3>2. CASE i \notin DOMAIN log[b]
      BY <1>3, <2>2, <3>2
    <3> QED
      BY <3>1, <3>2
  <2>4. \A m \in redis'[b].members : Stamped(b, m)
    <3> TAKE m \in redis'[b].members
    <3>1. PICK i \in DOMAIN log[b] :
             /\ log[b][i].store = Redis /\ log[b][i].outcome \in {"admitted", "lost"}
             /\ log[b][i].member = m
      BY <2>1 DEF MembersAreEvents
    <3>2. i \in DOMAIN log'[b] /\ log'[b][i] = log[b][i]
      BY <1>2
    <3> QED
      BY <3>1, <3>2
  <2> QED
    BY <1>7, <2>3, <2>4
<1>8. CASE c = b /\ RedisPart(p, b)
  <2>1. PICK nonce \in Nonces, ran \in BOOLEAN, outcome \in {"admitted", "refused", "lost", "unheard"} :
           /\ Script(p, b, <<Clock(p), nonce>>, ran)
           /\ ran <=> outcome \in {"admitted", "lost"}
           /\ log'[b][Len(log[b]) + 1] = Entry(Redis, <<Clock(p), nonce>>, outcome)
    BY <1>8 DEF RedisPart
  <2>2. /\ redis' \in [Buckets -> [members : SUBSET (Nat \X Nonces), deadline : Nat]]
        /\ \A m \in redis[b].members :
             m[1] > Clock(p) - Window(b) /\ redis[b].deadline > now => m \in redis'[b].members
        /\ redis'[b].deadline \in {redis[b].deadline, now + Window(b) + Slack}
        /\ ran => /\ <<Clock(p), nonce>> \in redis'[b].members
                  /\ redis'[b].deadline = now + Window(b) + Slack
        /\ \A m \in redis'[b].members :
             m \in redis[b].members \/ (ran /\ m = <<Clock(p), nonce>>)
    BY <2>1, ScriptDoes
  <2>3. /\ log'[b][Len(log[b]) + 1].store = Redis /\ log'[b][Len(log[b]) + 1].at = now
        /\ log'[b][Len(log[b]) + 1].member = <<Clock(p), nonce>>
        /\ log'[b][Len(log[b]) + 1].outcome = outcome
    BY <2>1 DEF Entry
  <2>4. ASSUME NEW i \in DOMAIN log'[b], i \in DOMAIN log[b]
        PROVE  Held(log'[b][i], b)
    <3> DEFINE x == log[b][i]
    <3>1. log'[b][i] = x
      BY <1>2, <2>4
    <3> SUFFICES ASSUME x.store = Redis, x.outcome \in {"admitted", "lost"},
                        x.at > now - Window(b) + spread
                 PROVE  x.member \in redis'[b].members /\ redis'[b].deadline >= x.at + Window(b) + Slack
      BY <3>1
    <3>2. x.member \in redis[b].members /\ redis[b].deadline >= x.at + Window(b) + Slack
      BY <2>4 DEF RedisHolds
    <3>3. x.at \in 0..now /\ x.at <= x.member[1]
      BY <2>4 DEF LogShape, TypeOK, Redis
    <3>4. x.member[1] \in Nat /\ redis[b].deadline \in Nat
      BY <3>2 DEF LogShape
    <3>5. skew[p] \in 0..spread /\ Clock(p) = now + skew[p] /\ Window(b) \in Nat
      BY <1>1, <1>4 DEF Clock
    <3> HIDE DEF x
    <3>6. x.member[1] > Clock(p) - Window(b) /\ redis[b].deadline > now
      BY <1>1, <3>2, <3>3, <3>4, <3>5
    <3>7. x.member \in redis'[b].members
      BY <2>2, <3>2, <3>6
    <3>8. redis'[b].deadline >= x.at + Window(b) + Slack
      BY <1>1, <2>2, <3>2, <3>3, <3>5
    <3> QED
      BY <3>7, <3>8
  <2>5. ASSUME NEW i \in DOMAIN log'[b], i \notin DOMAIN log[b]
        PROVE  Held(log'[b][i], b)
    <3>1. CASE log'[b][i].store = MemoryOf(p)
      BY <1>1, <3>1
    <3>2. CASE i = Len(log[b]) + 1
      <4>1. now + Window(b) + Slack \in Nat
        BY <1>1, <1>4
      <4> QED
        BY <2>1, <2>2, <2>3, <3>2, <4>1
    <3> QED
      BY <1>3, <2>5, <3>1, <3>2, NewEntries
  <2>6. \A m \in redis'[b].members : Stamped(b, m)
    <3> TAKE m \in redis'[b].members
    <3>1. CASE m \in redis[b].members
      <4>1. PICK i \in DOMAIN log[b] :
               /\ log[b][i].store = Redis /\ log[b][i].outcome \in {"admitted", "lost"}
               /\ log[b][i].member = m
        BY <3>1 DEF MembersAreEvents
      <4>2. i \in DOMAIN log'[b] /\ log'[b][i] = log[b][i]
        BY <1>2
      <4> QED
        BY <4>1, <4>2
    <3>2. CASE ran /\ m = <<Clock(p), nonce>>
      <4>1. Len(log[b]) + 1 \in DOMAIN log'[b]
        BY <1>2
      <4> QED
        BY <2>1, <2>3, <3>2, <4>1
    <3> QED
      BY <2>2, <3>1, <3>2
  <2> QED
    BY <1>8, <2>4, <2>5, <2>6
<1> QED
  BY <1>6, <1>7, <1>8

-----------------------------------------------------------------------------
(***************************************************************************)
(* The properties of the history                                           *)
(***************************************************************************)

\* The stores that still check.
Alive(store) ==
  store = Redis \/ \E p \in Procs : backend[p] # "none" /\ store = MemoryOf(p)

WithinLimit(b, e) ==
  LET from == IF e.store[1] = "redis" THEN e.at - Window(b) + spread + 1 ELSE e.at - Window(b)
  IN Cardinality(Distinct(b, Since(b, e, from, {"admitted"}))) <= MaxEvents(b)

Earned(b, e) ==
  LET from == IF e.store[1] = "redis" THEN e.at - Window(b) - spread + 1 ELSE e.at - Window(b)
  IN Cardinality(Since(b, e, from, {"admitted", "lost"})) >= MaxEvents(b)

StoresInv ==
  TypeOK /\ LogShape /\ DequesInOrder /\ DequesCount /\ RedisHolds /\ MembersAreEvents

CurrentLimits ==
  \A b \in Buckets : \A n \in DOMAIN log[b] :
    log[b][n].at = now /\ Alive(log[b][n].store) => WithinLimit(b, log[b][n])

\* What the stores hold bounds what they have admitted up to now.
LEMMA HeldBoundsAdmitted == StoresInv => CurrentLimits
<1> SUFFICES ASSUME StoresInv, NEW b \in Buckets, NEW n \in DOMAIN log[b],
                    log[b][n].at = now, Alive(log[b][n].store)
             PROVE  WithinLimit(b, log[b][n])
  BY DEF CurrentLimits
<1> DEFINE e == log[b][n]
<1> USE DEF StoresInv
<1>1. /\ now \in Nat /\ spread \in Nat /\ Window(b) \in Nat /\ MaxEvents(b) \in Nat
      /\ "redis" \notin Procs /\ log[b] \in Seq(Entries)
      /\ \A i \in DOMAIN log[b] : log[b][i].at \in 0..now
  BY LimitsArePositive, LimiterAssumption DEF TypeOK, LogShape
<1>2. CASE e.store = Redis
  <2> DEFINE from == now - Window(b) + spread + 1
             S == Since(b, e, from, {"admitted"})
  <2>1. \A i \in S : /\ i \in DOMAIN log[b] /\ log[b][i].store = Redis
                     /\ log[b][i].outcome = "admitted" /\ log[b][i].at >= from
    BY <1>2 DEF Since
  <2>2. \A i \in S : log[b][i].member \in redis[b].members
    <3> TAKE i \in S
    <3>1. log[b][i].at > now - Window(b) + spread
      BY <1>1, <2>1
    <3> QED
      BY <2>1, <3>1 DEF RedisHolds
  <2>3. \A i \in S : log[b][i].member # None
    BY <2>1 DEF LogShape, Redis
  <2> HIDE DEF S, e
  <2>4. Distinct(b, S) \subseteq redis[b].members
    BY <2>2, <2>3 DEF Distinct
  <2>5. /\ IsFiniteSet(redis[b].members) /\ Cardinality(redis[b].members) <= MaxEvents(b)
        /\ Cardinality(redis[b].members) \in Nat
    BY FS_CardinalityType DEF LogShape, TypeOK
  <2>6. /\ Cardinality(Distinct(b, S)) <= Cardinality(redis[b].members)
        /\ Cardinality(Distinct(b, S)) \in Nat
    BY <2>4, <2>5, FS_Subset, FS_CardinalityType
  <2>7. Cardinality(Distinct(b, S)) <= MaxEvents(b)
    BY <1>1, <2>5, <2>6
  <2>8. e.store[1] = "redis" /\ e.at = now
    BY <1>2 DEF Redis, e
  <2> QED
    BY <2>7, <2>8 DEF WithinLimit, S, e
<1>3. ASSUME NEW p \in Procs, backend[p] # "none", e.store = MemoryOf(p)
      PROVE  WithinLimit(b, e)
  <2> DEFINE from == now - Window(b)
             S == Since(b, e, from, {"admitted"})
  <2>1. S = AdmittedFrom(b, MemoryOf(p), from)
    BY <1>1, <1>3 DEF Since, AdmittedFrom
  <2>2. \A i \in S : log[b][i].member = None
    BY <1>3 DEF Since, LogShape, MemoryOf
  <2>3. from \in (now - Window(b))..now /\ from \in Int
    BY <1>1
  <2>4. Cardinality(S) = Len(Trim(deques[p][b], from + skew[p]))
    BY <1>3, <2>1, <2>3 DEF DequesCount
  <2>5. Len(Trim(deques[p][b], from + skew[p])) <= MaxEvents(b)
    <3>1. /\ deques[p][b] \in Seq(Nat) /\ Len(deques[p][b]) <= MaxEvents(b)
          /\ skew[p] \in 0..spread
      BY DEF TypeOK
    <3>2. InOrder(deques[p][b])
      BY DEF DequesInOrder, InOrder
    <3>3. from + skew[p] \in Int
      BY <1>1, <2>3, <3>1
    <3>4. /\ Trim(deques[p][b], from + skew[p]) \in Seq(Nat)
          /\ Len(Trim(deques[p][b], from + skew[p])) <= Len(deques[p][b])
      BY <3>1, <3>2, <3>3, TrimLeaves
    <3> QED
      BY <1>1, <3>1, <3>4
  <2> HIDE DEF S, e
  <2>6. Distinct(b, S) = S
    BY <2>2 DEF Distinct
  <2>7. e.store[1] # "redis" /\ e.at = now
    BY <1>1, <1>3 DEF MemoryOf, e
  <2> QED
    BY <2>4, <2>5, <2>6, <2>7 DEF WithinLimit, S, e
<1> QED
  BY <1>2, <1>3 DEF Alive

\* The checks of the store of e, from time t to e, in a history.
SinceIn(history, e, t, outcomes) ==
  {i \in DOMAIN history :
     LET x == history[i]
     IN x.store = e.store /\ x.outcome \in outcomes /\ t <= x.at /\ x.at <= e.at}

\* A check adds to no earlier window: what was checked before now, or by a
\* store that is gone, has the same history as before.
LEMMA EarlierWindowsStay ==
  ASSUME TypeOK, LogShape, NEW p \in Procs, NEW b \in Buckets, Checked(p, b),
         NEW n \in DOMAIN log[b], NEW t \in Int, NEW outcomes
  PROVE  /\ SinceIn(log[b], log[b][n], t, outcomes) \subseteq SinceIn(log'[b], log[b][n], t, outcomes)
         /\ ~ (log[b][n].at = now /\ Alive(log[b][n].store)) =>
              SinceIn(log[b], log[b][n], t, outcomes) = SinceIn(log'[b], log[b][n], t, outcomes)
<1> DEFINE e == log[b][n]
           In(x) == x.store = e.store /\ x.outcome \in outcomes /\ t <= x.at /\ x.at <= e.at
<1>1. /\ DOMAIN log[b] = 1..Len(log[b]) /\ DOMAIN log'[b] = 1..Len(log'[b])
      /\ Len(log[b]) \in Nat /\ Len(log'[b]) \in Nat /\ Len(log[b]) < Len(log'[b])
      /\ \A i \in DOMAIN log[b] : log'[b][i] = log[b][i]
  BY NewEntries DEF Checked
<1>2. DOMAIN log[b] \subseteq DOMAIN log'[b]
  BY <1>1
<1>3. \A i : i \in SinceIn(log[b], e, t, outcomes) <=> i \in DOMAIN log[b] /\ In(log[b][i])
  BY DEF SinceIn
<1>4. \A i : i \in SinceIn(log'[b], e, t, outcomes) <=> i \in DOMAIN log'[b] /\ In(log'[b][i])
  BY DEF SinceIn
<1>5. \A i \in DOMAIN log[b] : i \in SinceIn(log[b], e, t, outcomes) <=> i \in SinceIn(log'[b], e, t, outcomes)
  BY <1>1, <1>2, <1>3, <1>4
<1>6. ASSUME ~ (e.at = now /\ Alive(e.store)), NEW i \in DOMAIN log'[b], In(log'[b][i])
      PROVE  i \in DOMAIN log[b]
  <2> SUFFICES ASSUME i \notin DOMAIN log[b]
               PROVE  FALSE
    OBVIOUS
  <2>1. i \in (Len(log[b]) + 1)..Len(log'[b])
    BY <1>1
  <2>2. log'[b][i].at = now /\ log'[b][i].store \in {MemoryOf(p), Redis}
    BY <2>1, NewEntries
  <2>3. Alive(e.store)
    BY <1>6, <2>2 DEF Alive, Checked
  <2>4. e.at \in 0..now /\ now \in Nat
    BY DEF TypeOK
  <2>5. now <= e.at
    BY <1>6, <2>2
  <2> HIDE DEF e
  <2>6. e.at = now
    BY <2>4, <2>5
  <2> QED
    BY <1>6, <2>3, <2>6
<1> HIDE DEF e, In
<1>7. SinceIn(log[b], e, t, outcomes) \subseteq SinceIn(log'[b], e, t, outcomes)
  BY <1>3, <1>5
<1>8. ~ (e.at = now /\ Alive(e.store)) =>
        SinceIn(log[b], e, t, outcomes) = SinceIn(log'[b], e, t, outcomes)
  BY <1>4, <1>5, <1>6, <1>7
<1> QED
  BY <1>7, <1>8 DEF e

LEMMA HeldBoundsAdmittedNext == StoresInv' => CurrentLimits'
BY HeldBoundsAdmitted, PTL

\* Checks of one bucket say nothing of the others.
LEMMA OtherBucketsStay ==
  ASSUME NEW b \in Buckets, NEW n \in DOMAIN log[b], log'[b] = log[b], spread' = spread
  PROVE  /\ WithinLimit(b, log[b][n])' <=> WithinLimit(b, log[b][n])
         /\ Earned(b, log[b][n])' <=> Earned(b, log[b][n])
<1>1. \A t, outcomes : Since(b, log[b][n], t, outcomes)' = Since(b, log[b][n], t, outcomes)
  BY DEF Since
<1>2. \A S : Distinct(b, S)' = Distinct(b, S)
  BY DEF Distinct
<1> QED
  BY <1>1, <1>2 DEF WithinLimit, Earned

LEMMA CheckKeepsLimits ==
  ASSUME StoresInv, StoresInv', StoresKeepLimits, NEW p \in Procs, NEW b \in Buckets, Checked(p, b)
  PROVE  StoresKeepLimits'
<1> USE DEF StoresInv
<1>1. CurrentLimits'
  BY HeldBoundsAdmittedNext
<1>2. /\ DOMAIN log[b] = 1..Len(log[b]) /\ DOMAIN log'[b] = 1..Len(log'[b])
      /\ Len(log[b]) \in Nat /\ Len(log'[b]) \in Nat
      /\ \A i \in DOMAIN log[b] : i \in DOMAIN log'[b] /\ log'[b][i] = log[b][i]
      /\ now' = now /\ spread' = spread /\ backend' = backend /\ lives' = lives /\ backend[p] # "none"
      /\ \A c \in Buckets : c # b => log'[c] = log[c]
  BY NewEntries DEF Checked
<1>3. \A store : Alive(store)' <=> Alive(store)
  BY <1>2 DEF Alive, Redis, MemoryOf
<1>4. \A c \in Buckets : \A n \in DOMAIN log[c] : WithinLimit(c, log[c][n])
  BY DEF StoresKeepLimits, WithinLimit
<1>5. ASSUME NEW c \in Buckets, NEW n \in DOMAIN log'[c]
      PROVE  WithinLimit(c, log[c][n])'
  <2>1. CASE c # b
    BY <1>2, <1>4, <1>5, <2>1, OtherBucketsStay
  <2>2. CASE c = b /\ log'[b][n].at = now /\ Alive(log'[b][n].store)
    BY <1>1, <1>2, <1>3, <1>5, <2>2 DEF CurrentLimits
  <2>3. CASE c = b /\ n \in DOMAIN log[b] /\ ~ (log[b][n].at = now /\ Alive(log[b][n].store))
    <3>1. WithinLimit(b, log[b][n])
      BY <1>4, <2>3
    <3> DEFINE e == log[b][n]
               From(x) == IF x.store[1] = "redis" THEN x.at - Window(b) + spread + 1
                          ELSE x.at - Window(b)
    <3>2. From(e) \in Int
      <4>1. e.at \in Nat /\ Window(b) \in Nat /\ spread \in Nat
        <5>1. e.at \in 0..now
          BY <2>3 DEF TypeOK
        <5>2. now \in Nat /\ spread \in Nat
          BY LimiterAssumption DEF TypeOK
        <5> HIDE DEF e
        <5> QED
          BY <5>1, <5>2, LimitsArePositive, LimiterAssumption
      <4> QED
        BY <4>1
    <3>3. PICK t \in Int : t = From(e)
      BY <3>2
    <3>4. PICK S : S = Since(b, e, t, {"admitted"})
      OBVIOUS
    <3>5. Since(b, log[b][n], t, {"admitted"})' = S
      <4>1. TypeOK /\ LogShape /\ n \in DOMAIN log[b]
        BY <2>3
      <4>2. SinceIn(log[b], log[b][n], t, {"admitted"}) = SinceIn(log'[b], log[b][n], t, {"admitted"})
        BY <2>3, <4>1, EarlierWindowsStay
      <4>3. log'[b][n] = log[b][n]
        BY <1>2, <2>3
      <4> QED
        BY <3>4, <4>2, <4>3 DEF Since, SinceIn
    <3>6. \A i \in S : log'[b][i] = log[b][i]
      BY <1>2, <3>4 DEF Since
    <3>7. Distinct(b, S)' = Distinct(b, S)
      BY <3>6 DEF Distinct
    <3>8. log'[b][n] = e
      BY <1>2, <2>3
    <3>9. Cardinality(Distinct(b, S)) <= MaxEvents(b)
      BY <3>1, <3>3, <3>4 DEF WithinLimit
    <3>10. WithinLimit(b, log[b][n])'
      <4>1. From(log'[b][n]) = t /\ spread' = spread
        BY <1>2, <3>3, <3>8
      <4>2. Cardinality(Distinct(b, Since(b, log[b][n], t, {"admitted"})))' <= MaxEvents(b)
        BY <3>5, <3>7, <3>9 DEF Distinct
      <4> QED
        BY <4>1, <4>2 DEF WithinLimit
    <3> QED
      BY <2>3, <3>10
  <2>4. CASE c = b /\ n \notin DOMAIN log[b]
    <3>1. n \in (Len(log[b]) + 1)..Len(log'[b])
      BY <1>2, <1>5, <2>4
    <3>2. log'[b][n].at = now /\ log'[b][n].store \in {MemoryOf(p), Redis}
      BY <3>1, NewEntries
    <3> QED
      BY <1>2, <2>2, <2>4, <3>2 DEF Alive
  <2>5. n \in DOMAIN log[b] => log'[b][n] = log[b][n]
    BY <1>2
  <2> QED
    BY <2>1, <2>2, <2>3, <2>4, <2>5
<1> QED
  BY <1>5 DEF StoresKeepLimits, WithinLimit

\* A deque that refuses was full of events in the window.
LEMMA MemoryRefusalsAreEarned ==
  ASSUME StoresInv, StoresInv', NEW p \in Procs, NEW b \in Buckets, Checked(p, b),
         MemoryPart(p, b), log'[b][Len(log'[b])].outcome \in {"refused", "unheard"}
  PROVE  Cardinality(SinceIn(log'[b], log'[b][Len(log'[b])], now - Window(b), {"admitted", "lost"}))
           >= MaxEvents(b)
<1> USE DEF StoresInv
<1>1. PICK allowed \in BOOLEAN :
         /\ MemoryCheck(p, b, allowed)
         /\ log'[b][Len(log'[b])] = Entry(MemoryOf(p), None, OutcomeOf(allowed))
  BY DEF MemoryPart
<1> DEFINE e == log'[b][Len(log'[b])]
           from == now - Window(b)
           A == AdmittedIn(log'[b], MemoryOf(p), from)
           S == SinceIn(log'[b], e, from, {"admitted", "lost"})
<1>2. ~ allowed /\ e.at = now /\ e.store = MemoryOf(p)
  BY <1>1 DEF Entry, OutcomeOf
<1>3. /\ now \in Nat /\ Window(b) \in Nat /\ MaxEvents(b) \in Nat /\ log'[b] \in Seq(Entries)
      /\ from \in Int /\ from \in (now - Window(b))..now
      /\ now' = now /\ spread' = spread /\ skew' = skew /\ lives' = lives /\ backend'[p] # "none"
  <2>1. Window(b) \in Nat /\ MaxEvents(b) \in Nat
    BY LimitsArePositive
  <2>2. now \in Nat
    BY DEF TypeOK
  <2>3. /\ log'[b] \in Seq(Entries)
        /\ now' = now /\ spread' = spread /\ skew' = skew /\ lives' = lives /\ backend'[p] # "none"
    BY DEF Checked
  <2> QED
    BY <2>1, <2>2, <2>3
<1>4. Len(Trim(deques'[p][b], from + skew[p])) >= MaxEvents(b)
  <2>1. Len(Trim(deques'[p][b], from + skew[p])) = Len(Trim(deques[p][b], from + skew[p]))
    BY <1>1, <1>2, <1>3, MemoryChecks
  <2>2. Len(Trim(deques[p][b], now - Window(b) + skew[p])) >= MaxEvents(b)
    BY <1>1, <1>2, MemoryChecks
  <2> QED
    BY <2>1, <2>2
<1>5. Cardinality(A) = Len(Trim(deques'[p][b], from + skew[p]))
  <2>1. AdmittedFrom(b, MemoryOf(p), from)' = A
    BY <1>3 DEF AdmittedFrom, AdmittedIn, MemoryOf
  <2>2. Cardinality(AdmittedFrom(b, MemoryOf(p), from))' = Len(Trim(deques[p][b], from + skew[p]))'
    BY <1>3 DEF DequesCount
  <2> QED
    BY <1>3, <2>1, <2>2
<1>6. A \subseteq S
  <2>1. \A i \in DOMAIN log'[b] : log'[b][i].at \in 0..now'
    BY DEF TypeOK
  <2> QED
    BY <1>2, <1>3, <2>1 DEF AdmittedIn, SinceIn
<1>7. IsFiniteSet(S) /\ Cardinality(S) \in Nat /\ S \subseteq DOMAIN log'[b]
  BY <1>3, HistoriesAreFinite DEF SinceIn
<1>8. Cardinality(A) <= Cardinality(S) /\ Cardinality(A) \in Nat
  BY <1>6, <1>7, FS_Subset, FS_CardinalityType
<1> HIDE DEF A, S
<1>9. Cardinality(S) >= MaxEvents(b)
  BY <1>3, <1>4, <1>5, <1>7, <1>8
<1> QED
  BY <1>9 DEF S

\* So was the sorted set of Redis, as far as the clocks agree.
LEMMA RedisRefusalsAreEarned ==
  ASSUME StoresInv, StoresInv', NEW p \in Procs, NEW b \in Buckets, Checked(p, b),
         RedisPart(p, b), log'[b][Len(log[b]) + 1].outcome \in {"refused", "unheard"}
  PROVE  Cardinality(SinceIn(log'[b], log'[b][Len(log[b]) + 1], now - Window(b) - spread + 1,
                             {"admitted", "lost"}))
           >= MaxEvents(b)
<1> USE DEF StoresInv
<1>1. PICK nonce \in Nonces, ran \in BOOLEAN, outcome \in {"admitted", "refused", "lost", "unheard"} :
         /\ Script(p, b, <<Clock(p), nonce>>, ran)
         /\ ran <=> outcome \in {"admitted", "lost"}
         /\ log'[b][Len(log[b]) + 1] = Entry(Redis, <<Clock(p), nonce>>, outcome)
  BY DEF RedisPart
<1> DEFINE e == log'[b][Len(log[b]) + 1]
           from == now - Window(b) - spread + 1
           S == SinceIn(log'[b], e, from, {"admitted", "lost"})
           f == [i \in S |-> log'[b][i].member]
<1>2. ~ ran /\ e.at = now /\ e.store = Redis
  BY <1>1 DEF Entry
<1>3. /\ now \in Nat /\ Window(b) \in Nat /\ MaxEvents(b) \in Nat /\ spread \in Nat
      /\ skew[p] \in 0..spread /\ Clock(p) = now + skew[p]
      /\ log'[b] \in Seq(Entries) /\ now' = now /\ spread' = spread /\ Redis' = Redis
  BY LimitsArePositive, LimiterAssumption DEF TypeOK, Checked, Clock, Redis
<1>4. /\ Cardinality(redis'[b].members) >= MaxEvents(b)
      /\ \A m \in redis'[b].members : m[1] > Clock(p) - Window(b)
  BY <1>1, <1>2, ScriptDoes
<1>5. ASSUME NEW m \in redis'[b].members
      PROVE  \E i \in S : f[i] = m
  <2>1. PICK i \in DOMAIN log'[b] :
           /\ log'[b][i].store = Redis /\ log'[b][i].outcome \in {"admitted", "lost"}
           /\ log'[b][i].member = m
    BY <1>3 DEF MembersAreEvents
  <2>2. log'[b][i].at \in 0..now /\ m[1] <= log'[b][i].at + spread
    <3>1. log'[b][i].at \in 0..now'
      BY <2>1 DEF TypeOK
    <3>2. log'[b][i].store[1] = "redis"
      BY <2>1 DEF Redis
    <3>3. log'[b][i].member[1] <= log'[b][i].at + spread
      BY <1>3, <2>1, <3>2 DEF LogShape
    <3> QED
      BY <1>3, <2>1, <3>1, <3>3
  <2>3. m[1] \in Nat
    <3>1. redis'[b] \in [members : SUBSET (Nat \X Nonces), deadline : Nat]
      BY DEF LogShape
    <3>2. redis'[b].members \in SUBSET (Nat \X Nonces)
      BY <3>1
    <3>3. m \in Nat \X Nonces
      BY <3>2
    <3> QED
      BY <3>3
  <2>4. from <= log'[b][i].at /\ log'[b][i].at <= now
    <3>1. m[1] > now + skew[p] - Window(b)
      BY <1>3, <1>4
    <3>2. log'[b][i].at \in Nat /\ log'[b][i].at <= now
      BY <1>3, <2>2
    <3>3. m[1] <= log'[b][i].at + spread
      BY <2>2
    <3>4. now \in Int /\ spread \in Int /\ Window(b) \in Int /\ skew[p] \in Nat
      BY <1>3
    <3>5. from <= log'[b][i].at
      BY <2>3, <3>1, <3>2, <3>3, <3>4
    <3> QED
      BY <3>2, <3>5
  <2>5. i \in S
    BY <1>2, <2>1, <2>4 DEF SinceIn
  <2> QED
    BY <2>1, <2>5
<1>6. IsFiniteSet(S) /\ Cardinality(S) \in Nat
  BY <1>3, HistoriesAreFinite DEF SinceIn
<1> HIDE DEF S, f
<1>7. IsFiniteSet(redis'[b].members) /\ Cardinality(redis'[b].members) <= Cardinality(S)
  BY <1>5, <1>6, CoverIsLarger
<1>8. Cardinality(redis'[b].members) \in Nat
  BY <1>7, FS_CardinalityType
<1>9. Cardinality(S) >= MaxEvents(b)
  BY <1>3, <1>4, <1>6, <1>7, <1>8
<1> QED
  BY <1>9 DEF S

LEMMA CheckKeepsRefusals ==
  ASSUME StoresInv, StoresInv', RefusalsAreEarned, NEW p \in Procs, NEW b \in Buckets, Checked(p, b)
  PROVE  RefusalsAreEarned'
<1> USE DEF StoresInv
<1>1. /\ DOMAIN log[b] = 1..Len(log[b]) /\ DOMAIN log'[b] = 1..Len(log'[b])
      /\ Len(log[b]) \in Nat /\ Len(log'[b]) \in Nat /\ log'[b] \in Seq(Entries)
      /\ \A i \in DOMAIN log[b] : i \in DOMAIN log'[b] /\ log'[b][i] = log[b][i]
      /\ \A c \in Buckets : c # b => log'[c] = log[c]
      /\ now \in Nat /\ spread \in Nat /\ Window(b) \in Nat /\ MaxEvents(b) \in Nat
      /\ "redis" \notin Procs /\ spread' = spread
  <2>1. /\ DOMAIN log[b] = 1..Len(log[b]) /\ DOMAIN log'[b] = 1..Len(log'[b])
        /\ Len(log[b]) \in Nat /\ Len(log'[b]) \in Nat /\ Len(log[b]) < Len(log'[b])
    BY NewEntries
  <2>2. /\ log'[b] \in Seq(Entries) /\ \A i \in 1..Len(log[b]) : log'[b][i] = log[b][i]
        /\ \A c \in Buckets : c # b => log'[c] = log[c]
        /\ spread' = spread
    BY DEF Checked
  <2>3. now \in Nat /\ spread \in Nat
    BY LimiterAssumption DEF TypeOK
  <2>4. Window(b) \in Nat /\ MaxEvents(b) \in Nat /\ "redis" \notin Procs
    BY LimitsArePositive, LimiterAssumption
  <2> QED
    BY <2>1, <2>2, <2>3, <2>4
<1>2. \A c \in Buckets : \A n \in DOMAIN log[c] :
        log[c][n].outcome \in {"refused", "unheard"} => Earned(c, log[c][n])
  BY DEF RefusalsAreEarned, Earned
<1> DEFINE From(x) == IF x.store[1] = "redis" THEN x.at - Window(b) - spread + 1
                      ELSE x.at - Window(b)
           Proven(n) == Cardinality(SinceIn(log'[b], log'[b][n], From(log'[b][n]), {"admitted", "lost"}))
                          >= MaxEvents(b)
<1>3. ASSUME NEW n \in DOMAIN log[b], log[b][n].outcome \in {"refused", "unheard"}
      PROVE  Proven(n)
  <2> DEFINE e == log[b][n]
             S == SinceIn(log[b], e, From(e), {"admitted", "lost"})
             T == SinceIn(log'[b], e, From(e), {"admitted", "lost"})
  <2>1. Cardinality(S) >= MaxEvents(b)
    BY <1>2, <1>3 DEF Earned, Since, SinceIn
  <2>2. From(e) \in Int
    <3>1. e.at \in 0..now
      BY <1>3 DEF TypeOK
    <3> HIDE DEF e
    <3> QED
      BY <1>1, <3>1
  <2>3. S \subseteq T
    BY <2>2, EarlierWindowsStay
  <2>4. IsFiniteSet(T) /\ Cardinality(T) \in Nat
    BY <1>1, HistoriesAreFinite DEF SinceIn
  <2>5. Cardinality(S) <= Cardinality(T) /\ Cardinality(S) \in Nat
    BY <2>3, <2>4, FS_Subset, FS_CardinalityType
  <2> HIDE DEF S, T
  <2>6. Cardinality(T) >= MaxEvents(b)
    BY <1>1, <2>1, <2>4, <2>5
  <2>7. log'[b][n] = e
    BY <1>1
  <2> QED
    BY <2>6, <2>7 DEF T
<1>4. ASSUME NEW n \in (Len(log[b]) + 1)..Len(log'[b]), log'[b][n].outcome \in {"refused", "unheard"}
      PROVE  Proven(n)
  <2>1. CASE n = Len(log'[b]) /\ MemoryPart(p, b) /\ log'[b][n].at = now /\ log'[b][n].store = MemoryOf(p)
    <3>1. From(log'[b][n]) = now - Window(b)
      BY <1>1, <2>1 DEF MemoryOf
    <3> HIDE DEF From
    <3> QED
      BY <1>4, <2>1, <3>1, MemoryRefusalsAreEarned
  <2>2. CASE n = Len(log[b]) + 1 /\ RedisPart(p, b) /\ log'[b][n].at = now /\ log'[b][n].store = Redis
    <3>1. From(log'[b][n]) = now - Window(b) - spread + 1
      BY <1>1, <2>2 DEF Redis
    <3> HIDE DEF From
    <3> QED
      BY <1>4, <2>2, <3>1, RedisRefusalsAreEarned
  <2> QED
    BY <1>4, <2>1, <2>2, NewEntries
<1>5. ASSUME NEW c \in Buckets, NEW n \in DOMAIN log'[c], log'[c][n].outcome \in {"refused", "unheard"}
      PROVE  Earned(c, log[c][n])'
  <2>1. CASE c # b
    BY <1>1, <1>2, <1>5, <2>1, OtherBucketsStay
  <2>2. CASE c = b
    <3>1. n \in DOMAIN log[b] \/ n \in (Len(log[b]) + 1)..Len(log'[b])
      BY <1>1, <1>5, <2>2
    <3>2. Proven(n)
      BY <1>1, <1>3, <1>4, <1>5, <2>2, <3>1
    <3>3. Earned(b, log[b][n])'
      BY <1>1, <3>2 DEF Earned, Since, SinceIn
    <3> QED
      BY <2>2, <3>3
  <2> QED
    BY <2>1, <2>2
<1> QED
  BY <1>5 DEF RefusalsAreEarned, Earned

-----------------------------------------------------------------------------
(***************************************************************************)
(* Every step                                                              *)
(***************************************************************************)

LEMMA HistoriesAreTyped ==
  ASSUME NEW history \in Seq(Entries), NEW i \in DOMAIN history
  PROVE  history[i].store \in (Procs \cup {"redis"}) \X Nat
<1>1. history[i] \in Entries
  OBVIOUS
<1> QED
  BY <1>1 DEF Entries

LEMMA InitEstablishes == Init => LimiterInv
<1> SUFFICES ASSUME Init
             PROVE  LimiterInv
  OBVIOUS
<1> USE DEF Init
<1>1. \A b \in Buckets : Window(b) \in Nat /\ MaxEvents(b) \in Nat
  BY LimitsArePositive
<1>2. IsFiniteSet({}) /\ Cardinality({}) = 0
  BY FS_EmptySet
<1>3. <<>> \in Seq(Nat) /\ <<>> \in Seq(Entries) /\ Len(<<>>) = 0 /\ DOMAIN <<>> = {}
  OBVIOUS
<1>4. TypeOK
  <2>1. /\ deques \in [Procs -> [Buckets -> Seq(Nat)]]
        /\ \A b \in Buckets : /\ redis[b].members = {} /\ redis[b].deadline = 0
                              /\ \A p \in Procs : Len(deques[p][b]) <= MaxEvents(b)
    BY <1>1, <1>3 DEF NoKey
  <2>2. \A b \in Buckets : Cardinality(redis[b].members) <= MaxEvents(b)
    BY <1>1, <1>2, <2>1
  <2>3. \A b \in Buckets : \A i \in DOMAIN log[b] : log[b][i].at \in 0..now
    BY <1>3
  <2>4. /\ now \in Nat /\ spread \in 0..MaxSkew /\ skew \in [Procs -> 0..spread] /\ reachable \in BOOLEAN
        /\ backend \in [Procs -> {"none", "memory", "redis"}] /\ healthy \in [Procs -> BOOLEAN]
        /\ fetching \in [Procs -> Buckets \cup {None}] /\ lives \in [Procs \cup {"redis"} -> Nat]
    OBVIOUS
  <2>5. outages \in 0..MaxOutages /\ crashes \in 0..MaxCrashes
    BY LimiterAssumption
  <2> QED
    BY <2>1, <2>2, <2>3, <2>4, <2>5 DEF TypeOK
<1>5. LogShape
  BY <1>2, <1>3 DEF LogShape, NoKey
<1>6. DequesInOrder
  BY <1>3 DEF DequesInOrder
<1>7. DequesCount
  BY DEF DequesCount
<1>8. RedisHolds /\ MembersAreEvents
  BY <1>3 DEF RedisHolds, MembersAreEvents, NoKey
<1>9. StoresKeepLimits /\ RefusalsAreEarned
  BY <1>3 DEF StoresKeepLimits, RefusalsAreEarned
<1> QED
  BY <1>4, <1>5, <1>6, <1>7, <1>8, <1>9 DEF LimiterInv

\* A check, whatever way it goes, keeps the invariant; what its handler does
\* besides is to remember the second check of a fetch.
LEMMA CheckPreserves ==
  ASSUME LimiterInv, NEW p \in Procs, NEW b \in Buckets, NEW allowed \in BOOLEAN,
         Check(p, b, allowed), fetching' \in [Procs -> Buckets \cup {None}]
  PROVE  LimiterInv'
<1> USE DEF LimiterInv
<1>1. Checked(p, b)
  BY CheckIsChecked
<1>2. /\ healthy' \in [Procs -> BOOLEAN] /\ outages' \in 0..MaxOutages
      /\ crashes' = crashes /\ reachable' = reachable /\ lives' = lives
      /\ now' = now /\ spread' = spread /\ skew' = skew /\ backend' = backend
  <2>1. healthy \in [Procs -> BOOLEAN] /\ outages \in 0..MaxOutages /\ MaxOutages \in Nat
    BY LimiterAssumption DEF TypeOK
  <2>2. healthy' = healthy \/ healthy' = [healthy EXCEPT ![p] = FALSE]
    BY DEF Check, AskMemory, AskRedis, RedisFails, AnswerLost
  <2>3. outages' = outages \/ (outages < MaxOutages /\ outages' = outages + 1)
    BY DEF Check, AskMemory, AskRedis, RedisFails, AnswerLost
  <2>4. UNCHANGED <<now, spread, skew, backend, reachable, lives, crashes>>
    BY DEF Check, clocks
  <2>5. healthy' \in [Procs -> BOOLEAN]
    BY <2>1, <2>2
  <2>6. outages' \in 0..MaxOutages
    BY <2>1, <2>3
  <2> QED
    BY <2>4, <2>5, <2>6
<1>3. /\ LogShape'
      /\ \A c \in Buckets : /\ Cardinality(redis'[c].members) <= MaxEvents(c)
                            /\ \A i \in DOMAIN log'[c] : log'[c][i].at \in 0..now
  BY <1>1, CheckKeepsShape
<1>4. /\ deques' \in [Procs -> [Buckets -> Seq(Nat)]]
      /\ \A q \in Procs, c \in Buckets : Len(deques'[q][c]) <= MaxEvents(c)
      /\ DequesInOrder' /\ DequesCount'
  BY <1>1, CheckKeepsDeques
<1>5. RedisHolds' /\ MembersAreEvents'
  BY <1>1, CheckKeepsRedis
<1>6. \A c \in Buckets : redis'[c].members \subseteq Nat \X Nonces /\ redis'[c].deadline \in Nat
  <2>1. redis' \in [Buckets -> [members : SUBSET (Nat \X Nonces), deadline : Nat]]
    BY <1>3 DEF LogShape
  <2> QED
    BY <2>1
<1>7. TypeOK'
  <2>1. /\ now \in Nat /\ spread \in 0..MaxSkew /\ skew \in [Procs -> 0..spread]
        /\ backend \in [Procs -> {"none", "memory", "redis"}]
        /\ reachable \in BOOLEAN /\ lives \in [Procs \cup {"redis"} -> Nat]
        /\ crashes \in 0..MaxCrashes
    BY DEF TypeOK
  <2> QED
    BY <1>2, <1>3, <1>4, <1>6, <2>1 DEF TypeOK
<1>8. StoresInv /\ StoresInv'
  BY <1>3, <1>4, <1>5, <1>7 DEF StoresInv
<1>9. StoresKeepLimits' /\ RefusalsAreEarned'
  BY <1>1, <1>8, CheckKeepsLimits, CheckKeepsRefusals
<1> QED
  BY <1>3, <1>4, <1>5, <1>7, <1>9

LEMMA RequestsPreserve ==
  ASSUME LimiterInv, NEW p \in Procs,
         Upload(p) \/ Delete(p) \/ Info(p) \/ Fetch(p) \/ FetchFile(p)
  PROVE  LimiterInv'
<1>1. fetching \in [Procs -> Buckets \cup {None}]
  BY DEF LimiterInv, TypeOK
<1>2. CASE Upload(p)
  <2>1. PICK ip \in Ips, limit \in UploadLimits, allowed \in BOOLEAN :
           Check(p, PerIp(limit, ip), allowed)
    BY <1>2 DEF Upload
  <2>2. fetching' = fetching
    BY <1>2 DEF Upload
  <2> QED
    BY <1>1, <2>1, <2>2, HandlersNameBuckets, CheckPreserves
<1>3. CASE Delete(p)
  <2>1. PICK ip \in Ips, allowed \in BOOLEAN : Check(p, PerIp("delete_per_ip", ip), allowed)
    BY <1>3 DEF Delete
  <2>2. fetching' = fetching
    BY <1>3 DEF Delete
  <2> QED
    BY <1>1, <2>1, <2>2, HandlersNameBuckets, CheckPreserves
<1>4. CASE Info(p)
  <2>1. PICK ip \in Ips, allowed \in BOOLEAN : Check(p, PerIp("fetch_per_ip", ip), allowed)
    BY <1>4 DEF Info
  <2>2. fetching' = fetching
    BY <1>4 DEF Info
  <2> QED
    BY <1>1, <2>1, <2>2, HandlersNameBuckets, CheckPreserves
<1>5. CASE Fetch(p)
  <2>1. PICK ip \in Ips, file \in Files, allowed \in BOOLEAN :
           /\ Check(p, PerIp("fetch_per_ip", ip), allowed)
           /\ fetching' = [fetching EXCEPT ![p] = IF allowed THEN PerFile(file, ip) ELSE None]
    BY <1>5 DEF Fetch
  <2>2. PerFile(file, ip) \in Buckets /\ PerIp("fetch_per_ip", ip) \in Buckets
    BY HandlersNameBuckets
  <2>3. fetching' \in [Procs -> Buckets \cup {None}]
    BY <1>1, <2>1, <2>2
  <2> QED
    BY <2>1, <2>2, <2>3, CheckPreserves
<1>6. CASE FetchFile(p)
  <2>1. PICK allowed \in BOOLEAN : Check(p, fetching[p], allowed)
    BY <1>6 DEF FetchFile
  <2>2. fetching[p] \in Buckets
    BY <1>1, <1>6 DEF FetchFile
  <2>3. fetching' \in [Procs -> Buckets \cup {None}]
    BY <1>1, <1>6 DEF FetchFile
  <2> QED
    BY <2>1, <2>2, <2>3, CheckPreserves
<1> QED
  BY <1>2, <1>3, <1>4, <1>5, <1>6

\* The history says the same of the past as long as it does not change.
LEMMA SameHistory ==
  ASSUME StoresKeepLimits, RefusalsAreEarned, log' = log, spread' = spread
  PROVE  StoresKeepLimits' /\ RefusalsAreEarned'
<1>1. \A b \in Buckets : \A n \in DOMAIN log[b] :
        /\ WithinLimit(b, log[b][n])
        /\ log[b][n].outcome \in {"refused", "unheard"} => Earned(b, log[b][n])
  BY DEF StoresKeepLimits, RefusalsAreEarned, WithinLimit, Earned
<1>2. ASSUME NEW b \in Buckets, NEW n \in DOMAIN log'[b]
      PROVE  /\ WithinLimit(b, log[b][n])'
             /\ log'[b][n].outcome \in {"refused", "unheard"} => Earned(b, log[b][n])'
  BY <1>1, OtherBucketsStay
<1> QED
  BY <1>2 DEF StoresKeepLimits, RefusalsAreEarned, WithinLimit, Earned

\* A process that starts has empty deques and no history in this life.
LEMMA StartPreserves ==
  ASSUME LimiterInv, NEW p \in Procs, Start(p)
  PROVE  LimiterInv'
<1> USE DEF LimiterInv
<1>1. /\ UNCHANGED <<now, spread, skew, healthy, deques, redis, reachable, fetching, outages, crashes, log>>
      /\ backend[p] = "none"
      /\ backend' = [backend EXCEPT ![p] = IF RedisUrl /\ reachable THEN "redis" ELSE "memory"]
      /\ lives' = [lives EXCEPT ![p] = @ + 1]
  BY DEF Start, clocks
<1>2. /\ lives \in [Procs \cup {"redis"} -> Nat] /\ "redis" \notin Procs /\ now \in Nat
      /\ backend \in [Procs -> {"none", "memory", "redis"}] /\ skew \in [Procs -> 0..spread]
      /\ spread \in Nat
  BY LimiterAssumption DEF TypeOK
<1>3. /\ Redis' = Redis /\ MemoryOf(p)' = <<p, lives[p] + 1>>
      /\ \A q \in Procs : q # p => MemoryOf(q)' = MemoryOf(q) /\ backend'[q] = backend[q]
      /\ \A q \in Procs : Clock(q)' = Clock(q)
      /\ \A x \in Procs \cup {"redis"} : lives'[x] >= lives[x] /\ lives'[x] \in Nat /\ lives[x] \in Nat
  BY <1>1, <1>2 DEF Redis, MemoryOf, Clock
<1>4. TypeOK'
  BY <1>1, <1>2 DEF TypeOK
<1>5. LogShape'
  <2>1. \A b \in Buckets : log[b] \in Seq(Entries)
    BY DEF LogShape
  <2>2. \A b \in Buckets : \A i \in DOMAIN log[b] :
          log[b][i].store \in (Procs \cup {"redis"}) \X Nat
    BY <2>1, HistoriesAreTyped
  <2>3. \A b \in Buckets : \A i \in DOMAIN log[b] :
          log[b][i].store[2] <= lives'[log[b][i].store[1]]
    <3> TAKE b \in Buckets
    <3> TAKE i \in DOMAIN log[b]
    <3>1. PICK x \in Procs \cup {"redis"}, l \in Nat : log[b][i].store = <<x, l>>
      BY <2>2
    <3>2. l <= lives[x]
      BY <3>1 DEF LogShape
    <3>3. l <= lives'[x]
      BY <1>3, <3>2
    <3> QED
      BY <3>1, <3>3
  <2> QED
    BY <1>1, <2>3 DEF LogShape
<1>6. DequesInOrder'
  BY <1>1, <1>3 DEF DequesInOrder
<1>7. DequesCount'
  <2> SUFFICES ASSUME NEW q \in Procs, NEW b \in Buckets, NEW t \in (now - Window(b))..now,
                      backend'[q] # "none"
               PROVE  Cardinality(AdmittedIn(log[b], MemoryOf(q)', t)) =
                        Len(Trim(deques[q][b], t + skew[q]))
    BY <1>1 DEF DequesCount, AdmittedFrom, AdmittedIn
  <2>1. CASE q # p
    BY <1>1, <1>3, <2>1 DEF DequesCount, AdmittedFrom, AdmittedIn
  <2>2. CASE q = p
    <3>1. deques[p][b] = <<>>
      BY <1>1 DEF DequesInOrder
    <3>2. Trim(<<>>, t + skew[p]) = <<>>
      BY DEF Trim, Fresh
    <3>3. AdmittedIn(log[b], <<p, lives[p] + 1>>, t) = {}
      <4> SUFFICES ASSUME NEW i \in DOMAIN log[b], log[b][i].store = <<p, lives[p] + 1>>
                   PROVE  FALSE
        BY DEF AdmittedIn
      <4>1. log[b][i].store[2] <= lives[log[b][i].store[1]]
        BY DEF LogShape
      <4>2. lives[p] + 1 <= lives[p] /\ lives[p] \in Nat
        BY <1>2, <4>1
      <4> QED
        BY <4>2
    <3> QED
      <4>1. Cardinality({}) = 0 /\ Len(<<>>) = 0
        BY FS_EmptySet
      <4> QED
        BY <1>3, <2>2, <3>1, <3>2, <3>3, <4>1
  <2> QED
    BY <2>1, <2>2
<1>8. RedisHolds' /\ MembersAreEvents'
  BY <1>1, <1>3 DEF RedisHolds, MembersAreEvents
<1> QED
  BY <1>1, <1>4, <1>5, <1>6, <1>7, <1>8, SameHistory

\* With a process its deques are gone.
LEMMA CrashPreserves ==
  ASSUME LimiterInv, NEW p \in Procs, Crash(p)
  PROVE  LimiterInv'
<1> USE DEF LimiterInv
<1>1. /\ UNCHANGED <<now, spread, skew, redis, reachable, lives, outages, log>>
      /\ crashes < MaxCrashes /\ crashes' = crashes + 1
      /\ backend' = [backend EXCEPT ![p] = "none"]
      /\ healthy' = [healthy EXCEPT ![p] = TRUE]
      /\ deques' = [deques EXCEPT ![p] = [b \in Buckets |-> <<>>]]
      /\ fetching' = [fetching EXCEPT ![p] = None]
  BY DEF Crash, clocks
<1>2. /\ backend \in [Procs -> {"none", "memory", "redis"}] /\ healthy \in [Procs -> BOOLEAN]
      /\ deques \in [Procs -> [Buckets -> Seq(Nat)]] /\ fetching \in [Procs -> Buckets \cup {None}]
      /\ crashes \in 0..MaxCrashes /\ MaxCrashes \in Nat
      /\ \A b \in Buckets : MaxEvents(b) \in Nat
      /\ \A q \in Procs, b \in Buckets : Len(deques[q][b]) <= MaxEvents(b)
  BY LimitsArePositive, LimiterAssumption DEF TypeOK
<1>3. /\ backend'[p] = "none" /\ \A b \in Buckets : deques'[p][b] = <<>>
      /\ \A q \in Procs : q # p => backend'[q] = backend[q] /\ deques'[q] = deques[q]
      /\ \A q \in Procs : MemoryOf(q)' = MemoryOf(q) /\ Clock(q)' = Clock(q)
      /\ Redis' = Redis
  BY <1>1, <1>2 DEF MemoryOf, Clock, Redis
<1>4. /\ backend' \in [Procs -> {"none", "memory", "redis"}] /\ healthy' \in [Procs -> BOOLEAN]
      /\ deques' \in [Procs -> [Buckets -> Seq(Nat)]] /\ fetching' \in [Procs -> Buckets \cup {None}]
      /\ crashes' \in 0..MaxCrashes
      /\ \A q \in Procs, b \in Buckets : Len(deques'[q][b]) <= MaxEvents(b)
  <2>1. [b \in Buckets |-> <<>>] \in [Buckets -> Seq(Nat)] /\ Len(<<>>) = 0
    OBVIOUS
  <2>2. deques' \in [Procs -> [Buckets -> Seq(Nat)]]
    BY <1>1, <1>2, <2>1
  <2>3. \A q \in Procs, b \in Buckets : Len(deques'[q][b]) <= MaxEvents(b)
    <3> TAKE q \in Procs, b \in Buckets
    <3>1. CASE q = p
      BY <1>2, <1>3, <2>1, <3>1
    <3>2. CASE q # p
      BY <1>2, <1>3, <3>2
    <3> QED
      BY <3>1, <3>2
  <2>4. crashes' \in 0..MaxCrashes
    BY <1>1, <1>2
  <2> QED
    BY <1>1, <1>2, <2>2, <2>3, <2>4
<1>5. TypeOK'
  BY <1>1, <1>4 DEF TypeOK
<1>6. LogShape'
  BY <1>1 DEF LogShape
<1>7. DequesInOrder'
  BY <1>1, <1>3 DEF DequesInOrder
<1>8. DequesCount'
  BY <1>1, <1>3 DEF DequesCount, AdmittedFrom
<1>9. RedisHolds' /\ MembersAreEvents'
  BY <1>1, <1>3 DEF RedisHolds, MembersAreEvents
<1> QED
  BY <1>1, <1>5, <1>6, <1>7, <1>8, <1>9, SameHistory

\* Redis comes back with everything or, in a new life, with nothing.
LEMMA RecoverPreserves ==
  ASSUME LimiterInv, Recover
  PROVE  LimiterInv'
<1> USE DEF LimiterInv
<1>1. /\ UNCHANGED <<now, spread, skew, backend, healthy, deques, fetching, outages, crashes, log>>
      /\ reachable' = TRUE
  BY DEF Recover, clocks
<1>2. CASE UNCHANGED <<redis, lives>>
  <2>1. \A q \in Procs : MemoryOf(q)' = MemoryOf(q) /\ Clock(q)' = Clock(q)
    BY <1>1, <1>2 DEF MemoryOf, Clock
  <2>2. Redis' = Redis
    BY <1>2 DEF Redis
  <2>3. TypeOK'
    BY <1>1, <1>2 DEF TypeOK
  <2>4. LogShape' /\ DequesInOrder'
    BY <1>1, <1>2, <2>1 DEF LogShape, DequesInOrder
  <2>5. DequesCount'
    BY <1>1, <2>1 DEF DequesCount, AdmittedFrom
  <2>6. RedisHolds' /\ MembersAreEvents'
    BY <1>1, <1>2, <2>2 DEF RedisHolds, MembersAreEvents
  <2> QED
    BY <1>1, <2>3, <2>4, <2>5, <2>6, SameHistory
<1>3. CASE /\ redis' = [b \in Buckets |-> NoKey]
           /\ lives' = [lives EXCEPT !["redis"] = @ + 1]
  <2>1. /\ lives \in [Procs \cup {"redis"} -> Nat] /\ "redis" \notin Procs /\ now \in Nat
        /\ \A b \in Buckets : MaxEvents(b) \in Nat
    BY LimitsArePositive, LimiterAssumption DEF TypeOK
  <2>2. /\ \A q \in Procs : MemoryOf(q)' = MemoryOf(q) /\ Clock(q)' = Clock(q)
        /\ Redis' = <<"redis", lives["redis"] + 1>>
        /\ lives' \in [Procs \cup {"redis"} -> Nat]
        /\ \A x \in Procs \cup {"redis"} : lives'[x] >= lives[x] /\ lives'[x] \in Nat /\ lives[x] \in Nat
    BY <1>1, <1>3, <2>1 DEF MemoryOf, Clock, Redis
  <2>3. /\ redis' \in [Buckets -> [members : SUBSET (Nat \X Nonces), deadline : Nat]]
        /\ \A b \in Buckets : redis'[b].members = {} /\ redis'[b].deadline = 0
    BY <1>3 DEF NoKey
  <2>4. IsFiniteSet({}) /\ Cardinality({}) = 0
    BY FS_EmptySet
  <2>5. TypeOK'
    <3>1. \A b \in Buckets : /\ redis'[b].members \subseteq Nat \X Nonces /\ redis'[b].deadline \in Nat
                             /\ Cardinality(redis'[b].members) <= MaxEvents(b)
      <4> TAKE b \in Buckets
      <4>1. redis'[b].members = {} /\ redis'[b].deadline = 0
        BY <2>3
      <4>2. Cardinality(redis'[b].members) = 0
        BY <2>4, <4>1
      <4> QED
        BY <2>1, <4>1, <4>2
    <3>2. lives' \in [Procs \cup {"redis"} -> Nat] /\ reachable' \in BOOLEAN
      BY <1>1, <2>2
    <3> QED
      BY <1>1, <3>1, <3>2 DEF TypeOK
  <2>6. \A b \in Buckets : \A i \in DOMAIN log[b] :
          /\ log[b][i].store[2] <= lives'[log[b][i].store[1]]
          /\ log[b][i].store # Redis'
    <3> TAKE b \in Buckets
    <3> TAKE i \in DOMAIN log[b]
    <3>1. log[b] \in Seq(Entries)
      BY DEF LogShape
    <3>2. PICK x \in Procs \cup {"redis"}, l \in Nat : log[b][i].store = <<x, l>>
      <4>1. log[b][i].store \in (Procs \cup {"redis"}) \X Nat
        BY <3>1, HistoriesAreTyped
      <4> QED
        BY <4>1
    <3>3. l <= lives[x]
      BY <3>2 DEF LogShape
    <3>4. l <= lives'[x]
      BY <2>2, <3>3
    <3>5. log[b][i].store # <<"redis", lives["redis"] + 1>>
      BY <2>1, <3>2, <3>3
    <3> QED
      BY <2>2, <3>2, <3>4, <3>5
  <2>7. LogShape'
    BY <1>1, <2>3, <2>4, <2>6 DEF LogShape
  <2>8. DequesInOrder'
    BY <1>1, <2>2 DEF DequesInOrder
  <2>9. DequesCount'
    BY <1>1, <2>2 DEF DequesCount, AdmittedFrom
  <2>10. RedisHolds' /\ MembersAreEvents'
    BY <1>1, <2>3, <2>6 DEF RedisHolds, MembersAreEvents
  <2> QED
    BY <1>1, <2>5, <2>7, <2>8, <2>9, <2>10, SameHistory
<1> QED
  BY <1>2, <1>3 DEF Recover

\* Time passes: what was in the window of every process may leave it, and
\* nothing enters.
LEMMA TickPreserves ==
  ASSUME LimiterInv, Tick
  PROVE  LimiterInv'
<1> USE DEF LimiterInv
<1>1. /\ UNCHANGED <<spread, skew, backend, healthy, deques, redis, reachable, fetching, lives,
                     outages, crashes, log>>
      /\ now' = now + 1
  BY DEF Tick
<1>2. /\ now \in Nat /\ spread \in Nat /\ skew \in [Procs -> 0..spread]
      /\ \A b \in Buckets : Window(b) \in Nat
      /\ \A b \in Buckets : \A i \in DOMAIN log[b] : log[b][i].at \in 0..now
      /\ deques \in [Procs -> [Buckets -> Seq(Nat)]]
  BY LimitsArePositive, LimiterAssumption DEF TypeOK
<1>3. /\ \A q \in Procs : MemoryOf(q)' = MemoryOf(q) /\ Clock(q)' = Clock(q) + 1 /\ Clock(q) \in Nat
      /\ \A q \in Procs : Clock(q) = now + skew[q] /\ skew[q] \in Nat
      /\ Redis' = Redis
  <2>1. \A q \in Procs : skew[q] \in Nat
    BY <1>2
  <2>2. Redis' = Redis /\ \A q \in Procs : MemoryOf(q)' = MemoryOf(q)
    BY <1>1 DEF MemoryOf, Redis
  <2>3. \A q \in Procs : Clock(q) = now + skew[q] /\ Clock(q)' = now + 1 + skew[q]
    BY <1>1 DEF Clock
  <2>4. \A q \in Procs : Clock(q)' = Clock(q) + 1 /\ Clock(q) \in Nat
    BY <1>2, <2>1, <2>3
  <2> QED
    BY <2>1, <2>2, <2>3, <2>4
<1>4. TypeOK'
  <2>1. now' \in Nat /\ \A b \in Buckets : \A i \in DOMAIN log[b] : log[b][i].at \in 0..now'
    BY <1>1, <1>2
  <2> QED
    BY <1>1, <2>1 DEF TypeOK
<1>5. LogShape'
  BY <1>1 DEF LogShape
<1>6. DequesInOrder'
  <2>1. \A q \in Procs, b \in Buckets : \A i \in DOMAIN deques[q][b] : deques[q][b][i] <= Clock(q) + 1
    <3> SUFFICES ASSUME NEW q \in Procs, NEW b \in Buckets, NEW i \in DOMAIN deques[q][b]
                 PROVE  deques[q][b][i] <= Clock(q) + 1
      OBVIOUS
    <3>1. deques[q][b][i] <= Clock(q) /\ deques[q][b] \in Seq(Nat)
      BY <1>2 DEF DequesInOrder
    <3>2. deques[q][b][i] \in Nat
      BY <3>1
    <3> QED
      BY <1>3, <3>1, <3>2
  <2> QED
    BY <1>1, <1>3, <2>1 DEF DequesInOrder
<1>7. DequesCount'
  <2> SUFFICES ASSUME NEW q \in Procs, NEW b \in Buckets, NEW t \in (now' - Window(b))..now',
                      backend[q] # "none"
               PROVE  Cardinality(AdmittedFrom(b, MemoryOf(q), t)) = Len(Trim(deques[q][b], t + skew[q]))
    BY <1>1, <1>3 DEF DequesCount, AdmittedFrom
  <2>1. CASE t <= now
    <3>1. t \in (now - Window(b))..now
      BY <1>1, <1>2, <2>1
    <3> QED
      BY <3>1 DEF DequesCount
  <2>2. CASE t = now + 1
    <3>1. AdmittedFrom(b, MemoryOf(q), t) = {}
      BY <1>2, <2>2 DEF AdmittedFrom
    <3>2. \A i \in DOMAIN deques[q][b] : deques[q][b][i] < t + skew[q]
      <4> TAKE i \in DOMAIN deques[q][b]
      <4>1. deques[q][b][i] <= Clock(q) /\ deques[q][b] \in Seq(Nat)
        BY <1>2 DEF DequesInOrder
      <4>2. deques[q][b][i] \in Nat
        BY <4>1
      <4> QED
        BY <1>2, <1>3, <2>2, <4>1, <4>2
    <3>3. deques[q][b] \in Seq(Nat) /\ t + skew[q] \in Int
      BY <1>2, <1>3, <2>2
    <3>4. Trim(deques[q][b], t + skew[q]) = <<>>
      BY <3>2, <3>3, TrimAll
    <3>5. Len(<<>>) = 0
      OBVIOUS
    <3> QED
      BY <3>1, <3>4, <3>5, FS_EmptySet
  <2>3. t <= now \/ t = now + 1
    BY <1>1, <1>2
  <2> QED
    BY <2>1, <2>2, <2>3
<1>8. RedisHolds'
  <2> SUFFICES ASSUME NEW b \in Buckets, NEW i \in DOMAIN log[b],
                      log[b][i].store = Redis, log[b][i].outcome \in {"admitted", "lost"},
                      log[b][i].at > now' - Window(b) + spread
               PROVE  /\ log[b][i].member \in redis[b].members
                      /\ redis[b].deadline >= log[b][i].at + Window(b) + Slack
    BY <1>1, <1>3 DEF RedisHolds
  <2>1. log[b][i].at > now - Window(b) + spread
    BY <1>1, <1>2
  <2> QED
    BY <2>1 DEF RedisHolds
<1>9. MembersAreEvents'
  BY <1>1, <1>3 DEF MembersAreEvents
<1> QED
  BY <1>1, <1>4, <1>5, <1>6, <1>7, <1>8, <1>9, SameHistory

LEMMA OutagePreserves ==
  ASSUME LimiterInv, Outage \/ UNCHANGED vars
  PROVE  LimiterInv'
<1> USE DEF LimiterInv
<1>1. /\ UNCHANGED <<now, spread, skew, backend, healthy, deques, redis, fetching, lives, crashes, log>>
      /\ reachable' \in BOOLEAN /\ outages' \in 0..MaxOutages
  <2>1. outages \in 0..MaxOutages /\ MaxOutages \in Nat /\ reachable \in BOOLEAN
    BY LimiterAssumption DEF TypeOK
  <2>2. CASE Outage
    <3>1. outages < MaxOutages /\ outages' = outages + 1 /\ reachable' = FALSE
      BY <2>2 DEF Outage
    <3>2. outages' \in 0..MaxOutages
      BY <2>1, <3>1
    <3> QED
      BY <2>2, <3>1, <3>2 DEF Outage, clocks
  <2>3. CASE UNCHANGED vars
    BY <2>1, <2>3 DEF vars, clocks
  <2> QED
    BY <2>2, <2>3
<1>2. /\ \A q \in Procs : MemoryOf(q)' = MemoryOf(q) /\ Clock(q)' = Clock(q)
      /\ Redis' = Redis
  BY <1>1 DEF MemoryOf, Clock, Redis
<1>3. TypeOK'
  BY <1>1 DEF TypeOK
<1>4. LogShape' /\ DequesInOrder'
  BY <1>1, <1>2 DEF LogShape, DequesInOrder
<1>5. DequesCount'
  BY <1>1, <1>2 DEF DequesCount, AdmittedFrom
<1>6. RedisHolds' /\ MembersAreEvents'
  BY <1>1, <1>2 DEF RedisHolds, MembersAreEvents
<1> QED
  BY <1>1, <1>3, <1>4, <1>5, <1>6, SameHistory

-----------------------------------------------------------------------------
\* What the stores hold agrees with what they have admitted, always, and with
\* it the two promises of the limiter hold.
THEOREM LimiterInvariance == Spec => []LimiterInv
<1>1. LimiterInv /\ [Next]_vars => LimiterInv'
  BY RequestsPreserve, StartPreserves, CrashPreserves, RecoverPreserves, TickPreserves,
     OutagePreserves DEF Next
<1> QED
  BY <1>1, InitEstablishes, PTL DEF Spec

\* The limiter's variables keep their types, and no deque and no sorted set
\* grows beyond max_events of its limit.
THEOREM LimiterTypes == Spec => []TypeOK
<1>1. LimiterInv => TypeOK
  BY DEF LimiterInv
<1> QED
  BY <1>1, LimiterInvariance, PTL

\* For every number of processes, crashes, outages and lost answers (ratelimit.py:6-8
\* and 13-15): a deque admits at most max_events of a bucket in every closed
\* window of its process.  Redis does in every half-open window if the clocks
\* agree; if they do not, only in windows that are shorter by their spread (of a
\* spread as long as the window nothing is said), and events that share
\* millisecond and nonce are counted as one.
THEOREM LimitsAreKept == Spec => []StoresKeepLimits
<1>1. LimiterInv => StoresKeepLimits
  BY DEF LimiterInv
<1> QED
  BY <1>1, LimiterInvariance, PTL

\* Nobody is refused for events that are over: in memory those of a closed
\* window, by the script those of a half-open one that is longer by the spread
\* of the clocks.
THEOREM RefusalsAreAlwaysEarned == Spec => []RefusalsAreEarned
<1>1. LimiterInv => RefusalsAreEarned
  BY DEF LimiterInv
<1> QED
  BY <1>1, LimiterInvariance, PTL

=============================================================================
