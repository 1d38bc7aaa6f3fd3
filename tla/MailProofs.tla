----------------------------- MODULE MailProofs -----------------------------
(***************************************************************************)
(* What is kept for somebody who is not there, for every number of peers,    *)
(* messages and items and every cap, age and quota.  The outbox: its queues  *)
(* stay ordered and within their cap, retries are as late as their backoffs  *)
(* add up to, and no message leaves a queue without the caller being told    *)
(* why.  The mailbox: its shelf stays within every quota, a restart brings   *)
(* back the mail still in date, and favourites are not crowded out.          *)
(***************************************************************************)
EXTENDS Outbox, Mailbox, FiniteSetTheorems, SequenceTheorems, WellFoundedInduction, TLAPS

\* A set of naturals that is not empty has a least member.
LEMMA Least ==
  ASSUME NEW T \in SUBSET Nat, T # {}
  PROVE \E x \in T : \A y \in T : x <= y
<1> DEFINE R == OpToRel(<, Nat)
<1>1. IsWellFoundedOn(R, Nat)
  BY NatLessThanWellFounded
<1>2. \A x, y \in Nat : x < y => <<x, y>> \in R
  BY DEF OpToRel
<1> HIDE DEF R
<1>3. \E x \in T : \A y \in T : ~ (<<y, x>> \in R)
  BY <1>1, WFMin
<1>4. PICK x \in T : \A y \in T : ~ (<<y, x>> \in R)
  BY <1>3
<1>5. \A y \in T : ~ (y < x)
  BY <1>2, <1>4
<1>6. \A y \in T : x <= y
  BY <1>5
<1> QED BY <1>6

\* Induction over the naturals, on the set of those that have the property.
LEMMA AllNaturals ==
  ASSUME NEW T \in SUBSET Nat, 0 \in T, \A n \in T : n + 1 \in T
  PROVE  T = Nat
<1> SUFFICES ASSUME Nat \ T # {} PROVE FALSE
  OBVIOUS
<1>1. PICK x \in Nat \ T : \A y \in Nat \ T : x <= y
  BY Least
<1>2. x # 0 /\ x - 1 \in Nat /\ x - 1 \in T
  BY <1>1
<1> QED BY <1>2

\* A function can be defined by recursion on the naturals.
LEMMA Recursion ==
  ASSUME NEW a \in Nat, NEW G \in [Nat \X Nat -> Nat]
  PROVE  \E f \in [Nat -> Nat] : f[0] = a /\ \A n \in Nat : f[n + 1] = G[<<n, f[n]>>]
<1> DEFINE Approx(n) == {g \in [0 .. n -> Nat] :
                           g[0] = a /\ \A i \in 0 .. n - 1 : g[i + 1] = G[<<i, g[i]>>]}
<1>1. \A n \in Nat : Approx(n) # {}
  <2> DEFINE T == {n \in Nat : Approx(n) # {}}
  <2>1. 0 \in T
    <3>1. [i \in 0 .. 0 |-> a] \in Approx(0)
      OBVIOUS
    <3>2. QED BY <3>1
  <2>2. ASSUME NEW n \in T PROVE n + 1 \in T
    <3>1. PICK g \in Approx(n) : TRUE
      OBVIOUS
    <3> DEFINE h == [i \in 0 .. n + 1 |-> IF i = n + 1 THEN G[<<n, g[n]>>] ELSE g[i]]
    <3>2. h \in [0 .. n + 1 -> Nat]
      <4> SUFFICES ASSUME NEW i \in 0 .. n + 1 PROVE h[i] \in Nat
        OBVIOUS
      <4>1. CASE i = n + 1
        BY <4>1
      <4>2. CASE i # n + 1
        <5>1. i \in 0 .. n
          BY <4>2
        <5>2. QED BY <4>2, <5>1
      <4>3. QED BY <4>1, <4>2
    <3>3. h[0] = a
      OBVIOUS
    <3>4. ASSUME NEW i \in 0 .. n PROVE h[i + 1] = G[<<i, h[i]>>]
      <4>1. i + 1 \in 0 .. n + 1 /\ i \in 0 .. n + 1 /\ h[i] = g[i]
        OBVIOUS
      <4>2. CASE i = n
        BY <4>1, <4>2
      <4>3. CASE i # n
        <5>1. i \in 0 .. n - 1 /\ h[i + 1] = g[i + 1]
          BY <4>1, <4>3
        <5>2. g[i + 1] = G[<<i, g[i]>>]
          BY <5>1
        <5>3. QED BY <5>1, <5>2, <4>1
      <4>4. QED BY <4>2, <4>3
    <3>5. (n + 1) - 1 = n
      OBVIOUS
    <3> HIDE DEF h
    <3>6. h \in Approx(n + 1)
      <4>1. \A i \in 0 .. (n + 1) - 1 : h[i + 1] = G[<<i, h[i]>>]
        BY <3>4, <3>5
      <4>2. QED BY <3>2, <3>3, <4>1
    <3>7. n + 1 \in Nat
      OBVIOUS
    <3> HIDE DEF Approx
    <3>8. QED BY <3>6, <3>7
  <2> HIDE DEF T
  <2>3. T = Nat
    <3>1. T \in SUBSET Nat
      BY DEF T
    <3>2. QED BY <2>1, <2>2, <3>1, AllNaturals
  <2>4. QED BY <2>3 DEF T
<1>0. ASSUME NEW n \in Nat, NEW g \in Approx(n)
      PROVE  g \in [0 .. n -> Nat] /\ g[0] = a /\ \A i \in 0 .. n - 1 : g[i + 1] = G[<<i, g[i]>>]
  OBVIOUS
<1> HIDE DEF Approx
<1>2. \A i \in Nat : \A n, m \in Nat : i <= n /\ i <= m =>
        \A g \in Approx(n), h \in Approx(m) : g[i] = h[i]
  <2> DEFINE T == {i \in Nat : \A n, m \in Nat : i <= n /\ i <= m =>
                     \A g \in Approx(n), h \in Approx(m) : g[i] = h[i]}
  <2>1. 0 \in T
    BY <1>0
  <2>2. ASSUME NEW i \in T PROVE i + 1 \in T
    <3> SUFFICES ASSUME NEW n \in Nat, NEW m \in Nat, i + 1 <= n, i + 1 <= m,
                        NEW g \in Approx(n), NEW h \in Approx(m)
                 PROVE  g[i + 1] = h[i + 1]
      OBVIOUS
    <3>1. g[i] = h[i]
      OBVIOUS
    <3>2. i \in 0 .. n - 1 /\ i \in 0 .. m - 1
      OBVIOUS
    <3>3. g[i + 1] = G[<<i, g[i]>>] /\ h[i + 1] = G[<<i, h[i]>>]
      BY <3>2, <1>0
    <3>4. QED BY <3>1, <3>3
  <2> HIDE DEF T
  <2>3. T = Nat
    <3>1. T \in SUBSET Nat
      BY DEF T
    <3>2. QED BY <2>1, <2>2, <3>1, AllNaturals
  <2>4. QED BY <2>3 DEF T
<1> DEFINE f == [n \in Nat |-> (CHOOSE g \in Approx(n) : TRUE)[n]]
<1>3. \A n \in Nat : (CHOOSE g \in Approx(n) : TRUE) \in Approx(n)
  BY <1>1
<1>4. ASSUME NEW n \in Nat, NEW m \in Nat, n <= m, NEW g \in Approx(m) PROVE f[n] = g[n]
  <2>1. f[n] = (CHOOSE h \in Approx(n) : TRUE)[n]
    OBVIOUS
  <2>2. n <= n
    OBVIOUS
  <2> DEFINE c == CHOOSE h \in Approx(n) : TRUE
  <2>3. c \in Approx(n)
    BY <1>3
  <2> HIDE DEF c, f
  <2>4. c[n] = g[n]
    <3>1. \A x \in Approx(n), y \in Approx(m) : x[n] = y[n]
      BY <1>2, <2>2, <1>4
    <3>2. QED BY <2>3, <3>1
  <2>5. f[n] = c[n]
    BY <2>1 DEF c
  <2>6. QED BY <2>4, <2>5
<1>5. f \in [Nat -> Nat]
  <2>1. ASSUME NEW n \in Nat PROVE f[n] \in Nat
    BY <1>0, <1>3
  <2>2. QED BY <2>1
<1> HIDE DEF f
<1>6. f[0] = a
  <2>1. PICK g \in Approx(0) : TRUE
    BY <1>1
  <2>2. QED BY <1>0, <1>4, <2>1
<1>7. ASSUME NEW n \in Nat PROVE f[n + 1] = G[<<n, f[n]>>]
  <2>1. PICK g \in Approx(n + 1) : TRUE
    BY <1>1
  <2>2. f[n + 1] = g[n + 1] /\ f[n] = g[n]
    BY <1>4, <2>1
  <2>3. n + 1 \in Nat /\ n \in 0 .. (n + 1) - 1
    OBVIOUS
  <2>4. g[n + 1] = G[<<n, g[n]>>]
    BY <1>0, <2>1, <2>3
  <2>5. QED BY <2>2, <2>4
<1>8. QED BY <1>5, <1>6, <1>7

\* What Vec::retain leaves is a subsequence: the kept elements, all of them, in their order.
LEMMA RetainOrdered ==
  ASSUME NEW S, NEW q \in Seq(S), NEW kept \in SUBSET (1 .. Len(q))
  PROVE  /\ Retain(q, kept) \in Seq(S)
         /\ Len(Retain(q, kept)) <= Len(q)
         /\ \E pos \in [1 .. Len(Retain(q, kept)) -> kept] :
              /\ \A k, l \in 1 .. Len(Retain(q, kept)) : k < l => pos[k] < pos[l]
              /\ \A k \in 1 .. Len(Retain(q, kept)) : Retain(q, kept)[k] = q[pos[k]]
              /\ \A i \in kept : \E k \in 1 .. Len(Retain(q, kept)) : pos[k] = i
<1> DEFINE c == Cardinality(kept)
           Upto(i) == {x \in kept : x <= i}
<1>1. Len(q) \in Nat /\ \A i \in kept : i \in Nat
  OBVIOUS
<1>2. IsFiniteSet(1 .. Len(q)) /\ Cardinality(1 .. Len(q)) = Len(q)
  <2> DEFINE n == Len(q)
  <2>1. n \in Nat /\ n \in Int /\ 1 \in Int
    BY <1>1
  <2> HIDE DEF n
  <2>2. IsFiniteSet(1 .. n) /\ Cardinality(1 .. n) = IF 1 > n THEN 0 ELSE n - 1 + 1
    BY <2>1, FS_Interval
  <2>3. Cardinality(1 .. n) = n
    BY <2>1, <2>2
  <2>4. QED BY <2>2, <2>3 DEF n
<1>3. IsFiniteSet(kept) /\ c \in Nat /\ c <= Len(q)
  BY <1>2, FS_Subset, FS_CardinalityType
<1>4. \A i \in kept : /\ IsFiniteSet(Upto(i)) /\ Rank(kept, i) = Cardinality(Upto(i))
                      /\ Cardinality(Upto(i)) \in 1 .. c
  <2> TAKE i \in kept
  <2>1. IsFiniteSet(Upto(i)) /\ Cardinality(Upto(i)) \in Nat /\ Cardinality(Upto(i)) <= c
    <3>1. Upto(i) \in SUBSET kept
      OBVIOUS
    <3> HIDE DEF Upto
    <3>2. QED BY <1>3, <3>1, FS_Subset, FS_CardinalityType
  <2>2. Cardinality(Upto(i)) # 0
    <3>1. i \in Upto(i)
      BY <1>1
    <3> HIDE DEF Upto
    <3>2. QED BY <2>1, <3>1, FS_EmptySet
  <2>3. Rank(kept, i) = Cardinality(Upto(i))
    BY DEF Rank
  <2> HIDE DEF Upto
  <2>4. QED BY <1>3, <2>1, <2>2, <2>3
<1>5. \A i, j \in kept : i < j => Rank(kept, i) < Rank(kept, j)
  <2> SUFFICES ASSUME NEW i \in kept, NEW j \in kept, i < j
               PROVE  Rank(kept, i) < Rank(kept, j)
    OBVIOUS
  <2>0. i \in Nat /\ j \in Nat
    BY <1>1
  <2>1. Upto(i) \in SUBSET Upto(j) /\ j \in Upto(j) /\ j \notin Upto(i)
    <3>1. \A x \in Upto(i) : x \in kept /\ x <= j
      BY <1>1, <2>0
    <3>2. j \in Upto(j)
      BY <2>0
    <3>3. j \notin Upto(i)
      BY <2>0
    <3>4. Upto(i) \subseteq Upto(j)
      BY <3>1
    <3> HIDE DEF Upto
    <3>5. QED BY <3>2, <3>3, <3>4
  <2> HIDE DEF Upto
  <2>2. Upto(i) # Upto(j)
    BY <2>1
  <2>3. Cardinality(Upto(i)) <= Cardinality(Upto(j)) /\ Cardinality(Upto(i)) # Cardinality(Upto(j))
    BY <1>4, <2>1, <2>2, FS_Subset
  <2>4. QED BY <1>3, <1>4, <2>3
<1> HIDE DEF Upto
<1> DEFINE rank == [i \in kept |-> Rank(kept, i)]
<1>6. rank \in Surjection(kept, 1 .. c)
  <2>1. rank \in [kept -> 1 .. c]
    BY <1>4
  <2>2. \A i, j \in kept : rank[i] = rank[j] => i = j
    <3> SUFFICES ASSUME NEW i \in kept, NEW j \in kept, i # j PROVE rank[i] # rank[j]
      OBVIOUS
    <3>1. i < j \/ j < i
      BY <1>1
    <3>2. rank[i] \in Nat /\ rank[j] \in Nat
      BY <1>3, <2>1
    <3>3. QED BY <1>5, <3>1, <3>2
  <2>3. rank \in Injection(kept, 1 .. c)
    <3> HIDE DEF rank
    <3> QED BY <2>1, <2>2 DEF Injection, IsInjective
  <2>4. IsFiniteSet(1 .. c) /\ Cardinality(1 .. c) = c
    BY <1>3, FS_Interval
  <2> HIDE DEF rank
  <2>5. QED BY <2>3, <2>4, FS_Injection
<1>7. \A k \in 1 .. c : \E i \in kept : Rank(kept, i) = k
  BY <1>6 DEF Surjection
<1> DEFINE pos == [k \in 1 .. c |-> CHOOSE i \in kept : Rank(kept, i) = k]
<1>8. \A k \in 1 .. c : pos[k] \in kept /\ Rank(kept, pos[k]) = k
  BY <1>7
<1>9. pos \in [1 .. c -> kept]
  BY <1>8
<1>10. Retain(q, kept) = [k \in 1 .. c |-> q[pos[k]]]
  BY DEF Retain
<1> HIDE DEF pos, c, rank
<1>11. \A k, l \in 1 .. c : k < l => pos[k] < pos[l]
  <2> SUFFICES ASSUME NEW k \in 1 .. c, NEW l \in 1 .. c, k < l PROVE pos[k] < pos[l]
    OBVIOUS
  <2>1. pos[k] \in kept /\ pos[l] \in kept /\ Rank(kept, pos[k]) = k /\ Rank(kept, pos[l]) = l
    BY <1>8
  <2>2. k \in Nat /\ l \in Nat /\ pos[k] \in Nat /\ pos[l] \in Nat
    <3>1. k \in Nat /\ l \in Nat
      BY <1>3
    <3>2. pos[k] \in Nat /\ pos[l] \in Nat
      BY <1>1, <2>1
    <3>3. QED BY <3>1, <3>2
  <2>3. pos[l] < pos[k] => l < k
    BY <2>1, <1>5
  <2>4. pos[k] # pos[l]
    BY <2>1, <2>2
  <2>5. QED BY <2>2, <2>3, <2>4
<1>12. \A i \in kept : \E k \in 1 .. c : pos[k] = i
  <2> TAKE i \in kept
  <2>1. Rank(kept, i) \in 1 .. c
    BY <1>4 DEF c
  <2> DEFINE k == Rank(kept, i)
  <2>2. pos[k] \in kept /\ Rank(kept, pos[k]) = k
    BY <1>8, <2>1
  <2>3. i \in Nat /\ pos[k] \in Nat /\ k \in Nat
    <3>1. k \in Nat
      BY <1>3, <2>1
    <3> HIDE DEF k
    <3>2. i \in Nat /\ pos[k] \in Nat
      BY <1>1, <2>2
    <3>3. QED BY <3>1, <3>2
  <2>4. pos[k] < i => k < k
    BY <1>5, <2>2
  <2>5. i < pos[k] => k < k
    BY <1>5, <2>2
  <2>6. pos[k] = i
    <3> HIDE DEF k
    <3> QED BY <2>3, <2>4, <2>5
  <2>7. QED BY <2>1, <2>6
<1>13. \A k \in 1 .. c : q[pos[k]] \in S
  <2>1. \A i \in kept : q[i] \in S
    OBVIOUS
  <2>2. QED BY <1>8, <2>1
<1>14. Retain(q, kept) \in Seq(S) /\ Len(Retain(q, kept)) = c
  BY <1>3, <1>10, <1>13
<1>15. \A k \in 1 .. c : Retain(q, kept)[k] = q[pos[k]]
  BY <1>10
<1>16. QED BY <1>3, <1>9, <1>11, <1>12, <1>14, <1>15
-----------------------------------------------------------------------------
\* Oldest first, and no message twice.
Ordered(q) == \A i, j \in DOMAIN q : i < j => q[i].at <= q[j].at /\ q[i].id # q[j].id

\* An entry of p's queue at time t: held for p, since no later than t, and tried no
\* faster than its backoffs allow.
Sound(p, t, e) ==
  /\ Target[e.id] = p
  /\ e.at <= t
  /\ e.attempts > 0 => e.last >= e.at + LeastWait[e.attempts]

Kept(p, t, q) ==
  /\ q \in Seq(Entries)
  /\ Ordered(q)
  /\ \A i \in DOMAIN q : Sound(p, t, q[i])

Reports == {"New", "Acknowledged", "Abandoned", "Displaced", "Cleared"}

\* Inductive: what the next call may rely on.
OutboxInv ==
  /\ queue \in [Peers -> Seq(Entries)]
  /\ now \in 0 .. MaxTime
  /\ report \in [Messages -> Reports]
  /\ \A p \in Peers : Len(queue[p]) <= MaxPerPeer /\ Kept(p, now, queue[p])

\* r is q with some of its elements taken out, the ones at pos left.
Thins(q, r, pos) ==
  /\ pos \in [1 .. Len(r) -> 1 .. Len(q)]
  /\ \A k, l \in 1 .. Len(r) : k < l => pos[k] < pos[l]
  /\ \A k \in 1 .. Len(r) : r[k] = q[pos[k]]

\* Taking elements out keeps a queue in order and its entries sound.
LEMMA Thinned ==
  ASSUME NEW p, NEW t, NEW q, Kept(p, t, q), NEW r \in Seq(Entries), NEW pos, Thins(q, r, pos)
  PROVE  Kept(p, t, r) /\ IdsIn(r) \subseteq IdsIn(q)
<1>1. DOMAIN q = 1 .. Len(q) /\ DOMAIN r = 1 .. Len(r) /\ q \in Seq(Entries)
  BY DEF Kept
<1>2. \A k \in 1 .. Len(r) : pos[k] \in 1 .. Len(q) /\ r[k] = q[pos[k]]
  BY DEF Thins
<1>3. Ordered(r)
  <2> SUFFICES ASSUME NEW i \in 1 .. Len(r), NEW j \in 1 .. Len(r), i < j
               PROVE  r[i].at <= r[j].at /\ r[i].id # r[j].id
    BY <1>1 DEF Ordered
  <2>1. pos[i] < pos[j]
    BY DEF Thins
  <2>2. q[pos[i]].at <= q[pos[j]].at /\ q[pos[i]].id # q[pos[j]].id
    BY <1>1, <1>2, <2>1 DEF Kept, Ordered
  <2>3. QED BY <1>2, <2>2
<1>4. \A i \in DOMAIN r : Sound(p, t, r[i])
  BY <1>1, <1>2 DEF Kept
<1>5. IdsIn(r) \subseteq IdsIn(q)
  BY <1>1, <1>2 DEF IdsIn
<1>6. QED BY <1>3, <1>4, <1>5 DEF Kept

\* An entry is known by its message.
LEMMA OneEntry ==
  ASSUME NEW p, NEW t, NEW q, Kept(p, t, q),
         NEW i \in DOMAIN q, NEW j \in DOMAIN q, q[i].id = q[j].id
  PROVE  i = j
<1>1. i \in Nat /\ j \in Nat
  BY DEF Kept
<1>2. ~(i < j) /\ ~(j < i)
  BY DEF Kept, Ordered
<1>3. QED BY <1>1, <1>2

\* hold puts a message that is not queued at the end.
LEMMA Appended ==
  ASSUME NEW p, NEW t \in 0 .. MaxTime, NEW q, Kept(p, t, q), NEW m \in Messages, Target[m] = p,
         m \notin IdsIn(q), MaxTime \in Nat
  PROVE  LET e == [id |-> m, at |-> t, attempts |-> 0, last |-> 0]
         IN Kept(p, t, Append(q, e)) /\ IdsIn(Append(q, e)) = IdsIn(q) \cup {m}
<1> DEFINE e == [id |-> m, at |-> t, attempts |-> 0, last |-> 0]
           r == Append(q, e)
<1>1. e \in Entries /\ e.id = m /\ e.at = t /\ e.attempts = 0
  BY DEF Entries
<1> HIDE DEF e
<1>2. q \in Seq(Entries) /\ Len(q) \in Nat /\ DOMAIN q = 1 .. Len(q)
  BY DEF Kept
<1>3. /\ r \in Seq(Entries) /\ Len(r) = Len(q) + 1 /\ DOMAIN r = 1 .. Len(q) + 1
      /\ r[Len(q) + 1] = e
      /\ \A i \in 1 .. Len(q) : r[i] = q[i]
  BY <1>1, <1>2
<1> HIDE DEF r
<1>4. \A i \in DOMAIN r : (i = Len(q) + 1 /\ r[i] = e) \/ (i \in 1 .. Len(q) /\ r[i] = q[i])
  BY <1>2, <1>3
<1>5. \A i \in 1 .. Len(q) : q[i].at <= t /\ q[i].id # m /\ Sound(p, t, q[i])
  BY <1>2 DEF Kept, Sound, IdsIn
<1>6. Ordered(r)
  <2> SUFFICES ASSUME NEW i \in DOMAIN r, NEW j \in DOMAIN r, i < j
               PROVE  r[i].at <= r[j].at /\ r[i].id # r[j].id
    BY DEF Ordered
  <2>1. i \in 1 .. Len(q) /\ r[i] = q[i]
    BY <1>2, <1>3
  <2>2. CASE j = Len(q) + 1
    BY <2>1, <2>2, <1>1, <1>3, <1>5
  <2>3. CASE j # Len(q) + 1
    <3>1. j \in 1 .. Len(q) /\ r[j] = q[j]
      BY <2>3, <1>2, <1>3
    <3>2. QED BY <2>1, <3>1, <1>2 DEF Kept, Ordered
  <2>4. QED BY <2>2, <2>3
<1>7. Sound(p, t, e)
  BY <1>1 DEF Sound
<1>8. \A i \in DOMAIN r : Sound(p, t, r[i])
  BY <1>3, <1>4, <1>5, <1>7
<1>9. IdsIn(r) = IdsIn(q) \cup {m}
  <2>1. \A i \in DOMAIN r : r[i].id \in IdsIn(q) \cup {m}
    BY <1>1, <1>2, <1>3, <1>4 DEF IdsIn
  <2>2. \A i \in 1 .. Len(q) : i \in DOMAIN r
    BY <1>2, <1>3
  <2>3. IdsIn(q) \subseteq IdsIn(r)
    BY <1>2, <1>3, <2>2 DEF IdsIn
  <2>4. m \in IdsIn(r)
    <3>1. Len(q) + 1 \in DOMAIN r
      BY <1>2, <1>3
    <3>2. QED BY <3>1, <1>1, <1>3 DEF IdsIn
  <2>5. IdsIn(r) \subseteq IdsIn(q) \cup {m}
    BY <2>1 DEF IdsIn
  <2>6. QED BY <2>3, <2>4, <2>5
<1>10. QED BY <1>3, <1>6, <1>8, <1>9 DEF Kept, r, e

\* Vec::remove: the elements after the one taken out move up.
LEMMA OneTakenOut ==
  ASSUME NEW S, NEW q \in Seq(S), NEW i \in DOMAIN q
  PROVE  /\ RemoveAt(q, i) \in Seq(S) /\ Len(RemoveAt(q, i)) = Len(q) - 1
         /\ \A k \in 1 .. Len(q) - 1 : RemoveAt(q, i)[k] = IF k < i THEN q[k] ELSE q[k + 1]
<1> DEFINE r == RemoveAt(q, i)
<1>1. q \in Seq(S) /\ Len(q) \in Nat /\ DOMAIN q = 1 .. Len(q) /\ i \in 1 .. Len(q)
  OBVIOUS
<1>2. /\ r \in Seq(S) /\ Len(r) = Len(q) - 1
      /\ \A k \in 1 .. Len(q) - 1 : r[k] = IF k < i THEN q[k] ELSE q[k + 1]
  <2> DEFINE a == SubSeq(q, 1, i - 1)
             b == SubSeq(q, i + 1, Len(q))
  <2>1. a \in Seq(S) /\ Len(a) = i - 1 /\ \A k \in 1 .. i - 1 : a[k] = q[k]
    BY <1>1
  <2>2. b \in Seq(S) /\ Len(b) = Len(q) - i /\ \A k \in 1 .. Len(q) - i : b[k] = q[i + k]
    BY <1>1
  <2>3. r = a \o b
    BY DEF RemoveAt
  <2> HIDE DEF a, b, r
  <2>4. r \in Seq(S) /\ Len(r) = Len(q) - 1
    <3>1. r \in Seq(S) /\ Len(r) = Len(a) + Len(b)
      BY <2>1, <2>2, <2>3, ConcatProperties
    <3>2. QED BY <3>1, <1>1, <2>1, <2>2
  <2>5. ASSUME NEW k \in 1 .. Len(q) - 1 PROVE r[k] = IF k < i THEN q[k] ELSE q[k + 1]
    <3>1. CASE k < i
      BY <3>1, <1>1, <2>1, <2>2, <2>3
    <3>2. CASE ~(k < i)
      <4>1. k - (i - 1) \in 1 .. Len(q) - i /\ i + (k - (i - 1)) = k + 1
        BY <3>2, <1>1
      <4>2. r[k] = b[k - (i - 1)]
        <5>1. k \in 1 .. Len(a) + Len(b) /\ ~(k <= Len(a)) /\ i - 1 = Len(a)
          BY <3>2, <1>1, <2>1, <2>2
        <5>2. \A j \in 1 .. Len(a) + Len(b) : r[j] = IF j <= Len(a) THEN a[j] ELSE b[j - Len(a)]
          BY <2>1, <2>2, <2>3, ConcatProperties
        <5>3. QED BY <5>1, <5>2
      <4>3. b[k - (i - 1)] = q[k + 1]
        BY <4>1, <2>2
      <4>4. QED BY <3>2, <4>2, <4>3
    <3>3. QED BY <3>1, <3>2
  <2>6. QED BY <2>4, <2>5
<1>3. QED BY <1>2

\* The first is taken out.
LEMMA FirstTakenOut ==
  ASSUME NEW S, NEW q \in Seq(S), q # <<>>
  PROVE  Tail(q) = RemoveAt(q, 1) /\ 1 \in DOMAIN q
<1> DEFINE b == SubSeq(q, 2, Len(q))
<1>1. Len(q) \in Nat \ {0} /\ 1 \in DOMAIN q
  OBVIOUS
<1>2. SubSeq(q, 1, 0) = <<>> /\ b \in Seq(S) /\ Tail(q) = b
  BY <1>1
<1>3. 1 - 1 = 0 /\ 1 + 1 = 2
  OBVIOUS
<1>4. RemoveAt(q, 1) = SubSeq(q, 1, 0) \o b
  BY <1>3 DEF RemoveAt
<1> HIDE DEF b
<1>5. <<>> \o b = b
  BY <1>2, ConcatEmptySeq
<1>6. QED BY <1>1, <1>2, <1>4, <1>5

\* Vec::remove takes one entry out, and with it its message.
LEMMA Removed ==
  ASSUME NEW p, NEW t, NEW q, Kept(p, t, q), NEW i \in DOMAIN q
  PROVE  /\ Kept(p, t, RemoveAt(q, i))
         /\ Len(RemoveAt(q, i)) = Len(q) - 1
         /\ IdsIn(RemoveAt(q, i)) = IdsIn(q) \ {q[i].id}
<1> DEFINE r == RemoveAt(q, i)
           pos == [k \in 1 .. Len(q) - 1 |-> IF k < i THEN k ELSE k + 1]
<1>1. q \in Seq(Entries) /\ Len(q) \in Nat /\ DOMAIN q = 1 .. Len(q) /\ i \in 1 .. Len(q)
  BY DEF Kept
<1>2. /\ r \in Seq(Entries) /\ Len(r) = Len(q) - 1
      /\ \A k \in 1 .. Len(q) - 1 : r[k] = IF k < i THEN q[k] ELSE q[k + 1]
  BY <1>1, OneTakenOut
<1> HIDE DEF r
<1>3. Thins(q, r, pos)
  <2>1. \A k \in 1 .. Len(r) : pos[k] \in 1 .. Len(q) /\ r[k] = q[pos[k]]
    BY <1>1, <1>2
  <2>2. pos \in [1 .. Len(r) -> 1 .. Len(q)]
    BY <1>1, <1>2
  <2>3. \A k, l \in 1 .. Len(r) : k < l => pos[k] < pos[l]
    BY <1>1, <1>2
  <2> HIDE DEF pos
  <2>4. QED BY <2>1, <2>2, <2>3 DEF Thins
<1>4. Kept(p, t, r) /\ IdsIn(r) \subseteq IdsIn(q)
  BY <1>2, <1>3, Thinned
<1>5. q[i].id \notin IdsIn(r)
  <2> SUFFICES ASSUME NEW k \in 1 .. Len(r), r[k].id = q[i].id PROVE FALSE
    BY <1>2 DEF IdsIn
  <2>1. pos[k] \in DOMAIN q /\ pos[k] # i /\ r[k] = q[pos[k]]
    BY <1>1, <1>2
  <2> HIDE DEF pos
  <2>2. QED BY <2>1, OneEntry
<1>6. \A j \in DOMAIN q : j # i => q[j].id \in IdsIn(r)
  <2> SUFFICES ASSUME NEW j \in 1 .. Len(q), j # i PROVE q[j].id \in IdsIn(r)
    BY <1>1
  <2>1. CASE j < i
    <3>1. j \in 1 .. Len(r) /\ r[j] = q[j]
      BY <2>1, <1>1, <1>2
    <3>2. QED BY <3>1, <1>2 DEF IdsIn
  <2>2. CASE ~(j < i)
    <3>1. j - 1 \in 1 .. Len(r) /\ r[j - 1] = q[j]
      BY <2>2, <1>1, <1>2
    <3>2. QED BY <3>1, <1>2 DEF IdsIn
  <2>3. QED BY <2>1, <2>2
<1>7. IdsIn(r) = IdsIn(q) \ {q[i].id}
  <2>1. IdsIn(q) \ {q[i].id} \subseteq IdsIn(r)
    BY <1>6 DEF IdsIn
  <2>2. QED BY <2>1, <1>4, <1>5
<1>8. QED BY <1>2, <1>4, <1>7 DEF r

\* The oldest makes room for the newest.
LEMMA Displaced ==
  ASSUME NEW p, NEW t, NEW q, Kept(p, t, q), q # <<>>
  PROVE  /\ Kept(p, t, Tail(q)) /\ Len(Tail(q)) = Len(q) - 1
         /\ Head(q).id \in IdsIn(q)
         /\ IdsIn(Tail(q)) = IdsIn(q) \ {Head(q).id}
<1>1. q \in Seq(Entries) /\ Len(q) \in Nat \ {0} /\ 1 \in DOMAIN q /\ Head(q) = q[1]
  BY DEF Kept
<1>2. Tail(q) = RemoveAt(q, 1)
  BY <1>1, FirstTakenOut
<1>3. Head(q).id \in IdsIn(q)
  BY <1>1 DEF IdsIn
<1>4. /\ Kept(p, t, RemoveAt(q, 1)) /\ Len(RemoveAt(q, 1)) = Len(q) - 1
      /\ IdsIn(RemoveAt(q, 1)) = IdsIn(q) \ {q[1].id}
  BY <1>1, Removed
<1>5. QED BY <1>1, <1>2, <1>3, <1>4

\* The backoffs are naturals, and LeastWait is their sum: the recursion that defines it has
\* a solution.
LEMMA LeastWaits ==
  ASSUME OutboxAssumption
  PROVE  /\ \A k \in Nat : Backoff(k) \in Nat
         /\ LeastWait \in [Nat -> Nat]
         /\ LeastWait[1] = 0
         /\ \A k \in Nat \ {0} : LeastWait[k + 1] = LeastWait[k] + Backoff(k)
<1>1. ASSUME NEW k \in Nat PROVE Backoff(k) \in Nat
  <2> DEFINE x == IF k = 0 THEN 0 ELSE IF k > 17 THEN 16 ELSE k - 1
  <2>1. x \in 0 .. 16
    OBVIOUS
  <2> HIDE DEF x
  <2>2. 2 ^ x \in Nat
    <3>1. /\ 2 ^ 0 \in Nat /\ 2 ^ 1 \in Nat /\ 2 ^ 2 \in Nat /\ 2 ^ 3 \in Nat /\ 2 ^ 4 \in Nat
          /\ 2 ^ 5 \in Nat
          /\ 2 ^ 6 \in Nat /\ 2 ^ 7 \in Nat /\ 2 ^ 8 \in Nat /\ 2 ^ 9 \in Nat /\ 2 ^ 10 \in Nat
          /\ 2 ^ 11 \in Nat
          /\ 2 ^ 12 \in Nat /\ 2 ^ 13 \in Nat /\ 2 ^ 14 \in Nat /\ 2 ^ 15 \in Nat /\ 2 ^ 16 \in Nat
      OBVIOUS
    <3>2. \/ x = 0 \/ x = 1 \/ x = 2 \/ x = 3 \/ x = 4 \/ x = 5 \/ x = 6 \/ x = 7 \/ x = 8
          \/ x = 9 \/ x = 10 \/ x = 11 \/ x = 12 \/ x = 13 \/ x = 14 \/ x = 15 \/ x = 16
      BY <2>1
    <3>3. QED BY <3>1, <3>2
  <2>3. BaseBackoff * 2 ^ x \in Nat /\ MaxBackoff \in Nat
    <3>1. \A a, b \in Nat : a * b \in Nat
      OBVIOUS
    <3>2. BaseBackoff \in Nat /\ MaxBackoff \in Nat
      BY DEF OutboxAssumption
    <3>3. QED BY <2>2, <3>1, <3>2
  <2>4. Backoff(k) = IF BaseBackoff * 2 ^ x < MaxBackoff THEN BaseBackoff * 2 ^ x ELSE MaxBackoff
    BY DEF Backoff, x
  <2>5. QED BY <2>3, <2>4
<1> DEFINE G == [y \in Nat \X Nat |-> IF y[1] = 0 THEN 0 ELSE y[2] + Backoff(y[1])]
           Solves(f) == f = [k \in Nat |-> IF k <= 1 THEN 0 ELSE f[k - 1] + Backoff(k - 1)]
<1>2. G \in [Nat \X Nat -> Nat]
  BY <1>1
<1>3. PICK f \in [Nat -> Nat] : f[0] = 0 /\ \A n \in Nat : f[n + 1] = G[<<n, f[n]>>]
  <2> HIDE DEF G
  <2>1. 0 \in Nat
    OBVIOUS
  <2>2. \E g \in [Nat -> Nat] : g[0] = 0 /\ \A n \in Nat : g[n + 1] = G[<<n, g[n]>>]
    BY <1>2, <2>1, Recursion
  <2>3. QED BY <2>2
<1>4. \A n \in Nat : f[n + 1] = IF n = 0 THEN 0 ELSE f[n] + Backoff(n)
  BY <1>3
<1>5. ASSUME NEW k \in Nat PROVE f[k] = IF k <= 1 THEN 0 ELSE f[k - 1] + Backoff(k - 1)
  <2>1. CASE k = 0
    BY <2>1, <1>3
  <2>2. CASE k # 0
    <3>1. k - 1 \in Nat /\ (k - 1) + 1 = k /\ (k - 1 = 0 <=> k <= 1)
      BY <2>2
    <3>2. QED BY <3>1, <1>4
  <2>3. QED BY <2>1, <2>2
<1>6. Solves(f)
  BY <1>3, <1>5
<1>7. Solves(LeastWait)
  <2>1. LeastWait = CHOOSE g : Solves(g)
    BY DEF LeastWait
  <2> HIDE DEF Solves
  <2>2. QED BY <1>6, <2>1
<1>8. \A k \in Nat : LeastWait[k] = IF k <= 1 THEN 0 ELSE LeastWait[k - 1] + Backoff(k - 1)
  BY <1>7
<1>9. LeastWait \in [Nat -> Nat]
  <2> DEFINE T == {k \in Nat : LeastWait[k] \in Nat}
  <2>1. 0 \in T
    BY <1>8
  <2>2. ASSUME NEW n \in T PROVE n + 1 \in T
    <3>1. n + 1 \in Nat /\ (n + 1) - 1 = n /\ LeastWait[n] \in Nat /\ Backoff(n) \in Nat
      BY <1>1
    <3>2. LeastWait[n + 1] = IF n + 1 <= 1 THEN 0 ELSE LeastWait[n] + Backoff(n)
      BY <3>1, <1>8
    <3>3. LeastWait[n + 1] \in Nat
      BY <3>1, <3>2
    <3>4. QED BY <3>1, <3>3
  <2>3. T \in SUBSET Nat
    OBVIOUS
  <2> HIDE DEF T
  <2>4. T = Nat
    BY <2>1, <2>2, <2>3, AllNaturals
  <2>5. \A k \in Nat : LeastWait[k] \in Nat
    BY <2>4 DEF T
  <2>6. LeastWait = [k \in Nat |-> LeastWait[k]]
    BY <1>7
  <2>7. QED BY <2>5, <2>6
<1>10. ASSUME NEW k \in Nat \ {0} PROVE LeastWait[k + 1] = LeastWait[k] + Backoff(k)
  <2>1. k + 1 \in Nat /\ (k + 1) - 1 = k /\ ~(k + 1 <= 1)
    OBVIOUS
  <2>2. QED BY <2>1, <1>8
<1>11. QED BY <1>1, <1>8, <1>9, <1>10
-----------------------------------------------------------------------------
\* What a step does to a message, as far as the caller can tell: nothing, or it is taken,
\* or it leaves and the reason is reported.
Told(m) ==
  \/ (Held(m)' <=> Held(m)) /\ (~Held(m) => report'[m] = report[m])
  \/ ~Held(m) /\ Held(m)'
  \/ Held(m) /\ ~Held(m)' /\ report'[m] \in Fate!Departures

\* The queue of one peer changes, the clock stands.
LEMMA OneQueue ==
  ASSUME OutboxInv, NEW p \in Peers, NEW q, Kept(p, now, q), Len(q) <= MaxPerPeer,
         queue' = [queue EXCEPT ![p] = q], now' = now, report' \in [Messages -> Reports]
  PROVE  OutboxInv'
<1>1. q \in Seq(Entries) /\ queue \in [Peers -> Seq(Entries)]
  BY DEF Kept, OutboxInv
<1>2. queue' \in [Peers -> Seq(Entries)]
  BY <1>1
<1>3. \A r \in Peers : queue'[r] = IF r = p THEN q ELSE queue[r]
  BY <1>1
<1>4. \A r \in Peers : Len(queue'[r]) <= MaxPerPeer /\ Kept(r, now, queue'[r])
  BY <1>3 DEF OutboxInv
<1>5. QED BY <1>2, <1>4 DEF OutboxInv

\* Which messages are held after one queue has changed.
LEMMA HeldAfter ==
  ASSUME OutboxAssumption, OutboxInv, NEW p \in Peers, NEW q, queue' = [queue EXCEPT ![p] = q]
  PROVE  \A x \in Messages : Held(x)' <=> IF Target[x] = p THEN x \in IdsIn(q) ELSE Held(x)
<1>1. \A r \in Peers : queue'[r] = IF r = p THEN q ELSE queue[r]
  BY DEF OutboxInv
<1>2. \A x \in Messages : Target[x] \in Peers
  BY DEF OutboxAssumption
<1>3. QED BY <1>1, <1>2 DEF Held

\* hold takes a message, or makes room for it and says which one left.
LEMMA HoldStep ==
  ASSUME OutboxAssumption, OutboxInv, NEW m \in Messages, Hold(m)
  PROVE  OutboxInv' /\ \A x \in Messages : Told(x)
<1> DEFINE p == Target[m]
           e == [id |-> m, at |-> now, attempts |-> 0, last |-> 0]
           q == Append(queue[p], e)
<1>1. /\ p \in Peers /\ MaxTime \in Nat /\ MaxPerPeer \in Nat \ {0} /\ now \in 0 .. MaxTime
      /\ Kept(p, now, queue[p]) /\ Len(queue[p]) <= MaxPerPeer /\ report \in [Messages -> Reports]
  BY DEF OutboxAssumption, OutboxInv
<1>2. m \notin IdsIn(queue[p]) /\ ~Held(m)
  BY DEF Hold, Held
<1>3. Kept(p, now, q) /\ IdsIn(q) = IdsIn(queue[p]) \cup {m}
  <2>1. Target[m] = p
    OBVIOUS
  <2> HIDE DEF p
  <2>2. QED BY <1>1, <1>2, <2>1, Appended
<1>4. /\ queue[p] \in Seq(Entries) /\ q # <<>>
      /\ Len(q) = Len(queue[p]) + 1 /\ Len(queue[p]) \in Nat
      /\ Len(queue[p]) # 0 => Head(q) = queue[p][1] /\ 1 \in DOMAIN queue[p]
  <2>1. queue[p] \in Seq(Entries)
    BY <1>1 DEF Kept
  <2>2. QED BY <2>1
<1>5. CASE Len(q) > MaxPerPeer
  <2> DEFINE h == Head(q).id
  <2>1. /\ queue' = [queue EXCEPT ![p] = Tail(q)] /\ now' = now
        /\ report' = [report EXCEPT ![h] = "Displaced"]
    BY <1>5 DEF Hold
  <2>2. h \in IdsIn(queue[p]) /\ h \in Messages /\ Target[h] = p
    <3>1. Head(q) = queue[p][1] /\ 1 \in DOMAIN queue[p]
      BY <1>1, <1>4, <1>5
    <3>2. queue[p][1] \in Entries /\ Sound(p, now, queue[p][1])
      BY <1>1, <1>4, <3>1 DEF Kept
    <3>3. QED BY <3>1, <3>2 DEF IdsIn, Entries, Sound
  <2> HIDE DEF q
  <2>3. Kept(p, now, Tail(q)) /\ Len(Tail(q)) = Len(q) - 1 /\ IdsIn(Tail(q)) = IdsIn(q) \ {h}
    BY <1>3, <1>4, Displaced
  <2> HIDE DEF h
  <2>4. Len(Tail(q)) <= MaxPerPeer
    BY <1>1, <1>4, <2>3
  <2>5. /\ report' \in [Messages -> Reports] /\ report'[h] = "Displaced"
        /\ \A x \in Messages : x # h => report'[x] = report[x]
    BY <1>1, <2>1, <2>2 DEF Reports
  <2>6. OutboxInv'
    BY <1>1, <2>1, <2>3, <2>4, <2>5, OneQueue
  <2>7. \A x \in Messages : Held(x)' <=> IF Target[x] = p THEN x \in IdsIn(Tail(q)) ELSE Held(x)
    BY <1>1, <2>1, HeldAfter
  <2>8. ASSUME NEW x \in Messages PROVE Told(x)
    <3>1. CASE x = h
      <4>1. Held(x) /\ ~Held(x)'
        BY <3>1, <2>2, <2>3, <2>7 DEF Held
      <4>2. QED BY <3>1, <4>1, <2>5 DEF Told, Fate!Departures
    <3>2. CASE x = m
      <4>1. Held(x)'
        BY <3>2, <1>2, <1>3, <2>2, <2>3, <2>7
      <4>2. QED BY <3>2, <4>1, <1>2 DEF Told
    <3>3. CASE x # h /\ x # m
      <4>1. Held(x)' <=> Held(x)
        BY <3>3, <1>3, <2>3, <2>7 DEF Held
      <4>2. QED BY <3>3, <4>1, <2>5 DEF Told
    <3>4. QED BY <3>1, <3>2, <3>3
  <2>9. QED BY <2>6, <2>8
<1>6. CASE ~(Len(q) > MaxPerPeer)
  <2>1. queue' = [queue EXCEPT ![p] = q] /\ now' = now /\ report' = report
    BY <1>6 DEF Hold
  <2>2. Len(q) <= MaxPerPeer
    BY <1>1, <1>4, <1>6
  <2> HIDE DEF q
  <2>3. OutboxInv'
    BY <1>1, <1>3, <2>1, <2>2, OneQueue
  <2>4. \A x \in Messages : Held(x)' <=> IF Target[x] = p THEN x \in IdsIn(q) ELSE Held(x)
    BY <1>1, <2>1, HeldAfter
  <2>5. ASSUME NEW x \in Messages PROVE Told(x)
    <3>1. CASE x = m
      BY <3>1, <1>2, <1>3, <2>4 DEF Told
    <3>2. CASE x # m
      <4>1. Held(x)' <=> Held(x)
        BY <3>2, <1>3, <2>4 DEF Held
      <4>2. QED BY <4>1, <2>1 DEF Told
    <3>3. QED BY <3>1, <3>2
  <2>6. QED BY <2>3, <2>5
<1>7. QED BY <1>5, <1>6

\* What mark_attempted makes of an entry.
Again(e) == [e EXCEPT !.attempts = @ + 1, !.last = now]

\* An attempt writes one entry over: same message, same place, same age.
LEMMA Attempted ==
  ASSUME OutboxAssumption, NEW p, NEW q, NEW i \in DOMAIN q, now \in 0 .. MaxTime,
         Kept(p, now, q), Due(q[i])
  PROVE  /\ Kept(p, now, [q EXCEPT ![i] = Again(q[i])])
         /\ Len([q EXCEPT ![i] = Again(q[i])]) = Len(q)
         /\ IdsIn([q EXCEPT ![i] = Again(q[i])]) = IdsIn(q)
<1> DEFINE e == q[i]
           d == Again(e)
           r == [q EXCEPT ![i] = d]
<1>1. /\ q \in Seq(Entries) /\ DOMAIN q = 1 .. Len(q) /\ e \in Entries
      /\ Ordered(q) /\ \A j \in DOMAIN q : Sound(p, now, q[j])
  BY DEF Kept
<1>2. e.attempts \in Nat /\ e.at \in Nat /\ e.last \in Nat /\ now \in Nat
  <2>1. MaxTime \in Nat
    BY DEF OutboxAssumption
  <2>2. e.attempts \in Nat /\ e.at \in 0 .. MaxTime /\ e.last \in 0 .. MaxTime
    BY <1>1 DEF Entries
  <2> HIDE DEF e
  <2>3. QED BY <2>1, <2>2
<1>3. /\ d \in Entries /\ d.id = e.id /\ d.at = e.at /\ d.last = now
      /\ d.attempts = e.attempts + 1
  <2>1. e \in [id : Messages, at : 0 .. MaxTime, attempts : Nat, last : 0 .. MaxTime]
    BY <1>1 DEF Entries
  <2> HIDE DEF e
  <2>2. d.id = e.id /\ d.at = e.at /\ d.last = now /\ d.attempts = e.attempts + 1
    BY <2>1 DEF Again
  <2>3. \A x \in Nat : [e EXCEPT !.attempts = x, !.last = now] \in Entries
    BY <1>2, <2>1 DEF Entries
  <2>4. d = [e EXCEPT !.attempts = e.attempts + 1, !.last = now]
    BY DEF Again
  <2>5. e.attempts + 1 \in Nat
    BY <1>2
  <2>6. d \in Entries
    <3> HIDE DEF d
    <3> QED BY <2>3, <2>4, <2>5
  <2>7. QED BY <2>2, <2>6
<1> HIDE DEF d
<1>4. Sound(p, now, d)
  <2>1. Target[d.id] = p /\ d.at <= now
    BY <1>1, <1>3 DEF Sound
  <2>2. now >= e.at + LeastWait[e.attempts + 1]
    <3>1. CASE e.attempts = 0
      <4>1. LeastWait[e.attempts + 1] = 0
        BY <3>1, LeastWaits
      <4>2. QED BY <4>1, <1>2, <1>3, <2>1
    <3>2. CASE e.attempts # 0
      <4>1. now - e.last >= Backoff(e.attempts)
        BY <3>2 DEF Due
      <4>2. e.last >= e.at + LeastWait[e.attempts]
        <5>1. e.attempts > 0
          BY <3>2, <1>2
        <5>2. QED BY <5>1, <1>1 DEF Sound
      <4>3. LeastWait[e.attempts + 1] = LeastWait[e.attempts] + Backoff(e.attempts)
        BY <3>2, <1>2, LeastWaits
      <4>4. LeastWait[e.attempts] \in Nat /\ Backoff(e.attempts) \in Nat
        BY <1>2, LeastWaits
      <4> HIDE DEF e
      <4>5. QED BY <4>1, <4>2, <4>3, <4>4, <1>2
    <3>3. QED BY <3>1, <3>2
  <2>3. QED BY <1>3, <2>1, <2>2 DEF Sound
<1>5. /\ r \in Seq(Entries) /\ DOMAIN r = DOMAIN q /\ Len(r) = Len(q)
      /\ \A j \in DOMAIN q : r[j] = IF j = i THEN d ELSE q[j]
  BY <1>1, <1>3
<1> HIDE DEF r
<1>6. \A j \in DOMAIN q : r[j].id = q[j].id /\ r[j].at = q[j].at
  BY <1>3, <1>5
<1>7. Ordered(r)
  BY <1>1, <1>5, <1>6 DEF Ordered
<1>8. \A j \in DOMAIN r : Sound(p, now, r[j])
  BY <1>1, <1>4, <1>5
<1>9. IdsIn(r) = IdsIn(q)
  BY <1>5, <1>6 DEF IdsIn
<1>10. QED BY <1>5, <1>7, <1>8, <1>9 DEF Kept, r, d

\* mark_attempted rewrites one entry and moves none.
LEMMA MarkAttemptedStep ==
  ASSUME OutboxAssumption, OutboxInv, NEW m \in Messages, MarkAttempted(m)
  PROVE  OutboxInv' /\ \A x \in Messages : Told(x)
<1> DEFINE p == Target[m]
           q == queue[p]
<1>1. /\ p \in Peers /\ now \in 0 .. MaxTime /\ Kept(p, now, q) /\ Len(q) <= MaxPerPeer
      /\ report \in [Messages -> Reports] /\ queue \in [Peers -> Seq(Entries)]
  BY DEF OutboxAssumption, OutboxInv
<1>2. PICK i \in DOMAIN q :
        /\ Due(q[i])
        /\ queue' = [queue EXCEPT ![p][i] = Again(q[i])]
        /\ now' = now /\ report' = report
  <2>1. PICK i \in DOMAIN queue[Target[m]] :
          /\ Due(queue[Target[m]][i])
          /\ queue' = [queue EXCEPT ![Target[m]][i] =
                         [queue[Target[m]][i] EXCEPT !.attempts = @ + 1, !.last = now]]
          /\ UNCHANGED <<now, report>>
    BY Zenon DEF MarkAttempted
  <2>2. QED BY <2>1 DEF Again
<1> DEFINE r == [q EXCEPT ![i] = Again(q[i])]
<1>3. queue' = [queue EXCEPT ![p] = r]
  <2> DEFINE d == Again(q[i])
  <2>1. queue' = [queue EXCEPT ![p][i] = d]
    BY <1>2
  <2> HIDE DEF d, p
  <2>2. [queue EXCEPT ![p][i] = d] = [queue EXCEPT ![p] = [queue[p] EXCEPT ![i] = d]]
    BY <1>1
  <2>3. QED BY <2>1, <2>2 DEF d
<1>4. Kept(p, now, r) /\ Len(r) = Len(q) /\ IdsIn(r) = IdsIn(q)
  BY <1>1, <1>2, Attempted
<1> HIDE DEF r
<1>5. OutboxInv'
  BY <1>1, <1>2, <1>3, <1>4, OneQueue
<1>6. \A x \in Messages : Held(x)' <=> IF Target[x] = p THEN x \in IdsIn(r) ELSE Held(x)
  BY <1>1, <1>3, HeldAfter
<1>7. \A x \in Messages : Held(x)' <=> Held(x)
  BY <1>4, <1>6 DEF Held
<1>8. QED BY <1>2, <1>5, <1>7 DEF Told

\* acknowledge takes one message out of its queue and says so.
LEMMA AcknowledgeStep ==
  ASSUME OutboxAssumption, OutboxInv, NEW m \in Messages, Acknowledge(m)
  PROVE  OutboxInv' /\ \A x \in Messages : Told(x)
<1> DEFINE p == Target[m]
           q == queue[p]
<1>1. /\ p \in Peers /\ Kept(p, now, q) /\ Len(q) <= MaxPerPeer /\ q \in Seq(Entries)
      /\ report \in [Messages -> Reports] /\ MaxPerPeer \in Nat
  BY DEF OutboxAssumption, OutboxInv
<1>2. PICK i \in DOMAIN q : q[i].id = m /\ queue' = [queue EXCEPT ![p] = RemoveAt(q, i)]
  BY DEF Acknowledge
<1>3. report' = [report EXCEPT ![m] = "Acknowledged"] /\ now' = now
  BY DEF Acknowledge
<1> DEFINE r == RemoveAt(q, i)
<1>4. Kept(p, now, r) /\ Len(r) = Len(q) - 1 /\ IdsIn(r) = IdsIn(q) \ {m}
  BY <1>1, <1>2, Removed
<1>5. queue' = [queue EXCEPT ![p] = r]
  BY <1>2
<1>6. Held(m)
  BY <1>2 DEF Held, IdsIn
<1> HIDE DEF r
<1>7. /\ report' \in [Messages -> Reports] /\ report'[m] = "Acknowledged"
      /\ \A x \in Messages : x # m => report'[x] = report[x]
  BY <1>1, <1>3 DEF Reports
<1>8. OutboxInv'
  <2>1. Len(r) <= MaxPerPeer
    BY <1>1, <1>4
  <2>2. QED BY <1>1, <1>3, <1>4, <1>5, <1>7, <2>1, OneQueue
<1>9. \A x \in Messages : Held(x)' <=> IF Target[x] = p THEN x \in IdsIn(r) ELSE Held(x)
  BY <1>1, <1>5, HeldAfter
<1>10. ASSUME NEW x \in Messages PROVE Told(x)
  <2>1. CASE x = m
    <3>1. ~Held(x)'
      BY <2>1, <1>4, <1>9
    <3>2. QED BY <2>1, <3>1, <1>6, <1>7 DEF Told, Fate!Departures
  <2>2. CASE x # m
    <3>1. Held(x)' <=> Held(x)
      BY <2>2, <1>4, <1>9 DEF Held
    <3>2. QED BY <2>2, <3>1, <1>7 DEF Told
  <2>3. QED BY <2>1, <2>2
<1>11. QED BY <1>8, <1>10

\* expire takes out what is past its age, and says so of exactly those.
LEMMA ExpireStep ==
  ASSUME OutboxAssumption, OutboxInv, Expire
  PROVE  OutboxInv' /\ \A x \in Messages : Told(x)
<1> DEFINE left(p) == DOMAIN queue[p] \ Old(queue[p])
           r(p) == Retain(queue[p], left(p))
           gone(x) == \E i \in Old(queue[Target[x]]) : queue[Target[x]][i].id = x
<1>1. /\ queue' = [p \in Peers |-> r(p)] /\ now' = now
      /\ report' = [x \in Messages |-> IF gone(x) THEN "Abandoned" ELSE report[x]]
  BY DEF Expire
<1>2. report' \in [Messages -> Reports]
  <2>1. \A x \in Messages : report[x] \in Reports
    BY DEF OutboxInv
  <2> HIDE DEF gone
  <2>2. QED BY <1>1, <2>1 DEF Reports
<1>3. ASSUME NEW p \in Peers
      PROVE  /\ r(p) \in Seq(Entries) /\ Len(r(p)) <= MaxPerPeer /\ Kept(p, now, r(p))
             /\ \A i \in DOMAIN queue[p] : queue[p][i].id \in IdsIn(r(p)) <=> i \notin Old(queue[p])
             /\ IdsIn(r(p)) \subseteq IdsIn(queue[p])
  <2> DEFINE q == queue[p]
  <2>1. q \in Seq(Entries) /\ Kept(p, now, q) /\ Len(q) <= MaxPerPeer /\ MaxPerPeer \in Nat
    BY DEF OutboxInv, OutboxAssumption
  <2>2. DOMAIN q = 1 .. Len(q) /\ left(p) \in SUBSET (1 .. Len(q))
    BY <2>1
  <2> HIDE DEF q
  <2>3. r(p) = Retain(q, left(p))
    BY DEF q
  <2> HIDE DEF left, r
  <2>4. /\ r(p) \in Seq(Entries) /\ Len(r(p)) <= Len(q)
        /\ \E pos \in [1 .. Len(r(p)) -> left(p)] :
             /\ \A k, l \in 1 .. Len(r(p)) : k < l => pos[k] < pos[l]
             /\ \A k \in 1 .. Len(r(p)) : r(p)[k] = q[pos[k]]
             /\ \A i \in left(p) : \E k \in 1 .. Len(r(p)) : pos[k] = i
    BY <2>1, <2>2, <2>3, RetainOrdered
  <2>5. PICK pos \in [1 .. Len(r(p)) -> left(p)] :
             /\ \A k, l \in 1 .. Len(r(p)) : k < l => pos[k] < pos[l]
             /\ \A k \in 1 .. Len(r(p)) : r(p)[k] = q[pos[k]]
             /\ \A i \in left(p) : \E k \in 1 .. Len(r(p)) : pos[k] = i
    BY <2>4
  <2>6. Thins(q, r(p), pos)
    BY <2>2, <2>5 DEF Thins
  <2>7. Kept(p, now, r(p)) /\ IdsIn(r(p)) \subseteq IdsIn(q)
    BY <2>1, <2>4, <2>6, Thinned
  <2>8. Len(r(p)) <= MaxPerPeer
    <3>1. Len(r(p)) \in Nat /\ Len(q) \in Nat
      BY <2>1, <2>4
    <3>2. QED BY <3>1, <2>1, <2>4
  <2>9. DOMAIN r(p) = 1 .. Len(r(p))
    BY <2>4
  <2>10. ASSUME NEW i \in DOMAIN q PROVE q[i].id \in IdsIn(r(p)) <=> i \in left(p)
    <3>1. ASSUME i \in left(p) PROVE q[i].id \in IdsIn(r(p))
      <4>1. PICK k \in 1 .. Len(r(p)) : pos[k] = i
        BY <3>1, <2>5
      <4>2. QED BY <4>1, <2>5, <2>9 DEF IdsIn
    <3>2. ASSUME q[i].id \in IdsIn(r(p)) PROVE i \in left(p)
      <4>1. PICK k \in 1 .. Len(r(p)) : r(p)[k].id = q[i].id
        BY <3>2, <2>9 DEF IdsIn
      <4>2. pos[k] \in left(p) /\ r(p)[k] = q[pos[k]]
        BY <2>5
      <4>3. pos[k] \in DOMAIN q
        BY <4>2, <2>2
      <4>4. pos[k] = i
        BY <4>1, <4>2, <4>3, <2>1, OneEntry
      <4>5. QED BY <4>2, <4>4
    <3>3. QED BY <3>1, <3>2
  <2>11. \A i \in DOMAIN q : i \in left(p) <=> i \notin Old(q)
    BY DEF left, q
  <2>12. QED BY <2>4, <2>7, <2>8, <2>10, <2>11 DEF q
<1> HIDE DEF r, left, gone
<1>4. OutboxInv'
  <2>1. \A p \in Peers : queue'[p] = r(p)
    BY <1>1
  <2>2. queue' \in [Peers -> Seq(Entries)]
    BY <1>1, <1>3
  <2>3. \A p \in Peers : Len(queue'[p]) <= MaxPerPeer /\ Kept(p, now, queue'[p])
    BY <1>3, <2>1
  <2>4. QED BY <1>1, <1>2, <2>2, <2>3 DEF OutboxInv
<1>5. ASSUME NEW x \in Messages PROVE Told(x)
  <2> DEFINE p == Target[x]
             q == queue[p]
  <2>1. p \in Peers /\ (Held(x)' <=> x \in IdsIn(r(p)))
    <3>1. p \in Peers
      BY DEF OutboxAssumption
    <3>2. QED BY <3>1, <1>1 DEF Held
  <2>2. Held(x) <=> \E i \in DOMAIN q : q[i].id = x
    BY DEF Held, IdsIn
  <2>3. CASE gone(x)
    <3>1. PICK i \in Old(q) : q[i].id = x
      BY <2>3 DEF gone
    <3>2. i \in DOMAIN q
      BY DEF Old
    <3>3. ~Held(x)'
      BY <3>1, <3>2, <1>3, <2>1
    <3>4. report'[x] = "Abandoned"
      BY <1>1, <2>3
    <3>5. QED BY <3>1, <3>2, <3>3, <3>4, <2>2 DEF Told, Fate!Departures
  <2>4. CASE ~gone(x)
    <3>1. report'[x] = report[x]
      BY <1>1, <2>4
    <3>2. Held(x) => Held(x)'
      <4> SUFFICES ASSUME NEW i \in DOMAIN q, q[i].id = x PROVE Held(x)'
        BY <2>2
      <4>1. i \notin Old(q)
        BY <2>4 DEF gone
      <4>2. QED BY <4>1, <1>3, <2>1
    <3>3. Held(x)' => Held(x)
      BY <1>3, <2>1 DEF Held
    <3>4. QED BY <3>1, <3>2, <3>3 DEF Told
  <2>5. QED BY <2>3, <2>4
<1>6. QED BY <1>4, <1>5

\* A wipe empties every queue and says so of each message that was held.
LEMMA ClearStep ==
  ASSUME OutboxAssumption, OutboxInv, Clear
  PROVE  OutboxInv' /\ \A x \in Messages : Told(x)
<1>1. /\ queue' = [p \in Peers |-> <<>>] /\ now' = now
      /\ report' = [x \in Messages |-> IF Held(x) THEN "Cleared" ELSE report[x]]
  BY DEF Clear
<1>2. report' \in [Messages -> Reports]
  <2>1. \A x \in Messages : report[x] \in Reports
    BY DEF OutboxInv
  <2>2. QED BY <1>1, <2>1 DEF Reports
<1>3. \A p \in Peers : Kept(p, now, <<>>) /\ Len(<<>>) <= MaxPerPeer
  <2>1. <<>> \in Seq(Entries) /\ DOMAIN <<>> = {} /\ Len(<<>>) = 0
    OBVIOUS
  <2>2. 0 <= MaxPerPeer
    BY DEF OutboxAssumption
  <2>3. QED BY <2>1, <2>2 DEF Kept, Ordered
<1>4. OutboxInv'
  <2>1. \A p \in Peers : queue'[p] = <<>>
    BY <1>1
  <2>2. queue' \in [Peers -> Seq(Entries)]
    BY <1>1
  <2>3. \A p \in Peers : Len(queue'[p]) <= MaxPerPeer /\ Kept(p, now, queue'[p])
    BY <1>3, <2>1
  <2>4. QED BY <1>1, <1>2, <2>2, <2>3 DEF OutboxInv
<1>5. ASSUME NEW x \in Messages PROVE Told(x)
  <2>1. ~Held(x)'
    <3>1. Target[x] \in Peers
      BY DEF OutboxAssumption
    <3>2. queue'[Target[x]] = <<>>
      BY <1>1, <3>1
    <3>3. QED BY <3>2 DEF Held, IdsIn
  <2>2. report'[x] = IF Held(x) THEN "Cleared" ELSE report[x]
    BY <1>1
  <2>3. QED BY <2>1, <2>2 DEF Told, Fate!Departures
<1>6. QED BY <1>4, <1>5

\* As time passes a queue keeps its order and its entries only grow older.
LEMMA TickStep ==
  ASSUME OutboxAssumption, OutboxInv, Tick
  PROVE  OutboxInv' /\ \A x \in Messages : Told(x)
<1>1. queue' = queue /\ report' = report /\ now' = now + 1 /\ now < MaxTime
  BY DEF Tick
<1>2. MaxTime \in Nat /\ now \in 0 .. MaxTime
  BY DEF OutboxAssumption, OutboxInv
<1>3. now' \in 0 .. MaxTime
  BY <1>1, <1>2
<1>4. ASSUME NEW p \in Peers PROVE Kept(p, now', queue'[p])
  <2> DEFINE q == queue[p]
  <2>1. q \in Seq(Entries) /\ Ordered(q) /\ \A i \in DOMAIN q : Sound(p, now, q[i])
    BY DEF OutboxInv, Kept
  <2>2. ASSUME NEW i \in DOMAIN q PROVE Sound(p, now', q[i])
    <3>1. q[i] \in Entries
      BY <2>1
    <3>2. q[i].at \in 0 .. MaxTime /\ Sound(p, now, q[i])
      BY <2>1, <3>1 DEF Entries
    <3> DEFINE e == q[i]
    <3> HIDE DEF e
    <3>3. e.at \in 0 .. MaxTime /\ Sound(p, now, e)
      BY <3>2 DEF e
    <3>4. e.at <= now'
      BY <1>1, <1>2, <3>3 DEF Sound
    <3>5. Sound(p, now', e)
      BY <3>3, <3>4 DEF Sound
    <3>6. QED BY <3>5 DEF e
  <2>3. queue'[p] = q
    BY <1>1
  <2> HIDE DEF q
  <2>4. QED BY <2>1, <2>2, <2>3 DEF Kept
<1>5. OutboxInv'
  BY <1>1, <1>3, <1>4 DEF OutboxInv
<1>6. \A x \in Messages : Told(x)
  BY <1>1 DEF Told, Held
<1>7. QED BY <1>5, <1>6

\* The outbox starts empty, and every message new.
LEMMA OutboxInit ==
  ASSUME OutboxAssumption, Init
  PROVE  OutboxInv /\ \A x \in Messages : ~Held(x) /\ report[x] = "New"
<1>1. queue = [p \in Peers |-> <<>>] /\ now = 0 /\ report = [x \in Messages |-> "New"]
  BY DEF Init
<1>2. \A p \in Peers : Kept(p, now, <<>>) /\ Len(<<>>) <= MaxPerPeer
  <2>1. <<>> \in Seq(Entries) /\ DOMAIN <<>> = {} /\ Len(<<>>) = 0
    OBVIOUS
  <2>2. 0 <= MaxPerPeer
    BY DEF OutboxAssumption
  <2>3. QED BY <2>1, <2>2 DEF Kept, Ordered
<1>3. now \in 0 .. MaxTime /\ report \in [Messages -> Reports] /\ queue \in [Peers -> Seq(Entries)]
  <2>1. now \in 0 .. MaxTime
    BY <1>1 DEF OutboxAssumption
  <2>2. report \in [Messages -> Reports]
    BY <1>1 DEF Reports
  <2>3. queue \in [Peers -> Seq(Entries)]
    BY <1>1
  <2>4. QED BY <2>1, <2>2, <2>3
<1>4. \A p \in Peers : queue[p] = <<>>
  BY <1>1
<1>5. OutboxInv
  BY <1>2, <1>3, <1>4 DEF OutboxInv
<1>6. ASSUME NEW x \in Messages PROVE ~Held(x) /\ report[x] = "New"
  <2>1. Target[x] \in Peers
    BY DEF OutboxAssumption
  <2>2. QED BY <1>1, <1>4, <2>1 DEF Held, IdsIn
<1>7. QED BY <1>5, <1>6

\* Every call keeps the queues, and tells the caller of each message that leaves.
LEMMA OutboxStep ==
  ASSUME OutboxAssumption, OutboxInv, [Next]_vars
  PROVE  OutboxInv' /\ \A x \in Messages : Told(x)
<1>1. CASE \E m \in Messages : Hold(m)
  BY <1>1, HoldStep
<1>2. CASE \E m \in Messages : MarkAttempted(m)
  BY <1>2, MarkAttemptedStep
<1>3. CASE \E m \in Messages : Acknowledge(m)
  BY <1>3, AcknowledgeStep
<1>4. CASE Expire
  BY <1>4, ExpireStep
<1>5. CASE Clear
  BY <1>5, ClearStep
<1>6. CASE Tick
  BY <1>6, TickStep
<1>7. CASE UNCHANGED vars
  <2>1. queue' = queue /\ now' = now /\ report' = report
    BY <1>7 DEF vars
  <2>2. OutboxInv'
    BY <2>1 DEF OutboxInv
  <2>3. \A x \in Messages : Told(x)
    BY <2>1 DEF Told, Held
  <2>4. QED BY <2>2, <2>3
<1>8. QED BY <1>1, <1>2, <1>3, <1>4, <1>5, <1>6, <1>7 DEF Next

\* What the next call relies on is enough for what the queue promises.
LEMMA InvKeeps ==
  ASSUME OutboxInv
  PROVE  QueueKept
<1>1. TypeOK
  BY DEF OutboxInv, TypeOK, Reports
<1>2. QueueWellFormed
  BY DEF OutboxInv, Kept, Ordered, QueueWellFormed
<1>3. BackoffHolds
  BY DEF OutboxInv, Kept, Sound, BackoffHolds
<1>4. QED BY <1>1, <1>2, <1>3 DEF QueueKept
-----------------------------------------------------------------------------
\* For every set of peers and messages, cap, age and backoff: each queue the outbox keeps
\* stays within its cap, oldest first and without doubles, and each retry is as late as the
\* doubling, capped backoffs before it add up to.
THEOREM QueueStaysKept ==
  ASSUME OutboxAssumption
  PROVE  Spec => []QueueKept
<1>1. Init => OutboxInv
  BY OutboxInit
<1>2. OutboxInv /\ [Next]_vars => OutboxInv'
  BY OutboxStep
<1>3. OutboxInv => QueueKept
  BY InvKeeps
<1>4. QED BY <1>1, <1>2, <1>3, PTL DEF Spec

\* What the caller can tell of each message.
FateOf == [m \in Messages |-> IF Held(m) THEN "Held" ELSE report[m]]

\* The outbox implements MessageFate: a message that hold has taken is held until it is
\* acknowledged, displaced, abandoned or cleared, and the caller is told which.
THEOREM NothingVanishes ==
  ASSUME OutboxAssumption
  PROVE  Spec => NoneVanishes
<1>1. Init => OutboxInv
  BY OutboxInit
<1>2. OutboxInv /\ [Next]_vars => OutboxInv'
  BY OutboxStep
<1>3. Init => Fate!Init
  <2> SUFFICES ASSUME Init PROVE Fate!Init
    OBVIOUS
  <2>1. \A x \in Messages : ~Held(x) /\ report[x] = "New"
    BY OutboxInit
  <2>2. QED BY <2>1 DEF Fate!Init
<1>4. OutboxInv /\ OutboxInv' /\ [Next]_vars => Fate!Next
  <2> SUFFICES ASSUME OutboxInv, OutboxInv', [Next]_vars PROVE Fate!Next
    OBVIOUS
  <2>1. \A x \in Messages : Told(x)
    BY OutboxStep
  <2>2. report \in [Messages -> Reports] /\ report' \in [Messages -> Reports]
    BY DEF OutboxInv
  <2>3. ASSUME NEW x \in Messages
        PROVE  /\ FateOf[x] = IF Held(x) THEN "Held" ELSE report[x]
               /\ FateOf'[x] = IF Held(x)' THEN "Held" ELSE report'[x]
               /\ report[x] # "Held" /\ report'[x] # "Held"
               /\ report'[x] \in Fate!Departures \cup {"New", "Held"}
    <3>1. report[x] \in Reports /\ report'[x] \in Reports
      BY <2>2
    <3>2. QED BY <3>1 DEF FateOf, Reports, Fate!Departures
  <2>4. FateOf' \in [Messages -> Fate!Departures \cup {"New", "Held"}]
    BY <2>3 DEF FateOf
  <2>5. ASSUME NEW x \in Messages
        PROVE  \/ FateOf'[x] = FateOf[x]
               \/ FateOf[x] # "Held" /\ FateOf'[x] = "Held"
               \/ FateOf[x] = "Held" /\ FateOf'[x] \in Fate!Departures
    BY <2>1, <2>3 DEF Told
  <2>6. QED BY <2>4, <2>5 DEF Fate!Next, Fate!Step, FateOf
<1>5. QED BY <1>1, <1>2, <1>3, <1>4, PTL DEF Spec, NoneVanishes, Fate!Spec
-----------------------------------------------------------------------------
(* The mailbox *)

\* An interval has as many members as it is long.
LEMMA Length ==
  ASSUME NEW n \in Nat
  PROVE  IsFiniteSet(1 .. n) /\ Cardinality(1 .. n) = n
<1>1. n \in Int /\ 1 \in Int
  OBVIOUS
<1>2. IsFiniteSet(1 .. n) /\ Cardinality(1 .. n) = IF 1 > n THEN 0 ELSE n - 1 + 1
  BY <1>1, FS_Interval
<1>3. QED BY <1>2

\* Thinning does not bring two places together.
LEMMA ThinsApart ==
  ASSUME NEW S, NEW q \in Seq(S), NEW r \in Seq(S), NEW pos, Thins(q, r, pos)
  PROVE  \A k, l \in 1 .. Len(r) : pos[k] = pos[l] => k = l
<1> SUFFICES ASSUME NEW k \in 1 .. Len(r), NEW l \in 1 .. Len(r), k # l
             PROVE  pos[k] # pos[l]
  OBVIOUS
<1>1. Len(q) \in Nat /\ Len(r) \in Nat
  OBVIOUS
<1>2. k \in Nat /\ l \in Nat /\ pos[k] \in Nat /\ pos[l] \in Nat
  BY <1>1 DEF Thins
<1>3. k < l \/ l < k
  BY <1>2
<1>4. pos[k] < pos[l] \/ pos[l] < pos[k]
  BY <1>3 DEF Thins
<1>5. QED BY <1>2, <1>4

\* A sequence that is thinned to exactly the kept places is what retain leaves: there is
\* only one such sequence.
LEMMA RetainIs ==
  ASSUME NEW S, NEW q \in Seq(S), NEW kept \in SUBSET (1 .. Len(q)), NEW r \in Seq(S), NEW pos,
         Thins(q, r, pos), \A k \in 1 .. Len(r) : pos[k] \in kept,
         \A i \in kept : \E k \in 1 .. Len(r) : pos[k] = i
  PROVE  r = Retain(q, kept)
<1> DEFINE n == Len(r)
<1>1. n \in Nat /\ Len(q) \in Nat
  OBVIOUS
<1>2. \A k, l \in 1 .. n : pos[k] = pos[l] => k = l
  BY ThinsApart
<1>3. \A k \in 1 .. n : pos[k] \in Nat /\ k \in Nat
  <2>1. \A k \in 1 .. n : pos[k] \in 1 .. Len(q)
    BY DEF Thins
  <2>2. QED BY <1>1, <2>1
<1>4. \A k, l \in 1 .. n : pos[l] <= pos[k] <=> l <= k
  <2> SUFFICES ASSUME NEW k \in 1 .. n, NEW l \in 1 .. n
               PROVE  pos[l] <= pos[k] <=> l <= k
    OBVIOUS
  <2>1. k \in Nat /\ l \in Nat /\ pos[k] \in Nat /\ pos[l] \in Nat
    BY <1>3
  <2>2. k < l => pos[k] < pos[l]
    BY DEF Thins
  <2>3. l < k => pos[l] < pos[k]
    BY DEF Thins
  <2>4. QED BY <2>1, <2>2, <2>3
<1>5. ASSUME NEW m \in Nat, m <= n, NEW K, \A x : x \in K <=> \E l \in 1 .. m : x = pos[l]
      PROVE  Cardinality(K) = m
  <2> DEFINE g == [l \in 1 .. m |-> pos[l]]
  <2>1. 1 .. m \subseteq 1 .. n
    BY <1>1, <1>5
  <2>2. g \in [1 .. m -> K]
    BY <1>5
  <2>3. \A k, l \in 1 .. m : g[k] = g[l] => k = l
    BY <1>2, <2>1
  <2>4. \A x \in K : \E l \in 1 .. m : g[l] = x
    BY <1>5
  <2> HIDE DEF g
  <2>5. g \in Bijection(1 .. m, K)
    BY <2>2, <2>3, <2>4 DEF Bijection, Injection, Surjection, IsInjective
  <2>6. ExistsBijection(1 .. m, K)
    BY <2>5 DEF ExistsBijection
  <2>7. IsFiniteSet(1 .. m) /\ Cardinality(1 .. m) = m
    BY Length
  <2>8. QED BY <2>6, <2>7, FS_Bijection
<1>6. Cardinality(kept) = n
  <2>1. \A x : x \in kept <=> \E l \in 1 .. n : x = pos[l]
    OBVIOUS
  <2> HIDE DEF n
  <2>2. n <= n
    BY <1>1
  <2>3. QED BY <1>1, <1>5, <2>1, <2>2
<1>7. \A k \in 1 .. n : Rank(kept, pos[k]) = k
  <2> TAKE k \in 1 .. n
  <2> DEFINE K == {x \in kept : x <= pos[k]}
  <2>1. \A x : x \in K <=> \E l \in 1 .. k : x = pos[l]
    <3> TAKE x
    <3>1. ASSUME x \in K PROVE \E l \in 1 .. k : x = pos[l]
      <4>1. PICK l \in 1 .. n : pos[l] = x
        BY <3>1
      <4>2. l <= k
        BY <1>4, <3>1, <4>1
      <4>3. l \in 1 .. k
        BY <1>1, <4>2
      <4>4. QED BY <4>1, <4>3
    <3>2. ASSUME NEW l \in 1 .. k, x = pos[l] PROVE x \in K
      <4>1. l \in 1 .. n /\ l <= k
        BY <1>1
      <4>2. pos[l] \in kept /\ pos[l] <= pos[k]
        BY <1>4, <4>1
      <4>3. QED BY <3>2, <4>2
    <3>3. QED BY <3>1, <3>2
  <2>2. k \in Nat /\ k <= n
    BY <1>1
  <2>3. Rank(kept, pos[k]) = Cardinality(K)
    BY DEF Rank
  <2> HIDE DEF K
  <2>4. Cardinality(K) = k
    BY <1>5, <2>1, <2>2
  <2>5. QED BY <2>3, <2>4
<1>8. \A k \in 1 .. n : (CHOOSE i \in kept : Rank(kept, i) = k) = pos[k]
  <2> TAKE k \in 1 .. n
  <2>1. pos[k] \in kept /\ Rank(kept, pos[k]) = k
    BY <1>7
  <2>2. \A i \in kept : Rank(kept, i) = k => i = pos[k]
    BY <1>7
  <2>3. QED BY <2>1, <2>2
<1>9. Retain(q, kept) = [k \in 1 .. n |-> q[pos[k]]]
  <2>1. Retain(q, kept) = [k \in 1 .. n |-> q[CHOOSE i \in kept : Rank(kept, i) = k]]
    BY <1>6 DEF Retain
  <2> HIDE DEF n
  <2>2. QED BY <1>8, <2>1
<1>10. r = [k \in 1 .. n |-> r[k]]
  OBVIOUS
<1>11. \A k \in 1 .. n : r[k] = q[pos[k]]
  BY DEF Thins
<1> HIDE DEF n
<1>12. QED BY <1>9, <1>10, <1>11

\* What stays on the shelf is a thinning of it, to exactly the places that were kept.
LEMMA KeptPlaces ==
  ASSUME NEW S, NEW q \in Seq(S), NEW kept \in SUBSET (1 .. Len(q))
  PROVE  /\ Keep(q, kept) = Retain(q, kept) /\ Keep(q, kept) \in Seq(S)
         /\ \E pos : /\ Thins(q, Keep(q, kept), pos)
                     /\ \A k \in 1 .. Len(Keep(q, kept)) : pos[k] \in kept
                     /\ \A i \in kept : \E k \in 1 .. Len(Keep(q, kept)) : pos[k] = i
<1> DEFINE r == Keep(q, kept)
<1>1. r = Retain(q, kept)
  BY DEF Keep, Retain, Rank
<1> HIDE DEF r
<1>2. /\ r \in Seq(S)
      /\ \E pos \in [1 .. Len(r) -> kept] :
           /\ \A k, l \in 1 .. Len(r) : k < l => pos[k] < pos[l]
           /\ \A k \in 1 .. Len(r) : r[k] = q[pos[k]]
           /\ \A i \in kept : \E k \in 1 .. Len(r) : pos[k] = i
  BY <1>1, RetainOrdered
<1>3. PICK pos \in [1 .. Len(r) -> kept] :
           /\ \A k, l \in 1 .. Len(r) : k < l => pos[k] < pos[l]
           /\ \A k \in 1 .. Len(r) : r[k] = q[pos[k]]
           /\ \A i \in kept : \E k \in 1 .. Len(r) : pos[k] = i
  BY <1>2
<1>4. pos \in [1 .. Len(r) -> 1 .. Len(q)]
  OBVIOUS
<1>5. Thins(q, r, pos)
  BY <1>3, <1>4 DEF Thins
<1>6. \A k \in 1 .. Len(r) : pos[k] \in kept
  OBVIOUS
<1>7. QED BY <1>1, <1>2, <1>3, <1>5, <1>6 DEF r

\* Taking one place out is a thinning.
LEMMA TakenOutThins ==
  ASSUME NEW S, NEW q \in Seq(S), NEW i \in DOMAIN q
  PROVE  \E pos : Thins(q, RemoveAt(q, i), pos) /\ \A k \in 1 .. Len(RemoveAt(q, i)) : pos[k] # i
<1> DEFINE r == RemoveAt(q, i)
           pos == [k \in 1 .. Len(q) - 1 |-> IF k < i THEN k ELSE k + 1]
<1>1. Len(q) \in Nat /\ DOMAIN q = 1 .. Len(q) /\ i \in 1 .. Len(q)
  OBVIOUS
<1>2. /\ r \in Seq(S) /\ Len(r) = Len(q) - 1
      /\ \A k \in 1 .. Len(q) - 1 : r[k] = IF k < i THEN q[k] ELSE q[k + 1]
  BY OneTakenOut
<1> HIDE DEF r
<1>3. \A k \in 1 .. Len(r) : pos[k] \in 1 .. Len(q) /\ r[k] = q[pos[k]] /\ pos[k] # i
  BY <1>1, <1>2
<1>4. pos \in [1 .. Len(r) -> 1 .. Len(q)]
  BY <1>1, <1>2
<1>5. \A k, l \in 1 .. Len(r) : k < l => pos[k] < pos[l]
  BY <1>1, <1>2
<1> HIDE DEF pos
<1>6. Thins(q, r, pos)
  BY <1>3, <1>4, <1>5 DEF Thins
<1>7. QED BY <1>3, <1>6 DEF r

Envelopes == [letter : Letters, tag : People \X Nat, expiry : Nat, copies : 1 .. MaxCopies,
              prekey : BOOLEAN]

\* What is in date later was in date before: pruning again later is pruning later.
LEMMA PrunedTwice ==
  ASSUME NEW q \in Seq(Items), NEW s \in Nat, NEW t \in Nat, s <= t
  PROVE  Pruned(q, s) \in Seq(Items) /\ Pruned(Pruned(q, s), t) = Pruned(q, t)
<1> DEFINE r == Pruned(q, s)
           u == Pruned(r, t)
<1>1. InDate(q, s) \in SUBSET (1 .. Len(q)) /\ InDate(q, t) \in SUBSET (1 .. Len(q))
  BY DEF InDate
<1>2. \A i \in DOMAIN q : q[i].envelope.expiry \in Nat
  <2> TAKE i \in DOMAIN q
  <2>1. q[i] \in Items
    OBVIOUS
  <2>2. QED BY <2>1 DEF Items
<1>3. InDate(q, t) \subseteq InDate(q, s)
  BY <1>2 DEF InDate, IsExpired
<1>4. /\ r \in Seq(Items)
      /\ \E pos : /\ Thins(q, r, pos)
                  /\ \A k \in 1 .. Len(r) : pos[k] \in InDate(q, s)
                  /\ \A i \in InDate(q, s) : \E k \in 1 .. Len(r) : pos[k] = i
  BY <1>1, KeptPlaces DEF Pruned
<1> HIDE DEF r
<1>5. InDate(r, t) \in SUBSET (1 .. Len(r))
  BY <1>4 DEF InDate
<1>6. /\ u \in Seq(Items)
      /\ \E pos : /\ Thins(r, u, pos)
                  /\ \A k \in 1 .. Len(u) : pos[k] \in InDate(r, t)
                  /\ \A i \in InDate(r, t) : \E k \in 1 .. Len(u) : pos[k] = i
  BY <1>4, <1>5, KeptPlaces DEF Pruned
<1> HIDE DEF u
<1>7. PICK f : /\ Thins(q, r, f)
               /\ \A k \in 1 .. Len(r) : f[k] \in InDate(q, s)
               /\ \A i \in InDate(q, s) : \E k \in 1 .. Len(r) : f[k] = i
  BY <1>4
<1>8. PICK g : /\ Thins(r, u, g)
               /\ \A k \in 1 .. Len(u) : g[k] \in InDate(r, t)
               /\ \A i \in InDate(r, t) : \E k \in 1 .. Len(u) : g[k] = i
  BY <1>6
<1> DEFINE h == [k \in 1 .. Len(u) |-> f[g[k]]]
<1>9. \A k \in 1 .. Len(u) : g[k] \in 1 .. Len(r) /\ u[k] = r[g[k]]
  BY <1>8 DEF Thins
<1>10. \A k \in 1 .. Len(r) : f[k] \in 1 .. Len(q) /\ r[k] = q[f[k]]
  BY <1>7 DEF Thins
<1>11. Thins(q, u, h)
  <2>1. h \in [1 .. Len(u) -> 1 .. Len(q)]
    BY <1>9, <1>10
  <2>2. \A k \in 1 .. Len(u) : u[k] = q[h[k]]
    BY <1>9, <1>10
  <2>3. \A k, l \in 1 .. Len(u) : k < l => h[k] < h[l]
    <3> SUFFICES ASSUME NEW k \in 1 .. Len(u), NEW l \in 1 .. Len(u), k < l
                 PROVE  f[g[k]] < f[g[l]]
      OBVIOUS
    <3>1. g[k] < g[l]
      BY <1>8 DEF Thins
    <3>2. QED BY <1>7, <1>9, <3>1 DEF Thins
  <2> HIDE DEF h
  <2>4. QED BY <2>1, <2>2, <2>3 DEF Thins
<1>12. \A k \in 1 .. Len(r) : k \in InDate(r, t) <=> f[k] \in InDate(q, t)
  BY <1>4, <1>10 DEF InDate
<1>13. \A k \in 1 .. Len(u) : h[k] \in InDate(q, t)
  BY <1>8, <1>9, <1>12
<1>14. \A i \in InDate(q, t) : \E k \in 1 .. Len(u) : h[k] = i
  <2> TAKE i \in InDate(q, t)
  <2>1. PICK j \in 1 .. Len(r) : f[j] = i
    BY <1>3, <1>7
  <2>2. j \in InDate(r, t)
    BY <1>12, <2>1
  <2>3. PICK k \in 1 .. Len(u) : g[k] = j
    BY <1>8, <2>2
  <2>4. QED BY <2>1, <2>3
<1> HIDE DEF h
<1>15. u = Retain(q, InDate(q, t))
  <2> DEFINE kept == InDate(q, t)
  <2>1. kept \in SUBSET (1 .. Len(q)) /\ u \in Seq(Items) /\ q \in Seq(Items)
    BY <1>1, <1>6
  <2>2. (\A k \in 1 .. Len(u) : h[k] \in kept) /\ \A i \in kept : \E k \in 1 .. Len(u) : h[k] = i
    BY <1>13, <1>14
  <2> HIDE DEF kept
  <2>3. u = Retain(q, kept)
    BY ONLY <1>11, <2>1, <2>2, RetainIs
  <2>4. QED BY <2>3 DEF kept
<1>16. Pruned(q, t) = Retain(q, InDate(q, t))
  BY <1>1, KeptPlaces DEF Pruned
<1>17. QED BY <1>4, <1>15, <1>16 DEF r, u
-----------------------------------------------------------------------------
\* WithinQuotas, of any shelf.
InQuotas(shelf) ==
  /\ Len(shelf) <= MaxHeld
  /\ Cardinality(OfTier(shelf, "verified")) <= MaxVerifiedHeld
  /\ \A p \in People : Cardinality(LeftBy(shelf, p)) <= MaxPerFavourite
  /\ \A i, j \in DOMAIN shelf :
       Fingerprint(shelf[i].envelope) = Fingerprint(shelf[j].envelope) => i = j

\* Nothing is counted more after items were taken out.
LEMMA FewerCounted ==
  ASSUME NEW q \in Seq(Items), NEW r \in Seq(Items), NEW pos, Thins(q, r, pos)
  PROVE  /\ Len(r) <= Len(q)
         /\ \A tier : Cardinality(OfTier(r, tier)) <= Cardinality(OfTier(q, tier))
         /\ \A p : Cardinality(LeftBy(r, p)) <= Cardinality(LeftBy(q, p))
         /\ \A tier : Cardinality(OfTier(q, tier)) \in Nat /\ Cardinality(OfTier(r, tier)) \in Nat
         /\ \A p : Cardinality(LeftBy(q, p)) \in Nat /\ Cardinality(LeftBy(r, p)) \in Nat
<1>1. Len(q) \in Nat /\ Len(r) \in Nat /\ DOMAIN q = 1 .. Len(q) /\ DOMAIN r = 1 .. Len(r)
  OBVIOUS
<1>2. \A k, l \in 1 .. Len(r) : pos[k] = pos[l] => k = l
  BY ThinsApart
<1>3. pos \in [1 .. Len(r) -> 1 .. Len(q)] /\ \A k \in 1 .. Len(r) : r[k] = q[pos[k]]
  BY DEF Thins
<1>4. ASSUME NEW A \in SUBSET (1 .. Len(r)), NEW B \in SUBSET (1 .. Len(q)),
             \A k \in A : pos[k] \in B
      PROVE  /\ Cardinality(A) <= Cardinality(B)
             /\ Cardinality(A) \in Nat /\ Cardinality(B) \in Nat
  <2> DEFINE g == [k \in A |-> pos[k]]
             n == Len(q)
  <2>1. g \in [A -> B] /\ \A k, l \in A : g[k] = g[l] => k = l
    BY <1>2, <1>4
  <2>2. IsFiniteSet(1 .. n) /\ B \in SUBSET (1 .. n)
    <3>1. n \in Nat /\ B \in SUBSET (1 .. n)
      BY <1>1
    <3> HIDE DEF n
    <3>2. QED BY <3>1, Length
  <2> HIDE DEF g, n
  <2>3. IsFiniteSet(B)
    BY <2>2, FS_Subset
  <2>4. g \in Injection(A, B)
    BY <2>1 DEF Injection, IsInjective
  <2>5. IsFiniteSet(A) /\ Cardinality(A) <= Cardinality(B)
    BY <2>3, <2>4, FS_Injection
  <2>6. QED BY <2>3, <2>5, FS_CardinalityType
<1>5. Len(r) <= Len(q)
  <2>1. Cardinality(1 .. Len(r)) <= Cardinality(1 .. Len(q))
    BY <1>3, <1>4
  <2> DEFINE n == Len(q)
             m == Len(r)
  <2>2. n \in Nat /\ m \in Nat /\ Cardinality(1 .. m) <= Cardinality(1 .. n)
    BY <1>1, <2>1
  <2> HIDE DEF n, m
  <2>3. m <= n
    BY <2>2, Length
  <2>4. QED BY <2>3 DEF n, m
<1>6. ASSUME NEW tier
      PROVE  /\ Cardinality(OfTier(r, tier)) <= Cardinality(OfTier(q, tier))
             /\ Cardinality(OfTier(q, tier)) \in Nat /\ Cardinality(OfTier(r, tier)) \in Nat
  <2>1. /\ OfTier(r, tier) \in SUBSET (1 .. Len(r)) /\ OfTier(q, tier) \in SUBSET (1 .. Len(q))
        /\ \A k \in OfTier(r, tier) : pos[k] \in OfTier(q, tier)
    BY <1>1, <1>3 DEF OfTier
  <2>2. QED BY <1>4, <2>1
<1>7. ASSUME NEW p
      PROVE  /\ Cardinality(LeftBy(r, p)) <= Cardinality(LeftBy(q, p))
             /\ Cardinality(LeftBy(q, p)) \in Nat /\ Cardinality(LeftBy(r, p)) \in Nat
  <2>1. /\ LeftBy(r, p) \in SUBSET (1 .. Len(r)) /\ LeftBy(q, p) \in SUBSET (1 .. Len(q))
        /\ \A k \in LeftBy(r, p) : pos[k] \in LeftBy(q, p)
    BY <1>1, <1>3 DEF LeftBy
  <2>2. QED BY <1>4, <2>1
<1>8. QED BY <1>5, <1>6, <1>7

\* A shelf within its quotas stays so when items are taken out.
LEMMA QuotasThinned ==
  ASSUME ShelfAssumption, NEW q \in Seq(Items), InQuotas(q), NEW r \in Seq(Items), NEW pos,
         Thins(q, r, pos)
  PROVE  /\ InQuotas(r)
         /\ \A x \in ToSet(r) : x \in ToSet(q)
<1>1. /\ Len(r) <= Len(q)
      /\ Cardinality(OfTier(r, "verified")) <= Cardinality(OfTier(q, "verified"))
      /\ Cardinality(OfTier(q, "verified")) \in Nat /\ Cardinality(OfTier(r, "verified")) \in Nat
  BY FewerCounted
<1>2. \A p \in People : /\ Cardinality(LeftBy(r, p)) <= Cardinality(LeftBy(q, p))
                        /\ Cardinality(LeftBy(q, p)) \in Nat /\ Cardinality(LeftBy(r, p)) \in Nat
  BY FewerCounted
<1>3. MaxHeld \in Nat /\ MaxVerifiedHeld \in Nat /\ MaxPerFavourite \in Nat
  BY DEF ShelfAssumption
<1>4. Len(r) <= MaxHeld
  <2>1. Len(q) \in Nat /\ Len(r) \in Nat /\ Len(q) <= MaxHeld
    BY DEF InQuotas
  <2>2. QED BY <1>1, <1>3, <2>1
<1>5. Cardinality(OfTier(r, "verified")) <= MaxVerifiedHeld
  BY <1>1, <1>3 DEF InQuotas
<1>6. \A p \in People : Cardinality(LeftBy(r, p)) <= MaxPerFavourite
  BY <1>2, <1>3 DEF InQuotas
<1>7. /\ DOMAIN q = 1 .. Len(q) /\ DOMAIN r = 1 .. Len(r)
      /\ \A k \in DOMAIN r : pos[k] \in DOMAIN q /\ r[k] = q[pos[k]]
      /\ \A k, l \in DOMAIN r : pos[k] = pos[l] => k = l
  <2>1. DOMAIN q = 1 .. Len(q) /\ DOMAIN r = 1 .. Len(r)
    OBVIOUS
  <2>2. \A k, l \in 1 .. Len(r) : pos[k] = pos[l] => k = l
    BY ThinsApart
  <2>3. QED BY <2>1, <2>2 DEF Thins
<1>8. \A i, j \in DOMAIN r :
        Fingerprint(r[i].envelope) = Fingerprint(r[j].envelope) => i = j
  BY <1>7 DEF InQuotas
<1>9. \A x \in ToSet(r) : x \in ToSet(q)
  BY <1>7 DEF ToSet
<1>10. QED BY <1>4, <1>5, <1>6, <1>8, <1>9 DEF InQuotas

\* A new item at the end counts once for its depositor and once for its tier.
LEMMA Placed ==
  ASSUME ShelfAssumption, NEW q \in Seq(Items), InQuotas(q), NEW item \in Items,
         Len(q) < MaxHeld,
         \A i \in DOMAIN q : Fingerprint(q[i].envelope) # Fingerprint(item.envelope),
         Cardinality(LeftBy(q, item.depositor)) < MaxPerFavourite,
         item.tier = "verified" => Cardinality(OfTier(q, "verified")) < MaxVerifiedHeld
  PROVE  /\ Append(q, item) \in Seq(Items) /\ InQuotas(Append(q, item))
         /\ \A x \in ToSet(Append(q, item)) : x = item \/ x \in ToSet(q)
         /\ \A x \in ToSet(q) : x \in ToSet(Append(q, item))
<1> DEFINE r == Append(q, item)
           n == Len(q)
<1>1. n \in Nat /\ DOMAIN q = 1 .. n /\ n < MaxHeld /\ n <= MaxHeld
  BY DEF InQuotas
<1>2. /\ r \in Seq(Items) /\ Len(r) = n + 1 /\ DOMAIN r = 1 .. n + 1 /\ r[n + 1] = item
      /\ \A i \in 1 .. n : r[i] = q[i]
  OBVIOUS
<1> HIDE DEF r, n
<1>3. /\ DOMAIN r = DOMAIN q \cup {n + 1} /\ n + 1 \notin DOMAIN q
      /\ \A i \in DOMAIN q : r[i] = q[i]
  BY <1>1, <1>2
<1>4. MaxHeld \in Nat /\ MaxVerifiedHeld \in Nat /\ MaxPerFavourite \in Nat
  BY DEF ShelfAssumption
<1>5. IsFiniteSet(1 .. n)
  BY <1>1, Length
<1>6. ASSUME NEW A \in SUBSET (DOMAIN q)
      PROVE  /\ IsFiniteSet(A) /\ Cardinality(A) \in Nat
             /\ Cardinality(A \cup {n + 1}) = Cardinality(A) + 1
  <2>1. IsFiniteSet(A)
    BY <1>1, <1>5, FS_Subset
  <2>2. n + 1 \notin A
    BY <1>3
  <2>3. QED BY <2>1, <2>2, FS_AddElement, FS_CardinalityType
<1>7. Len(r) <= MaxHeld
  BY <1>1, <1>2, <1>4
<1>8. Cardinality(OfTier(r, "verified")) <= MaxVerifiedHeld
  <2> DEFINE A == OfTier(q, "verified")
  <2>1. A \in SUBSET (DOMAIN q) /\ Cardinality(A) <= MaxVerifiedHeld
    BY DEF OfTier, InQuotas
  <2>2. CASE item.tier = "verified"
    <3>1. OfTier(r, "verified") = A \cup {n + 1}
      BY <1>2, <1>3, <2>2 DEF OfTier
    <3>2. Cardinality(A) < MaxVerifiedHeld
      BY <2>2
    <3> HIDE DEF A
    <3>3. Cardinality(A) \in Nat /\ Cardinality(A \cup {n + 1}) = Cardinality(A) + 1
      BY <1>6, <2>1
    <3>4. Cardinality(A \cup {n + 1}) <= MaxVerifiedHeld
      BY ONLY <1>4, <3>2, <3>3
    <3>5. QED BY <3>1, <3>4
  <2>3. CASE item.tier # "verified"
    <3>1. OfTier(r, "verified") = A
      BY <1>2, <1>3, <2>3 DEF OfTier
    <3>2. QED BY <2>1, <3>1
  <2>4. QED BY <2>2, <2>3
<1>9. ASSUME NEW p \in People PROVE Cardinality(LeftBy(r, p)) <= MaxPerFavourite
  <2> DEFINE A == LeftBy(q, p)
  <2>1. A \in SUBSET (DOMAIN q) /\ Cardinality(A) <= MaxPerFavourite
    BY DEF LeftBy, InQuotas
  <2>2. CASE item.depositor = p
    <3>1. LeftBy(r, p) = A \cup {n + 1}
      BY <1>2, <1>3, <2>2 DEF LeftBy
    <3>2. Cardinality(A) < MaxPerFavourite
      BY <2>2
    <3> HIDE DEF A
    <3>3. Cardinality(A) \in Nat /\ Cardinality(A \cup {n + 1}) = Cardinality(A) + 1
      BY <1>6, <2>1
    <3>4. Cardinality(A \cup {n + 1}) <= MaxPerFavourite
      BY ONLY <1>4, <3>2, <3>3
    <3>5. QED BY <3>1, <3>4
  <2>3. CASE item.depositor # p
    <3>1. LeftBy(r, p) = A
      BY <1>2, <1>3, <2>3 DEF LeftBy
    <3>2. QED BY <2>1, <3>1
  <2>4. QED BY <2>2, <2>3
<1>10. ASSUME NEW i \in DOMAIN r, NEW j \in DOMAIN r,
              Fingerprint(r[i].envelope) = Fingerprint(r[j].envelope)
       PROVE  i = j
  <2>1. CASE i \in DOMAIN q /\ j \in DOMAIN q
    BY <1>3, <1>10, <2>1 DEF InQuotas
  <2>2. CASE i = n + 1 /\ j \in DOMAIN q
    BY <1>2, <1>3, <1>10, <2>2
  <2>3. CASE i \in DOMAIN q /\ j = n + 1
    BY <1>2, <1>3, <1>10, <2>3
  <2>4. QED BY <1>3, <2>1, <2>2, <2>3
<1>11. InQuotas(r)
  BY <1>7, <1>8, <1>9, <1>10 DEF InQuotas
<1>12. \A x \in ToSet(r) : x = item \/ x \in ToSet(q)
  BY <1>2, <1>3 DEF ToSet
<1>13. \A x \in ToSet(q) : x \in ToSet(r)
  BY <1>3 DEF ToSet
<1>14. QED BY <1>2, <1>11, <1>12, <1>13 DEF r

\* Quotas count neither budgets nor places: raising a copy's budget changes none of them.
LEMMA SameCounts ==
  ASSUME NEW q \in Seq(Items), InQuotas(q), NEW r \in Seq(Items), DOMAIN r = DOMAIN q,
         \A i \in DOMAIN q : /\ r[i].tier = q[i].tier /\ r[i].depositor = q[i].depositor
                             /\ Fingerprint(r[i].envelope) = Fingerprint(q[i].envelope)
  PROVE  InQuotas(r)
<1>1. Len(r) = Len(q)
  OBVIOUS
<1>2. OfTier(r, "verified") = OfTier(q, "verified")
  BY DEF OfTier
<1>3. \A p \in People : LeftBy(r, p) = LeftBy(q, p)
  BY DEF LeftBy
<1>4. QED BY <1>1, <1>2, <1>3 DEF InQuotas

\* make_room takes out at most one item: a favourite's only for a favourite, and only if
\* nothing of a verified peer is left.
LEMMA RoomMade ==
  ASSUME ShelfAssumption, NEW q \in Seq(Items), InQuotas(q), NEW tier \in Tiers,
         NEW r \in Room(q, tier)
  PROVE  /\ r \in Seq(Items) /\ Len(r) < MaxHeld
         /\ \E pos : Thins(q, r, pos)
         /\ \A y \in ToSet(q) : \/ y \in ToSet(r) \/ y.tier = "verified"
                                \/ tier = "favourite" /\ OfTier(q, "verified") = {}
<1>1. Len(q) \in Nat /\ DOMAIN q = 1 .. Len(q) /\ Len(q) <= MaxHeld /\ MaxHeld \in Nat \ {0}
  BY DEF InQuotas, ShelfAssumption
<1>2. CASE Len(q) < MaxHeld
  <2>1. r = q
    BY <1>2 DEF Room
  <2> DEFINE pos == [k \in 1 .. Len(q) |-> k]
  <2>2. Thins(q, q, pos)
    BY <1>1 DEF Thins
  <2>3. QED BY <1>2, <2>1, <2>2
<1>3. CASE ~(Len(q) < MaxHeld)
  <2>1. r \in MakeRoom(q, tier)
    BY <1>3 DEF Room
  <2>2. q # <<>> /\ Len(q) = MaxHeld
    <3> DEFINE n == Len(q)
    <3>1. n \in Nat /\ n <= MaxHeld /\ MaxHeld \in Nat \ {0} /\ ~(n < MaxHeld)
      BY <1>1, <1>3
    <3> HIDE DEF n
    <3>2. n = MaxHeld /\ n # 0
      BY ONLY <3>1
    <3>3. QED BY <3>2 DEF n
  <2>3. ASSUME NEW i \in DOMAIN q, r = RemoveAt(q, i)
        PROVE  /\ r \in Seq(Items) /\ Len(r) < MaxHeld
               /\ \E pos : Thins(q, r, pos)
               /\ \A y \in ToSet(q) : y \in ToSet(r) \/ y = q[i]
    <3>1. /\ r \in Seq(Items) /\ Len(r) = Len(q) - 1
          /\ \A k \in 1 .. Len(q) - 1 : r[k] = IF k < i THEN q[k] ELSE q[k + 1]
      BY <2>3, OneTakenOut
    <3>2. \E pos : Thins(q, r, pos)
      BY <2>3, TakenOutThins
    <3>3. Len(r) < MaxHeld
      BY <1>1, <2>2, <3>1
    <3>4. ASSUME NEW j \in DOMAIN q, j # i PROVE q[j] \in ToSet(r)
      <4>1. DOMAIN r = 1 .. Len(q) - 1
        BY <3>1
      <4>2. CASE j < i
        <5>1. j \in 1 .. Len(q) - 1 /\ r[j] = q[j]
          BY <1>1, <3>1, <4>2
        <5>2. QED BY <4>1, <5>1 DEF ToSet
      <4>3. CASE i < j
        <5> DEFINE k == j - 1
        <5>1. k \in 1 .. Len(q) - 1 /\ ~(k < i) /\ k + 1 = j
          BY <1>1, <4>3
        <5> HIDE DEF k
        <5>2. r[k] = q[j]
          BY <3>1, <5>1
        <5>3. QED BY <4>1, <5>1, <5>2 DEF ToSet
      <4>4. i \in Nat /\ j \in Nat
        BY <1>1
      <4>5. QED BY <3>4, <4>2, <4>3, <4>4
    <3>5. \A y \in ToSet(q) : y \in ToSet(r) \/ y = q[i]
      BY <3>4 DEF ToSet
    <3>6. QED BY <3>1, <3>2, <3>3, <3>5
  <2>4. CASE OfTier(q, "verified") # {}
    <3> DEFINE V == OfTier(q, "verified")
    <3>1. V \in SUBSET Nat /\ V # {} /\ \A i \in V : i \in DOMAIN q /\ q[i].tier = "verified"
      BY <1>1, <2>4 DEF OfTier
    <3>2. r = RemoveAt(q, First(V))
      BY <2>1, <2>4 DEF MakeRoom
    <3> HIDE DEF V
    <3>3. \E i \in V : \A j \in V : i <= j
      BY <3>1, Least
    <3>4. First(V) \in V
      BY <3>3 DEF First
    <3>5. First(V) \in DOMAIN q /\ q[First(V)].tier = "verified"
      BY <3>1, <3>4
    <3>6. QED BY <2>3, <3>2, <3>5
  <2>5. CASE OfTier(q, "verified") = {}
    <3>1. tier = "favourite" /\ r = Tail(q)
      BY <2>1, <2>5 DEF MakeRoom
    <3>2. r = RemoveAt(q, 1) /\ 1 \in DOMAIN q
      BY <2>2, <3>1, FirstTakenOut
    <3>3. QED BY <2>3, <2>5, <3>1, <3>2
  <2>6. QED BY <2>4, <2>5
<1>4. QED BY <1>2, <1>3

\* Pruning is a thinning that leaves what is in date.
LEMMA PrunedThins ==
  ASSUME NEW q \in Seq(Items), NEW t
  PROVE  /\ Pruned(q, t) \in Seq(Items)
         /\ \E pos : Thins(q, Pruned(q, t), pos)
         /\ \A y \in ToSet(q) : y \in ToSet(Pruned(q, t)) \/ IsExpired(y.envelope, t)
<1> DEFINE r == Pruned(q, t)
<1>1. InDate(q, t) \in SUBSET (1 .. Len(q)) /\ DOMAIN q = 1 .. Len(q)
  BY DEF InDate
<1>2. /\ r \in Seq(Items)
      /\ \E pos : /\ Thins(q, r, pos)
                  /\ \A k \in 1 .. Len(r) : pos[k] \in InDate(q, t)
                  /\ \A i \in InDate(q, t) : \E k \in 1 .. Len(r) : pos[k] = i
  BY <1>1, KeptPlaces DEF Pruned
<1> HIDE DEF r
<1>3. PICK pos : /\ Thins(q, r, pos)
                 /\ \A i \in InDate(q, t) : \E k \in 1 .. Len(r) : pos[k] = i
  BY <1>2
<1>4. ASSUME NEW i \in DOMAIN q, ~IsExpired(q[i].envelope, t) PROVE q[i] \in ToSet(r)
  <2>1. i \in InDate(q, t)
    BY <1>4 DEF InDate
  <2>2. PICK k \in 1 .. Len(r) : pos[k] = i
    BY <1>3, <2>1
  <2>3. r[k] = q[i]
    BY <1>3, <2>2 DEF Thins
  <2>4. k \in DOMAIN r
    BY <1>2
  <2>5. QED BY <2>3, <2>4 DEF ToSet
<1>5. \A y \in ToSet(q) : y \in ToSet(r) \/ IsExpired(y.envelope, t)
  BY <1>4 DEF ToSet
<1>6. QED BY <1>2, <1>3, <1>5 DEF r

\* FavouritesNotCrowdedOutStep, of any two shelves.
NotCrowdedOut(q, r, t) ==
  \A x \in ToSet(r) \ ToSet(q) : \A y \in ToSet(q) \ ToSet(r) :
     (y.tier = "favourite" /\ Fingerprint(x.envelope) # Fingerprint(y.envelope)
        /\ ~IsExpired(y.envelope, t))
       => (x.tier = "favourite" /\ OfTier(Pruned(q, t), "verified") = {})

\* What accept leaves when a copy with budget e.copies comes in at place f.
Raised(q, e, f) ==
  [i \in DOMAIN q |-> IF i = f /\ e.copies > q[i].envelope.copies
                      THEN [q[i] EXCEPT !.envelope.copies = e.copies] ELSE q[i]]

\* A copy of mail that is there may raise its budget, and changes nothing else.
LEMMA CopyRaised ==
  ASSUME NEW q \in Seq(Items), InQuotas(q), NEW e \in Envelopes, NEW f
  PROVE  /\ Raised(q, e, f) \in Seq(Items) /\ InQuotas(Raised(q, e, f))
         /\ DOMAIN Raised(q, e, f) = DOMAIN q
         /\ \A i \in DOMAIN q :
              /\ i # f => Raised(q, e, f)[i] = q[i]
              /\ Fingerprint(Raised(q, e, f)[i].envelope) = Fingerprint(q[i].envelope)
<1> DEFINE r == Raised(q, e, f)
<1>0. r = [i \in DOMAIN q |-> IF i = f /\ e.copies > q[i].envelope.copies
                              THEN [q[i] EXCEPT !.envelope.copies = e.copies] ELSE q[i]]
  BY DEF Raised
<1> SUFFICES /\ r \in Seq(Items) /\ InQuotas(r) /\ DOMAIN r = DOMAIN q
             /\ \A i \in DOMAIN q : /\ i # f => r[i] = q[i]
                                    /\ Fingerprint(r[i].envelope) = Fingerprint(q[i].envelope)
  OBVIOUS
<1> HIDE DEF r
<1>1. DOMAIN r = DOMAIN q /\ Len(q) \in Nat /\ DOMAIN q = 1 .. Len(q) /\ r = [i \in DOMAIN q |-> r[i]]
  BY <1>0
<1>2. ASSUME NEW i \in DOMAIN q
      PROVE  /\ r[i] \in Items /\ r[i].tier = q[i].tier /\ r[i].depositor = q[i].depositor
             /\ Fingerprint(r[i].envelope) = Fingerprint(q[i].envelope)
             /\ i # f => r[i] = q[i]
  <2>1. q[i] \in Items
    OBVIOUS
  <2>2. CASE r[i] = q[i]
    BY <2>1, <2>2
  <2>3. CASE i = f /\ r[i] = [q[i] EXCEPT !.envelope.copies = e.copies]
    <3> DEFINE z == q[i]
               w == r[i]
    <3>1. /\ z.envelope \in Envelopes /\ z.depositor \in People /\ z.tier \in Tiers
          /\ z = [envelope |-> z.envelope, depositor |-> z.depositor, tier |-> z.tier]
      BY <2>1 DEF Items, Envelopes
    <3>2. w = [z EXCEPT !.envelope.copies = e.copies] /\ e.copies \in 1 .. MaxCopies
      BY <2>3 DEF Envelopes
    <3> HIDE DEF z, w
    <3>3. w = [envelope |-> [z.envelope EXCEPT !.copies = e.copies],
               depositor |-> z.depositor, tier |-> z.tier]
      BY <3>1, <3>2
    <3>4. w.envelope = [z.envelope EXCEPT !.copies = e.copies] /\ w.tier = z.tier
            /\ w.depositor = z.depositor
      BY <3>3
    <3>5. /\ w.envelope \in Envelopes /\ w.envelope.tag = z.envelope.tag
          /\ w.envelope.expiry = z.envelope.expiry /\ w.envelope.letter = z.envelope.letter
      BY <3>1, <3>2, <3>4 DEF Envelopes
    <3>6. w \in Items
      BY <3>1, <3>3, <3>4, <3>5 DEF Items, Envelopes
    <3>7. Fingerprint(w.envelope) = Fingerprint(z.envelope)
      BY <3>5 DEF Fingerprint
    <3>8. QED BY <2>3, <3>4, <3>6, <3>7 DEF z, w
  <2>4. QED BY <1>0, <2>2, <2>3
<1>3. r \in Seq(Items)
  <2> DEFINE n == Len(q)
  <2>1. n \in Nat /\ r = [i \in 1 .. n |-> r[i]] /\ \A i \in 1 .. n : r[i] \in Items
    BY <1>1, <1>2
  <2> HIDE DEF n
  <2>2. QED BY ONLY <2>1
<1>4. InQuotas(r)
  BY <1>1, <1>2, <1>3, SameCounts
<1>5. QED BY <1>1, <1>2, <1>3, <1>4

\* accept keeps the quotas and crowds no favourite out, whoever brings what and when.
LEMMA AcceptSound ==
  ASSUME ShelfAssumption, NEW q \in Seq(Items), InQuotas(q), NEW e \in Envelopes,
         NEW p \in People, NEW tier \in Tiers, NEW t \in Nat
  PROVE  /\ Accept(q, e, p, tier, t) \in Seq(Items) /\ InQuotas(Accept(q, e, p, tier, t))
         /\ NotCrowdedOut(q, Accept(q, e, p, tier, t), t)
<1> DEFINE a == Accept(q, e, p, tier, t)
           kept == Pruned(q, t)
           copy == Copy(kept, e)
           item == [envelope |-> e, depositor |-> p, tier |-> tier]
           raised == Raised(kept, e, First(copy))
           room == CHOOSE s \in Room(kept, tier) : TRUE
<1>1. /\ kept \in Seq(Items)
      /\ \E pos : Thins(q, kept, pos)
      /\ \A y \in ToSet(q) : y \in ToSet(kept) \/ IsExpired(y.envelope, t)
  BY PrunedThins
<1>2. \/ a = q
      \/ a = raised
      \/ a = kept
      \/ copy = {} /\ ~OverQuota(kept, p, tier) /\ Room(kept, tier) # {} /\ a = Append(room, item)
  BY DEF Accept, Raised
<1>3. OfTier(Pruned(q, t), "verified") = OfTier(kept, "verified")
  OBVIOUS
<1> SUFFICES a \in Seq(Items) /\ InQuotas(a) /\ NotCrowdedOut(q, a, t)
  OBVIOUS
<1> HIDE DEF kept, a
<1>4. InQuotas(kept) /\ \A x \in ToSet(kept) : x \in ToSet(q)
  BY <1>1, QuotasThinned
<1>5. CASE a = q
  BY <1>5 DEF NotCrowdedOut
<1>6. CASE a = kept
  BY <1>1, <1>4, <1>6 DEF NotCrowdedOut
<1>7. CASE a = raised
  <2> DEFINE f == First(copy)
  <2>1. a = Raised(kept, e, f)
    BY <1>7
  <2> HIDE DEF f
  <2>2. /\ a \in Seq(Items) /\ InQuotas(a) /\ DOMAIN a = DOMAIN kept
        /\ \A i \in DOMAIN kept : /\ i # f => a[i] = kept[i]
                                  /\ Fingerprint(a[i].envelope) = Fingerprint(kept[i].envelope)
    BY <1>1, <1>4, <2>1, CopyRaised
  <2>3. ASSUME NEW x \in ToSet(a) \ ToSet(q), NEW y \in ToSet(q) \ ToSet(a),
               ~IsExpired(y.envelope, t)
        PROVE  Fingerprint(x.envelope) = Fingerprint(y.envelope)
    <3>1. PICK i \in DOMAIN kept : x = a[i]
      BY <2>2 DEF ToSet
    <3>2. y \in ToSet(kept)
      BY <1>1, <2>3
    <3>3. PICK j \in DOMAIN kept : y = kept[j]
      BY <3>2 DEF ToSet
    <3>4. i = f
      <4>1. kept[i] \in ToSet(kept)
        BY DEF ToSet
      <4>2. QED BY <1>4, <2>2, <3>1, <4>1
    <3>5. j = f
      <4>1. a[j] \in ToSet(a)
        BY <2>2 DEF ToSet
      <4>2. QED BY <2>2, <3>3, <4>1
    <3>6. QED BY <2>2, <3>1, <3>3, <3>4, <3>5
  <2>4. NotCrowdedOut(q, a, t)
    BY <2>3 DEF NotCrowdedOut
  <2>5. QED BY <2>2, <2>4
<1>8. CASE copy = {} /\ ~OverQuota(kept, p, tier) /\ Room(kept, tier) # {} /\ a = Append(room, item)
  <2>1. room \in Room(kept, tier)
    BY <1>8
  <2>2. item \in Items /\ item.depositor = p /\ item.tier = tier /\ item.envelope = e
    BY DEF Items, Envelopes
  <2> HIDE DEF room, item
  <2>3. /\ room \in Seq(Items) /\ Len(room) < MaxHeld
        /\ \E pos : Thins(kept, room, pos)
        /\ \A y \in ToSet(kept) : \/ y \in ToSet(room) \/ y.tier = "verified"
                                  \/ tier = "favourite" /\ OfTier(kept, "verified") = {}
    BY <1>1, <1>4, <2>1, RoomMade
  <2>4. InQuotas(room) /\ \A x \in ToSet(room) : x \in ToSet(kept)
    BY <1>1, <1>4, <2>3, QuotasThinned
  <2>5. /\ Cardinality(OfTier(room, "verified")) <= Cardinality(OfTier(kept, "verified"))
        /\ Cardinality(LeftBy(room, p)) <= Cardinality(LeftBy(kept, p))
        /\ Cardinality(OfTier(kept, "verified")) \in Nat /\ Cardinality(OfTier(room, "verified")) \in Nat
        /\ Cardinality(LeftBy(kept, p)) \in Nat /\ Cardinality(LeftBy(room, p)) \in Nat
    BY <1>1, <2>3, FewerCounted
  <2>6. /\ ~(Cardinality(LeftBy(kept, p)) >= Quota(tier))
        /\ tier = "verified" => ~(Cardinality(OfTier(kept, "verified")) >= MaxVerifiedHeld)
    BY <1>8 DEF OverQuota
  <2>7. /\ Quota(tier) \in Nat /\ Quota(tier) <= MaxPerFavourite
        /\ MaxPerFavourite \in Nat /\ MaxVerifiedHeld \in Nat
    BY DEF ShelfAssumption, Quota
  <2>8. Cardinality(LeftBy(room, item.depositor)) < MaxPerFavourite
    BY <2>2, <2>5, <2>6, <2>7
  <2>9. item.tier = "verified" => Cardinality(OfTier(room, "verified")) < MaxVerifiedHeld
    BY <2>2, <2>5, <2>6, <2>7
  <2>10. \A i \in DOMAIN room : Fingerprint(room[i].envelope) # Fingerprint(item.envelope)
    <3>1. \A i \in DOMAIN kept : Fingerprint(kept[i].envelope) # Fingerprint(e)
      BY <1>8 DEF Copy
    <3>2. \A x \in ToSet(kept) : Fingerprint(x.envelope) # Fingerprint(e)
      BY <3>1 DEF ToSet
    <3>3. \A i \in DOMAIN room : room[i] \in ToSet(kept)
      BY <2>4 DEF ToSet
    <3>4. QED BY <2>2, <3>2, <3>3
  <2>11. /\ a \in Seq(Items) /\ InQuotas(a)
         /\ \A x \in ToSet(a) : x = item \/ x \in ToSet(room)
         /\ \A x \in ToSet(room) : x \in ToSet(a)
    <3>1. a = Append(room, item)
      BY <1>8
    <3>2. /\ Append(room, item) \in Seq(Items) /\ InQuotas(Append(room, item))
          /\ \A x \in ToSet(Append(room, item)) : x = item \/ x \in ToSet(room)
          /\ \A x \in ToSet(room) : x \in ToSet(Append(room, item))
      BY <2>2, <2>3, <2>4, <2>8, <2>9, <2>10, Placed
    <3>3. QED BY <3>1, <3>2
  <2>12. ASSUME NEW x \in ToSet(a) \ ToSet(q), NEW y \in ToSet(q) \ ToSet(a),
                y.tier = "favourite", ~IsExpired(y.envelope, t)
         PROVE  x.tier = "favourite" /\ OfTier(kept, "verified") = {}
    <3>1. x = item
      BY <1>4, <2>4, <2>11
    <3>2. y \in ToSet(kept) /\ y \notin ToSet(room)
      BY <1>1, <2>11, <2>12
    <3>3. tier = "favourite" /\ OfTier(kept, "verified") = {}
      BY <2>3, <2>12, <3>2
    <3>4. QED BY <2>2, <3>1, <3>3
  <2>13. NotCrowdedOut(q, a, t)
    BY <1>3, <2>12 DEF NotCrowdedOut
  <2>14. QED BY <2>11, <2>13
<1>9. QED BY <1>2, <1>5, <1>6, <1>7, <1>8

\* What depositors bring has a clamped budget and the tag of a day.
LEMMA BroughtEnvelopes ==
  ASSUME ShelfAssumption, MailboxAssumption, clock \in Nat,
         NEW l \in Letters, NEW x \in Expiries, NEW c \in Budgets
  PROVE  Envelope(l, Recipient[l], clock, x, c, FALSE) \in Envelopes
<1>1. DayLength \in Nat \ {0} /\ Lifetime \in Nat /\ Slack \in Nat /\ MaxCopies \in Nat \ {0}
  BY DEF ShelfAssumption
<1>2. EpochDay(clock) \in Nat
  BY <1>1 DEF EpochDay
<1>3. Recipient[l] \in People
  BY DEF MailboxAssumption
<1>4. c \in Nat
  BY <1>1 DEF Budgets
<1>5. Clamp(c) \in 1 .. MaxCopies
  BY <1>1, <1>4 DEF Clamp
<1>6. x \in Nat
  BY <1>1 DEF Expiries
<1>7. QED BY <1>2, <1>3, <1>5, <1>6 DEF Envelope, Envelopes

\* The shelf is what was last written, or what was still in date of it when it was read.
Backed == held = disk \/ \E t \in 0 .. clock : held = Pruned(disk, t)

\* What every call of the mailbox relies on and leaves behind.
ShelfInv == MailboxTypeOK /\ InQuotas(held) /\ Backed

\* A shelf that is backed comes back as what of it is in date.
LEMMA ComesBack ==
  ASSUME MailboxAssumption, ShelfInv
  PROVE  Pruned(disk, clock) = Pruned(held, clock)
<1>1. disk \in Seq(Items) /\ clock \in Nat
  BY DEF ShelfInv, MailboxTypeOK, MailboxAssumption
<1>2. CASE held = disk
  BY <1>2
<1>3. CASE \E t \in 0 .. clock : held = Pruned(disk, t)
  <2>1. PICK t \in 0 .. clock : held = Pruned(disk, t)
    BY <1>3
  <2>2. t \in Nat /\ t <= clock
    BY <1>1
  <2>3. Pruned(Pruned(disk, t), clock) = Pruned(disk, clock)
    BY <1>1, <2>2, PrunedTwice
  <2>4. QED BY <2>1, <2>3
<1>4. QED BY <1>2, <1>3 DEF ShelfInv, Backed

\* Taking items out and writing that down crowds nobody out.
LEMMA ShelfThinned ==
  ASSUME ShelfAssumption, NEW q \in Seq(Items), InQuotas(q), NEW r \in Seq(Items),
         \E pos : Thins(q, r, pos), NEW t
  PROVE  InQuotas(r) /\ NotCrowdedOut(q, r, t)
<1>1. InQuotas(r) /\ \A x \in ToSet(r) : x \in ToSet(q)
  BY QuotasThinned
<1>2. QED BY <1>1 DEF NotCrowdedOut

\* The empty shelf is within every quota.
LEMMA EmptyInQuotas ==
  ASSUME ShelfAssumption
  PROVE  <<>> \in Seq(Items) /\ InQuotas(<<>>) /\ \A q, t : NotCrowdedOut(q, <<>>, t)
<1> DEFINE r == <<>>
<1>1. r \in Seq(Items) /\ Len(r) = 0 /\ DOMAIN r = {}
  OBVIOUS
<1> HIDE DEF r
<1>2. OfTier(r, "verified") = {} /\ \A p : LeftBy(r, p) = {}
  BY <1>1 DEF OfTier, LeftBy
<1>3. ToSet(r) = {}
  BY <1>1 DEF ToSet
<1>4. Cardinality({}) = 0
  BY FS_EmptySet
<1>5. 0 <= MaxHeld /\ 0 <= MaxVerifiedHeld /\ 0 <= MaxPerFavourite
  BY DEF ShelfAssumption
<1>6. InQuotas(r)
  BY <1>1, <1>2, <1>4, <1>5 DEF InQuotas
<1>7. \A q, t : NotCrowdedOut(q, r, t)
  BY <1>3 DEF NotCrowdedOut
<1>8. QED BY <1>1, <1>6, <1>7 DEF r

\* Every call keeps the quotas and the copy on disk, and crowds no favourite out.
LEMMA ShelfStep ==
  ASSUME ShelfAssumption, MailboxAssumption, ShelfInv, [MailboxNext]_mailboxVars
  PROVE  ShelfInv' /\ NotCrowdedOut(held, held', clock)
<1>1. /\ enabled \in BOOLEAN /\ clock \in 0 .. MaxClock /\ MaxClock \in Nat /\ clock \in Nat
      /\ held \in Seq(Items) /\ disk \in Seq(Items) /\ InQuotas(held)
  BY DEF ShelfInv, MailboxTypeOK, MailboxAssumption
<1>2. CASE ClockTick
  <2>1. clock' = clock + 1 /\ clock < MaxClock /\ enabled' = enabled /\ held' = held /\ disk' = disk
    BY <1>2 DEF ClockTick
  <2>2. MailboxTypeOK'
    BY <1>1, <2>1 DEF MailboxTypeOK
  <2>3. 0 .. clock \subseteq 0 .. clock'
    BY <1>1, <2>1
  <2>4. Backed'
    BY <2>1, <2>3 DEF ShelfInv, Backed
  <2>5. NotCrowdedOut(held, held', clock)
    BY <2>1 DEF NotCrowdedOut
  <2>6. QED BY <1>1, <2>1, <2>2, <2>4, <2>5 DEF ShelfInv
<1>3. ASSUME held' \in Seq(Items), InQuotas(held'), NotCrowdedOut(held, held', clock),
             disk' = held', enabled' \in BOOLEAN, clock' = clock
      PROVE  ShelfInv' /\ NotCrowdedOut(held, held', clock)
  BY <1>1, <1>3 DEF ShelfInv, MailboxTypeOK, Backed
<1>4. ASSUME held' = held, disk' = disk, enabled' \in BOOLEAN, clock' = clock
      PROVE  ShelfInv' /\ NotCrowdedOut(held, held', clock)
  <2>1. MailboxTypeOK' /\ Backed' /\ InQuotas(held')
    BY <1>1, <1>4 DEF ShelfInv, MailboxTypeOK, Backed
  <2>2. QED BY <1>4, <2>1 DEF ShelfInv, NotCrowdedOut
<1>5. /\ Pruned(held, clock) \in Seq(Items) /\ InQuotas(Pruned(held, clock))
      /\ NotCrowdedOut(held, Pruned(held, clock), clock)
  <2>1. Pruned(held, clock) \in Seq(Items) /\ \E pos : Thins(held, Pruned(held, clock), pos)
    BY <1>1, PrunedThins
  <2>2. QED BY <1>1, <2>1, ShelfThinned
<1>6. CASE Prune
  <2>1. enabled' = enabled /\ clock' = clock /\ held' = Pruned(held, clock)
    BY <1>6 DEF Prune
  <2>2. CASE held' # held
    <3>1. disk' = held'
      BY <1>6, <2>2 DEF Prune
    <3>2. QED BY <1>1, <1>3, <1>5, <2>1, <3>1
  <2>3. CASE held' = held
    <3>1. disk' = disk
      BY <1>6, <2>3 DEF Prune
    <3>2. QED BY <1>1, <1>4, <2>1, <2>3, <3>1
  <2>4. QED BY <2>2, <2>3
<1>7. CASE Restart
  <2>1. enabled' = FALSE /\ clock' = clock /\ disk' = disk /\ held' = Pruned(disk, clock)
    BY <1>7 DEF Restart
  <2>2. held' = Pruned(held, clock)
    BY <2>1, ComesBack
  <2>3. MailboxTypeOK'
    BY <1>1, <1>5, <2>1, <2>2 DEF MailboxTypeOK
  <2>4. clock \in 0 .. clock
    BY <1>1
  <2>5. Backed'
    BY <2>1, <2>4 DEF Backed
  <2>6. QED BY <1>5, <2>2, <2>3, <2>5 DEF ShelfInv
<1>8. CASE Wipe
  <2>1. held' = <<>> /\ disk' = held' /\ enabled' = enabled /\ clock' = clock
    BY <1>8 DEF Wipe
  <2>2. QED BY <1>1, <1>3, <2>1, EmptyInQuotas
<1>9. ASSUME NEW on \in BOOLEAN, SetEnabled(on)
      PROVE  ShelfInv' /\ NotCrowdedOut(held, held', clock)
  <2>1. enabled' \in BOOLEAN /\ clock' = clock
    BY <1>9 DEF SetEnabled
  <2>2. CASE on
    <3>1. held' = held /\ disk' = disk
      BY <1>9, <2>2 DEF SetEnabled
    <3>2. QED BY <1>4, <2>1, <3>1
  <2>3. CASE ~on
    <3>1. held' = <<>> /\ disk' = held'
      BY <1>9, <2>3 DEF SetEnabled
    <3>2. QED BY <1>3, <2>1, <3>1, EmptyInQuotas
  <2>4. QED BY <2>2, <2>3
<1>10. ASSUME NEW p \in People, Collect(p)
       PROVE  ShelfInv' /\ NotCrowdedOut(held, held', clock)
  <2> DEFINE stay == DOMAIN held \ Tagged(held, CandidateTags(p, clock))
  <2>1. enabled' = enabled /\ clock' = clock /\ disk' = held' /\ held' = Keep(held, stay)
    BY <1>10 DEF Collect, Remaining
  <2>2. stay \in SUBSET (1 .. Len(held))
    BY <1>1
  <2> HIDE DEF stay
  <2>3. Keep(held, stay) \in Seq(Items) /\ \E pos : Thins(held, Keep(held, stay), pos)
    BY <1>1, <2>2, KeptPlaces
  <2>4. InQuotas(Keep(held, stay)) /\ NotCrowdedOut(held, Keep(held, stay), clock)
    BY <1>1, <2>3, ShelfThinned
  <2>5. QED BY <1>1, <1>3, <2>1, <2>3, <2>4
<1>11. ASSUME NEW p \in People, NEW tier \in Tiers, NEW e \in Envelopes, Deposit(p, tier, e)
       PROVE  ShelfInv' /\ NotCrowdedOut(held, held', clock)
  <2>1. enabled' = enabled /\ clock' = clock /\ held' = Accept(held, e, p, tier, clock)
    BY <1>11 DEF Deposit
  <2>2. held' \in Seq(Items) /\ InQuotas(held') /\ NotCrowdedOut(held, held', clock)
    BY <1>1, <2>1, AcceptSound
  <2>3. CASE Saves(held, e, p, tier, clock)
    <3>1. disk' = held'
      BY <1>11, <2>3 DEF Deposit
    <3>2. QED BY <1>1, <1>3, <2>1, <2>2, <3>1
  <2>4. CASE ~Saves(held, e, p, tier, clock)
    <3>1. disk' = disk
      BY <1>11, <2>4 DEF Deposit
    <3>2. CASE Inadmissible(e, clock)
      <4>1. held' = held
        BY <2>1, <3>2 DEF Accept
      <4>2. QED BY <1>1, <1>4, <2>1, <3>1, <4>1
    <3>3. CASE ~Inadmissible(e, clock)
      <4>1. held' = held
        BY <2>1, <2>4, <3>3 DEF Saves
      <4>2. QED BY <1>1, <1>4, <2>1, <3>1, <4>1
    <3>4. QED BY <3>2, <3>3
  <2>5. QED BY <2>3, <2>4
<1>12. CASE \E p \in People, tier \in Tiers, l \in Letters, x \in Expiries, c \in Budgets :
              Deposit(p, tier, Envelope(l, Recipient[l], clock, x, c, FALSE))
  <2>1. PICK p \in People, tier \in Tiers, l \in Letters, x \in Expiries, c \in Budgets :
               Deposit(p, tier, Envelope(l, Recipient[l], clock, x, c, FALSE))
    BY <1>12
  <2>2. Envelope(l, Recipient[l], clock, x, c, FALSE) \in Envelopes
    BY <1>1, BroughtEnvelopes
  <2>3. QED BY <1>11, <2>1, <2>2
<1>13. CASE UNCHANGED mailboxVars
  <2>1. held' = held /\ disk' = disk /\ enabled' = enabled /\ clock' = clock
    BY <1>13 DEF mailboxVars
  <2>2. QED BY <1>1, <1>4, <2>1
<1>14. QED BY <1>2, <1>6, <1>7, <1>8, <1>9, <1>10, <1>12, <1>13 DEF MailboxNext

\* For every set of people and letters and every quota, age and slack: whatever is deposited,
\* collected, pruned or wiped, and however often the mailbox restarts, its shelf stays within
\* every quota at once without doubles, a restart brings back exactly the mail still in date,
\* and nothing of a favourite makes way for a stranger's mail, nor for a favourite's while
\* there is a stranger's to shed.
THEOREM ShelfStaysKept ==
  ASSUME ShelfAssumption, MailboxAssumption
  PROVE  MailboxSpec => ShelfKept
<1>1. MailboxInit => ShelfInv
  <2> SUFFICES ASSUME MailboxInit PROVE ShelfInv
    OBVIOUS
  <2>1. enabled = FALSE /\ held = <<>> /\ disk = <<>> /\ clock = 0
    BY DEF MailboxInit
  <2>2. MailboxTypeOK
    <3>1. clock \in 0 .. MaxClock
      BY <2>1 DEF MailboxAssumption
    <3>2. held \in Seq(Items) /\ disk \in Seq(Items)
      BY <2>1, EmptyInQuotas
    <3>3. QED BY <2>1, <3>1, <3>2 DEF MailboxTypeOK
  <2>3. InQuotas(held)
    BY <2>1, EmptyInQuotas
  <2>4. QED BY <2>1, <2>2, <2>3 DEF ShelfInv, Backed
<1>2. ShelfInv /\ [MailboxNext]_mailboxVars => ShelfInv'
  BY ShelfStep
<1>3. ShelfInv => MailboxTypeOK /\ WithinQuotas /\ RestartKeepsMail
  <2> SUFFICES ASSUME ShelfInv PROVE MailboxTypeOK /\ WithinQuotas /\ RestartKeepsMail
    OBVIOUS
  <2>1. WithinQuotas
    BY DEF ShelfInv, InQuotas, WithinQuotas, Quota
  <2>2. RestartKeepsMail
    BY ComesBack DEF RestartKeepsMail
  <2>3. QED BY <2>1, <2>2 DEF ShelfInv
<1>4. ShelfInv /\ [MailboxNext]_mailboxVars => [FavouritesNotCrowdedOutStep]_mailboxVars
  <2> SUFFICES ASSUME ShelfInv, [MailboxNext]_mailboxVars PROVE FavouritesNotCrowdedOutStep
    OBVIOUS
  <2>1. NotCrowdedOut(held, held', clock)
    BY ShelfStep
  <2>2. QED BY <2>1 DEF NotCrowdedOut, FavouritesNotCrowdedOutStep
<1>5. QED BY <1>1, <1>2, <1>3, <1>4, PTL DEF MailboxSpec, ShelfKept
=============================================================================
