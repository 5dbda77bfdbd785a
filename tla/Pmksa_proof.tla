----------------------------- MODULE Pmksa_proof -----------------------------
EXTENDS Pmksa, FiniteSetTheorems, WellFoundedInduction, TLAPS

(***************************************************************************)
(* Least elements.  Induction over the natural numbers is available in the *)
(* form of theorem WFMin, which speaks of sets and not of operators.       *)
(***************************************************************************)
Below == {ss \in Nat \X Nat : ss[1] < ss[2]}

\* The order of the natural numbers, as a relation, is well-founded.
LEMMA BelowWellFounded == IsWellFoundedOn(Below, Nat)
BY NatLessThanWellFounded DEF OpToRel, Below

\* A set of positions that is not empty has a least one.
LEMMA MinOK ==
    ASSUME NEW S \in SUBSET Nat, S # {}
    PROVE  Min(S) \in S /\ \A y \in S : Min(S) <= y
<1>1. PICK x \in S : \A y \in S : ~(<<y, x>> \in Below)
  BY BelowWellFounded, WFMin
<1>2. ASSUME NEW y \in S PROVE x <= y
  <2>1. ~(<<y, x>> \in Below)
    BY <1>1
  <2>2. ~(y < x)
    BY <2>1 DEF Below
  <2> QED BY <2>2
<1> QED BY <1>2 DEF Min

(***************************************************************************)
(* What the operations of a list do, by position.                          *)
(***************************************************************************)

\* w is the list l without the positions gone, in the same order: f says where
\* the entries come from.
Picks(w, l, gone, f) ==
    /\ f \in [1 .. Len(w) -> 1 .. Len(l)]
    /\ \A n \in 1 .. Len(w) : f[n] \notin gone /\ w[n] = l[f[n]]
    /\ \A m, n \in 1 .. Len(w) : m < n => f[m] < f[n]
    /\ \A i \in 1 .. Len(l) : i \notin gone => \E n \in 1 .. Len(w) : f[n] = i

\* Without() removes the positions it is given and nothing else.
LEMMA WithoutOK ==
    ASSUME NEW T, NEW l \in Seq(T), NEW gone
    PROVE  /\ Without(l, gone) \in Seq(T)
           /\ Len(Without(l, gone)) = Cardinality(DOMAIN l \ gone)
           /\ \E f : Picks(Without(l, gone), l, gone, f)
<1> DEFINE kept == DOMAIN l \ gone
           c == Cardinality(kept)
           Upto(i) == {j \in kept : j <= i}
           rank == [i \in kept |-> Cardinality(Upto(i))]
           Pos(n) == CHOOSE i \in kept : Cardinality(Upto(i)) = n
           w == [n \in 1 .. c |-> l[Pos(n)]]
           f == [n \in 1 .. c |-> Pos(n)]
<1>0. Without(l, gone) = w
  BY DEF Without, Nth
<1>1. DOMAIN l = 1 .. Len(l) /\ Len(l) \in Nat /\ \A i \in 1 .. Len(l) : l[i] \in T
  OBVIOUS
<1>2. IsFiniteSet(kept) /\ c \in Nat
  <2>1. IsFiniteSet(1 .. Len(l))
    BY <1>1, FS_Interval
  <2>2. kept \in SUBSET (1 .. Len(l))
    BY <1>1
  <2>3. IsFiniteSet(kept)
    BY <2>1, <2>2, FS_Subset
  <2> QED BY <2>3, FS_CardinalityType
<1>3. ASSUME NEW i \in kept
      PROVE  IsFiniteSet(Upto(i)) /\ Cardinality(Upto(i)) \in 1 .. c
  <2>1. Upto(i) \in SUBSET kept
    OBVIOUS
  <2>2. IsFiniteSet(Upto(i)) /\ Cardinality(Upto(i)) <= c
    BY <1>2, <2>1, FS_Subset
  <2>3. Cardinality(Upto(i)) \in Nat
    BY <2>2, FS_CardinalityType
  <2>4. i \in Upto(i)
    BY <1>1
  <2>5. Cardinality(Upto(i)) # 0
    BY <2>2, <2>4, FS_EmptySet
  <2> QED BY <2>2, <2>3, <2>5, <1>2
<1>4. ASSUME NEW i \in kept, NEW j \in kept, i < j
      PROVE  Cardinality(Upto(i)) < Cardinality(Upto(j))
  <2>1. Upto(i) \in SUBSET Upto(j)
    BY <1>1, <1>4
  <2>2. j \in Upto(j) /\ j \notin Upto(i)
    BY <1>1, <1>4
  <2>3. Upto(i) # Upto(j)
    BY <2>2, Zenon
  <2>4. IsFiniteSet(Upto(j)) /\ Cardinality(Upto(j)) \in 1 .. c /\ Cardinality(Upto(i)) \in 1 .. c
    BY <1>3
  <2>5. Cardinality(Upto(i)) <= Cardinality(Upto(j)) /\ Cardinality(Upto(i)) # Cardinality(Upto(j))
    BY <2>1, <2>3, <2>4, FS_Subset
  <2> QED BY <2>4, <2>5, <1>2
<1>5. kept \subseteq 1 .. Len(l) /\ \A i \in 1 .. Len(l) : i \notin gone => i \in kept
  BY <1>1
<1>6. \A i \in kept : i \notin gone
  OBVIOUS
<1> HIDE DEF kept, Upto
<1>7. /\ rank \in [kept -> 1 .. c]
      /\ \A i, j \in kept : i < j => rank[i] < rank[j]
      /\ \A i, j \in kept : rank[i] = rank[j] => i = j
  <2>1. \A i \in kept : rank[i] = Cardinality(Upto(i))
    OBVIOUS
  <2>2. rank \in [kept -> 1 .. c]
    BY <1>3
  <2> HIDE DEF rank
  <2>3. \A i, j \in kept : i < j => rank[i] < rank[j]
    BY <2>1, <1>4
  <2>4. \A i, j \in kept : i \in Nat /\ rank[i] \in Nat
    BY <1>5, <1>1, <2>2, <1>2
  <2>5. \A i, j \in kept : rank[i] = rank[j] => i = j
    BY <2>3, <2>4
  <2> QED BY <2>2, <2>3, <2>5
<1>8. \A n \in 1 .. c : \E i \in kept : rank[i] = n
  <2> HIDE DEF rank
  <2>1. rank \in Injection(kept, 1 .. c)
    BY <1>7 DEF Injection, IsInjective
  <2>2. IsFiniteSet(1 .. c) /\ Cardinality(1 .. c) = c
    <3> HIDE DEF c
    <3>1. IsFiniteSet(1 .. c) /\ Cardinality(1 .. c) = IF 1 > c THEN 0 ELSE c - 1 + 1
      BY <1>2, FS_Interval
    <3> QED BY <3>1, <1>2
  <2>3. rank \in Surjection(kept, 1 .. c)
    BY <2>1, <2>2, FS_Injection
  <2> QED BY <2>3 DEF Surjection
<1>9. \A n \in 1 .. c : Pos(n) \in kept /\ rank[Pos(n)] = n
  <2>1. \A i \in kept : rank[i] = Cardinality(Upto(i))
    OBVIOUS
  <2> HIDE DEF rank
  <2> QED BY <1>8, <2>1
<1> HIDE DEF Pos, c
<1>10. \A n \in 1 .. c : f[n] = Pos(n) /\ w[n] = l[Pos(n)]
  OBVIOUS
<1>11. \A n \in 1 .. c : Pos(n) \in 1 .. Len(l) /\ l[Pos(n)] \in T
  BY <1>9, <1>5, <1>1
<1>12. w \in [1 .. c -> T]
  BY <1>11
<1>13. w \in Seq(T) /\ Len(w) = c
  BY <1>12, <1>2
<1>14. f \in [1 .. c -> 1 .. Len(l)]
  BY <1>11
<1> HIDE DEF f, w, rank
<1>15. ASSUME NEW m \in 1 .. c, NEW n \in 1 .. c, m < n PROVE f[m] < f[n]
  <2>1. f[m] \in kept /\ f[n] \in kept /\ f[m] \in Nat /\ f[n] \in Nat
    BY <1>9, <1>10, <1>11, <1>1
  <2>2. rank[f[m]] = m /\ rank[f[n]] = n
    BY <1>9, <1>10
  <2>3. ~(f[n] < f[m]) /\ f[n] # f[m]
    BY <2>1, <2>2, <1>7, <1>15, <1>2
  <2> QED BY <2>1, <2>3
<1>16. ASSUME NEW i \in 1 .. Len(l), i \notin gone PROVE \E n \in 1 .. c : f[n] = i
  <2>1. i \in kept /\ rank[i] \in 1 .. c
    BY <1>5, <1>7, <1>16
  <2>2. f[rank[i]] \in kept /\ rank[f[rank[i]]] = rank[i]
    BY <2>1, <1>9, <1>10
  <2> QED BY <2>1, <2>2, <1>7
<1>17. Picks(w, l, gone, f)
  <2>1. \A n \in 1 .. c : f[n] \notin gone
    BY <1>6, <1>9, <1>10
  <2> QED BY <2>1, <1>10, <1>13, <1>14, <1>15, <1>16 DEF Picks
<1> QED BY <1>0, <1>13, <1>17 DEF c, kept

\* The length of what is left.
LEMMA LenWithout ==
    ASSUME NEW T, NEW l \in Seq(T), NEW gone
    PROVE  /\ Len(Without(l, gone)) <= Len(l)
           /\ (\E i \in gone : i \in 1 .. Len(l)) => Len(Without(l, gone)) < Len(l)
<1> DEFINE n == Len(l)
           kept == (1 .. n) \ gone
<1>1. n \in Nat /\ DOMAIN l = 1 .. n
  OBVIOUS
<1>2. Len(Without(l, gone)) = Cardinality(kept)
  BY <1>1, WithoutOK
<1> HIDE DEF n
<1>3. IsFiniteSet(1 .. n) /\ Cardinality(1 .. n) = n
  <2>1. IsFiniteSet(1 .. n) /\ Cardinality(1 .. n) = IF 1 > n THEN 0 ELSE n - 1 + 1
    BY <1>1, FS_Interval
  <2> QED BY <2>1, <1>1
<1>4. /\ IsFiniteSet(kept) /\ Cardinality(kept) <= n
      /\ Cardinality(kept) = n => kept = 1 .. n
  BY <1>3, FS_Subset
<1>5. Cardinality(kept) \in Nat
  BY <1>4, FS_CardinalityType
<1>6. (\E i \in gone : i \in 1 .. n) => kept # 1 .. n
  OBVIOUS
<1> HIDE DEF kept
<1>7. (\E i \in gone : i \in 1 .. n) => Cardinality(kept) < n
  BY <1>1, <1>4, <1>5, <1>6
<1> QED BY <1>2, <1>4, <1>7 DEF n

\* InsertAt() moves what follows by one.
LEMMA InsertOK ==
    ASSUME NEW T, NEW l \in Seq(T), NEW n \in 1 .. Len(l) + 1, NEW e \in T
    PROVE  /\ InsertAt(l, n, e) \in Seq(T)
           /\ Len(InsertAt(l, n, e)) = Len(l) + 1
           /\ \A k \in 1 .. Len(l) + 1 : InsertAt(l, n, e)[k] =
                 IF k < n THEN l[k] ELSE IF k = n THEN e ELSE l[k - 1]
<1> DEFINE a == SubSeq(l, 1, n - 1)
           z == SubSeq(l, n, Len(l))
<1>1. Len(l) \in Nat /\ \A i \in 1 .. Len(l) : l[i] \in T
  OBVIOUS
<1>2. a \in Seq(T) /\ Len(a) = n - 1 /\ \A k \in 1 .. n - 1 : a[k] = l[k]
  BY <1>1
<1>3. z \in Seq(T) /\ Len(z) = Len(l) - n + 1 /\ \A k \in 1 .. Len(l) - n + 1 : z[k] = l[n + k - 1]
  BY <1>1
<1>4. InsertAt(l, n, e) = a \o <<e>> \o z
  BY DEF InsertAt
<1> HIDE DEF a, z
<1>5. /\ a \o <<e>> \in Seq(T) /\ Len(a \o <<e>>) = n
      /\ \A k \in 1 .. n - 1 : (a \o <<e>>)[k] = l[k]
      /\ (a \o <<e>>)[n] = e
  BY <1>1, <1>2
<1> DEFINE b == a \o <<e>>
<1> HIDE DEF b
<1>6. b \in Seq(T) /\ Len(b) = n /\ b[n] = e /\ \A k \in 1 .. n - 1 : b[k] = l[k]
  BY <1>5 DEF b
<1>7. InsertAt(l, n, e) = b \o z
  BY <1>4 DEF b
<1>8. b \o z \in Seq(T) /\ Len(b \o z) = Len(l) + 1
  <2>1. b \o z \in Seq(T) /\ Len(b \o z) = Len(b) + Len(z)
    <3>1. b \in Seq(T) /\ z \in Seq(T)
      BY <1>3, <1>6
    <3> QED BY <3>1
  <2>2. Len(b) + Len(z) = Len(l) + 1
    BY <1>1, <1>3, <1>6
  <2> QED BY <2>1, <2>2
<1>9. ASSUME NEW k \in 1 .. Len(l) + 1
      PROVE  (b \o z)[k] = IF k < n THEN l[k] ELSE IF k = n THEN e ELSE l[k - 1]
  <2>1. CASE k <= n
    BY <2>1, <1>1, <1>3, <1>6
  <2>2. CASE k > n
    <3>1. (b \o z)[k] = z[k - n] /\ k - n \in 1 .. Len(l) - n + 1
      BY <2>2, <1>1, <1>3, <1>6
    <3> QED BY <3>1, <2>2, <1>1, <1>3
  <2>3. k \in Int /\ n \in Int
    BY <1>1
  <2>4. k <= n \/ k > n
    BY <2>3
  <2> QED BY <2>1, <2>2, <2>4, Zenon
<1> QED BY <1>7, <1>8, <1>9

\* Entries have an expiration time.
Timed(T) == \A e \in T : e.ttl \in Int

Sorted(l) == \A i, j \in 1 .. Len(l) : i <= j => l[i].ttl <= l[j].ttl

\* A second that passes keeps lifetimes in their range and in their order.
LEMMA OlderOK ==
    ASSUME NEW top \in Nat, NEW x \in Floor .. top
    PROVE  /\ Older(x) \in Floor .. top
           /\ \A y \in Floor .. top : x <= y => Older(x) <= Older(y)
BY DEF Older, Floor

\* The place for an entry is behind those that do not expire later, and before
\* the first that does.
LEMMA PlaceOK ==
    ASSUME NEW T, Timed(T), NEW l \in Seq(T), NEW ttl \in Int
    PROVE  /\ Place(l, ttl) \in 1 .. Len(l) + 1
           /\ \A i \in 1 .. Len(l) : i < Place(l, ttl) => l[i].ttl <= ttl
           /\ Place(l, ttl) <= Len(l) => l[Place(l, ttl)].ttl > ttl
<1> DEFINE later == {i \in DOMAIN l : l[i].ttl > ttl}
<1>1. DOMAIN l = 1 .. Len(l) /\ Len(l) \in Nat /\ \A i \in 1 .. Len(l) : l[i].ttl \in Int
  BY DEF Timed
<1>2. Place(l, ttl) = IF later = {} THEN Len(l) + 1 ELSE Min(later)
  BY DEF Place
<1>3. \A i \in 1 .. Len(l) : i \in later <=> l[i].ttl > ttl
  BY <1>1
<1>4. later \in SUBSET Nat /\ later \subseteq 1 .. Len(l)
  BY <1>1
<1> HIDE DEF later
<1>5. CASE later = {}
  BY <1>1, <1>2, <1>3, <1>5
<1>6. CASE later # {}
  <2>1. Min(later) \in later /\ \A y \in later : Min(later) <= y
    BY <1>4, <1>6, MinOK
  <2>2. Place(l, ttl) = Min(later)
    BY <1>2, <1>6
  <2>3. Place(l, ttl) \in later /\ Place(l, ttl) \in 1 .. Len(l)
    BY <2>1, <2>2, <1>4
  <2>4. l[Place(l, ttl)].ttl > ttl
    BY <2>3, <1>3
  <2>5. ASSUME NEW i \in 1 .. Len(l), i < Place(l, ttl) PROVE l[i].ttl <= ttl
    <3>1. i \notin later
      BY <2>1, <2>2, <2>3, <2>5, <1>1
    <3> QED BY <3>1, <1>1, <1>3
  <2> QED BY <2>3, <2>4, <2>5, <1>1
<1> QED BY <1>5, <1>6

\* Removing entries keeps the order, and the first one left expires no earlier.
LEMMA SortedWithout ==
    ASSUME NEW T, Timed(T), NEW l \in Seq(T), NEW gone, Sorted(l)
    PROVE  /\ Sorted(Without(l, gone))
           /\ Without(l, gone) # <<>> =>
                 l # <<>> /\ l[1].ttl <= Without(l, gone)[1].ttl
<1> DEFINE w == Without(l, gone)
<1>1. w \in Seq(T)
  BY WithoutOK
<1>2. PICK f : Picks(w, l, gone, f)
  BY WithoutOK
<1> HIDE DEF w
<1>3. Len(w) \in Nat /\ Len(l) \in Nat /\ \A i \in 1 .. Len(l) : l[i].ttl \in Int
  BY <1>1 DEF Timed
<1>4. ASSUME NEW i \in 1 .. Len(w), NEW j \in 1 .. Len(w), i <= j
      PROVE  w[i].ttl <= w[j].ttl
  <2>1. f[i] \in 1 .. Len(l) /\ f[j] \in 1 .. Len(l) /\ w[i] = l[f[i]] /\ w[j] = l[f[j]]
    BY <1>2 DEF Picks
  <2>2. f[i] <= f[j]
    <3>1. CASE i = j
      BY <3>1, <2>1, <1>3
    <3>2. CASE i < j
      BY <3>2, <2>1, <1>2, <1>3 DEF Picks
    <3> QED BY <3>1, <3>2, <1>3, <1>4
  <2> QED BY <2>1, <2>2 DEF Sorted
<1>5. ASSUME w # <<>> PROVE l # <<>> /\ l[1].ttl <= w[1].ttl
  <2>1. 1 \in 1 .. Len(w)
    BY <1>1, <1>3, <1>5
  <2>2. f[1] \in 1 .. Len(l) /\ w[1] = l[f[1]]
    BY <2>1, <1>2 DEF Picks
  <2>3. 1 \in 1 .. Len(l) /\ 1 <= f[1]
    BY <2>2, <1>3
  <2>4. l # <<>>
    BY <2>3
  <2> QED BY <2>2, <2>3, <2>4 DEF Sorted
<1> QED BY <1>4, <1>5 DEF Sorted, w

\* A new entry keeps the order.
LEMMA SortedInsert ==
    ASSUME NEW T, Timed(T), NEW l \in Seq(T), NEW e \in T, Sorted(l)
    PROVE  Sorted(InsertAt(l, Place(l, e.ttl), e))
<1> DEFINE n == Place(l, e.ttl)
           w == InsertAt(l, n, e)
<1>1. e.ttl \in Int /\ Len(l) \in Nat /\ \A i \in 1 .. Len(l) : l[i].ttl \in Int
  BY DEF Timed
<1>2. /\ n \in 1 .. Len(l) + 1
      /\ \A i \in 1 .. Len(l) : i < n => l[i].ttl <= e.ttl
      /\ n <= Len(l) => l[n].ttl > e.ttl
  BY <1>1, PlaceOK
<1> HIDE DEF n
<1>3. /\ Len(w) = Len(l) + 1
      /\ \A k \in 1 .. Len(l) + 1 : w[k] =
           IF k < n THEN l[k] ELSE IF k = n THEN e ELSE l[k - 1]
  BY <1>2, InsertOK
<1> HIDE DEF w
<1>4. \A i \in 1 .. Len(l) : i >= n => l[i].ttl > e.ttl
  <2> SUFFICES ASSUME NEW i \in 1 .. Len(l), i >= n PROVE l[i].ttl > e.ttl
    OBVIOUS
  <2>1. n \in 1 .. Len(l) /\ n <= i
    BY <1>1, <1>2
  <2>2. l[n].ttl <= l[i].ttl
    BY <2>1 DEF Sorted
  <2> QED BY <2>1, <2>2, <1>1, <1>2
<1>5. ASSUME NEW i \in 1 .. Len(w), NEW j \in 1 .. Len(w), i <= j
      PROVE  w[i].ttl <= w[j].ttl
  <2>1. CASE i < n /\ j < n
    BY <2>1, <1>1, <1>2, <1>3, <1>5 DEF Sorted
  <2>2. CASE i < n /\ j = n
    BY <2>2, <1>1, <1>2, <1>3
  <2>3. CASE i < n /\ j > n
    <3>1. i \in 1 .. Len(l) /\ j - 1 \in 1 .. Len(l) /\ i <= j - 1
      BY <2>3, <1>1, <1>2, <1>3
    <3>2. w[i] = l[i] /\ w[j] = l[j - 1]
      BY <2>3, <1>1, <1>2, <1>3
    <3> QED BY <3>1, <3>2 DEF Sorted
  <2>4. CASE i = n /\ j = n
    BY <2>4, <1>1, <1>2, <1>3
  <2>5. CASE i = n /\ j > n
    <3>1. j - 1 \in 1 .. Len(l) /\ j - 1 >= n
      BY <2>5, <1>1, <1>2, <1>3
    <3>2. w[i] = e /\ w[j] = l[j - 1]
      BY <2>5, <1>1, <1>2, <1>3
    <3>3. l[j - 1].ttl > e.ttl
      BY <3>1, <1>4
    <3>4. l[j - 1].ttl \in Int /\ e.ttl \in Int
      BY <3>1, <1>1
    <3>5. e.ttl <= l[j - 1].ttl
      BY <3>3, <3>4
    <3> QED BY <3>2, <3>5
  <2>6. CASE i > n
    <3>1. i - 1 \in 1 .. Len(l) /\ j - 1 \in 1 .. Len(l) /\ i - 1 <= j - 1
      BY <2>6, <1>1, <1>2, <1>3, <1>5
    <3>2. w[i] = l[i - 1] /\ w[j] = l[j - 1]
      BY <2>6, <1>1, <1>2, <1>3, <1>5
    <3> QED BY <3>1, <3>2 DEF Sorted
  <2> QED BY <2>1, <2>2, <2>3, <2>4, <2>5, <2>6, <1>1, <1>2, <1>3, <1>5
<1> QED BY <1>5 DEF Sorted, w, n

(***************************************************************************)
(* The cache of an authenticator.                                          *)
(***************************************************************************)
ApEntry == [spa : {Me} \cup Others, pmk : Keys \cup {OtherKey}, ttl : Floor .. Lifetime]
AuthT == AuthType({Me} \cup Others, Keys \cup {OtherKey}, Lifetime)

\* Always: entries are in the order in which they expire, and the timeout comes
\* no later than the first of them needs.
AuthBase(b) ==
    /\ b \in AuthT
    /\ b.pmksa # OtherKey /\ b.msk # OtherKey
    /\ Sorted(b.list)
    /\ b.list # <<>> => b.timer \in 0 .. ExpireIn(b.list[1].ttl)

Holds(list, k) == \E i \in 1 .. Len(list) : list[i].spa = Me /\ list[i].pmk = k
Points(b) == b.pmksa # NoKey => Holds(b.list, b.pmksa)

\* Without opportunistic key caching: an entry that has expired is due at once.
Prompt(b) ==
    b.list # <<>> => b.list[1].ttl >= -1 /\ b.timer <= b.list[1].ttl + 1
Unique(list) == \A i, j \in 1 .. Len(list) : list[i].spa = list[j].spa => i = j
Strict(b, max) == Prompt(b) /\ Unique(b.list) /\ Len(b.list) <= max

\* Types of what is in an authenticator's cache.
LEMMA AuthTypes ==
    /\ Timed(ApEntry)
    /\ Keys \subseteq Nat \ {0} /\ Lifetime \in Nat \ {0}
    /\ \A b \in AuthT :
         /\ b.list \in Seq(ApEntry)
         /\ b.timer \in -1 .. Lifetime + 1
         /\ b.pmksa \in Keys \cup {OtherKey, NoKey}
         /\ b.msk \in Keys \cup {OtherKey, NoKey}
BY KeysAssumption, LifetimeAssumption
   DEF Timed, ApEntry, AuthT, AuthType, NoKey, NoTimer, Floor, OtherKey

\* Freeing entries keeps all of it.
LEMMA AuthFreeOK ==
    ASSUME NEW b, NEW gone, AuthBase(b)
    PROVE  LET n == AuthFree(b, Me, gone) IN
           /\ AuthBase(n)
           /\ n.list = Without(b.list, gone)
           /\ n.timer = b.timer /\ n.msk = b.msk
           /\ n.pmksa \in {b.pmksa, NoKey}
           /\ Points(b) => Points(n)
           /\ Prompt(b) => Prompt(n)
           /\ Unique(b.list) => Unique(n.list)
           /\ Len(n.list) <= Len(b.list)
<1> DEFINE n == AuthFree(b, Me, gone)
           w == Without(b.list, gone)
<1>1. b \in AuthT /\ b.list \in Seq(ApEntry) /\ Timed(ApEntry)
  BY AuthTypes DEF AuthBase
<1>2. /\ n \in AuthT /\ n.list = w /\ n.timer = b.timer /\ n.msk = b.msk
      /\ n.pmksa = IF \E i \in gone : b.list[i].spa = Me /\ b.list[i].pmk = b.pmksa
                   THEN NoKey ELSE b.pmksa
  <2>1. w \in Seq(ApEntry)
    BY <1>1, WithoutOK
  <2> HIDE DEF w
  <2>2. n = [b EXCEPT !.list = w,
                !.pmksa = IF \E i \in gone : b.list[i].spa = Me /\ b.list[i].pmk = b.pmksa
                          THEN NoKey ELSE b.pmksa]
    BY DEF AuthFree, w
  <2> HIDE DEF n
  <2> QED BY <2>1, <2>2, <1>1 DEF AuthT, AuthType, ApEntry
<1> HIDE DEF n
<1>3. w \in Seq(ApEntry) /\ \E f : Picks(w, b.list, gone, f)
  BY <1>1, WithoutOK
<1>4. PICK f : Picks(w, b.list, gone, f)
  BY <1>3
<1>5. Sorted(w) /\ (w # <<>> => b.list # <<>> /\ b.list[1].ttl <= w[1].ttl)
  BY <1>1, SortedWithout DEF AuthBase
<1> HIDE DEF w
<1>6. /\ w # <<>> => w[1].ttl \in Int /\ b.list[1].ttl \in Int
      /\ b.timer \in Int
      /\ Len(w) \in Nat /\ Len(b.list) \in Nat
  <2>1. ASSUME w # <<>> PROVE 1 \in 1 .. Len(w) /\ 1 \in 1 .. Len(b.list)
    BY <2>1, <1>1, <1>3, <1>5
  <2>2. b.timer \in Int
    BY <1>1, AuthTypes
  <2> QED BY <2>1, <2>2, <1>1, <1>3 DEF Timed
<1>7. AuthBase(n)
  <2>1. ASSUME w # <<>> PROVE n.timer \in 0 .. ExpireIn(w[1].ttl)
    BY <2>1, <1>2, <1>5, <1>6 DEF AuthBase, ExpireIn
  <2>2. n.pmksa # OtherKey /\ n.msk # OtherKey
    BY <1>2 DEF AuthBase, NoKey, OtherKey
  <2> QED BY <2>1, <2>2, <1>2, <1>5 DEF AuthBase
<1>8. ASSUME Points(b) PROVE Points(n)
  <2> SUFFICES ASSUME n.pmksa # NoKey PROVE Holds(w, n.pmksa)
    BY <1>2 DEF Points
  <2>1. n.pmksa = b.pmksa /\ ~\E i \in gone : b.list[i].spa = Me /\ b.list[i].pmk = b.pmksa
    BY <1>2
  <2>2. PICK i \in 1 .. Len(b.list) : b.list[i].spa = Me /\ b.list[i].pmk = b.pmksa
    BY <2>1, <1>8 DEF Points, Holds
  <2>3. i \notin gone
    BY <2>1, <2>2
  <2>4. PICK k \in 1 .. Len(w) : f[k] = i
    BY <2>3, <1>4 DEF Picks
  <2>5. w[k] = b.list[i]
    BY <2>4, <1>4 DEF Picks
  <2> QED BY <2>1, <2>2, <2>5 DEF Holds
<1>9. ASSUME Prompt(b) PROVE Prompt(n)
  <2> SUFFICES ASSUME w # <<>> PROVE w[1].ttl >= -1 /\ b.timer <= w[1].ttl + 1
    BY <1>2 DEF Prompt
  <2>1. b.list[1].ttl >= -1 /\ b.timer <= b.list[1].ttl + 1
    BY <1>5, <1>9 DEF Prompt
  <2>2. b.list[1].ttl <= w[1].ttl /\ w[1].ttl \in Int /\ b.list[1].ttl \in Int /\ b.timer \in Int
    BY <1>5, <1>6
  <2> QED BY <2>1, <2>2
<1>10. ASSUME Unique(b.list) PROVE Unique(n.list)
  <2> SUFFICES ASSUME NEW i \in 1 .. Len(w), NEW j \in 1 .. Len(w), w[i].spa = w[j].spa
               PROVE  i = j
    BY <1>2 DEF Unique
  <2>1. /\ f[i] \in 1 .. Len(b.list) /\ f[j] \in 1 .. Len(b.list)
        /\ b.list[f[i]].spa = b.list[f[j]].spa
    BY <1>4 DEF Picks
  <2>2. f[i] = f[j]
    BY <2>1, <1>10 DEF Unique
  <2>3. f[i] \in Int /\ ~(i < j) /\ ~(j < i)
    BY <2>1, <2>2, <1>4, <1>6 DEF Picks
  <2> QED BY <2>3, <1>6
<1>11. Len(w) <= Len(b.list)
  BY <1>1, LenWithout DEF w
<1> QED BY <1>2, <1>7, <1>8, <1>9, <1>10, <1>11 DEF n, w

\* The first entry of a station, if it has any.
LEMMA AuthFirstOK ==
    ASSUME NEW l \in Seq(ApEntry), NEW spa
    PROVE  \/ AuthFirst(l, spa) = {} /\ \A i \in 1 .. Len(l) : l[i].spa # spa
           \/ \E m \in 1 .. Len(l) : AuthFirst(l, spa) = {m} /\ l[m].spa = spa
<1> DEFINE found == {i \in DOMAIN l : l[i].spa = spa}
<1>1. DOMAIN l = 1 .. Len(l) /\ Len(l) \in Nat
  OBVIOUS
<1>2. AuthFirst(l, spa) = IF found = {} THEN {} ELSE {Min(found)}
  BY DEF AuthFirst
<1>3. /\ found \in SUBSET Nat /\ \A i \in found : i \in 1 .. Len(l) /\ l[i].spa = spa
      /\ \A i \in 1 .. Len(l) : l[i].spa = spa => i \in found
  BY <1>1
<1> HIDE DEF found
<1>4. CASE found = {}
  BY <1>2, <1>3, <1>4
<1>5. CASE found # {}
  <2>1. Min(found) \in found
    BY <1>3, <1>5, MinOK
  <2> QED BY <2>1, <1>2, <1>3, <1>5
<1> QED BY <1>4, <1>5

\* The timeout that is set from the first entry.
LEMMA AuthSetExpirationOK ==
    ASSUME NEW b \in AuthT, b.pmksa # OtherKey, b.msk # OtherKey, Sorted(b.list)
    PROVE  LET n == AuthSetExpiration(b) IN
           /\ AuthBase(n)
           /\ n.list = b.list /\ n.pmksa = b.pmksa /\ n.msk = b.msk
           /\ (b.list # <<>> => b.list[1].ttl >= 0) => Prompt(n)
<1> DEFINE n == AuthSetExpiration(b)
           t == IF b.list = <<>> THEN NoTimer ELSE ExpireIn(b.list[1].ttl)
<1>1. b.list \in Seq(ApEntry) /\ Lifetime \in Nat \ {0}
  BY AuthTypes
<1>2. b.list # <<>> => b.list[1].ttl \in Floor .. Lifetime
  <2>1. b.list # <<>> => b.list[1] \in ApEntry
    BY <1>1
  <2> QED BY <2>1 DEF ApEntry
<1>3. t \in NoTimer .. Lifetime + 1 /\ (b.list # <<>> => t \in 0 .. ExpireIn(b.list[1].ttl))
  BY <1>1, <1>2 DEF ExpireIn, NoTimer, Floor
<1> HIDE DEF t
<1>4. n = [b EXCEPT !.timer = t]
  BY DEF AuthSetExpiration, t
<1> HIDE DEF n
<1>5. n \in AuthT /\ n.list = b.list /\ n.pmksa = b.pmksa /\ n.msk = b.msk /\ n.timer = t
  BY <1>3, <1>4 DEF AuthT, AuthType
<1>6. AuthBase(n)
  BY <1>3, <1>5 DEF AuthBase
<1>7. ASSUME b.list # <<>> => b.list[1].ttl >= 0 PROVE Prompt(n)
  <2>1. b.list # <<>> => t = b.list[1].ttl + 1
    BY <1>2, <1>7 DEF t, ExpireIn, Floor
  <2> QED BY <2>1, <1>2, <1>5, <1>7 DEF Prompt, Floor
<1> QED BY <1>5, <1>6, <1>7 DEF n

\* A new entry.  The station's pointer may be set to it in advance.
LEMMA AuthLinkOK ==
    ASSUME NEW b, AuthBase(b), NEW e \in ApEntry,
           b.pmksa # NoKey => Holds(b.list, b.pmksa) \/ (e.spa = Me /\ e.pmk = b.pmksa)
    PROVE  LET n == AuthLink(b, e) IN
           /\ AuthBase(n) /\ Points(n)
           /\ n.pmksa = b.pmksa /\ n.msk = b.msk
           /\ Len(n.list) = Len(b.list) + 1
           /\ Prompt(b) /\ e.ttl >= 0 => Prompt(n)
           /\ Unique(b.list) /\ (\A i \in 1 .. Len(b.list) : b.list[i].spa # e.spa)
                => Unique(n.list)
<1> DEFINE p == Place(b.list, e.ttl)
           l == InsertAt(b.list, p, e)
           new == [b EXCEPT !.list = l]
           n == AuthLink(b, e)
<1>1. b \in AuthT /\ b.list \in Seq(ApEntry) /\ Timed(ApEntry) /\ Sorted(b.list)
  BY AuthTypes DEF AuthBase
<1>2. e.ttl \in Int /\ Len(b.list) \in Nat
  BY <1>1 DEF Timed
<1>3. p \in 1 .. Len(b.list) + 1 /\ (p <= Len(b.list) => b.list[p].ttl > e.ttl)
  BY <1>1, <1>2, PlaceOK
<1>4. Sorted(l)
  BY <1>1, SortedInsert
<1> HIDE DEF p
<1>5. /\ l \in Seq(ApEntry) /\ Len(l) = Len(b.list) + 1
      /\ \A k \in 1 .. Len(b.list) + 1 :
           l[k] = IF k < p THEN b.list[k] ELSE IF k = p THEN e ELSE b.list[k - 1]
  <2> DEFINE o == b.list
  <2>1. o \in Seq(ApEntry) /\ p \in 1 .. Len(o) + 1 /\ e \in ApEntry
    BY <1>1, <1>3
  <2> HIDE DEF o
  <2>2. /\ InsertAt(o, p, e) \in Seq(ApEntry) /\ Len(InsertAt(o, p, e)) = Len(o) + 1
        /\ \A k \in 1 .. Len(o) + 1 :
             InsertAt(o, p, e)[k] = IF k < p THEN o[k] ELSE IF k = p THEN e ELSE o[k - 1]
    BY <2>1, InsertOK
  <2> QED BY <2>2 DEF o
<1>6. n = IF p = 1 THEN AuthSetExpiration(new) ELSE new
  BY DEF AuthLink, p
<1> HIDE DEF l, n
<1>7. new \in AuthT /\ new.list = l /\ new.pmksa = b.pmksa /\ new.msk = b.msk /\ new.timer = b.timer
  BY <1>1, <1>5 DEF AuthT, AuthType, ApEntry
<1> HIDE DEF new
<1>8. b.pmksa # OtherKey /\ b.msk # OtherKey
  BY DEF AuthBase
<1>9. /\ AuthBase(n) /\ n.list = l /\ n.pmksa = b.pmksa /\ n.msk = b.msk
      /\ Prompt(b) /\ e.ttl >= 0 => Prompt(n)
  <2>1. CASE p = 1
    <3>1. n = AuthSetExpiration(new)
      BY <1>6, <2>1
    <3>2. l[1] = e
      BY <2>1, <1>2, <1>5
    <3>3. /\ AuthBase(n) /\ n.list = l /\ n.pmksa = b.pmksa /\ n.msk = b.msk
          /\ (l # <<>> => l[1].ttl >= 0) => Prompt(n)
      BY <3>1, <1>4, <1>7, <1>8, AuthSetExpirationOK
    <3> QED BY <3>2, <3>3
  <2>2. CASE p # 1
    <3>1. n = new
      BY <1>6, <2>2
    <3>2. 1 \in 1 .. Len(b.list) /\ l[1] = b.list[1]
      BY <2>2, <1>2, <1>3, <1>5
    <3>3. b.list # <<>>
      BY <3>2
    <3>4. b.timer \in 0 .. ExpireIn(l[1].ttl)
      BY <3>2, <3>3 DEF AuthBase
    <3>5. AuthBase(n)
      BY <3>1, <3>4, <1>4, <1>7, <1>8 DEF AuthBase
    <3>6. Prompt(b) => Prompt(n)
      BY <3>1, <3>2, <3>3, <1>7 DEF Prompt
    <3> QED BY <3>1, <3>5, <3>6, <1>7
  <2> QED BY <2>1, <2>2
<1>10. p \in 1 .. Len(l) /\ l[p] = e
  BY <1>2, <1>3, <1>5
<1>11. \A i \in 1 .. Len(b.list) : \E k \in 1 .. Len(l) : l[k] = b.list[i]
  <2> SUFFICES ASSUME NEW i \in 1 .. Len(b.list) PROVE \E k \in 1 .. Len(l) : l[k] = b.list[i]
    OBVIOUS
  <2>1. CASE i < p
    BY <2>1, <1>2, <1>3, <1>5
  <2>2. CASE i >= p
    <3>1. i + 1 \in 1 .. Len(l) /\ l[i + 1] = b.list[i + 1 - 1]
      BY <2>2, <1>2, <1>3, <1>5
    <3> QED BY <3>1, <1>2
  <2> QED BY <2>1, <2>2, <1>2, <1>3
<1>12. Points(n)
  <2> SUFFICES ASSUME b.pmksa # NoKey PROVE Holds(l, b.pmksa)
    BY <1>9 DEF Points
  <2> QED BY <1>10, <1>11 DEF Holds
<1>13. ASSUME Unique(b.list), \A i \in 1 .. Len(b.list) : b.list[i].spa # e.spa
       PROVE  Unique(l)
  <2> SUFFICES ASSUME NEW i \in 1 .. Len(l), NEW j \in 1 .. Len(l), i < j
               PROVE  l[i].spa # l[j].spa
    <3>1. \A i, j \in 1 .. Len(l) : i # j => i < j \/ j < i
      BY <1>2, <1>5
    <3> QED BY <3>1 DEF Unique
  <2> DEFINE Old(k) == IF k < p THEN k ELSE k - 1
  <2>1. \A k \in 1 .. Len(l) : k # p => Old(k) \in 1 .. Len(b.list) /\ l[k] = b.list[Old(k)]
    BY <1>2, <1>3, <1>5
  <2>2. CASE i = p
    <3>1. j # p
      BY <2>2, <1>2, <1>3, <1>5
    <3>2. l[i] = e /\ Old(j) \in 1 .. Len(b.list) /\ l[j] = b.list[Old(j)]
      BY <3>1, <2>1, <2>2, <1>10
    <3> HIDE DEF Old
    <3> QED BY <3>2, <1>13
  <2>3. CASE j = p
    <3>1. i # p
      BY <2>3, <1>2, <1>3, <1>5
    <3>2. l[j] = e /\ Old(i) \in 1 .. Len(b.list) /\ l[i] = b.list[Old(i)]
      BY <3>1, <2>1, <2>3, <1>10
    <3> HIDE DEF Old
    <3> QED BY <3>2, <1>13
  <2>4. CASE i # p /\ j # p
    <3>1. Old(i) # Old(j)
      BY <2>4, <1>2, <1>3, <1>5
    <3> HIDE DEF Old
    <3> QED BY <3>1, <2>1, <2>4, <1>13 DEF Unique
  <2> QED BY <2>2, <2>3, <2>4
<1> QED BY <1>5, <1>9, <1>12, <1>13 DEF n

\* Removing the first entry of a station: with one entry per station none is left.
LEMMA AuthRemoveOK ==
    ASSUME NEW b, NEW spa, AuthBase(b)
    PROVE  LET n == AuthRemove(b, Me, spa) IN
           /\ AuthBase(n)
           /\ n.msk = b.msk /\ n.pmksa \in {b.pmksa, NoKey}
           /\ Points(b) => Points(n)
           /\ Prompt(b) => Prompt(n)
           /\ Unique(b.list) => Unique(n.list)
           /\ Len(n.list) <= Len(b.list)
           /\ Unique(b.list) => \A i \in 1 .. Len(n.list) : n.list[i].spa # spa
<1> DEFINE gone == AuthFirst(b.list, spa)
           n == AuthFree(b, Me, gone)
<1>1. AuthRemove(b, Me, spa) = n
  BY DEF AuthRemove
<1>2. /\ AuthBase(n)
      /\ n.list = Without(b.list, gone)
      /\ n.msk = b.msk /\ n.pmksa \in {b.pmksa, NoKey}
      /\ Points(b) => Points(n)
      /\ Prompt(b) => Prompt(n)
      /\ Unique(b.list) => Unique(n.list)
      /\ Len(n.list) <= Len(b.list)
  BY AuthFreeOK
<1> HIDE DEF n
<1>3. b.list \in Seq(ApEntry)
  BY AuthTypes DEF AuthBase
<1>4. PICK f : Picks(n.list, b.list, gone, f)
  BY <1>2, <1>3, WithoutOK
<1>5. ASSUME Unique(b.list), NEW i \in 1 .. Len(n.list) PROVE n.list[i].spa # spa
  <2>1. f[i] \in 1 .. Len(b.list) /\ f[i] \notin gone /\ n.list[i] = b.list[f[i]]
    BY <1>4 DEF Picks
  <2>2. \/ gone = {} /\ \A j \in 1 .. Len(b.list) : b.list[j].spa # spa
        \/ \E m \in 1 .. Len(b.list) : gone = {m} /\ b.list[m].spa = spa
    BY <1>3, AuthFirstOK
  <2> HIDE DEF gone
  <2>3. CASE \A j \in 1 .. Len(b.list) : b.list[j].spa # spa
    BY <2>1, <2>3
  <2>4. CASE \E m \in 1 .. Len(b.list) : gone = {m} /\ b.list[m].spa = spa
    BY <2>1, <2>4, <1>5 DEF Unique
  <2> QED BY <2>2, <2>3, <2>4
<1> QED BY <1>1, <1>2, <1>5

\* pmksa_cache_auth_add(): with one entry per station there is one again, and
\* the limit is kept.
LEMMA AuthAddOK ==
    ASSUME NEW b, NEW e \in ApEntry, NEW max \in Nat \ {0}, AuthBase(b), Points(b), e.ttl >= 0
    PROVE  LET n == AuthAdd(b, Me, max, e) IN
           /\ AuthBase(n) /\ Points(n)
           /\ n.msk = b.msk /\ n.pmksa \in {b.pmksa, NoKey}
           /\ Strict(b, max) => Strict(n, max)
<1> DEFINE old == AuthRemove(b, Me, e.spa)
           room == IF Len(old.list) >= max /\ old.list # <<>>
                   THEN AuthFree(old, Me, {1}) ELSE old
           n == AuthLink(room, e)
<1>1. AuthAdd(b, Me, max, e) = n
  BY DEF AuthAdd
<1>2. /\ AuthBase(old) /\ Points(old) /\ old.msk = b.msk /\ old.pmksa \in {b.pmksa, NoKey}
      /\ Strict(b, max) => Strict(old, max)
      /\ Strict(b, max) => \A i \in 1 .. Len(old.list) : old.list[i].spa # e.spa
  <2>1. AuthBase(b)
    OBVIOUS
  <2>2. Len(b.list) \in Nat /\ Len(old.list) \in Nat
    <3>1. AuthBase(old)
      BY AuthRemoveOK
    <3> HIDE DEF old
    <3>2. b.list \in Seq(ApEntry) /\ old.list \in Seq(ApEntry)
      BY <3>1, AuthTypes DEF AuthBase
    <3> QED BY <3>2
  <2>3. Len(old.list) <= Len(b.list)
    BY AuthRemoveOK
  <2>4. Strict(b, max) => Len(old.list) <= max
    <3> HIDE DEF old
    <3> QED BY <2>2, <2>3 DEF Strict
  <2> QED BY <2>4, AuthRemoveOK DEF Strict
<1> HIDE DEF old
<1>3. /\ AuthBase(room) /\ Points(room) /\ room.msk = b.msk /\ room.pmksa \in {b.pmksa, NoKey}
      /\ Strict(b, max) => /\ Prompt(room) /\ Unique(room.list) /\ Len(room.list) < max
                           /\ \A i \in 1 .. Len(room.list) : room.list[i].spa # e.spa
  <2>0. old.list \in Seq(ApEntry)
    BY <1>2, AuthTypes DEF AuthBase
  <2>1. CASE Len(old.list) >= max /\ old.list # <<>>
    <3>1. room = AuthFree(old, Me, {1})
      BY <2>1
    <3>2. /\ AuthBase(room) /\ Points(room) /\ room.msk = old.msk
          /\ room.pmksa \in {old.pmksa, NoKey}
          /\ room.list = Without(old.list, {1})
          /\ Prompt(old) => Prompt(room)
          /\ Unique(old.list) => Unique(room.list)
      BY <3>1, <1>2, AuthFreeOK
    <3> HIDE DEF room
    <3>3. 1 \in 1 .. Len(old.list)
      BY <2>0, <2>1
    <3>4. Len(room.list) < Len(old.list)
      BY <3>2, <3>3, <2>0, LenWithout
    <3>5. PICK f : Picks(room.list, old.list, {1}, f)
      BY <3>2, <2>0, WithoutOK
    <3>6. Strict(b, max) => \A i \in 1 .. Len(room.list) : room.list[i].spa # e.spa
      BY <3>5, <1>2 DEF Picks
    <3>7. room.list \in Seq(ApEntry)
      BY <3>2, AuthTypes DEF AuthBase
    <3>8. Strict(b, max) => Len(room.list) < max
      BY <3>4, <3>7, <2>0, <1>2 DEF Strict
    <3> QED BY <3>2, <3>6, <3>8, <1>2 DEF Strict
  <2>2. CASE Len(old.list) < max
    <3>1. room = old
      BY <2>0, <2>2
    <3> HIDE DEF room
    <3> QED BY <3>1, <2>2, <1>2 DEF Strict
  <2>3. CASE old.list = <<>>
    <3>1. room = old /\ Len(old.list) = 0
      BY <2>3
    <3> HIDE DEF room
    <3> QED BY <3>1, <2>3, <1>2 DEF Strict
  <2> QED BY <2>0, <2>1, <2>2, <2>3
<1> HIDE DEF room
<1>4. room.pmksa # NoKey => Holds(room.list, room.pmksa) \/ (e.spa = Me /\ e.pmk = room.pmksa)
  BY <1>3 DEF Points
<1>5. /\ AuthBase(n) /\ Points(n)
      /\ n.pmksa = room.pmksa /\ n.msk = room.msk
      /\ Len(n.list) = Len(room.list) + 1
      /\ Prompt(room) /\ e.ttl >= 0 => Prompt(n)
      /\ Unique(room.list) /\ (\A i \in 1 .. Len(room.list) : room.list[i].spa # e.spa)
           => Unique(n.list)
  BY <1>3, <1>4, AuthLinkOK
<1> HIDE DEF n
<1>6. room.list \in Seq(ApEntry)
  BY <1>3, AuthTypes DEF AuthBase
<1>7. Strict(b, max) => Strict(n, max)
  BY <1>3, <1>5, <1>6 DEF Strict
<1> QED BY <1>1, <1>3, <1>5, <1>7

\* pmksa_cache_expire(): nothing that has expired is left, so the next timeout
\* is that of an entry with time left.
LEMMA AuthExpireOK ==
    ASSUME NEW b, AuthBase(b), Points(b)
    PROVE  LET n == AuthExpire(b, Me) IN
           /\ AuthBase(n) /\ Points(n) /\ Prompt(n)
           /\ n.msk = b.msk /\ n.pmksa \in {b.pmksa, NoKey}
           /\ \A max \in Nat : Strict(b, max) => Strict(n, max)
<1> DEFINE late == {i \in DOMAIN b.list : b.list[i].ttl > 0}
           m == IF late = {} THEN Len(b.list) ELSE Min(late) - 1
           c == AuthFree(b, Me, 1 .. m)
           n == AuthSetExpiration(c)
<1>1. AuthExpire(b, Me) = n
  BY DEF AuthExpire
<1>2. /\ b.list \in Seq(ApEntry) /\ Sorted(b.list) /\ Timed(ApEntry)
      /\ DOMAIN b.list = 1 .. Len(b.list) /\ Len(b.list) \in Nat
  BY AuthTypes DEF AuthBase
<1>3. \A i \in 1 .. Len(b.list) : b.list[i].ttl \in Int
  BY <1>2 DEF Timed
<1>4. ASSUME NEW i \in 1 .. Len(b.list), i \notin 1 .. m PROVE b.list[i].ttl > 0
  <2>1. late \in SUBSET Nat
    BY <1>2
  <2>2. CASE late = {}
    BY <2>2, <1>2, <1>4
  <2>3. CASE late # {}
    <3>1. Min(late) \in late
      BY <2>1, <2>3, MinOK
    <3>2. Min(late) \in 1 .. Len(b.list) /\ b.list[Min(late)].ttl > 0
      BY <3>1, <1>2
    <3>3. m = Min(late) - 1
      BY <2>3
    <3> HIDE DEF m, late
    <3>4. Min(late) <= i
      BY <3>2, <3>3, <1>2, <1>4
    <3>5. b.list[Min(late)].ttl <= b.list[i].ttl
      BY <3>2, <3>4, <1>2 DEF Sorted
    <3> QED BY <3>2, <3>5, <1>3
  <2> QED BY <2>2, <2>3
<1> HIDE DEF m
<1>5. /\ AuthBase(c) /\ c.list = Without(b.list, 1 .. m) /\ Points(c)
      /\ c.msk = b.msk /\ c.pmksa \in {b.pmksa, NoKey}
      /\ Unique(b.list) => Unique(c.list)
      /\ Len(c.list) <= Len(b.list)
  BY AuthFreeOK
<1> HIDE DEF c
<1>6. c.list \in Seq(ApEntry) /\ c \in AuthT /\ c.pmksa # OtherKey /\ c.msk # OtherKey /\ Sorted(c.list)
  BY <1>5, AuthTypes DEF AuthBase
<1>7. c.list # <<>> => c.list[1].ttl >= 0
  <2> SUFFICES ASSUME c.list # <<>> PROVE c.list[1].ttl >= 0
    OBVIOUS
  <2>0. b.list \in Seq(ApEntry)
    BY <1>2
  <2>1. PICK f : Picks(Without(b.list, 1 .. m), b.list, 1 .. m, f)
    BY <2>0, WithoutOK
  <2>2. 1 \in 1 .. Len(c.list)
    BY <1>6
  <2>3. f[1] \in 1 .. Len(b.list) /\ f[1] \notin 1 .. m /\ c.list[1] = b.list[f[1]]
    <3>1. Picks(c.list, b.list, 1 .. m, f)
      BY <2>1, <1>5
    <3> QED BY <3>1, <2>2 DEF Picks
  <2>4. b.list[f[1]].ttl > 0 /\ b.list[f[1]].ttl \in Int
    BY <2>3, <1>3, <1>4
  <2> QED BY <2>3, <2>4
<1>8. AuthBase(n) /\ n.list = c.list /\ n.pmksa = c.pmksa /\ n.msk = c.msk /\ Prompt(n)
  BY <1>6, <1>7, AuthSetExpirationOK
<1> HIDE DEF n
<1>9. Points(n)
  BY <1>5, <1>8 DEF Points
<1>10. ASSUME NEW max \in Nat, Strict(b, max) PROVE Strict(n, max)
  <2>1. Len(c.list) \in Nat
    BY <1>6
  <2>2. Len(c.list) <= max
    BY <2>1, <1>2, <1>5, <1>10 DEF Strict
  <2> QED BY <2>2, <1>5, <1>8, <1>10 DEF Strict
<1> QED BY <1>1, <1>5, <1>8, <1>9, <1>10

\* wpa_validate_wpa_ie(): the pointer is set to an entry that is there, or that
\* is copied from another BSS.
LEMMA AuthValidateOK ==
    ASSUME NEW b, AuthBase(b), NEW pmk \in Keys \cup {NoKey}, NEW okc \in SUBSET ApEntry,
           NEW n \in AuthValidate(b, Me, pmk, okc)
    PROVE  /\ AuthBase(n) /\ Points(n)
           /\ n.msk = b.msk /\ n.pmksa \in {pmk, NoKey}
           /\ okc = {} => \A max \in Nat : Strict(b, max) => Strict(n, max)
<1> DEFINE clear == [b EXCEPT !.pmksa = NoKey]
           named == [b EXCEPT !.pmksa = pmk]
           other == {e \in okc : e.spa = Me /\ e.pmk = pmk}
           own == \E i \in DOMAIN b.list : b.list[i].spa = Me /\ b.list[i].pmk = pmk
<1>1. b \in AuthT /\ b.list \in Seq(ApEntry) /\ Keys \subseteq Nat \ {0}
  BY AuthTypes DEF AuthBase
<1>2. /\ named \in AuthT /\ named.pmksa = pmk /\ named.list = b.list
      /\ named.timer = b.timer /\ named.msk = b.msk
  BY <1>1 DEF AuthT, AuthType
<1>3. /\ clear \in AuthT /\ clear.pmksa = NoKey /\ clear.list = b.list
      /\ clear.timer = b.timer /\ clear.msk = b.msk
  BY <1>1 DEF AuthT, AuthType
<1>4. n \in (IF own THEN {[clear EXCEPT !.pmksa = pmk]}
             ELSE IF other = {} THEN {clear}
             ELSE {AuthLink([clear EXCEPT !.pmksa = pmk], e) : e \in other})
  BY DEF AuthValidate
<1>5. [clear EXCEPT !.pmksa = pmk] = named
  BY <1>1 DEF AuthT, AuthType
<1> HIDE DEF clear, named
<1>6. pmk # OtherKey /\ NoKey # OtherKey
  BY <1>1 DEF OtherKey, NoKey
<1>7. AuthBase(named) /\ AuthBase(clear) /\ Points(clear)
  BY <1>2, <1>3, <1>6 DEF AuthBase, Points
<1>8. \A max \in Nat : Strict(b, max) => Strict(named, max) /\ Strict(clear, max)
  BY <1>2, <1>3 DEF Strict, Prompt
<1>9. CASE own
  <2>1. n = named
    BY <1>4, <1>5, <1>9
  <2>2. Points(named)
    BY <1>1, <1>2, <1>9 DEF Points, Holds
  <2> QED BY <2>1, <2>2, <1>2, <1>7, <1>8
<1>10. CASE ~own /\ other = {}
  <2>1. n = clear
    BY <1>4, <1>10
  <2> QED BY <2>1, <1>3, <1>7, <1>8
<1>11. CASE ~own /\ other # {}
  <2>1. PICK e \in other : n = AuthLink(named, e)
    BY <1>4, <1>5, <1>11
  <2>2. e \in ApEntry /\ e.spa = Me /\ e.pmk = pmk /\ okc # {}
    BY <2>1
  <2>3. AuthBase(n) /\ Points(n) /\ n.pmksa = named.pmksa /\ n.msk = named.msk
    <3>1. named.pmksa # NoKey => Holds(named.list, named.pmksa) \/ (e.spa = Me /\ e.pmk = named.pmksa)
      BY <2>2, <1>2
    <3> QED BY <3>1, <2>1, <2>2, <1>7, AuthLinkOK
  <2> QED BY <2>2, <2>3, <1>2
<1> QED BY <1>9, <1>10, <1>11

\* A second passes at an authenticator whose timeout is not due.
LEMMA AuthTickOK ==
    ASSUME NEW b, AuthBase(b), Points(b), b.timer # 0
    PROVE  LET n == AuthTick(b) IN
           /\ AuthBase(n) /\ Points(n)
           /\ n.msk = b.msk /\ n.pmksa = b.pmksa
           /\ \A max \in Nat : Strict(b, max) => Strict(n, max)
<1> DEFINE n == AuthTick(b)
           w == [i \in DOMAIN b.list |-> AuthAged(b.list[i])]
<1>1. /\ b \in AuthT /\ b.list \in Seq(ApEntry) /\ Sorted(b.list)
      /\ DOMAIN b.list = 1 .. Len(b.list) /\ Len(b.list) \in Nat
      /\ b.timer \in -1 .. Lifetime + 1 /\ Lifetime \in Nat \ {0}
  BY AuthTypes DEF AuthBase
<1>2. n = [b EXCEPT !.list = w, !.timer = Later(b.timer)]
  BY DEF AuthTick
<1> HIDE DEF n
<1>3. \A i \in 1 .. Len(b.list) :
        /\ w[i] \in ApEntry /\ w[i].spa = b.list[i].spa /\ w[i].pmk = b.list[i].pmk
        /\ w[i].ttl = Older(b.list[i].ttl) /\ b.list[i].ttl \in Floor .. Lifetime
  <2> SUFFICES ASSUME NEW i \in 1 .. Len(b.list)
               PROVE  /\ w[i] \in ApEntry /\ w[i].spa = b.list[i].spa /\ w[i].pmk = b.list[i].pmk
                      /\ w[i].ttl = Older(b.list[i].ttl) /\ b.list[i].ttl \in Floor .. Lifetime
    OBVIOUS
  <2>1. b.list[i] \in ApEntry /\ b.list[i].ttl \in Floor .. Lifetime
    <3>1. b.list[i] \in ApEntry
      BY <1>1
    <3> QED BY <3>1 DEF ApEntry
  <2>2. Older(b.list[i].ttl) \in Floor .. Lifetime
    BY <2>1, <1>1, OlderOK
  <2>3. w[i] = [b.list[i] EXCEPT !.ttl = Older(b.list[i].ttl)]
    <3>1. w[i] = AuthAged(b.list[i])
      BY <1>1
    <3> HIDE DEF w
    <3> QED BY <3>1 DEF AuthAged
  <2> HIDE DEF w
  <2> QED BY <2>1, <2>2, <2>3 DEF ApEntry
<1>4. w \in Seq(ApEntry) /\ Len(w) = Len(b.list)
  <2>1. w \in [1 .. Len(b.list) -> ApEntry]
    BY <1>1, <1>3
  <2> HIDE DEF w
  <2> QED BY <2>1, <1>1
<1> HIDE DEF w
<1>5. Later(b.timer) \in NoTimer .. Lifetime + 1
  BY <1>1 DEF Later, NoTimer
<1>6. n \in AuthT /\ n.list = w /\ n.timer = Later(b.timer) /\ n.msk = b.msk /\ n.pmksa = b.pmksa
  BY <1>1, <1>2, <1>4, <1>5 DEF AuthT, AuthType, ApEntry
<1>7. Sorted(w)
  <2> SUFFICES ASSUME NEW i \in 1 .. Len(b.list), NEW j \in 1 .. Len(b.list), i <= j
               PROVE  w[i].ttl <= w[j].ttl
    BY <1>4 DEF Sorted
  <2>1. b.list[i].ttl <= b.list[j].ttl
    BY <1>1 DEF Sorted
  <2>2. /\ w[i].ttl = Older(b.list[i].ttl) /\ w[j].ttl = Older(b.list[j].ttl)
        /\ b.list[i].ttl \in Floor .. Lifetime /\ b.list[j].ttl \in Floor .. Lifetime
    BY <1>3
  <2> QED BY <2>1, <2>2, <1>1, OlderOK
<1>8. w # <<>> => /\ b.list # <<>> /\ 1 \in 1 .. Len(b.list)
                  /\ w[1].ttl = Older(b.list[1].ttl) /\ b.list[1].ttl \in Floor .. Lifetime
  BY <1>1, <1>3, <1>4
<1>9. w # <<>> => n.timer \in 0 .. ExpireIn(w[1].ttl)
  <2> SUFFICES ASSUME w # <<>> PROVE n.timer \in 0 .. ExpireIn(w[1].ttl)
    OBVIOUS
  <2>1. b.timer \in 0 .. ExpireIn(b.list[1].ttl)
    BY <1>8 DEF AuthBase
  <2> DEFINE x == b.list[1].ttl
             t == b.timer
  <2>2. x \in Int /\ x >= -2 /\ t \in 0 .. ExpireIn(x) /\ t # 0
    BY <2>1, <1>1, <1>8 DEF Floor
  <2>3. w[1].ttl = Older(x) /\ n.timer = Later(t)
    BY <1>6, <1>8
  <2> HIDE DEF x, t
  <2>4. t \in Int /\ t >= 1 /\ t <= ExpireIn(x) /\ ExpireIn(x) \in Int
    BY <2>2 DEF ExpireIn
  <2>5. n.timer = t - 1 /\ Older(x) \in Int
    BY <2>2, <2>3, <2>4 DEF Later, NoTimer, Older, Floor
  <2>6. t - 1 <= ExpireIn(Older(x)) /\ ExpireIn(Older(x)) \in Int
    BY <2>2, <2>4, <2>5 DEF ExpireIn, Older, Floor
  <2> QED BY <2>3, <2>4, <2>5, <2>6
<1>10. AuthBase(n)
  BY <1>6, <1>7, <1>9 DEF AuthBase
<1>11. Points(n)
  BY <1>3, <1>4, <1>6 DEF Points, Holds
<1>12. ASSUME Prompt(b) PROVE Prompt(n)
  <2> SUFFICES ASSUME w # <<>> PROVE w[1].ttl >= -1 /\ n.timer <= w[1].ttl + 1
    BY <1>6 DEF Prompt
  <2>1. b.list[1].ttl >= -1 /\ b.timer <= b.list[1].ttl + 1 /\ b.timer \in 0 .. ExpireIn(b.list[1].ttl)
    BY <1>8, <1>12 DEF Prompt, AuthBase
  <2> DEFINE x == b.list[1].ttl
             t == b.timer
  <2>2. x \in Int /\ t \in Int /\ x >= -1 /\ t <= x + 1 /\ t # 0 /\ t # -1
    BY <2>1, <1>1, <1>8 DEF Floor, ExpireIn
  <2>3. t >= 0
    BY <2>1, <2>2, <1>8 DEF Floor, ExpireIn
  <2>4. w[1].ttl = Older(x) /\ n.timer = Later(t)
    BY <1>6, <1>8
  <2> HIDE DEF x, t
  <2> QED BY <2>2, <2>3, <2>4 DEF Later, Older, Floor, NoTimer
<1>13. \A max \in Nat : Strict(b, max) => Strict(n, max)
  BY <1>3, <1>4, <1>6, <1>12 DEF Strict, Unique
<1> QED BY <1>6, <1>10, <1>11, <1>13 DEF n

(***************************************************************************)
(* The cache of the station.                                               *)
(***************************************************************************)
StaEntry == [aa : BSSs, pmk : Keys, ttl : Floor .. Lifetime, reauth : 0 .. Lifetime,
             opp : BOOLEAN]

\* The type of the station within a step, in which it may be deauthenticated.
SuppT ==
    [list : Seq(StaEntry), expire : NoTimer .. Lifetime + 1, reauth : NoTimer .. Lifetime,
     cur : [aa : BSSs \cup {NoBss}, pmk : Keys \cup {NoKey}],
     pmk : Keys \cup {NoKey}, bss : BSSs \cup {NoBss},
     msk : Keys \cup {NoKey}, deauth : BOOLEAN]

\* Always: one entry per AP, the current one among them, and a timeout for them.
OnePerAp(list) == \A i, j \in 1 .. Len(list) : list[i].aa = list[j].aa => i = j
SuppOK(s) ==
    /\ s \in SuppT
    /\ OnePerAp(s.list)
    /\ s.cur # NoCur => Known(s, s.cur)
    /\ s.list # <<>> => s.expire # NoTimer

\* Without opportunistic key caching: entries are in the order in which they
\* expire, no PMK is in two of them, and one that has expired is due at once.
OnePerPmk(list) == \A i, j \in 1 .. Len(list) : list[i].pmk = list[j].pmk => i = j
SuppPrompt(s) ==
    s.list # <<>> => s.list[1].ttl >= -1 /\ s.expire <= s.list[1].ttl + 1
SuppStrict(s) ==
    /\ Sorted(s.list)
    /\ OnePerPmk(s.list)
    /\ \A i \in 1 .. Len(s.list) : ~s.list[i].opp
    /\ SuppPrompt(s)

\* The parts of it that hold within a step too, while the current entry is
\* among those that have just been unlinked.
Body(s) ==
    /\ s \in SuppT
    /\ OnePerAp(s.list)
    /\ s.list # <<>> => s.expire # NoTimer
Loose(s, gone) ==
    s.cur # NoCur => Known(s, s.cur) \/ \E e \in gone : Ref(e) = s.cur

\* A list of some of the entries of another, in their order.
Less(w, l) ==
    /\ w \in Seq(StaEntry)
    /\ \A n \in 1 .. Len(w) : \E j \in 1 .. Len(l) : w[n] = l[j]
    /\ OnePerAp(l) => OnePerAp(w)
    /\ OnePerPmk(l) => OnePerPmk(w)
    /\ Sorted(l) => Sorted(w)
    /\ Sorted(l) /\ w # <<>> => l # <<>> /\ l[1].ttl <= w[1].ttl

\* What removing entries does not change unless the station is deauthenticated.
Kept(r, s) ==
    /\ r.bss = s.bss /\ r.msk = s.msk
    /\ r.cur \in {s.cur, NoCur}
    /\ s.deauth => r.deauth
    /\ ~r.deauth => r.pmk = s.pmk

\* Types of what is in a station's cache.
LEMMA SuppTypes ==
    /\ Timed(StaEntry)
    /\ \A s \in SuppT :
         /\ s.list \in Seq(StaEntry) /\ s.expire \in -1 .. Lifetime + 1
         /\ s.reauth \in -1 .. Lifetime
         /\ s.cur \in [aa : BSSs \cup {NoBss}, pmk : Keys \cup {NoKey}]
         /\ s.pmk \in Keys \cup {NoKey} /\ s.msk \in Keys \cup {NoKey}
         /\ s.bss \in BSSs \cup {NoBss} /\ s.deauth \in BOOLEAN
    /\ \A e \in StaEntry : Ref(e) # NoCur
<1>1. Timed(StaEntry)
  BY DEF Timed, StaEntry, Floor
<1>2. \A s \in SuppT :
         /\ s.list \in Seq(StaEntry) /\ s.expire \in -1 .. Lifetime + 1
         /\ s.reauth \in -1 .. Lifetime
         /\ s.cur \in [aa : BSSs \cup {NoBss}, pmk : Keys \cup {NoKey}]
         /\ s.pmk \in Keys \cup {NoKey} /\ s.msk \in Keys \cup {NoKey}
         /\ s.bss \in BSSs \cup {NoBss} /\ s.deauth \in BOOLEAN
  BY DEF SuppT, NoTimer
<1>3. \A e \in StaEntry : Ref(e) # NoCur
  BY KeysAssumption DEF StaEntry, Ref, NoCur, NoKey
<1> QED BY <1>1, <1>2, <1>3

\* The entries of a list, by position.
LEMMA RangeOK ==
    ASSUME NEW T, NEW l \in Seq(T)
    PROVE  \A e : e \in Range(l) <=> \E i \in 1 .. Len(l) : e = l[i]
BY DEF Range

\* Known(), by position.
LEMMA KnownOK ==
    ASSUME NEW s, s.list \in Seq(StaEntry), NEW aa, NEW pmk
    PROVE  Known(s, [aa |-> aa, pmk |-> pmk]) <=>
             \E i \in 1 .. Len(s.list) : s.list[i].aa = aa /\ s.list[i].pmk = pmk
<1>1. \A e : Ref(e) = [aa |-> aa, pmk |-> pmk] <=> e.aa = aa /\ e.pmk = pmk
  BY DEF Ref
<1> QED BY <1>1, RangeOK DEF Known

\* Likewise At().
LEMMA AtOK ==
    ASSUME NEW s, s.list \in Seq(StaEntry), NEW aa
    PROVE  \A e : e \in At(s, aa) <=>
             \E i \in 1 .. Len(s.list) : e = s.list[i] /\ s.list[i].aa = aa
BY RangeOK DEF At

\* Less() is transitive, and so is Kept().
LEMMA LessTrans ==
    ASSUME NEW v, NEW w, NEW l \in Seq(StaEntry), Less(v, w), Less(w, l)
    PROVE  Less(v, l)
<1>1. v \in Seq(StaEntry) /\ w \in Seq(StaEntry)
  BY DEF Less
<1>2. \A n \in 1 .. Len(v) : \E j \in 1 .. Len(l) : v[n] = l[j]
  BY DEF Less
<1>3. (OnePerAp(l) => OnePerAp(v)) /\ (OnePerPmk(l) => OnePerPmk(v)) /\ (Sorted(l) => Sorted(v))
  BY DEF Less
<1>4. ASSUME Sorted(l), v # <<>> PROVE l # <<>> /\ l[1].ttl <= v[1].ttl
  <2>1. w # <<>> /\ w[1].ttl <= v[1].ttl /\ l # <<>> /\ l[1].ttl <= w[1].ttl
    BY <1>4 DEF Less
  <2>2. l[1].ttl \in Int /\ w[1].ttl \in Int /\ v[1].ttl \in Int
    BY <2>1, <1>1, <1>4, SuppTypes DEF Timed
  <2> QED BY <2>1, <2>2
<1> QED BY <1>1, <1>2, <1>3, <1>4 DEF Less

\* Unlinking entries leaves the others.
LEMMA UnlinkOK ==
    ASSUME NEW s \in SuppT, NEW gone
    PROVE  LET r == Unlink(s, gone) IN
           /\ r \in SuppT /\ r = [s EXCEPT !.list = r.list]
           /\ Less(r.list, s.list) /\ Len(r.list) <= Len(s.list)
           /\ \A n \in 1 .. Len(r.list) : r.list[n] \notin gone
           /\ \A i \in 1 .. Len(s.list) : s.list[i] \notin gone =>
                 \E n \in 1 .. Len(r.list) : r.list[n] = s.list[i]
<1> DEFINE l == s.list
           out == {i \in DOMAIN s.list : s.list[i] \in gone}
           w == Without(l, out)
           r == Unlink(s, gone)
<1>1. l \in Seq(StaEntry) /\ DOMAIN l = 1 .. Len(l) /\ Len(l) \in Nat /\ Timed(StaEntry)
  BY SuppTypes
<1>2. r = [s EXCEPT !.list = w]
  BY DEF Unlink
<1>3. \A i \in 1 .. Len(l) : i \in out <=> l[i] \in gone
  BY <1>1
<1> HIDE DEF l, out
<1>4. w \in Seq(StaEntry) /\ \E f : Picks(w, l, out, f)
  BY <1>1, WithoutOK
<1>5. Len(w) <= Len(l)
  BY <1>1, LenWithout
<1>6. Sorted(l) => Sorted(w) /\ (w # <<>> => l # <<>> /\ l[1].ttl <= w[1].ttl)
  BY <1>1, SortedWithout
<1>7. PICK f : Picks(w, l, out, f)
  BY <1>4
<1> HIDE DEF w
<1>8. /\ f \in [1 .. Len(w) -> 1 .. Len(l)]
      /\ \A n \in 1 .. Len(w) : f[n] \in 1 .. Len(l) /\ f[n] \notin out /\ w[n] = l[f[n]]
      /\ \A i \in 1 .. Len(l) : i \notin out => \E n \in 1 .. Len(w) : f[n] = i
      /\ \A m, n \in 1 .. Len(w) : m < n => f[m] < f[n]
  BY <1>7 DEF Picks
<1>9. \A m, n \in 1 .. Len(w) : f[m] = f[n] => m = n
  <2> SUFFICES ASSUME NEW m \in 1 .. Len(w), NEW n \in 1 .. Len(w), f[m] = f[n] PROVE m = n
    OBVIOUS
  <2>1. f[m] \in Int /\ f[n] \in Int /\ m \in Int /\ n \in Int
    BY <1>1, <1>4, <1>8
  <2>2. ~(m < n) /\ ~(n < m)
    BY <2>1, <1>8
  <2> QED BY <2>1, <2>2
<1>10. (OnePerAp(l) => OnePerAp(w)) /\ (OnePerPmk(l) => OnePerPmk(w))
  <2>1. ASSUME OnePerAp(l), NEW m \in 1 .. Len(w), NEW n \in 1 .. Len(w), w[m].aa = w[n].aa
        PROVE  m = n
    <3>1. f[m] = f[n]
      BY <2>1, <1>8 DEF OnePerAp
    <3> QED BY <3>1, <1>9
  <2>2. ASSUME OnePerPmk(l), NEW m \in 1 .. Len(w), NEW n \in 1 .. Len(w), w[m].pmk = w[n].pmk
        PROVE  m = n
    <3>1. f[m] = f[n]
      BY <2>2, <1>8 DEF OnePerPmk
    <3> QED BY <3>1, <1>9
  <2> QED BY <2>1, <2>2 DEF OnePerAp, OnePerPmk
<1>11. Less(w, l)
  BY <1>4, <1>6, <1>8, <1>10 DEF Less
<1>12. \A n \in 1 .. Len(w) : w[n] \notin gone
  BY <1>3, <1>8
<1>13. \A i \in 1 .. Len(l) : l[i] \notin gone => \E n \in 1 .. Len(w) : w[n] = l[i]
  BY <1>3, <1>8
<1> HIDE DEF r
<1>14. r \in SuppT /\ r.list = w /\ r = [s EXCEPT !.list = r.list]
  BY <1>2, <1>4 DEF SuppT
<1> QED BY <1>5, <1>11, <1>12, <1>13, <1>14 DEF l, r

\* wpa_sm_pmksa_free_cb() changes no more than the current entry, the PMK and
\* the connection.
LEMMA FreeCbOK ==
    ASSUME NEW s \in SuppT, NEW gone, NEW reason
    PROVE  LET r == FreeCb(s, gone, reason) IN
           /\ r \in SuppT /\ Kept(r, s)
           /\ r.list = s.list /\ r.expire = s.expire /\ r.reauth = s.reauth
           /\ (\E e \in gone : Ref(e) = s.cur) => r.cur = NoCur
           /\ reason = "REPLACE" => r.deauth = s.deauth
           /\ reason = "FREE" /\ ~(\E e \in gone : Ref(e) = s.cur)
                => r.deauth = s.deauth /\ r.cur = s.cur
           /\ reason = "EXPIRE" /\ ~r.deauth => r.cur = s.cur
<1> DEFINE r == FreeCb(s, gone, reason)
           current == \E e \in gone : Ref(e) = s.cur
           expired == reason = "EXPIRE" /\ \E e \in gone : e.pmk = s.pmk
           end == expired \/ (current /\ reason # "REPLACE")
<1>1. r = [s EXCEPT !.cur = IF current \/ expired THEN NoCur ELSE s.cur,
                    !.pmk = IF end THEN NoKey ELSE s.pmk,
                    !.deauth = s.deauth \/ end]
  BY DEF FreeCb
<1>2. (reason = "EXPIRE" => reason # "REPLACE" /\ reason # "FREE") /\ (reason = "FREE" => reason # "REPLACE")
  OBVIOUS
<1>3. reason # "EXPIRE" => ~expired
  OBVIOUS
<1>4. end <=> expired \/ (current /\ reason # "REPLACE")
  OBVIOUS
<1>5. current <=> \E e \in gone : Ref(e) = s.cur
  OBVIOUS
<1>6. s.deauth \in BOOLEAN /\ (s.deauth \/ end) \in BOOLEAN
  BY SuppTypes
<1> HIDE DEF r, expired, current, end
<1>7. NoCur \in [aa : BSSs \cup {NoBss}, pmk : Keys \cup {NoKey}]
  BY DEF NoCur
<1>8. /\ r.list = s.list /\ r.expire = s.expire /\ r.reauth = s.reauth
      /\ r.bss = s.bss /\ r.msk = s.msk
      /\ r.cur = IF current \/ expired THEN NoCur ELSE s.cur
      /\ r.pmk = IF end THEN NoKey ELSE s.pmk
      /\ r.deauth = (s.deauth \/ end)
  BY <1>1 DEF SuppT
<1>9. r \in SuppT
  <2> DEFINE c == IF current \/ expired THEN NoCur ELSE s.cur
             p == IF end THEN NoKey ELSE s.pmk
             d == s.deauth \/ end
  <2>1. /\ s.cur \in [aa : BSSs \cup {NoBss}, pmk : Keys \cup {NoKey}]
        /\ s.pmk \in Keys \cup {NoKey}
    BY Zenon DEF SuppT
  <2>2. /\ c \in [aa : BSSs \cup {NoBss}, pmk : Keys \cup {NoKey}]
        /\ p \in Keys \cup {NoKey} /\ d \in BOOLEAN
    BY <1>6, <1>7, <2>1, Zenon
  <2>3. r = [s EXCEPT !.cur = c, !.pmk = p, !.deauth = d]
    BY <1>1, Zenon
  <2> HIDE DEF c, p, d
  <2> QED BY <2>2, <2>3, Zenon DEF SuppT
<1>10. Kept(r, s)
  BY <1>6, <1>8 DEF Kept
<1> QED BY <1>2, <1>3, <1>4, <1>5, <1>6, <1>8, <1>9, <1>10 DEF r

\* pmksa_cache_set_expiration() changes the two timeouts only.
LEMMA SetExpirationOK ==
    ASSUME NEW s \in SuppT
    PROVE  LET r == SetExpiration(s) IN
           /\ r \in SuppT /\ Kept(r, s)
           /\ r.list = s.list /\ r.cur = s.cur /\ r.deauth = s.deauth /\ r.pmk = s.pmk
           /\ s.list # <<>> => r.expire # NoTimer
           /\ (s.list # <<>> => s.list[1].ttl >= 0) => SuppPrompt(r)
<1> DEFINE r == SetExpiration(s)
           e == s.list[1]
           again == IF s.cur # NoCur \/ At(s, s.bss) # {} THEN e.reauth ELSE NoTimer
<1>1. CASE s.list = <<>>
  <2>1. r = [s EXCEPT !.expire = NoTimer, !.reauth = NoTimer]
    BY <1>1 DEF SetExpiration
  <2> HIDE DEF r
  <2>2. NoTimer \in NoTimer .. Lifetime + 1 /\ NoTimer \in NoTimer .. Lifetime
    BY LifetimeAssumption DEF NoTimer
  <2>3. r \in SuppT /\ Kept(r, s) /\ r.list = s.list /\ r.cur = s.cur /\ r.deauth = s.deauth /\ r.pmk = s.pmk
    BY <2>1, <2>2 DEF SuppT, Kept
  <2> QED BY <2>3, <1>1 DEF r, SuppPrompt
<1>2. CASE s.list # <<>>
  <2>1. r = [s EXCEPT !.expire = ExpireIn(e.ttl), !.reauth = again]
    BY <1>2 DEF SetExpiration
  <2>2. e \in StaEntry
    BY <1>2, SuppTypes
  <2>3. e.ttl \in -2 .. Lifetime /\ e.reauth \in 0 .. Lifetime /\ Lifetime \in Nat
    BY <2>2, LifetimeAssumption DEF StaEntry, Floor
  <2>4. again \in NoTimer .. Lifetime
    BY <2>3 DEF NoTimer
  <2> HIDE DEF r, again
  <2>5. e.ttl = s.list[1].ttl
    OBVIOUS
  <2> HIDE DEF e
  <2>6. /\ ExpireIn(e.ttl) \in NoTimer .. Lifetime + 1 /\ ExpireIn(e.ttl) # NoTimer
        /\ e.ttl >= 0 => ExpireIn(e.ttl) <= e.ttl + 1 /\ e.ttl >= -1
    BY <2>3 DEF ExpireIn, NoTimer
  <2>7. /\ r \in SuppT /\ r.list = s.list /\ r.cur = s.cur /\ r.deauth = s.deauth /\ r.pmk = s.pmk
        /\ r.bss = s.bss /\ r.msk = s.msk /\ r.expire = ExpireIn(e.ttl)
    BY <2>1, <2>4, <2>6 DEF SuppT
  <2>8. Kept(r, s)
    BY <2>7 DEF Kept
  <2> QED BY <1>2, <2>5, <2>6, <2>7, <2>8 DEF r, SuppPrompt
<1> QED BY <1>1, <1>2

\* Fewer entries, with the timeout for the others: what was true of the cache
\* still is.
LEMMA LessOK ==
    ASSUME NEW s \in SuppT, NEW r \in SuppT, Less(r.list, s.list), r.expire = s.expire
    PROVE  /\ Body(s) => Body(r)
           /\ SuppStrict(s) => SuppStrict(r)
<1> DEFINE w == r.list
           l == s.list
<1>1. w \in Seq(StaEntry) /\ l \in Seq(StaEntry) /\ Len(w) \in Nat /\ Len(l) \in Nat
  BY SuppTypes
<1>2. Less(w, l)
  OBVIOUS
<1> HIDE DEF w, l
<1>3. w # <<>> => l # <<>>
  BY <1>1, <1>2 DEF Less
<1>4. Body(s) => Body(r)
  BY <1>2, <1>3 DEF Body, Less, w, l
<1>5. ASSUME SuppStrict(s) PROVE SuppStrict(r)
  <2>1. Sorted(l) /\ OnePerPmk(l) /\ (\A i \in 1 .. Len(l) : ~l[i].opp)
    BY <1>5 DEF SuppStrict, l
  <2>2. Sorted(w) /\ OnePerPmk(w) /\ \A i \in 1 .. Len(w) : ~w[i].opp
    BY <2>1, <1>2 DEF Less
  <2>3. ASSUME w # <<>> PROVE w[1].ttl >= -1 /\ s.expire <= w[1].ttl + 1
    <3>1. l # <<>> /\ l[1].ttl <= w[1].ttl
      BY <2>1, <2>3, <1>2 DEF Less
    <3>2. l[1].ttl >= -1 /\ s.expire <= l[1].ttl + 1
      BY <3>1, <1>5 DEF SuppStrict, SuppPrompt, l
    <3>3. l[1].ttl \in Int /\ w[1].ttl \in Int /\ s.expire \in Int
      <4>1. l[1] \in StaEntry /\ w[1] \in StaEntry
        BY <2>3, <3>1, <1>1
      <4>2. s.expire \in -1 .. Lifetime + 1
        BY SuppTypes
      <4> QED BY <4>1, <4>2, SuppTypes, LifetimeAssumption DEF Timed
    <3> QED BY <3>1, <3>2, <3>3
  <2>4. SuppPrompt(r)
    BY <2>3 DEF SuppPrompt, w
  <2> QED BY <2>2, <2>4 DEF SuppStrict, w
<1> QED BY <1>4, <1>5

\* Freeing entries.
LEMMA FreeOK ==
    ASSUME NEW s, Body(s), NEW X, Loose(s, X), NEW gone, NEW reason
    PROVE  LET r == Free(s, gone, reason) IN
           /\ Body(r) /\ Loose(r, X) /\ Kept(r, s)
           /\ Less(r.list, s.list)
           /\ \A n \in 1 .. Len(r.list) : r.list[n] \notin gone
           /\ reason = "FREE" /\ ~(\E e \in gone : Ref(e) = s.cur)
                => r.deauth = s.deauth /\ r.cur = s.cur
           /\ reason = "EXPIRE" /\ ~r.deauth => r.cur = s.cur
           /\ SuppStrict(s) => SuppStrict(r)
<1> DEFINE u == Unlink(s, gone)
           r == FreeCb(u, gone, reason)
<1>0. s \in SuppT /\ s.list \in Seq(StaEntry) /\ s.cur \in [aa : BSSs \cup {NoBss}, pmk : Keys \cup {NoKey}]
  BY SuppTypes DEF Body
<1>1. /\ u \in SuppT /\ u = [s EXCEPT !.list = u.list]
      /\ Less(u.list, s.list)
      /\ \A n \in 1 .. Len(u.list) : u.list[n] \notin gone
      /\ \A i \in 1 .. Len(s.list) : s.list[i] \notin gone =>
            \E n \in 1 .. Len(u.list) : u.list[n] = s.list[i]
  BY <1>0, UnlinkOK
<1> HIDE DEF u
<1>2. /\ u.cur = s.cur /\ u.pmk = s.pmk /\ u.expire = s.expire /\ u.bss = s.bss /\ u.msk = s.msk
      /\ u.deauth = s.deauth /\ u.list \in Seq(StaEntry)
  BY <1>0, <1>1, SuppTypes DEF SuppT
<1>3. /\ r \in SuppT /\ Kept(r, u) /\ r.list = u.list /\ r.expire = u.expire
      /\ (\E e \in gone : Ref(e) = u.cur) => r.cur = NoCur
      /\ reason = "FREE" /\ ~(\E e \in gone : Ref(e) = u.cur)
           => r.deauth = u.deauth /\ r.cur = u.cur
      /\ reason = "EXPIRE" /\ ~r.deauth => r.cur = u.cur
  BY <1>1, FreeCbOK
<1> HIDE DEF r
<1>4. Kept(r, s)
  BY <1>2, <1>3 DEF Kept
<1>5. Body(r) /\ (SuppStrict(s) => SuppStrict(r))
  BY <1>0, <1>1, <1>2, <1>3, LessOK
<1>6. Loose(r, X)
  <2> SUFFICES ASSUME r.cur # NoCur PROVE Known(r, s.cur) \/ \E e \in X : Ref(e) = s.cur
    BY <1>4 DEF Loose, Kept
  <2>1. r.cur = s.cur /\ ~(\E e \in gone : Ref(e) = s.cur)
    BY <1>2, <1>3, <1>4 DEF Kept
  <2>2. CASE \E e \in X : Ref(e) = s.cur
    BY <2>2
  <2>3. CASE Known(s, s.cur)
    <3>1. PICK e \in Range(s.list) : Ref(e) = s.cur
      BY <2>3 DEF Known
    <3>2. e \notin gone
      BY <3>1, <2>1
    <3>3. PICK i \in 1 .. Len(s.list) : e = s.list[i]
      BY <3>1, <1>0, RangeOK
    <3>4. PICK n \in 1 .. Len(u.list) : u.list[n] = s.list[i]
      BY <3>2, <3>3, <1>1
    <3>5. e \in Range(r.list)
      BY <3>3, <3>4, <1>2, <1>3, RangeOK
    <3> QED BY <3>1, <3>5 DEF Known
  <2> QED BY <2>1, <2>2, <2>3 DEF Loose
<1> QED BY <1>1, <1>2, <1>3, <1>4, <1>5, <1>6 DEF Free, r, u

\* pmksa_cache_flush().
LEMMA FlushOK ==
    ASSUME NEW s, Body(s), NEW X, Loose(s, X), NEW gone
    PROVE  LET r == Flush(s, gone) IN
           /\ Body(r) /\ Loose(r, X) /\ Kept(r, s)
           /\ Less(r.list, s.list) \/ r = s
           /\ \A n \in 1 .. Len(r.list) : r.list[n] \notin gone
           /\ ~(\E e \in gone : Ref(e) = s.cur) => r.deauth = s.deauth /\ r.cur = s.cur
           /\ gone = {} => r = s
<1> DEFINE f == Free(s, gone, "FREE")
           r == Flush(s, gone)
<1>1. CASE gone = {}
  <2>1. r = s
    BY <1>1 DEF Flush
  <2>2. Kept(s, s)
    BY DEF Kept
  <2> QED BY <1>1, <2>1, <2>2
<1>2. CASE gone # {}
  <2>1. r = SetExpiration(f)
    BY <1>2 DEF Flush
  <2>2. /\ Body(f) /\ Loose(f, X) /\ Kept(f, s) /\ Less(f.list, s.list)
        /\ \A n \in 1 .. Len(f.list) : f.list[n] \notin gone
        /\ ~(\E e \in gone : Ref(e) = s.cur) => f.deauth = s.deauth /\ f.cur = s.cur
    BY FreeOK
  <2> HIDE DEF f, r
  <2>3. f \in SuppT /\ f.list \in Seq(StaEntry)
    BY <2>2, SuppTypes DEF Body
  <2>4. /\ r \in SuppT /\ Kept(r, f) /\ r.list = f.list /\ r.cur = f.cur /\ r.deauth = f.deauth
        /\ f.list # <<>> => r.expire # NoTimer
    BY <2>1, <2>3, SetExpirationOK
  <2>5. Body(r) /\ Loose(r, X) /\ Kept(r, s)
    BY <2>2, <2>4 DEF Body, Loose, Kept, Known
  <2> QED BY <1>2, <2>2, <2>4, <2>5 DEF r
<1> QED BY <1>1, <1>2

\* The cache of the station as a whole, by its parts.
LEMMA SuppParts ==
    ASSUME NEW s
    PROVE  SuppOK(s) <=> Body(s) /\ Loose(s, {})
BY DEF SuppOK, Body, Loose

\* The entry of an AP is replaced, and the current entry with it if it is the
\* one.  The station loses its connection only if the current entry is that of
\* another AP, with the PMK of an entry that has been used.
LEMMA ReplaceOK ==
    ASSUME NEW s, SuppOK(s), NEW aa
    PROVE  LET r == Replace(s, aa) IN
           /\ SuppOK(r) /\ Kept(r, s)
           /\ \A n \in 1 .. Len(r.list) :
                r.list[n].aa # aa /\ \E j \in 1 .. Len(s.list) : r.list[n] = s.list[j]
           /\ s.cur # NoCur /\ s.cur.aa = aa => r.cur = NoCur
           /\ \/ s.cur = NoCur \/ s.cur.aa = aa
              \/ \A i \in 1 .. Len(s.list) : s.list[i].aa = aa => s.list[i].opp
              => r.deauth = s.deauth
           /\ SuppStrict(s) => SuppStrict(r) /\ r.deauth = s.deauth
<1> DEFINE old == At(s, aa)
           same == {e \in Range(s.list) : \E o \in old : ~o.opp /\ e.pmk = o.pmk}
           rest == same \ old
           u == Unlink(s, old)
           f == Flush(u, rest)
           r == FreeCb(f, old, "REPLACE")
<1>0. /\ Body(s) /\ s \in SuppT /\ s.list \in Seq(StaEntry)
      /\ s.cur \in [aa : BSSs \cup {NoBss}, pmk : Keys \cup {NoKey}]
      /\ s.cur # NoCur => Known(s, s.cur)
  BY SuppTypes DEF Body, SuppOK
<1>1. Replace(s, aa) = r
  BY DEF Replace
<1>2. \A e : e \in old <=> \E i \in 1 .. Len(s.list) : e = s.list[i] /\ s.list[i].aa = aa
  BY <1>0, AtOK
<1>3. \A e : e \in rest => /\ \E i \in 1 .. Len(s.list) : e = s.list[i]
                           /\ e.aa # aa
                           /\ \E o \in old : ~o.opp /\ e.pmk = o.pmk
  <2>1. \A e : e \in Range(s.list) <=> \E i \in 1 .. Len(s.list) : e = s.list[i]
    BY <1>0, RangeOK
  <2> QED BY <2>1, <1>2
<1>4. \A e \in rest : e \in StaEntry /\ Ref(e) # NoCur
  BY <1>0, <1>3, SuppTypes
<1>5. \A e : Ref(e).aa = e.aa /\ Ref(e).pmk = e.pmk
  BY DEF Ref
<1> HIDE DEF old, rest
<1>6. /\ u \in SuppT /\ u = [s EXCEPT !.list = u.list]
      /\ Less(u.list, s.list)
      /\ \A n \in 1 .. Len(u.list) : u.list[n] \notin old
      /\ \A i \in 1 .. Len(s.list) : s.list[i] \notin old =>
            \E n \in 1 .. Len(u.list) : u.list[n] = s.list[i]
  BY <1>0, UnlinkOK
<1> HIDE DEF u
<1>7. /\ u.cur = s.cur /\ u.pmk = s.pmk /\ u.expire = s.expire /\ u.bss = s.bss /\ u.msk = s.msk
      /\ u.deauth = s.deauth /\ u.list \in Seq(StaEntry)
  BY <1>0, <1>6, SuppTypes DEF SuppT
<1>8. Body(u) /\ (SuppStrict(s) => SuppStrict(u))
  BY <1>0, <1>6, <1>7, LessOK
<1>9. Loose(u, old)
  <2> SUFFICES ASSUME s.cur # NoCur PROVE Known(u, s.cur) \/ \E e \in old : Ref(e) = s.cur
    BY <1>7 DEF Loose
  <2>1. PICK e \in Range(s.list) : Ref(e) = s.cur
    BY <1>0 DEF Known
  <2>2. PICK i \in 1 .. Len(s.list) : e = s.list[i]
    BY <2>1, <1>0, RangeOK
  <2>3. CASE e \in old
    BY <2>1, <2>3
  <2>4. CASE e \notin old
    <3>1. PICK n \in 1 .. Len(u.list) : u.list[n] = e
      BY <2>2, <2>4, <1>6
    <3>2. e \in Range(u.list)
      BY <3>1, <1>7, RangeOK
    <3> QED BY <2>1, <3>2 DEF Known
  <2> QED BY <2>3, <2>4
<1>10. /\ Body(f) /\ Loose(f, old) /\ Kept(f, u)
       /\ Less(f.list, u.list) \/ f = u
       /\ ~(\E e \in rest : Ref(e) = u.cur) => f.deauth = u.deauth /\ f.cur = u.cur
       /\ rest = {} => f = u
  BY <1>8, <1>9, FlushOK
<1> HIDE DEF f
<1>11. f \in SuppT /\ f.list \in Seq(StaEntry)
  BY <1>10, SuppTypes DEF Body
<1>12. /\ r \in SuppT /\ Kept(r, f) /\ r.list = f.list /\ r.expire = f.expire
       /\ (\E e \in old : Ref(e) = f.cur) => r.cur = NoCur
       /\ r.deauth = f.deauth
  BY <1>11, FreeCbOK
<1> HIDE DEF r
<1>13. Kept(r, s)
  BY <1>7, <1>10, <1>12 DEF Kept
<1>14. Body(r)
  BY <1>10, <1>12 DEF Body
<1>15. Loose(r, {})
  <2> SUFFICES ASSUME r.cur # NoCur PROVE Known(r, r.cur)
    BY DEF Loose
  <2>1. r.cur = f.cur /\ ~(\E e \in old : Ref(e) = f.cur)
    BY <1>12 DEF Kept
  <2>2. Known(f, f.cur)
    BY <2>1, <1>10 DEF Loose
  <2> QED BY <2>1, <2>2, <1>12 DEF Known
<1>16. SuppOK(r)
  BY <1>14, <1>15, SuppParts
<1>17. ASSUME NEW n \in 1 .. Len(r.list)
       PROVE  r.list[n].aa # aa /\ \E j \in 1 .. Len(s.list) : r.list[n] = s.list[j]
  <2>1. PICK m \in 1 .. Len(u.list) : r.list[n] = u.list[m]
    BY <1>10, <1>12 DEF Less
  <2>2. PICK j \in 1 .. Len(s.list) : u.list[m] = s.list[j]
    BY <1>6 DEF Less
  <2>3. s.list[j] \notin old
    BY <2>2, <1>6
  <2> QED BY <2>1, <2>2, <2>3, <1>2
<1>18. ASSUME s.cur # NoCur, s.cur.aa = aa PROVE r.cur = NoCur
  <2>1. CASE f.cur = NoCur
    BY <2>1, <1>12 DEF Kept
  <2>2. CASE f.cur # NoCur
    <3>1. f.cur = s.cur
      BY <2>2, <1>7, <1>10 DEF Kept
    <3>2. PICK e \in Range(s.list) : Ref(e) = s.cur
      BY <1>0, <1>18 DEF Known
    <3>3. PICK i \in 1 .. Len(s.list) : e = s.list[i]
      BY <3>2, <1>0, RangeOK
    <3>4. e \in old
      BY <3>2, <3>3, <1>2, <1>5, <1>18
    <3> QED BY <3>1, <3>2, <3>4, <1>12
  <2> QED BY <2>1, <2>2
<1>19. (~(\E e \in rest : Ref(e) = s.cur)) => r.deauth = s.deauth
  BY <1>7, <1>10, <1>12
<1>20. ASSUME \/ s.cur = NoCur \/ s.cur.aa = aa
              \/ \A i \in 1 .. Len(s.list) : s.list[i].aa = aa => s.list[i].opp
       PROVE  r.deauth = s.deauth
  <2>1. CASE s.cur = NoCur
    BY <2>1, <1>4, <1>19
  <2>2. CASE s.cur.aa = aa
    BY <2>2, <1>3, <1>5, <1>19
  <2>3. CASE \A i \in 1 .. Len(s.list) : s.list[i].aa = aa => s.list[i].opp
    BY <2>3, <1>2, <1>3, <1>19
  <2> QED BY <2>1, <2>2, <2>3, <1>20
<1>21. ASSUME SuppStrict(s) PROVE SuppStrict(r) /\ r.deauth = s.deauth
  <2>1. \A e : e \notin rest
    <3> SUFFICES ASSUME NEW e \in rest PROVE FALSE
      OBVIOUS
    <3>1. PICK i \in 1 .. Len(s.list) : e = s.list[i]
      BY <1>3
    <3>2. PICK o \in old : e.pmk = o.pmk
      BY <1>3
    <3>3. PICK j \in 1 .. Len(s.list) : o = s.list[j] /\ s.list[j].aa = aa
      BY <3>2, <1>2
    <3>4. i = j
      BY <3>1, <3>2, <3>3, <1>21 DEF SuppStrict, OnePerPmk
    <3> QED BY <3>1, <3>3, <3>4, <1>3
  <2>2. f = u
    BY <2>1, <1>10
  <2>3. SuppStrict(r)
    BY <2>2, <1>8, <1>12, <1>21 DEF SuppStrict, SuppPrompt
  <2> QED BY <2>1, <2>3, <1>19
<1> HIDE DEF r
<1> QED BY <1>1, <1>13, <1>16, <1>17, <1>18, <1>20, <1>21 DEF r

\* The entry that has to go when the cache is full is never the current one.
LEMMA VictimOK ==
    ASSUME NEW s, SuppOK(s), s.list # <<>>
    PROVE  ~\E e \in Victim(s) : Ref(e) = s.cur
<1>1. s.list \in Seq(StaEntry) /\ Len(s.list) \in Nat /\ OnePerAp(s.list)
  BY SuppTypes DEF SuppOK
<1>2. CASE Ref(s.list[1]) # s.cur
  BY <1>2 DEF Victim
<1>3. CASE Ref(s.list[1]) = s.cur
  <2> SUFFICES ASSUME Len(s.list) > 1, Ref(s.list[2]) = s.cur PROVE FALSE
    BY <1>3 DEF Victim
  <2>1. 1 \in 1 .. Len(s.list) /\ 2 \in 1 .. Len(s.list)
    BY <1>1
  <2>2. s.list[1].aa = s.list[2].aa
    BY <1>3 DEF Ref
  <2> QED BY <2>1, <2>2, <1>1 DEF OnePerAp
<1> QED BY <1>2, <1>3

Has(list, aa, pmk) == \E i \in 1 .. Len(list) : list[i].aa = aa /\ list[i].pmk = pmk

\* What pmksa_cache_add() does to the cache.
AddDoes(r, s, aa, pmk) ==
    /\ SuppOK(r) /\ Kept(r, s)
    /\ Has(r.list, aa, pmk)
    /\ \A n \in 1 .. Len(r.list) :
         \/ r.list[n].aa = aa /\ r.list[n].pmk = pmk
         \/ r.list[n].aa # aa /\ \E j \in 1 .. Len(s.list) : r.list[n] = s.list[j]
    /\ s.cur # NoCur /\ s.cur.aa = aa /\ ~Has(s.list, aa, pmk) => r.cur = NoCur
    /\ \/ s.cur = NoCur \/ s.cur.aa = aa
       \/ \A i \in 1 .. Len(s.list) : s.list[i].aa = aa => s.list[i].opp
       => r.deauth = s.deauth
    /\ SuppStrict(s) => r.deauth = s.deauth
    /\ SuppStrict(s) /\ (\A i \in 1 .. Len(s.list) : s.list[i].pmk = pmk => s.list[i].aa = aa)
         => SuppStrict(r)

\* pmksa_cache_add() puts the new entry into the cache and no other.
LEMMA AddOK ==
    ASSUME NEW s, SuppOK(s), NEW max \in Nat, NEW aa \in BSSs, NEW pmk \in Keys,
           NEW life \in 1 .. Lifetime, NEW reauth \in 0 .. Lifetime
    PROVE  AddDoes(Add(s, max, aa, pmk, life, reauth), s, aa, pmk)
<1> DEFINE old == Replace(s, aa)
           room == IF Len(old.list) >= max /\ old.list # <<>>
                   THEN Free(old, Victim(old), "FREE") ELSE old
           e == [aa |-> aa, pmk |-> pmk, ttl |-> life, reauth |-> reauth, opp |-> FALSE]
           p == Place(room.list, life)
           new == [room EXCEPT !.list = InsertAt(room.list, p, e)]
           r == Add(s, max, aa, pmk, life, reauth)
<1>0. s \in SuppT /\ s.list \in Seq(StaEntry) /\ OnePerAp(s.list)
  BY SuppTypes DEF SuppOK
<1>1. CASE Known(s, [aa |-> aa, pmk |-> pmk])
  <2>1. r = s
    BY <1>1 DEF Add
  <2>2. PICK i \in 1 .. Len(s.list) : s.list[i].aa = aa /\ s.list[i].pmk = pmk
    BY <1>0, <1>1, KnownOK
  <2>3. Kept(s, s) /\ Has(s.list, aa, pmk)
    BY <2>2 DEF Kept, Has
  <2>4. ASSUME NEW n \in 1 .. Len(s.list), s.list[n].aa = aa PROVE s.list[n].pmk = pmk
    BY <2>2, <2>4, <1>0 DEF OnePerAp
  <2> HIDE DEF r
  <2> QED BY <2>1, <2>3, <2>4 DEF r, AddDoes
<1>2. CASE ~Known(s, [aa |-> aa, pmk |-> pmk])
  <2>1. r = IF p = 1 THEN SetExpiration(new) ELSE new
    BY <1>2 DEF Add
  <2>2. /\ SuppOK(old) /\ Kept(old, s)
        /\ \A n \in 1 .. Len(old.list) :
             old.list[n].aa # aa /\ \E j \in 1 .. Len(s.list) : old.list[n] = s.list[j]
        /\ s.cur # NoCur /\ s.cur.aa = aa => old.cur = NoCur
        /\ \/ s.cur = NoCur \/ s.cur.aa = aa
           \/ \A i \in 1 .. Len(s.list) : s.list[i].aa = aa => s.list[i].opp
           => old.deauth = s.deauth
        /\ SuppStrict(s) => SuppStrict(old) /\ old.deauth = s.deauth
    BY ReplaceOK
  <2>3. e \in StaEntry /\ e.aa = aa /\ e.pmk = pmk /\ e.ttl = life /\ ~e.opp /\ Ref(e) # NoCur
    <3>1. e \in StaEntry
      BY LifetimeAssumption DEF StaEntry, Floor
    <3> QED BY <3>1, SuppTypes
  <2>4. /\ SuppOK(room) /\ Kept(room, old) /\ room.deauth = old.deauth
        /\ \A n \in 1 .. Len(room.list) : \E j \in 1 .. Len(old.list) : room.list[n] = old.list[j]
        /\ SuppStrict(old) => SuppStrict(room)
    <3> HIDE DEF old
    <3>1. CASE Len(old.list) >= max /\ old.list # <<>>
      <4> DEFINE q == Free(old, Victim(old), "FREE")
      <4>1. room = q
        BY <3>1
      <4>2. Body(old) /\ Loose(old, {})
        BY <2>2, SuppParts
      <4>3. ~\E x \in Victim(old) : Ref(x) = old.cur
        BY <3>1, <2>2, VictimOK
      <4>4. /\ Body(q) /\ Loose(q, {}) /\ Kept(q, old) /\ Less(q.list, old.list)
            /\ q.deauth = old.deauth /\ (SuppStrict(old) => SuppStrict(q))
        BY <4>2, <4>3, FreeOK
      <4> HIDE DEF q
      <4>5. SuppOK(q)
        BY <4>4, SuppParts
      <4> QED BY <4>1, <4>4, <4>5 DEF Less
    <3>2. CASE ~(Len(old.list) >= max /\ old.list # <<>>)
      <4>1. room = old
        BY <3>2
      <4> HIDE DEF room
      <4> QED BY <4>1, <2>2 DEF Kept
    <3> QED BY <3>1, <3>2
  <2> HIDE DEF old, room, e
  <2>5. /\ room \in SuppT /\ room.list \in Seq(StaEntry) /\ Len(room.list) \in Nat
        /\ OnePerAp(room.list) /\ Timed(StaEntry)
    BY <2>4, SuppTypes DEF SuppOK
  <2>6. \A n \in 1 .. Len(room.list) :
          room.list[n].aa # aa /\ \E j \in 1 .. Len(s.list) : room.list[n] = s.list[j]
    <3> SUFFICES ASSUME NEW n \in 1 .. Len(room.list)
                 PROVE  room.list[n].aa # aa /\ \E j \in 1 .. Len(s.list) : room.list[n] = s.list[j]
      OBVIOUS
    <3>1. PICK k \in 1 .. Len(old.list) : room.list[n] = old.list[k]
      BY <2>4
    <3>2. old.list[k].aa # aa /\ \E j \in 1 .. Len(s.list) : old.list[k] = s.list[j]
      BY <2>2
    <3> QED BY <3>1, <3>2
  <2> DEFINE o == room.list
             w == InsertAt(o, p, e)
  <2>7. o \in Seq(StaEntry) /\ Len(o) \in Nat /\ life \in Int /\ room \in SuppT
    BY <2>5
  <2>8. p \in 1 .. Len(o) + 1
    <3> HIDE DEF o
    <3>1. Place(o, life) \in 1 .. Len(o) + 1
      BY <2>5, <2>7, PlaceOK
    <3> QED BY <3>1 DEF o
  <2>9. Sorted(o) => Sorted(w)
    <3> HIDE DEF o
    <3>1. Sorted(o) => Sorted(InsertAt(o, Place(o, e.ttl), e))
      BY <2>3, <2>5, <2>7, SortedInsert
    <3> QED BY <3>1, <2>3 DEF o
  <2>10. new = [room EXCEPT !.list = w]
    OBVIOUS
  <2> HIDE DEF p, o, new
  <2>11. /\ w \in Seq(StaEntry) /\ Len(w) = Len(o) + 1
         /\ \A k \in 1 .. Len(o) + 1 : w[k] = IF k < p THEN o[k] ELSE IF k = p THEN e ELSE o[k - 1]
    BY <2>3, <2>7, <2>8, InsertOK
  <2> HIDE DEF w
  <2>12. w[p] = e /\ p \in 1 .. Len(w) /\ Len(w) \in Nat /\ w # <<>>
    BY <2>7, <2>8, <2>11
  <2> DEFINE Old(k) == IF k < p THEN k ELSE k - 1
  <2>13. \A k \in 1 .. Len(w) : k # p => Old(k) \in 1 .. Len(o) /\ w[k] = o[Old(k)]
    BY <2>7, <2>8, <2>11
  <2>14. \A k, m \in 1 .. Len(w) : k # p /\ m # p /\ Old(k) = Old(m) => k = m
    BY <2>7, <2>8, <2>11
  <2>15. \A i \in 1 .. Len(o) : \E k \in 1 .. Len(w) : w[k] = o[i]
    <3> SUFFICES ASSUME NEW i \in 1 .. Len(o) PROVE \E k \in 1 .. Len(w) : w[k] = o[i]
      OBVIOUS
    <3>1. CASE i < p
      <4>1. i \in 1 .. Len(w) /\ w[i] = o[i]
        BY <3>1, <2>7, <2>8, <2>11
      <4> QED BY <4>1
    <3>2. CASE i >= p
      <4>1. i + 1 \in 1 .. Len(w) /\ w[i + 1] = o[i + 1 - 1]
        BY <3>2, <2>7, <2>8, <2>11
      <4> QED BY <4>1, <2>7
    <3> QED BY <3>1, <3>2, <2>7, <2>8
  <2> HIDE DEF Old
  <2>16. /\ new \in SuppT /\ new.list = w /\ new.cur = room.cur /\ new.pmk = room.pmk
         /\ new.bss = room.bss /\ new.msk = room.msk /\ new.deauth = room.deauth
         /\ new.expire = room.expire
    BY <2>7, <2>10, <2>11 DEF SuppT
  <2>17. /\ r \in SuppT /\ r.list = w /\ r.cur = room.cur /\ r.pmk = room.pmk
         /\ r.bss = room.bss /\ r.msk = room.msk /\ r.deauth = room.deauth
         /\ p # 1 => r.expire = room.expire
         /\ p = 1 => r.expire # NoTimer /\ SuppPrompt(r)
    <3>1. CASE p # 1
      BY <3>1, <2>1, <2>16
    <3>2. CASE p = 1
      <4>1. r = SetExpiration(new)
        BY <3>2, <2>1
      <4>2. w[1].ttl >= 0
        BY <3>2, <2>3, <2>12
      <4> HIDE DEF r
      <4>3. /\ r \in SuppT /\ Kept(r, new)
            /\ r.list = new.list /\ r.cur = new.cur /\ r.deauth = new.deauth /\ r.pmk = new.pmk
            /\ r.expire # NoTimer /\ SuppPrompt(r)
        BY <4>1, <4>2, <2>12, <2>16, SetExpirationOK
      <4> QED BY <3>2, <4>3, <2>16 DEF Kept
    <3> QED BY <3>1, <3>2
  <2> HIDE DEF r
  <2>18. p # 1 => o # <<>> /\ w[1] = o[1]
    BY <2>7, <2>8, <2>11
  <2>19. OnePerAp(w)
    <3> SUFFICES ASSUME NEW k \in 1 .. Len(w), NEW m \in 1 .. Len(w), w[k].aa = w[m].aa PROVE k = m
      BY DEF OnePerAp
    <3>1. CASE k = p \/ m = p
      BY <3>1, <2>3, <2>6, <2>12, <2>13 DEF o
    <3>2. CASE k # p /\ m # p
      <4>1. Old(k) = Old(m)
        BY <3>2, <2>5, <2>13 DEF OnePerAp, o
      <4> QED BY <3>2, <4>1, <2>14
    <3> QED BY <3>1, <3>2
  <2>20. r.cur # NoCur => Known(r, r.cur)
    <3> SUFFICES ASSUME r.cur # NoCur PROVE Known(r, r.cur)
      OBVIOUS
    <3>1. Known(room, room.cur)
      BY <2>4, <2>17 DEF SuppOK
    <3>2. PICK x \in Range(room.list) : Ref(x) = room.cur
      BY <3>1 DEF Known
    <3>3. PICK i \in 1 .. Len(o) : x = o[i]
      BY <3>2, <2>5, RangeOK DEF o
    <3>4. PICK k \in 1 .. Len(w) : w[k] = x
      BY <3>3, <2>15
    <3>5. x \in Range(w)
      BY <3>4, <2>11, RangeOK
    <3> QED BY <3>2, <3>5, <2>17 DEF Known
  <2>21. SuppOK(r)
    <3>1. r.expire # NoTimer
      BY <2>4, <2>17, <2>18 DEF SuppOK, o
    <3> QED BY <3>1, <2>17, <2>19, <2>20 DEF SuppOK
  <2>22. Kept(r, s)
    BY <2>2, <2>4, <2>17 DEF Kept
  <2>23. Has(r.list, aa, pmk)
    BY <2>3, <2>12, <2>17 DEF Has
  <2>24. ASSUME NEW n \in 1 .. Len(r.list)
         PROVE  \/ r.list[n].aa = aa /\ r.list[n].pmk = pmk
                \/ r.list[n].aa # aa /\ \E j \in 1 .. Len(s.list) : r.list[n] = s.list[j]
    <3>1. CASE n = p
      BY <3>1, <2>3, <2>12, <2>17
    <3>2. CASE n # p
      BY <3>2, <2>6, <2>13, <2>17 DEF o
    <3> QED BY <3>1, <3>2
  <2>25. s.cur # NoCur /\ s.cur.aa = aa => r.cur = NoCur
    BY <2>2, <2>4, <2>17 DEF Kept
  <2>26. r.deauth = old.deauth
    BY <2>4, <2>17
  <2>27. ASSUME SuppStrict(s), \A i \in 1 .. Len(s.list) : s.list[i].pmk = pmk => s.list[i].aa = aa
         PROVE  SuppStrict(r)
    <3>1. SuppStrict(room) /\ Sorted(o) /\ OnePerPmk(o) /\ \A i \in 1 .. Len(o) : ~o[i].opp
      BY <2>2, <2>4, <2>27 DEF SuppStrict, o
    <3>2. \A i \in 1 .. Len(o) : o[i].pmk # pmk
      BY <2>6, <2>27 DEF o
    <3>3. OnePerPmk(w)
      <4> SUFFICES ASSUME NEW k \in 1 .. Len(w), NEW m \in 1 .. Len(w), w[k].pmk = w[m].pmk PROVE k = m
        BY DEF OnePerPmk
      <4>1. CASE k = p \/ m = p
        BY <4>1, <3>2, <2>3, <2>12, <2>13
      <4>2. CASE k # p /\ m # p
        <5>1. Old(k) = Old(m)
          BY <4>2, <3>1, <2>13 DEF OnePerPmk
        <5> QED BY <4>2, <5>1, <2>14
      <4> QED BY <4>1, <4>2
    <3>4. \A k \in 1 .. Len(w) : ~w[k].opp
      BY <3>1, <2>3, <2>12, <2>13
    <3>5. SuppPrompt(r)
      <4>1. CASE p = 1
        BY <4>1, <2>17
      <4>2. CASE p # 1
        BY <4>2, <3>1, <2>17, <2>18 DEF SuppStrict, SuppPrompt, o
      <4> QED BY <4>1, <4>2
    <3> QED BY <3>1, <3>3, <3>4, <3>5, <2>9, <2>17 DEF SuppStrict
  <2> QED BY <2>2, <2>21, <2>22, <2>23, <2>24, <2>25, <2>26, <2>27 DEF r, AddDoes
<1> QED BY <1>1, <1>2

\* Entries may change in what is not their AP and their PMK.
Relisted(r, s, w, expire) ==
    /\ SuppOK(r) /\ Kept(r, s) /\ r.list = w /\ r.expire = expire
    /\ r.cur = s.cur /\ r.pmk = s.pmk /\ r.deauth = s.deauth

\* The cache is as sound as before.
LEMMA RelistOK ==
    ASSUME NEW s, SuppOK(s), NEW w \in Seq(StaEntry), Len(w) = Len(s.list),
           \A i \in 1 .. Len(w) : w[i].aa = s.list[i].aa /\ w[i].pmk = s.list[i].pmk,
           NEW expire \in NoTimer .. Lifetime + 1, NEW reauth \in NoTimer .. Lifetime,
           s.list # <<>> => expire # NoTimer
    PROVE  Relisted([s EXCEPT !.list = w, !.expire = expire, !.reauth = reauth], s, w, expire)
<1> DEFINE r == [s EXCEPT !.list = w, !.expire = expire, !.reauth = reauth]
<1>1. /\ s \in SuppT /\ s.list \in Seq(StaEntry) /\ Len(s.list) \in Nat
      /\ s.cur # NoCur => Known(s, s.cur)
  BY SuppTypes DEF SuppOK
<1>2. /\ r \in SuppT /\ r.list = w /\ r.expire = expire /\ r.bss = s.bss /\ r.msk = s.msk
      /\ r.cur = s.cur /\ r.pmk = s.pmk /\ r.deauth = s.deauth
  BY <1>1 DEF SuppT
<1> HIDE DEF r
<1>3. OnePerAp(w)
  BY DEF SuppOK, OnePerAp
<1>4. ASSUME s.cur # NoCur PROVE Known(r, s.cur)
  <2>1. PICK x \in Range(s.list) : Ref(x) = s.cur
    BY <1>1, <1>4 DEF Known
  <2>2. PICK i \in 1 .. Len(s.list) : x = s.list[i]
    BY <2>1, <1>1, RangeOK
  <2>3. w[i] \in Range(w)
    BY <2>2, RangeOK
  <2>4. Ref(w[i]) = Ref(x)
    BY <2>2 DEF Ref
  <2> QED BY <2>1, <2>3, <2>4, <1>2 DEF Known
<1>5. w # <<>> => s.list # <<>>
  BY <1>1
<1>6. SuppOK(r)
  BY <1>2, <1>3, <1>4, <1>5 DEF SuppOK
<1> QED BY <1>2, <1>6 DEF r, Kept, Relisted

\* What pmksa_cache_clone_entry() does to the cache.
CloneDoes(r, s, aa, old) ==
    /\ SuppOK(r) /\ Kept(r, s)
    /\ Has(r.list, aa, old.pmk)
    /\ \A n \in 1 .. Len(r.list) :
         \/ r.list[n].aa = aa
         \/ \E j \in 1 .. Len(s.list) : r.list[n] = s.list[j]
    /\ \/ s.cur = NoCur \/ s.cur.aa = aa
       \/ \A i \in 1 .. Len(s.list) : s.list[i].aa = aa => s.list[i].opp
       => r.deauth = s.deauth

\* It makes no other entry than the guessed one.
LEMMA CloneOK ==
    ASSUME NEW s, SuppOK(s), NEW max \in Nat, NEW aa \in BSSs, NEW old \in StaEntry,
           NEW life \in 1 .. Lifetime, NEW reauth \in 0 .. Lifetime
    PROVE  CloneDoes(Clone(s, max, aa, old, life, reauth), s, aa, old)
<1> DEFINE new == Add(s, max, aa, old.pmk, life, reauth)
           w == [i \in DOMAIN new.list |->
                   IF new.list[i].aa = aa
                   THEN [new.list[i] EXCEPT !.ttl = old.ttl, !.opp = TRUE] ELSE new.list[i]]
           r == Clone(s, max, aa, old, life, reauth)
<1>1. r = [new EXCEPT !.list = w]
  BY DEF Clone
<1>2. old.pmk \in Keys /\ old.ttl \in Floor .. Lifetime
  BY DEF StaEntry
<1>3. /\ SuppOK(new) /\ Kept(new, s)
      /\ Has(new.list, aa, old.pmk)
      /\ \A n \in 1 .. Len(new.list) :
           \/ new.list[n].aa = aa /\ new.list[n].pmk = old.pmk
           \/ new.list[n].aa # aa /\ \E j \in 1 .. Len(s.list) : new.list[n] = s.list[j]
      /\ \/ s.cur = NoCur \/ s.cur.aa = aa
         \/ \A i \in 1 .. Len(s.list) : s.list[i].aa = aa => s.list[i].opp
         => new.deauth = s.deauth
  <2> DEFINE k == old.pmk
  <2>1. k \in Keys
    BY <1>2
  <2> HIDE DEF k
  <2> DEFINE a == Add(s, max, aa, k, life, reauth)
  <2>2. AddDoes(a, s, aa, k)
    BY <2>1, AddOK
  <2>3. a = new
    BY DEF k
  <2> HIDE DEF a, new
  <2> QED BY <2>2, <2>3 DEF k, AddDoes
<1> HIDE DEF new
<1>4. /\ new \in SuppT /\ new.list \in Seq(StaEntry) /\ DOMAIN new.list = 1 .. Len(new.list)
      /\ Len(new.list) \in Nat
      /\ new.expire \in NoTimer .. Lifetime + 1 /\ new.reauth \in NoTimer .. Lifetime
      /\ new.list # <<>> => new.expire # NoTimer
  BY <1>3 DEF SuppOK, SuppT
<1>5. ASSUME NEW i \in 1 .. Len(new.list)
      PROVE  /\ w[i] \in StaEntry /\ w[i].aa = new.list[i].aa /\ w[i].pmk = new.list[i].pmk
             /\ w[i].aa # aa => w[i] = new.list[i]
  <2>1. new.list[i] \in StaEntry
    BY <1>4
  <2>2. w[i] = IF new.list[i].aa = aa
               THEN [new.list[i] EXCEPT !.ttl = old.ttl, !.opp = TRUE] ELSE new.list[i]
    BY <1>4
  <2> HIDE DEF w
  <2> QED BY <2>1, <2>2, <1>2 DEF StaEntry
<1>6. w \in Seq(StaEntry) /\ Len(w) = Len(new.list)
  <2>1. w \in [1 .. Len(new.list) -> StaEntry]
    BY <1>4, <1>5
  <2> HIDE DEF w
  <2> QED BY <2>1, <1>4
<1> HIDE DEF w, r
<1>7. r = [new EXCEPT !.list = w, !.expire = new.expire, !.reauth = new.reauth]
  BY <1>1, <1>4 DEF SuppT
<1>8. \A i \in 1 .. Len(w) : w[i].aa = new.list[i].aa /\ w[i].pmk = new.list[i].pmk
  BY <1>5, <1>6
<1>9. SuppOK(r) /\ Kept(r, new) /\ r.list = w /\ r.deauth = new.deauth
  <2> DEFINE x == new.expire
             y == new.reauth
             q == [new EXCEPT !.list = w, !.expire = x, !.reauth = y]
  <2>1. x \in NoTimer .. Lifetime + 1 /\ y \in NoTimer .. Lifetime /\ (new.list # <<>> => x # NoTimer)
    BY <1>4
  <2>2. r = q
    BY <1>7
  <2> HIDE DEF x, y
  <2>3. Relisted(q, new, w, x)
    BY <2>1, <1>3, <1>6, <1>8, RelistOK
  <2> HIDE DEF q
  <2> QED BY <2>2, <2>3 DEF Relisted
<1>10. Kept(r, s)
  BY <1>3, <1>9 DEF Kept
<1>11. Has(w, aa, old.pmk)
  BY <1>3, <1>6, <1>8 DEF Has
<1>12. \A n \in 1 .. Len(w) : w[n].aa = aa \/ \E j \in 1 .. Len(s.list) : w[n] = s.list[j]
  BY <1>3, <1>5, <1>6
<1> QED BY <1>3, <1>9, <1>10, <1>11, <1>12 DEF r, CloneDoes

\* What pmksa_cache_set_current() does for an association.
SetCurrentDoes(r, s, aa, okc) ==
    /\ SuppOK(r) /\ r.bss = s.bss /\ r.msk = s.msk /\ r.deauth = s.deauth
    /\ r.cur # NoCur => r.cur.aa = aa
    /\ ~okc => r.list = s.list /\ r.expire = s.expire

\* The entry it sets is one for that AP, guessed or not.
LEMMA SetCurrentOK ==
    ASSUME NEW s, SuppOK(s), NEW max \in Nat, NEW aa \in BSSs, NEW okc,
           NEW life \in 1 .. Lifetime, NEW reauth \in 0 .. Lifetime
    PROVE  SetCurrentDoes(SetCurrent(s, max, aa, okc, life, reauth), s, aa, okc)
<1> DEFINE none == [s EXCEPT !.cur = NoCur]
           guess == At(none, aa) = {} /\ okc /\ none.list # <<>>
           new == IF guess THEN Clone(none, max, aa, none.list[1], life, reauth) ELSE none
           pmks == {e.pmk : e \in At(new, aa)}
           pmk == IF pmks = {} THEN NoKey ELSE CHOOSE p \in pmks : TRUE
           cur == IF pmk = NoKey THEN NoCur ELSE [aa |-> aa, pmk |-> pmk]
           r == SetCurrent(s, max, aa, okc, life, reauth)
<1>1. r = [new EXCEPT !.cur = cur, !.pmk = pmk]
  BY DEF SetCurrent
<1>2. s \in SuppT /\ s.list \in Seq(StaEntry)
  BY SuppTypes DEF SuppOK
<1>3. /\ none \in SuppT /\ none.list = s.list /\ none.bss = s.bss /\ none.msk = s.msk
      /\ none.deauth = s.deauth /\ none.cur = NoCur /\ none.expire = s.expire
  <2>1. NoCur \in [aa : BSSs \cup {NoBss}, pmk : Keys \cup {NoKey}]
    BY DEF NoCur
  <2> QED BY <1>2, <2>1 DEF SuppT
<1> HIDE DEF none
<1>4. SuppOK(none)
  BY <1>3 DEF SuppOK
<1>5. /\ SuppOK(new) /\ new.bss = s.bss /\ new.msk = s.msk /\ new.deauth = s.deauth /\ new.cur = NoCur
      /\ ~okc => new.list = s.list /\ new.expire = s.expire
  <2>1. CASE guess
    <3> DEFINE c == Clone(none, max, aa, none.list[1], life, reauth)
    <3>1. none.list[1] \in StaEntry
      BY <2>1, <1>2, <1>3
    <3>2. SuppOK(c) /\ Kept(c, none) /\ c.deauth = none.deauth
      <4> DEFINE o == none.list[1]
                 d == Clone(none, max, aa, o, life, reauth)
      <4>1. o \in StaEntry /\ c = d
        BY <3>1
      <4> HIDE DEF o, c
      <4>2. CloneDoes(d, none, aa, o)
        BY <4>1, <1>4, CloneOK
      <4> HIDE DEF d
      <4> QED BY <4>1, <4>2, <1>3 DEF CloneDoes
    <3>3. new = c /\ okc
      BY <2>1
    <3> HIDE DEF c, new
    <3> QED BY <3>2, <3>3, <1>3 DEF Kept
  <2>2. CASE ~guess
    <3>1. new = none
      BY <2>2
    <3> HIDE DEF new
    <3> QED BY <3>1, <1>3, <1>4
  <2> QED BY <2>1, <2>2
<1> HIDE DEF new
<1>6. new \in SuppT /\ new.list \in Seq(StaEntry)
  BY <1>5, SuppTypes DEF SuppOK
<1>7. \A e : e \in At(new, aa) <=>
             \E i \in 1 .. Len(new.list) : e = new.list[i] /\ new.list[i].aa = aa
  BY <1>6, AtOK
<1>8. \A k \in pmks : k \in Keys /\ Known(new, [aa |-> aa, pmk |-> k])
  <2> SUFFICES ASSUME NEW k \in pmks PROVE k \in Keys /\ Known(new, [aa |-> aa, pmk |-> k])
    OBVIOUS
  <2>1. PICK i \in 1 .. Len(new.list) : new.list[i].aa = aa /\ new.list[i].pmk = k
    BY <1>7
  <2>2. new.list[i] \in StaEntry
    BY <1>6
  <2>3. k \in Keys
    BY <2>1, <2>2 DEF StaEntry
  <2>4. Known(new, [aa |-> aa, pmk |-> k])
    BY <2>1, <1>6, KnownOK
  <2> QED BY <2>3, <2>4
<1> HIDE DEF pmks
<1>9. pmk = NoKey \/ pmk \in pmks
  OBVIOUS
<1> HIDE DEF pmk
<1>10. /\ pmk \in Keys \cup {NoKey} /\ cur \in [aa : BSSs \cup {NoBss}, pmk : Keys \cup {NoKey}]
       /\ cur # NoCur => cur.aa = aa /\ Known(new, cur)
  <2>1. CASE pmk = NoKey
    BY <2>1 DEF NoCur
  <2>2. CASE pmk # NoKey
    BY <2>2, <1>8, <1>9
  <2> QED BY <2>1, <2>2
<1> HIDE DEF cur, r
<1>11. /\ r \in SuppT /\ r.list = new.list /\ r.expire = new.expire /\ r.bss = new.bss
       /\ r.msk = new.msk /\ r.deauth = new.deauth /\ r.cur = cur
  BY <1>1, <1>6, <1>10 DEF SuppT
<1>12. SuppOK(r)
  BY <1>5, <1>10, <1>11 DEF SuppOK, Known
<1> QED BY <1>5, <1>10, <1>11, <1>12 DEF r, SetCurrentDoes

\* pmksa_cache_expire() at the station.
LEMMA ExpireOK ==
    ASSUME NEW s, SuppOK(s)
    PROVE  LET r == Expire(s) IN
           /\ SuppOK(r) /\ Kept(r, s)
           /\ ~r.deauth => r.cur = s.cur
           /\ \A n \in 1 .. Len(r.list) : \E j \in 1 .. Len(s.list) : r.list[n] = s.list[j]
           /\ SuppStrict(s) => SuppStrict(r)
<1> DEFINE late == {i \in DOMAIN s.list : s.list[i].ttl > 0}
           n == IF late = {} THEN Len(s.list) ELSE Min(late) - 1
           gone == {s.list[i] : i \in 1 .. n}
           f == Free(s, gone, "EXPIRE")
           r == Expire(s)
<1>1. r = SetExpiration(f)
  BY DEF Expire
<1>2. /\ s \in SuppT /\ s.list \in Seq(StaEntry) /\ Len(s.list) \in Nat
      /\ DOMAIN s.list = 1 .. Len(s.list)
      /\ \A i \in 1 .. Len(s.list) : s.list[i].ttl \in Int
  BY SuppTypes DEF SuppOK, Timed
<1>3. ASSUME Sorted(s.list), NEW i \in 1 .. Len(s.list), s.list[i] \notin gone
      PROVE  s.list[i].ttl >= 0
  <2>1. late \in SUBSET Nat
    BY <1>2
  <2>2. i \notin 1 .. n
    BY <1>3
  <2>3. late # {}
    BY <2>2, <1>2
  <2>4. Min(late) \in late
    BY <2>1, <2>3, MinOK
  <2>5. Min(late) \in 1 .. Len(s.list) /\ s.list[Min(late)].ttl > 0
    BY <2>4, <1>2
  <2>6. n = Min(late) - 1
    BY <2>3
  <2> HIDE DEF late, n
  <2>7. Min(late) <= i
    BY <2>2, <2>5, <2>6, <1>2
  <2> QED BY <2>5, <2>7, <1>2, <1>3 DEF Sorted
<1> HIDE DEF gone
<1>4. Body(s) /\ Loose(s, {})
  BY SuppParts
<1>5. /\ Body(f) /\ Loose(f, {}) /\ Kept(f, s) /\ Less(f.list, s.list)
      /\ \A m \in 1 .. Len(f.list) : f.list[m] \notin gone
      /\ ~f.deauth => f.cur = s.cur
      /\ SuppStrict(s) => SuppStrict(f)
  BY <1>4, FreeOK
<1> HIDE DEF f, r
<1>6. f \in SuppT /\ f.list \in Seq(StaEntry) /\ SuppOK(f)
  BY <1>5, SuppTypes, SuppParts DEF Body
<1>7. /\ r \in SuppT /\ Kept(r, f)
      /\ r.list = f.list /\ r.cur = f.cur /\ r.deauth = f.deauth
      /\ f.list # <<>> => r.expire # NoTimer
      /\ (f.list # <<>> => f.list[1].ttl >= 0) => SuppPrompt(r)
  BY <1>1, <1>6, SetExpirationOK
<1>8. SuppOK(r) /\ Kept(r, s) /\ (~r.deauth => r.cur = s.cur)
  BY <1>5, <1>6, <1>7 DEF SuppOK, Kept, Known
<1>9. \A m \in 1 .. Len(r.list) : \E j \in 1 .. Len(s.list) : r.list[m] = s.list[j]
  BY <1>5, <1>7 DEF Less
<1>10. ASSUME SuppStrict(s) PROVE SuppStrict(r)
  <2>1. ASSUME f.list # <<>> PROVE f.list[1].ttl >= 0
    <3>1. 1 \in 1 .. Len(f.list)
      BY <2>1, <1>6
    <3>2. PICK j \in 1 .. Len(s.list) : f.list[1] = s.list[j]
      BY <3>1, <1>5 DEF Less
    <3>3. s.list[j] \notin gone
      BY <3>1, <3>2, <1>5
    <3> QED BY <3>2, <3>3, <1>3, <1>10 DEF SuppStrict
  <2> QED BY <2>1, <1>5, <1>7, <1>10 DEF SuppStrict
<1> QED BY <1>8, <1>9, <1>10 DEF r

\* pmksa_cache_flush() of everything leaves nothing.
LEMMA FlushAllOK ==
    ASSUME NEW s, SuppOK(s)
    PROVE  LET r == Flush(s, Range(s.list)) IN
           SuppOK(r) /\ Kept(r, s) /\ r.list = <<>> /\ SuppStrict(r) /\ (~r.deauth => r.cur = s.cur)
<1> DEFINE gone == Range(s.list)
           r == Flush(s, gone)
<1>0. s \in SuppT /\ s.list \in Seq(StaEntry)
  BY SuppTypes DEF SuppOK
<1>1. \A e : e \in gone <=> \E i \in 1 .. Len(s.list) : e = s.list[i]
  BY <1>0, RangeOK
<1>2. Body(s) /\ Loose(s, {})
  BY SuppParts
<1>3. (~r.deauth) => r.cur = s.cur
  <2>1. CASE gone = {}
    BY <2>1 DEF Flush
  <2>2. CASE gone # {}
    <3> DEFINE f == Free(s, gone, "FREE")
               u == Unlink(s, gone)
    <3>1. r = SetExpiration(f) /\ f = FreeCb(u, gone, "FREE")
      BY <2>2 DEF Flush, Free
    <3>2. u \in SuppT /\ u = [s EXCEPT !.list = u.list]
      BY <1>0, UnlinkOK
    <3>3. u.cur = s.cur
      BY <1>0, <3>2 DEF SuppT
    <3> HIDE DEF u, gone, f
    <3>4. f \in SuppT /\ (~f.deauth => f.cur = u.cur)
      <4>1. f \in SuppT
        BY <3>1, <3>2, FreeCbOK
      <4>2. u.deauth \in BOOLEAN
        BY <3>2, SuppTypes
      <4>3. f = [u EXCEPT !.cur = IF \E e \in gone : Ref(e) = u.cur THEN NoCur ELSE u.cur,
                          !.pmk = IF \E e \in gone : Ref(e) = u.cur THEN NoKey ELSE u.pmk,
                          !.deauth = u.deauth \/ \E e \in gone : Ref(e) = u.cur]
        BY <3>1 DEF FreeCb
      <4>4. ASSUME ~f.deauth PROVE ~\E e \in gone : Ref(e) = u.cur
        BY <4>2, <4>3, <4>4, <3>2 DEF SuppT
      <4> QED BY <4>1, <4>3, <4>4, <3>2 DEF SuppT
    <3>5. r.cur = f.cur /\ r.deauth = f.deauth
      BY <3>1, <3>4, SetExpirationOK
    <3> QED BY <3>3, <3>4, <3>5
  <2> QED BY <2>1, <2>2
<1> HIDE DEF gone
<1>4. /\ Body(r) /\ Loose(r, {}) /\ Kept(r, s)
      /\ Less(r.list, s.list) \/ r = s
      /\ \A n \in 1 .. Len(r.list) : r.list[n] \notin gone
  BY <1>2, FlushOK
<1> HIDE DEF r
<1>5. r.list \in Seq(StaEntry) /\ SuppOK(r)
  BY <1>4, SuppTypes, SuppParts DEF Body
<1>6. Len(r.list) \in Nat /\ \A n \in 1 .. Len(r.list) : FALSE
  BY <1>1, <1>4, <1>5 DEF Less
<1>7. r.list = <<>>
  BY <1>5, <1>6
<1>8. SuppStrict(r)
  BY <1>6, <1>7 DEF SuppStrict, Sorted, OnePerPmk, SuppPrompt
<1> QED BY <1>3, <1>4, <1>5, <1>7, <1>8 DEF r, gone

\* wpa_supplicant_key_neg_complete().
LEMMA ConfirmOK ==
    ASSUME NEW s, SuppOK(s)
    PROVE  LET r == Confirm(s) IN
           /\ SuppOK(r) /\ Kept(r, s) /\ r.cur = s.cur /\ r.pmk = s.pmk /\ r.deauth = s.deauth
           /\ Len(r.list) = Len(s.list)
           /\ \A i \in 1 .. Len(s.list) :
                r.list[i].aa = s.list[i].aa /\ r.list[i].pmk = s.list[i].pmk
           /\ SuppStrict(s) => SuppStrict(r)
<1> DEFINE l == s.list
           w == [i \in DOMAIN l |->
                   IF Ref(l[i]) = s.cur THEN [l[i] EXCEPT !.opp = FALSE] ELSE l[i]]
           r == Confirm(s)
           x == s.expire
           y == s.reauth
           q == [s EXCEPT !.list = w, !.expire = x, !.reauth = y]
<1>1. /\ s \in SuppT /\ l \in Seq(StaEntry) /\ DOMAIN l = 1 .. Len(l) /\ Len(l) \in Nat
      /\ x \in NoTimer .. Lifetime + 1 /\ y \in NoTimer .. Lifetime
      /\ s.list # <<>> => x # NoTimer
  BY DEF SuppOK, SuppT
<1>2. r = q
  <2>1. r = [s EXCEPT !.list = w]
    BY DEF Confirm
  <2> HIDE DEF r, w
  <2> QED BY <2>1, <1>1 DEF SuppT
<1>3. l = s.list
  OBVIOUS
<1> HIDE DEF l
<1>4. ASSUME NEW i \in 1 .. Len(l)
      PROVE  /\ w[i] \in StaEntry /\ w[i].aa = l[i].aa /\ w[i].pmk = l[i].pmk
             /\ w[i].ttl = l[i].ttl /\ (~l[i].opp => ~w[i].opp)
  <2>1. l[i] \in StaEntry
    BY <1>1
  <2>2. w[i] = IF Ref(l[i]) = s.cur THEN [l[i] EXCEPT !.opp = FALSE] ELSE l[i]
    BY <1>1
  <2> HIDE DEF w
  <2> QED BY <2>1, <2>2 DEF StaEntry
<1>5. w \in Seq(StaEntry) /\ Len(w) = Len(l)
  <2>1. w \in [1 .. Len(l) -> StaEntry]
    BY <1>1, <1>4
  <2> HIDE DEF w
  <2> QED BY <2>1, <1>1
<1> HIDE DEF w, x, y
<1>6. \A i \in 1 .. Len(w) : w[i].aa = s.list[i].aa /\ w[i].pmk = s.list[i].pmk
  BY <1>3, <1>4, <1>5
<1>7. Relisted(q, s, w, x)
  BY <1>1, <1>3, <1>5, <1>6, RelistOK
<1> HIDE DEF r, q
<1>8. ASSUME SuppStrict(s) PROVE SuppStrict(r)
  <2>1. Sorted(l) /\ OnePerPmk(l) /\ (\A i \in 1 .. Len(l) : ~l[i].opp)
        /\ (l # <<>> => l[1].ttl >= -1 /\ x <= l[1].ttl + 1)
    BY <1>8 DEF SuppStrict, SuppPrompt, l, x
  <2>2. Sorted(w) /\ OnePerPmk(w) /\ (\A i \in 1 .. Len(w) : ~w[i].opp)
    BY <2>1, <1>4, <1>5 DEF Sorted, OnePerPmk
  <2>3. w # <<>> => w[1].ttl >= -1 /\ x <= w[1].ttl + 1
    BY <2>1, <1>1, <1>4, <1>5
  <2> QED BY <2>2, <2>3, <1>2, <1>7 DEF SuppStrict, SuppPrompt, Relisted
<1> QED BY <1>2, <1>3, <1>4, <1>5, <1>7, <1>8 DEF r, Relisted

\* A second passes at a station whose timeouts are not due.
LEMMA SuppTickOK ==
    ASSUME NEW s, SuppOK(s), s.expire # 0, s.reauth # 0
    PROVE  LET r == SuppTick(s) IN
           /\ SuppOK(r) /\ Kept(r, s) /\ r.cur = s.cur /\ r.pmk = s.pmk /\ r.deauth = s.deauth
           /\ Len(r.list) = Len(s.list)
           /\ \A i \in 1 .. Len(s.list) :
                r.list[i].aa = s.list[i].aa /\ r.list[i].pmk = s.list[i].pmk
           /\ SuppStrict(s) => SuppStrict(r)
<1> DEFINE l == s.list
           w == [i \in DOMAIN l |-> SuppAged(l[i])]
           r == SuppTick(s)
           x == Later(s.expire)
           y == Later(s.reauth)
           q == [s EXCEPT !.list = w, !.expire = x, !.reauth = y]
<1>1. /\ s \in SuppT /\ l \in Seq(StaEntry) /\ DOMAIN l = 1 .. Len(l) /\ Len(l) \in Nat
      /\ s.expire \in NoTimer .. Lifetime + 1 /\ s.reauth \in NoTimer .. Lifetime
      /\ s.list # <<>> => s.expire # NoTimer
      /\ Lifetime \in Nat
  BY LifetimeAssumption DEF SuppOK, SuppT
<1>2. r = q
  <2> DEFINE a == [s EXCEPT !.list = w]
             b == [a EXCEPT !.expire = Later(a.expire)]
             c == [b EXCEPT !.reauth = Later(b.reauth)]
  <2>1. r = c
    BY DEF SuppTick
  <2> HIDE DEF r, w
  <2>2. a.expire = s.expire
    BY <1>1 DEF SuppT
  <2>3. b.reauth = s.reauth
    BY <1>1 DEF SuppT
  <2> QED BY <2>1, <2>2, <2>3
<1>3. l = s.list
  OBVIOUS
<1>4. /\ x \in NoTimer .. Lifetime + 1 /\ y \in NoTimer .. Lifetime
      /\ s.expire # NoTimer => x # NoTimer /\ x = s.expire - 1 /\ s.expire \in 1 .. Lifetime + 1
  BY <1>1 DEF Later, NoTimer
<1> HIDE DEF l
<1>5. ASSUME NEW i \in 1 .. Len(l)
      PROVE  /\ w[i] \in StaEntry /\ w[i].aa = l[i].aa /\ w[i].pmk = l[i].pmk
             /\ w[i].ttl = Older(l[i].ttl) /\ w[i].opp = l[i].opp
             /\ l[i].ttl \in Floor .. Lifetime
  <2>1. l[i] \in StaEntry
    BY <1>1
  <2>2. w[i] = [l[i] EXCEPT !.ttl = Older(l[i].ttl),
                            !.reauth = IF l[i].reauth = 0 THEN 0 ELSE l[i].reauth - 1]
    <3>1. w[i] = SuppAged(l[i])
      BY <1>1
    <3> HIDE DEF w
    <3> QED BY <2>1, <3>1 DEF StaEntry, SuppAged
  <2>3. l[i].ttl \in Floor .. Lifetime /\ l[i].reauth \in 0 .. Lifetime
    BY <2>1 DEF StaEntry
  <2>4. /\ Older(l[i].ttl) \in Floor .. Lifetime
        /\ (IF l[i].reauth = 0 THEN 0 ELSE l[i].reauth - 1) \in 0 .. Lifetime
    <3>1. Older(l[i].ttl) \in Floor .. Lifetime
      BY <2>3, <1>1, OlderOK
    <3>2. (IF l[i].reauth = 0 THEN 0 ELSE l[i].reauth - 1) \in 0 .. Lifetime
      BY <2>3, <1>1
    <3> QED BY <3>1, <3>2
  <2> HIDE DEF w
  <2> QED BY <2>1, <2>2, <2>3, <2>4 DEF StaEntry
<1>6. w \in Seq(StaEntry) /\ Len(w) = Len(l)
  <2>1. w \in [1 .. Len(l) -> StaEntry]
    BY <1>1, <1>5
  <2> HIDE DEF w
  <2> QED BY <2>1, <1>1
<1> HIDE DEF w, x, y
<1>7. \A i \in 1 .. Len(w) : w[i].aa = s.list[i].aa /\ w[i].pmk = s.list[i].pmk
  BY <1>3, <1>5, <1>6
<1>8. Relisted(q, s, w, x)
  <2>1. s.list # <<>> => x # NoTimer
    BY <1>1, <1>4
  <2> QED BY <2>1, <1>3, <1>4, <1>6, <1>7, RelistOK
<1> HIDE DEF r, q
<1>9. ASSUME SuppStrict(s) PROVE SuppStrict(r)
  <2>1. Sorted(l) /\ OnePerPmk(l) /\ (\A i \in 1 .. Len(l) : ~l[i].opp)
        /\ (l # <<>> => l[1].ttl >= -1 /\ s.expire <= l[1].ttl + 1)
    BY <1>9 DEF SuppStrict, SuppPrompt, l
  <2>2. Sorted(w)
    <3> SUFFICES ASSUME NEW i \in 1 .. Len(l), NEW j \in 1 .. Len(l), i <= j
                 PROVE  w[i].ttl <= w[j].ttl
      BY <1>6 DEF Sorted
    <3>1. l[i].ttl <= l[j].ttl
      BY <2>1 DEF Sorted
    <3>2. /\ w[i].ttl = Older(l[i].ttl) /\ w[j].ttl = Older(l[j].ttl)
          /\ l[i].ttl \in Floor .. Lifetime /\ l[j].ttl \in Floor .. Lifetime
      BY <1>5
    <3> QED BY <3>1, <3>2, <1>1, OlderOK
  <2>3. OnePerPmk(w) /\ \A i \in 1 .. Len(w) : ~w[i].opp
    BY <2>1, <1>5, <1>6 DEF OnePerPmk
  <2>4. ASSUME w # <<>> PROVE w[1].ttl >= -1 /\ x <= w[1].ttl + 1
    <3>1. l # <<>> /\ 1 \in 1 .. Len(l)
      BY <2>4, <1>1, <1>6
    <3>2. w[1].ttl = Older(l[1].ttl) /\ l[1].ttl \in Floor .. Lifetime
      BY <3>1, <1>5
    <3>3. x = s.expire - 1 /\ s.expire \in 1 .. Lifetime + 1
      BY <3>1, <1>1, <1>3, <1>4
    <3>4. s.expire <= l[1].ttl + 1
      BY <2>1, <3>1
    <3>5. l[1].ttl \in Int /\ l[1].ttl >= 0 /\ Older(l[1].ttl) = l[1].ttl - 1
      BY <3>2, <3>3, <3>4, <1>1 DEF Older, Floor
    <3> QED BY <3>2, <3>3, <3>4, <3>5
  <2> QED BY <2>2, <2>3, <2>4, <1>2, <1>8 DEF SuppStrict, SuppPrompt, Relisted
<1> QED BY <1>2, <1>3, <1>5, <1>6, <1>8, <1>9 DEF r, Relisted

\* What wpa_supplicant_get_pmk() does for message 1/4 from aa with a PMKID.
GetPmkDoes(r, s, aa, pmk) ==
    /\ SuppOK(r.sm) /\ ~r.sm.deauth /\ r.sm.bss = s.bss /\ r.sm.msk = s.msk
    /\ r.sm.cur # NoCur => r.sm.cur.aa = aa
    /\ r.res = "ok" => r.sm.pmk = pmk /\ (r.sm.cur # NoCur => r.sm.cur = [aa |-> aa, pmk |-> pmk])
    /\ r.res = "ok" /\ s.msk # NoKey /\ pmk # s.msk => ~Has(r.sm.list, aa, s.msk)
    /\ r.res = "start" => s.msk = NoKey
    /\ \A n \in 1 .. Len(r.sm.list) :
         \/ r.sm.list[n].aa = aa
         \/ \E j \in 1 .. Len(s.list) : r.sm.list[n] = s.list[j]
    /\ SuppStrict(s) /\ (\A i \in 1 .. Len(s.list) : s.list[i].pmk = s.msk => s.list[i].aa = aa)
         => SuppStrict(r.sm)

\* The current entry and the PMK set in place.
Using(s, cur, pmk) == [s EXCEPT !.cur = cur, !.pmk = pmk]
UsingDoes(r, s, cur, pmk) ==
    /\ SuppOK(r) /\ r.cur = cur /\ r.pmk = pmk /\ r.bss = s.bss /\ r.msk = s.msk
    /\ r.deauth = s.deauth /\ r.list = s.list /\ r.expire = s.expire
    /\ SuppStrict(s) => SuppStrict(r)

\* An entry of the cache may become the current one.
LEMMA UsingOK ==
    ASSUME NEW s, SuppOK(s), NEW cur \in [aa : BSSs \cup {NoBss}, pmk : Keys \cup {NoKey}],
           cur # NoCur => Known(s, cur), NEW pmk \in Keys \cup {NoKey}
    PROVE  UsingDoes(Using(s, cur, pmk), s, cur, pmk)
<1> DEFINE r == [s EXCEPT !.cur = cur, !.pmk = pmk]
<1>1. /\ r \in SuppT /\ r.cur = cur /\ r.pmk = pmk /\ r.bss = s.bss /\ r.msk = s.msk
      /\ r.deauth = s.deauth /\ r.list = s.list /\ r.expire = s.expire
  BY DEF SuppOK, SuppT
<1> HIDE DEF r
<1>2. SuppOK(r)
  BY <1>1 DEF SuppOK, Known
<1>3. SuppStrict(s) => SuppStrict(r)
  BY <1>1 DEF SuppStrict, SuppPrompt
<1> QED BY <1>1, <1>2, <1>3 DEF r, Using, UsingDoes

\* The PMK the station takes is the one that the AP has named: whether it comes
\* from the cache or from EAP, and whatever has happened to the cache.
LEMMA GetPmkOK ==
    ASSUME NEW s, SuppOK(s), ~s.deauth, NEW max \in Nat, NEW aa \in BSSs,
           NEW pmk \in Keys \cup {NoKey},
           NEW life \in 1 .. Lifetime, NEW reauth \in 0 .. Lifetime,
           s.cur # NoCur => s.cur.aa = aa,
           s.msk # NoKey /\ pmk # s.msk => ~Has(s.list, aa, s.msk)
    PROVE  GetPmkDoes(GetPmk(s, max, aa, pmk, life, reauth), s, aa, pmk)
<1> DEFINE ref == [aa |-> aa, pmk |-> pmk]
           look == LookUp(s, ref)
           r == GetPmk(s, max, aa, pmk, life, reauth)
<1>0. /\ s \in SuppT /\ s.list \in Seq(StaEntry) /\ s.msk \in Keys \cup {NoKey}
      /\ s.pmk \in Keys \cup {NoKey} /\ OnePerAp(s.list)
      /\ s.cur \in [aa : BSSs \cup {NoBss}, pmk : Keys \cup {NoKey}]
  BY SuppTypes DEF SuppOK
<1>1. /\ ref \in [aa : BSSs \cup {NoBss}, pmk : Keys \cup {NoKey}] /\ ref.aa = aa
      /\ NoCur \in [aa : BSSs \cup {NoBss}, pmk : Keys \cup {NoKey}]
      /\ Known(s, ref) <=> Has(s.list, aa, pmk)
  BY <1>0, KnownOK DEF NoCur, Has
<1>2. r = IF look.cur = ref THEN [res |-> "ok", sm |-> [look EXCEPT !.pmk = pmk]]
          ELSE IF s.msk = NoKey THEN [res |-> "start", sm |-> [look EXCEPT !.cur = NoCur]]
          ELSE FromEapol(look, max, aa, pmk, life, reauth)
  BY DEF GetPmk
<1> HIDE DEF ref
<1>3. /\ SuppOK(look) /\ look.bss = s.bss /\ look.msk = s.msk /\ look.deauth = s.deauth
      /\ look.pmk = s.pmk /\ look.list = s.list
      /\ look.cur = IF s.cur = NoCur /\ Known(s, ref) THEN ref ELSE s.cur
      /\ SuppStrict(s) => SuppStrict(look)
  <2>1. CASE s.cur = NoCur /\ Known(s, ref)
    <3> DEFINE k == s.pmk
               c == Using(s, ref, k)
    <3>1. look = c
      BY <2>1, <1>0 DEF LookUp, SuppT, Using
    <3>2. k \in Keys \cup {NoKey}
      BY <1>0
    <3> HIDE DEF k
    <3>3. UsingDoes(c, s, ref, k)
      BY <2>1, <3>2, <1>1, UsingOK
    <3> HIDE DEF c, look
    <3> QED BY <2>1, <3>1, <3>3 DEF k, UsingDoes
  <2>2. CASE ~(s.cur = NoCur /\ Known(s, ref))
    <3>1. look = s
      BY <2>2 DEF LookUp
    <3> HIDE DEF look
    <3> QED BY <2>2, <3>1
  <2> QED BY <2>1, <2>2
<1> HIDE DEF look
<1>4. /\ look.cur # NoCur => look.cur.aa = aa
      /\ look \in SuppT /\ look.list \in Seq(StaEntry)
      /\ look.cur \in [aa : BSSs \cup {NoBss}, pmk : Keys \cup {NoKey}]
  BY <1>1, <1>3, SuppTypes DEF SuppOK
<1>5. CASE look.cur = ref
  <2> DEFINE c == Using(look, ref, pmk)
  <2>1. r = [res |-> "ok", sm |-> [look EXCEPT !.pmk = pmk]]
    BY <1>2, <1>5
  <2>2. [look EXCEPT !.pmk = pmk] = c
    BY <1>4, <1>5 DEF SuppT, Using
  <2>3. ref # NoCur => Known(look, ref)
    BY <1>3, <1>5 DEF SuppOK
  <2>4. UsingDoes(c, look, ref, pmk)
    BY <2>3, <1>1, <1>3, UsingOK
  <2>5. r.res = "ok" /\ r.sm = c
    BY <2>1, <2>2
  <2> HIDE DEF c, r
  <2>6. ref = [aa |-> aa, pmk |-> pmk]
    BY DEF ref
  <2> QED BY <2>4, <2>5, <2>6, <1>1, <1>3 DEF GetPmkDoes, UsingDoes, r
<1>6. CASE look.cur # ref /\ s.msk = NoKey
  <2> DEFINE k == look.pmk
             c == Using(look, NoCur, k)
  <2>1. r = [res |-> "start", sm |-> [look EXCEPT !.cur = NoCur]]
    BY <1>2, <1>6
  <2>2. [look EXCEPT !.cur = NoCur] = c /\ k \in Keys \cup {NoKey}
    BY <1>4 DEF SuppT, Using
  <2> HIDE DEF k
  <2>3. UsingDoes(c, look, NoCur, k)
    BY <2>2, <1>1, <1>3, UsingOK
  <2>4. r.res = "start" /\ r.sm = c
    BY <2>1, <2>2
  <2> HIDE DEF c, r
  <2> QED BY <2>3, <2>4, <1>3, <1>6 DEF GetPmkDoes, UsingDoes, r
<1>7. CASE look.cur # ref /\ s.msk # NoKey
  <2> DEFINE k == s.msk
             c == look.cur
             p == Using(look, c, k)
             added == Add(p, max, aa, k, life, reauth)
             mine == [aa |-> aa, pmk |-> k]
             cur == IF added.cur = NoCur THEN mine ELSE added.cur
  <2>1. r = FromEapol(look, max, aa, pmk, life, reauth)
    BY <1>2, <1>7
  <2>2. [look EXCEPT !.pmk = look.msk] = p /\ look.msk = k /\ k \in Keys /\ c = look.cur
    BY <1>0, <1>3, <1>4, <1>7 DEF SuppT, Using
  <2>3. r = IF added.cur = NoCur /\ ~Known(added, ref)
            THEN [res |-> "fail", sm |-> added]
            ELSE [res |-> "ok", sm |-> [added EXCEPT !.cur = cur]]
    BY <2>1, <2>2 DEF FromEapol, ref
  <2> HIDE DEF k, c, r
  <2>4. /\ SuppOK(p) /\ p.cur = c /\ p.pmk = k /\ p.bss = look.bss /\ p.msk = look.msk
        /\ p.deauth = look.deauth /\ p.list = look.list /\ (SuppStrict(look) => SuppStrict(p))
    <3>1. c # NoCur => Known(look, c)
      BY <2>2, <1>3 DEF SuppOK
    <3>2. c \in [aa : BSSs \cup {NoBss}, pmk : Keys \cup {NoKey}] /\ k \in Keys \cup {NoKey}
      BY <2>2, <1>4
    <3>3. UsingDoes(p, look, c, k)
      BY <3>1, <3>2, <1>3, UsingOK
    <3> QED BY <3>3 DEF UsingDoes
  <2> HIDE DEF p
  <2>5. AddDoes(added, p, aa, k)
    BY <2>2, <2>4, AddOK
  <2> HIDE DEF added
  <2>6. /\ SuppOK(added) /\ added \in SuppT /\ added.list \in Seq(StaEntry)
        /\ added.bss = s.bss /\ added.msk = s.msk /\ added.cur \in {c, NoCur}
        /\ added.deauth = p.deauth /\ ~added.deauth /\ added.pmk = k
    <3>1. SuppOK(added) /\ Kept(added, p)
      BY <2>5 DEF AddDoes
    <3>2. added.deauth = p.deauth
      BY <2>2, <2>4, <2>5, <1>4 DEF AddDoes
    <3> QED BY <3>1, <3>2, <2>4, <1>3, SuppTypes DEF Kept, SuppOK
  <2>7. Has(added.list, aa, k)
    BY <2>5 DEF AddDoes
  <2>8. Known(added, mine) /\ (Known(added, ref) <=> Has(added.list, aa, pmk))
    BY <2>6, <2>7, KnownOK DEF Has, ref
  <2>9. /\ SuppOK([added EXCEPT !.cur = cur])
        /\ [added EXCEPT !.cur = cur].cur = cur
        /\ [added EXCEPT !.cur = cur].pmk = k
        /\ [added EXCEPT !.cur = cur].bss = s.bss
        /\ [added EXCEPT !.cur = cur].msk = s.msk
        /\ [added EXCEPT !.cur = cur].deauth = added.deauth
        /\ [added EXCEPT !.cur = cur].list = added.list
        /\ SuppStrict(added) => SuppStrict([added EXCEPT !.cur = cur])
    <3>1. cur \in [aa : BSSs \cup {NoBss}, pmk : Keys \cup {NoKey}] /\ (cur # NoCur => Known(added, cur))
      <4>1. mine \in [aa : BSSs \cup {NoBss}, pmk : Keys \cup {NoKey}]
        BY <2>2
      <4>2. added.cur # NoCur => Known(added, added.cur)
        BY <2>6 DEF SuppOK
      <4>3. added.cur \in [aa : BSSs \cup {NoBss}, pmk : Keys \cup {NoKey}]
        BY <2>6, SuppTypes
      <4> HIDE DEF mine
      <4> QED BY <4>1, <4>2, <4>3, <2>8
    <3> HIDE DEF cur
    <3> DEFINE n == [added EXCEPT !.cur = cur]
               m == Using(added, cur, k)
    <3>2. n = m
      BY <2>6 DEF SuppT, Using
    <3>3. k \in Keys \cup {NoKey}
      BY <2>2
    <3>4. UsingDoes(m, added, cur, k)
      BY <3>1, <3>3, <2>6, UsingOK
    <3> QED BY <3>2, <3>4, <2>6 DEF UsingDoes
  <2>10. \A n \in 1 .. Len(added.list) :
           added.list[n].aa = aa \/ \E j \in 1 .. Len(s.list) : added.list[n] = s.list[j]
    BY <2>4, <2>5, <1>3 DEF AddDoes
  <2>11. SuppStrict(s) /\ (\A i \in 1 .. Len(s.list) : s.list[i].pmk = s.msk => s.list[i].aa = aa)
           => SuppStrict(added)
    BY <2>2, <2>4, <2>5, <1>3 DEF AddDoes
  <2>12. CASE added.cur = NoCur /\ ~Known(added, ref)
    <3>1. r.res = "fail" /\ r.sm = added
      BY <2>3, <2>12
    <3> QED BY <3>1, <2>6, <2>10, <2>11, <2>12 DEF GetPmkDoes, r
  <2>13. CASE ~(added.cur = NoCur /\ ~Known(added, ref))
    <3>1. r.res = "ok" /\ r.sm = [added EXCEPT !.cur = cur]
      BY <2>3, <2>13
    <3>2. k = pmk /\ (cur # NoCur => cur = mine)
      <4>1. CASE Has(s.list, aa, k)
        <5>1. k = pmk
          BY <4>1, <2>2, <1>3, <1>7
        <5>2. Known(s, ref) /\ ref = mine
          BY <4>1, <5>1, <1>1 DEF ref
        <5>3. s.cur # NoCur
          BY <5>2, <1>3, <1>7
        <5>4. look.cur = s.cur /\ Known(s, s.cur)
          BY <5>3, <1>3 DEF SuppOK
        <5>5. s.cur = ref
          <6>1. PICK x \in Range(s.list) : Ref(x) = s.cur
            BY <5>4 DEF Known
          <6>2. PICK i \in 1 .. Len(s.list) : x = s.list[i]
            BY <6>1, <1>0, RangeOK
          <6>3. x.aa = aa /\ s.cur = [aa |-> x.aa, pmk |-> x.pmk]
            BY <6>1, <5>3 DEF Ref
          <6>4. PICK j \in 1 .. Len(s.list) : s.list[j].aa = aa /\ s.list[j].pmk = k
            BY <4>1 DEF Has
          <6>5. i = j
            BY <6>2, <6>3, <6>4, <1>0 DEF OnePerAp
          <6> QED BY <6>2, <6>3, <6>4, <6>5, <5>2
        <5> QED BY <5>4, <5>5, <1>7
      <4>2. CASE ~Has(s.list, aa, k)
        <5>1. added.cur = NoCur
          BY <4>2, <2>2, <2>4, <2>5, <2>6, <1>3, <1>4 DEF AddDoes
        <5>2. Has(added.list, aa, pmk)
          BY <5>1, <2>8, <2>13
        <5>3. PICK i \in 1 .. Len(added.list) : added.list[i].aa = aa /\ added.list[i].pmk = pmk
          BY <5>2 DEF Has
        <5>4. k = pmk
          BY <5>3, <2>5 DEF AddDoes
        <5>5. cur = mine
          BY <5>1
        <5> QED BY <5>4, <5>5
      <4> QED BY <4>1, <4>2
    <3>3. cur # NoCur => cur.aa = aa
      BY <3>2
    <3> HIDE DEF cur
    <3> QED BY <3>1, <3>2, <3>3, <2>2, <2>6, <2>9, <2>10, <2>11, <1>3 DEF GetPmkDoes, r, k
  <2> QED BY <2>12, <2>13
<1> QED BY <1>5, <1>6, <1>7

(***************************************************************************)
(* The inductive invariant.                                                *)
(***************************************************************************)
ConnType ==
    [stage : Stages, bss : BSSs \cup {NoBss},
     req : [aa : BSSs \cup {NoBss}, pmk : Keys \cup {NoKey}],
     pmk : Keys \cup {NoKey}, up : BOOLEAN, authenticated : BOOLEAN]

\* Every cache by itself: that of the station, and those of the BSSs.
StaOK(c, s) == SuppOK(s) /\ ~s.deauth /\ (~c.okc => SuppStrict(s))
ApOK(c, b) == AuthBase(b) /\ Points(b) /\ (~c.okc => Strict(b, c.apMax))
ApsOK(c, a) == a \in [c.local -> AuthT] /\ \A b \in c.local : ApOK(c, a[b])

\* What each stage of the connection means for the station.
Fresh(s) == s.bss = NoBss /\ s.msk = NoKey
StagesOK(c, s, k) ==
    /\ k.stage = "off" => k = Off /\ Fresh(s) /\ s.cur = NoCur /\ s.pmk = NoKey
    /\ k.stage = "auth" => Fresh(s) /\ ~k.up
    /\ k.stage # "off" => k.bss \in c.bss
    /\ k.stage \notin {"off", "auth"} => s.bss = k.bss
    /\ k.stage = "eap" => s.msk = NoKey
    /\ k.stage = "ptk" => s.pmk = k.pmk

\* The PMKSA that is asked for or used is one for this AP.
CurrentOK(s, k) ==
    /\ s.cur # NoCur => s.cur.aa = k.bss
    /\ k.req # NoCur => k.req.aa = k.bss
    /\ k.stage \in {"ptk", "done"} /\ s.cur # NoCur => s.cur = [aa |-> k.bss, pmk |-> s.pmk]

\* The key of the EAP session is in the cache for this AP alone, and only if the
\* AP uses it.
MskOK(c, s, k) ==
    /\ k.stage \in {"msg1", "ptk", "done"} /\ s.msk # NoKey /\ k.pmk # s.msk
         => ~Has(s.list, k.bss, s.msk)
    /\ ~c.okc => \A i \in 1 .. Len(s.list) : s.list[i].pmk = s.msk => s.list[i].aa = k.bss

ConnOK(c, s, k) == k \in ConnType /\ StagesOK(c, s, k) /\ CurrentOK(s, k) /\ MskOK(c, s, k)

Inv == cfg \in Configs /\ ApsOK(cfg, ap) /\ StaOK(cfg, sta) /\ ConnOK(cfg, sta, conn)

\* Types of the configuration.
LEMMA ConfigTypes ==
    ASSUME NEW c \in Configs
    PROVE  /\ c.bss \subseteq BSSs /\ c.local \subseteq c.bss /\ c.others \subseteq Others
           /\ c.okc \in BOOLEAN /\ c.keys \subseteq Keys
           /\ c.life \in 1 .. Lifetime /\ c.reauth \in 0 .. Lifetime
           /\ c.sessions \subseteq 1 .. Lifetime
           /\ c.max \in Nat /\ c.apMax \in Nat \ {0}
BY ConfigAssumption DEF ConfigType

\* One BSS changes.
LEMMA ApUpdate ==
    ASSUME NEW c, NEW a, ApsOK(c, a), NEW b, NEW x, b \in c.local => ApOK(c, x)
    PROVE  ApsOK(c, [a EXCEPT ![b] = x])
<1>1. a \in [c.local -> AuthT] /\ \A d \in c.local : ApOK(c, a[d])
  BY DEF ApsOK
<1>2. b \in c.local => x \in AuthT
  BY DEF ApOK, AuthBase
<1>3. [a EXCEPT ![b] = x] \in [c.local -> AuthT]
  BY <1>1, <1>2
<1>4. \A d \in c.local : [a EXCEPT ![b] = x][d] = IF d = b THEN x ELSE a[d]
  BY <1>1
<1> QED BY <1>1, <1>3, <1>4 DEF ApsOK

\* The state machine of the station at a BSS changes, not the cache.
MachineDoes(c, b, p, m) == ApOK(c, [b EXCEPT !.pmksa = p, !.msk = m])

\* Its PMKSA may be dropped, and its EAP key be any.
LEMMA MachineOK ==
    ASSUME NEW c, NEW b, ApOK(c, b), NEW p, p \in {b.pmksa, NoKey}, NEW m \in Keys \cup {NoKey}
    PROVE  MachineDoes(c, b, p, m)
<1> DEFINE x == [b EXCEPT !.pmksa = p, !.msk = m]
<1>1. b \in AuthT /\ b.pmksa # OtherKey /\ m # OtherKey /\ NoKey # OtherKey
  <2>1. m # OtherKey /\ NoKey # OtherKey
    BY KeysAssumption DEF OtherKey, NoKey
  <2> QED BY <2>1 DEF ApOK, AuthBase
<1>2. /\ x \in AuthT /\ x.list = b.list /\ x.timer = b.timer /\ x.pmksa = p /\ x.msk = m
  BY <1>1 DEF AuthT, AuthType
<1> HIDE DEF x
<1>3. AuthBase(x)
  BY <1>1, <1>2 DEF ApOK, AuthBase
<1>4. Points(x)
  BY <1>2 DEF ApOK, Points
<1>5. ~c.okc => Strict(x, c.apMax)
  BY <1>2 DEF ApOK, Strict, Prompt
<1> QED BY <1>3, <1>4, <1>5 DEF ApOK, MachineDoes, x

\* wpa_sm_notify_disassoc() at any point.
LEMMA DisassociatedOK ==
    ASSUME NEW c, NEW s, SuppOK(s), ~c.okc => SuppStrict(s)
    PROVE  StaOK(c, Disassociated(s)) /\ ConnOK(c, Disassociated(s), Off)
<1> DEFINE r == Disassociated(s)
<1>1. /\ r \in SuppT /\ r.cur = NoCur /\ r.bss = NoBss /\ r.pmk = NoKey /\ r.msk = NoKey
      /\ r.deauth = FALSE /\ r.list = s.list /\ r.expire = s.expire
  <2>1. NoCur \in [aa : BSSs \cup {NoBss}, pmk : Keys \cup {NoKey}]
    BY DEF NoCur
  <2> QED BY <2>1 DEF Disassociated, SuppOK, SuppT
<1> HIDE DEF r
<1>2. StaOK(c, r)
  BY <1>1 DEF StaOK, SuppOK, SuppStrict, SuppPrompt
<1>3. /\ Off \in ConnType /\ Off.stage = "off" /\ Off.req = NoCur /\ Off.pmk = NoKey
  BY DEF Off, ConnType, Stages, NoCur
<1>4. \A i \in 1 .. Len(r.list) : r.list[i].pmk # NoKey
  <2> SUFFICES ASSUME NEW i \in 1 .. Len(r.list) PROVE r.list[i].pmk # NoKey
    OBVIOUS
  <2>1. r.list[i] \in StaEntry
    BY <1>1, SuppTypes
  <2> QED BY <2>1, KeysAssumption DEF StaEntry, NoKey
<1>5. ConnOK(c, r, Off)
  BY <1>1, <1>3, <1>4 DEF ConnOK, StagesOK, CurrentOK, MskOK, Fresh
<1> QED BY <1>2, <1>5 DEF r

\* The cache of the station changes while the connection goes on: no entry that
\* is new is one of the key of the EAP session.
LEMMA CacheChange ==
    ASSUME NEW c, NEW s, NEW r, NEW k, ConnOK(c, s, k), Kept(r, s), ~r.deauth,
           \A n \in 1 .. Len(r.list) :
             \/ \E j \in 1 .. Len(s.list) : r.list[n].aa = s.list[j].aa /\ r.list[n].pmk = s.list[j].pmk
             \/ /\ k.stage \in {"off", "auth"} \/ r.list[n].aa # k.bss
                /\ c.okc \/ r.list[n].pmk # s.msk
    PROVE  ConnOK(c, r, k)
<1>1. /\ k \in ConnType /\ r.bss = s.bss /\ r.msk = s.msk /\ r.cur \in {s.cur, NoCur} /\ r.pmk = s.pmk
  BY DEF ConnOK, Kept
<1>2. StagesOK(c, r, k)
  BY <1>1 DEF ConnOK, StagesOK, Fresh
<1>3. CurrentOK(r, k)
  BY <1>1 DEF ConnOK, CurrentOK
<1>4. ASSUME k.stage \in {"msg1", "ptk", "done"}, s.msk # NoKey, k.pmk # s.msk
      PROVE  ~Has(r.list, k.bss, s.msk)
  <2>1. ~Has(s.list, k.bss, s.msk) /\ k.stage \notin {"off", "auth"}
    BY <1>4 DEF ConnOK, MskOK
  <2> QED BY <2>1 DEF Has
<1>5. ASSUME ~c.okc, NEW n \in 1 .. Len(r.list), r.list[n].pmk = s.msk
      PROVE  r.list[n].aa = k.bss
  BY <1>5 DEF ConnOK, MskOK
<1>6. MskOK(c, r, k)
  BY <1>1, <1>4, <1>5 DEF MskOK
<1> QED BY <1>1, <1>2, <1>3, <1>6 DEF ConnOK

\* A PMK that nobody has.
LEMMA FreshOK ==
    ASSUME Inv, NEW k \in FreshKeys
    PROVE  /\ k \in Keys /\ k # sta.msk /\ k # NoKey
           /\ \A i \in 1 .. Len(sta.list) : sta.list[i].pmk # k
<1>1. k \in cfg.keys /\ k # sta.msk /\ k \notin {e.pmk : e \in Range(sta.list)}
  BY DEF FreshKeys
<1>2. k \in Keys
  BY <1>1, ConfigTypes DEF Inv
<1>3. sta.list \in Seq(StaEntry)
  BY SuppTypes DEF Inv, StaOK, SuppOK
<1>4. \A i \in 1 .. Len(sta.list) : sta.list[i] \in Range(sta.list)
  BY <1>3, RangeOK
<1> QED BY <1>1, <1>2, <1>4, KeysAssumption DEF NoKey

(***************************************************************************)
(* Every step preserves it.                                                *)
(***************************************************************************)

\* What the invariant gives about the state before a step.
LEMMA InvGives ==
    ASSUME Inv
    PROVE  /\ cfg \in Configs /\ SuppOK(sta) /\ ~sta.deauth /\ (~cfg.okc => SuppStrict(sta))
           /\ sta \in SuppT /\ sta.list \in Seq(StaEntry) /\ Len(sta.list) \in Nat
           /\ sta.msk \in Keys \cup {NoKey} /\ sta.pmk \in Keys \cup {NoKey}
           /\ ApsOK(cfg, ap) /\ ap \in [cfg.local -> AuthT]
           /\ \A b \in cfg.local : ApOK(cfg, ap[b])
           /\ conn \in ConnType /\ conn.pmk \in Keys \cup {NoKey}
           /\ conn.req \in [aa : BSSs \cup {NoBss}, pmk : Keys \cup {NoKey}]
           /\ StagesOK(cfg, sta, conn) /\ CurrentOK(sta, conn) /\ MskOK(cfg, sta, conn)
           /\ ConnOK(cfg, sta, conn)
BY SuppTypes DEF Inv, StaOK, SuppOK, ApsOK, ConnOK, ConnType

\* The parts of the invariant after a step.
LEMMA InvAfter ==
    ASSUME NEW s, NEW k, NEW a, cfg \in Configs, cfg' = cfg, sta' = s, conn' = k, ap' = a,
           ApsOK(cfg, a), StaOK(cfg, s), ConnOK(cfg, s, k)
    PROVE  Inv'
BY DEF Inv

\* The station leaves, and the AP may hear of it.
LEMMA LeaveOK ==
    ASSUME NEW s, NEW a, Leave(s, a), cfg \in Configs, cfg' = cfg, ApsOK(cfg, a),
           SuppOK(s), ~cfg.okc => SuppStrict(s)
    PROVE  Inv'
<1>1. StaOK(cfg, Disassociated(s)) /\ ConnOK(cfg, Disassociated(s), Off)
  BY DisassociatedOK
<1>2. sta' = Disassociated(s) /\ conn' = Off
  BY DEF Leave
<1>3. ApsOK(cfg, ap')
  <2>1. CASE ap' = a
    BY <2>1
  <2>2. CASE conn.bss \in cfg.local /\ ap' = [a EXCEPT ![conn.bss] = Forgotten(a[conn.bss])]
    <3> DEFINE x == a[conn.bss]
    <3>1. ApOK(cfg, x)
      BY <2>2 DEF ApsOK
    <3> HIDE DEF x
    <3>2. MachineDoes(cfg, x, NoKey, NoKey)
      BY <3>1, MachineOK
    <3>3. ApOK(cfg, Forgotten(x))
      BY <3>2 DEF MachineDoes, Forgotten
    <3> QED BY <2>2, <3>3, ApUpdate DEF x
  <2> QED BY <2>1, <2>2 DEF Leave
<1> QED BY <1>1, <1>2, <1>3 DEF Inv

\* The rest of a step of the station.
LEMMA GoOK ==
    ASSUME NEW s, NEW a, Go(s, conn, a), cfg \in Configs, cfg' = cfg, ApsOK(cfg, a),
           SuppOK(s), ~cfg.okc => SuppStrict(s), ~s.deauth => ConnOK(cfg, s, conn)
    PROVE  Inv'
<1>1. CASE s.deauth
  BY <1>1, LeaveOK DEF Go
<1>2. CASE ~s.deauth
  BY <1>2 DEF Go, Inv, StaOK
<1> QED BY <1>1, <1>2

\* sme_send_authentication().
LEMMA SmeAuthenticateStep == ASSUME Inv, NEW b \in cfg.bss, SmeAuthenticate(b) PROVE Inv'
<1> DEFINE s == SetCurrent(sta, cfg.max, b, cfg.okc, cfg.life, cfg.reauth)
           k == [Off EXCEPT !.stage = "auth", !.bss = b, !.req = s.cur]
<1>1. /\ conn.stage = "off" /\ sta' = s /\ conn' = k /\ cfg' = cfg /\ ap' = ap
  BY DEF SmeAuthenticate
<1>2. /\ cfg.max \in Nat /\ b \in BSSs /\ cfg.life \in 1 .. Lifetime /\ cfg.reauth \in 0 .. Lifetime
      /\ SuppOK(sta)
  BY InvGives, ConfigTypes
<1>3. /\ SuppOK(s) /\ s.bss = sta.bss /\ s.msk = sta.msk /\ s.deauth = sta.deauth
      /\ s.cur # NoCur => s.cur.aa = b
      /\ ~cfg.okc => s.list = sta.list /\ s.expire = sta.expire
  <2> DEFINE max == cfg.max
             okc == cfg.okc
             life == cfg.life
             reauth == cfg.reauth
             r == SetCurrent(sta, max, b, okc, life, reauth)
  <2>1. max \in Nat /\ life \in 1 .. Lifetime /\ reauth \in 0 .. Lifetime
    BY <1>2
  <2>2. r = s
    OBVIOUS
  <2> HIDE DEF max, okc, life, reauth, s
  <2>3. SetCurrentDoes(r, sta, b, okc)
    BY <2>1, <1>2, SetCurrentOK
  <2> HIDE DEF r
  <2> QED BY <2>2, <2>3 DEF okc, SetCurrentDoes
<1> HIDE DEF s
<1>4. s \in SuppT /\ s.cur \in [aa : BSSs \cup {NoBss}, pmk : Keys \cup {NoKey}]
      /\ s.list \in Seq(StaEntry)
  BY <1>3, SuppTypes DEF SuppOK
<1>5. StaOK(cfg, s)
  BY <1>3, InvGives DEF StaOK, SuppStrict, SuppPrompt
<1>6. /\ k \in ConnType /\ k.stage = "auth" /\ k.bss = b /\ k.req = s.cur /\ k.up = FALSE
  BY <1>2, <1>4 DEF Off, ConnType, Stages
<1> HIDE DEF k
<1>7. sta.bss = NoBss /\ sta.msk = NoKey
  BY <1>1, InvGives DEF StagesOK, Fresh
<1>8. \A i \in 1 .. Len(s.list) : s.list[i].pmk # NoKey
  <2> SUFFICES ASSUME NEW i \in 1 .. Len(s.list) PROVE s.list[i].pmk # NoKey
    OBVIOUS
  <2>1. s.list[i] \in StaEntry
    BY <1>4
  <2> QED BY <2>1, KeysAssumption DEF StaEntry, NoKey
<1>9. ConnOK(cfg, s, k)
  BY <1>3, <1>6, <1>7, <1>8 DEF ConnOK, StagesOK, CurrentOK, MskOK, Fresh
<1> QED BY <1>1, <1>5, <1>9, InvGives, InvAfter

\* The association.
LEMMA AssociateStep == ASSUME Inv, Associate PROVE Inv'
<1> DEFINE c == IF conn.req # NoCur /\ Known(sta, conn.req) THEN conn.req ELSE sta.cur
           s == [sta EXCEPT !.bss = conn.bss, !.msk = NoKey, !.cur = c]
           okc == IF cfg.okc THEN UNION {Range(ap[x].list) : x \in cfg.local} ELSE {}
<1>1. /\ conn.stage = "auth" /\ cfg' = cfg /\ sta' = s
  BY DEF Associate
<1>2. /\ conn.bss \in cfg.bss /\ conn.bss \in BSSs /\ sta.msk = NoKey
  BY <1>1, InvGives, ConfigTypes DEF StagesOK, Fresh
<1>3. /\ c \in [aa : BSSs \cup {NoBss}, pmk : Keys \cup {NoKey}]
      /\ c # NoCur => c.aa = conn.bss /\ Known(sta, c)
  BY InvGives, SuppTypes DEF CurrentOK, SuppOK
<1> HIDE DEF c
<1>4. /\ s \in SuppT /\ s.cur = c /\ s.bss = conn.bss /\ s.msk = NoKey /\ s.deauth = sta.deauth
      /\ s.list = sta.list /\ s.expire = sta.expire /\ s.pmk = sta.pmk
  BY <1>2, <1>3, InvGives DEF SuppT
<1> HIDE DEF s
<1>5. StaOK(cfg, s)
  BY <1>3, <1>4, InvGives DEF StaOK, SuppOK, SuppStrict, SuppPrompt, Known
<1>6. ASSUME NEW k \in ConnType, k.stage \in {"eap", "msg1"}, k.bss = conn.bss, k.req = conn.req
      PROVE  ConnOK(cfg, s, k)
  <2>1. StagesOK(cfg, s, k)
    BY <1>2, <1>4, <1>6 DEF StagesOK
  <2>2. CurrentOK(s, k)
    BY <1>3, <1>4, <1>6, InvGives DEF CurrentOK
  <2>3. MskOK(cfg, s, k)
    BY <1>2, <1>4, <1>6, InvGives DEF MskOK
  <2> QED BY <2>1, <2>2, <2>3, <1>6 DEF ConnOK
<1>7. ASSUME NEW p \in Keys \cup {NoKey} PROVE ConnOK(cfg, s, Msg1From(p))
  <2>1. /\ Msg1From(p) \in ConnType /\ Msg1From(p).stage = "msg1"
        /\ Msg1From(p).bss = conn.bss /\ Msg1From(p).req = conn.req
    BY InvGives DEF Msg1From, ConnType, Stages
  <2> QED BY <2>1, <1>6
<1>8. ConnOK(cfg, s, AtEap)
  <2>1. /\ AtEap \in ConnType /\ AtEap.stage = "eap"
        /\ AtEap.bss = conn.bss /\ AtEap.req = conn.req
    BY InvGives DEF AtEap, ConnType, Stages
  <2> QED BY <2>1, <1>6
<1>9. CASE conn.bss \notin cfg.local
  <2>1. ap' = ap /\ conn' = AtEap
    BY <1>9 DEF Associate
  <2> QED BY <2>1, <1>1, <1>5, <1>8, InvGives, InvAfter
<1>10. CASE conn.bss \in cfg.local
  <2> DEFINE b0 == ap[conn.bss]
             pmk == conn.req.pmk
  <2>1. ApOK(cfg, b0) /\ pmk \in Keys \cup {NoKey}
    BY <1>10, InvGives
  <2>2. okc \in SUBSET ApEntry
    <3> SUFFICES ASSUME NEW x \in cfg.local PROVE Range(ap[x].list) \subseteq ApEntry
      BY Zenon
    <3>1. ap[x] \in AuthT
      BY InvGives
    <3>2. ap[x].list \in Seq(ApEntry)
      BY <3>1, AuthTypes
    <3> QED BY <3>2 DEF Range
  <2>3. ~cfg.okc => okc = {}
    OBVIOUS
  <2>4. PICK b \in AuthValidate(b0, Me, pmk, okc) :
          IF b.pmksa = NoKey
          THEN ap' = [ap EXCEPT ![conn.bss] = Restarted(b, FALSE)] /\ conn' = AtEap
          ELSE ap' = [ap EXCEPT ![conn.bss] = b] /\ conn' = Msg1From(AuthInitPmk(b))
    BY <1>10 DEF Associate
  <2> HIDE DEF okc, b0, pmk
  <2>5. /\ AuthBase(b) /\ Points(b) /\ b.pmksa \in {pmk, NoKey}
        /\ okc = {} => \A max \in Nat : Strict(b0, max) => Strict(b, max)
    BY <2>1, <2>2, AuthValidateOK DEF ApOK
  <2>6. ApOK(cfg, b)
    <3>1. cfg.apMax \in Nat
      BY InvGives, ConfigTypes
    <3> QED BY <3>1, <2>1, <2>3, <2>5 DEF ApOK
  <2>7. CASE b.pmksa = NoKey
    <3>1. MachineDoes(cfg, b, NoKey, NoKey)
      BY <2>6, MachineOK
    <3>2. ApOK(cfg, Restarted(b, FALSE))
      <4>1. b \in AuthT
        BY <2>5 DEF AuthBase
      <4>2. Restarted(b, FALSE) = [b EXCEPT !.pmksa = NoKey, !.msk = NoKey]
        BY <2>7, <4>1 DEF Restarted, AuthT, AuthType
      <4> QED BY <3>1, <4>2 DEF MachineDoes
    <3>3. ApsOK(cfg, [ap EXCEPT ![conn.bss] = Restarted(b, FALSE)])
      BY <3>2, InvGives, ApUpdate
    <3> QED BY <2>4, <2>7, <3>3, <1>1, <1>5, <1>8, InvGives, InvAfter
  <2>8. CASE b.pmksa # NoKey
    <3>1. ApsOK(cfg, [ap EXCEPT ![conn.bss] = b])
      BY <2>6, InvGives, ApUpdate
    <3>2. AuthInitPmk(b) = b.pmksa /\ b.pmksa \in Keys \cup {NoKey}
      BY <2>1, <2>5, <2>8 DEF AuthInitPmk
    <3>3. ConnOK(cfg, s, Msg1From(b.pmksa))
      BY <3>2, <1>7
    <3> QED BY <2>4, <2>8, <3>1, <3>2, <3>3, <1>1, <1>5, InvGives, InvAfter
  <2> QED BY <2>7, <2>8
<1> QED BY <1>9, <1>10

\* EAP ends with a new key.
LEMMA EapSuccessStep == ASSUME Inv, EapSuccess PROVE Inv'
<1>1. conn.stage = "eap" /\ cfg' = cfg
  BY DEF EapSuccess
<1>2. PICK k \in FreshKeys :
        /\ sta' = [sta EXCEPT !.msk = k]
        /\ ap' = Bss(conn.bss, LAMBDA b : [b EXCEPT !.msk = k])
        /\ conn' = Msg1From(IF conn.bss \in cfg.local THEN AuthInitPmk(ap'[conn.bss]) ELSE k)
  BY DEF EapSuccess
<1>3. k \in Keys /\ \A i \in 1 .. Len(sta.list) : sta.list[i].pmk # k
  BY FreshOK
<1> DEFINE s == [sta EXCEPT !.msk = k]
<1>4. /\ s \in SuppT /\ s.msk = k /\ s.cur = sta.cur /\ s.bss = sta.bss /\ s.pmk = sta.pmk
      /\ s.deauth = sta.deauth /\ s.list = sta.list /\ s.expire = sta.expire
  BY <1>3, InvGives DEF SuppT
<1> HIDE DEF s
<1>5. StaOK(cfg, s)
  BY <1>4, InvGives DEF StaOK, SuppOK, SuppStrict, SuppPrompt, Known
<1>6. ASSUME NEW p \in Keys \cup {NoKey} PROVE ConnOK(cfg, s, Msg1From(p))
  <2> DEFINE c == Msg1From(p)
  <2>1. /\ c \in ConnType /\ c.stage = "msg1" /\ c.bss = conn.bss /\ c.req = conn.req
    BY InvGives DEF Msg1From, ConnType, Stages
  <2> HIDE DEF c
  <2>2. StagesOK(cfg, s, c)
    BY <2>1, <1>1, <1>4, InvGives DEF StagesOK
  <2>3. CurrentOK(s, c)
    BY <2>1, <1>4, InvGives DEF CurrentOK
  <2>4. MskOK(cfg, s, c)
    BY <1>3, <1>4 DEF MskOK, Has
  <2> QED BY <2>1, <2>2, <2>3, <2>4 DEF ConnOK, c
<1>7. CASE conn.bss \notin cfg.local
  <2>1. ap' = ap /\ conn' = Msg1From(k)
    BY <1>2, <1>7 DEF Bss
  <2>2. ConnOK(cfg, s, Msg1From(k))
    BY <1>3, <1>6
  <2> QED BY <2>1, <2>2, <1>1, <1>2, <1>5, InvGives, InvAfter DEF s
<1>8. CASE conn.bss \in cfg.local
  <2> DEFINE b == ap[conn.bss]
             q == b.pmksa
             x == [b EXCEPT !.msk = k]
  <2>1. ap' = [ap EXCEPT ![conn.bss] = x]
    BY <1>2, <1>8 DEF Bss
  <2>2. ApOK(cfg, b) /\ q = b.pmksa
    BY <1>8, InvGives
  <2>3. b \in AuthT /\ q \in Keys \cup {NoKey}
    BY <2>2, AuthTypes DEF ApOK, AuthBase
  <2>4. ap'[conn.bss] = x /\ conn' = Msg1From(AuthInitPmk(x))
    <3> HIDE DEF x
    <3>1. ap'[conn.bss] = x
      BY <2>1, <1>8, InvGives
    <3> QED BY <3>1, <1>2, <1>8
  <2> HIDE DEF b, q
  <2>5. MachineDoes(cfg, b, q, k)
    BY <2>2, <1>3, MachineOK
  <2>6. x = [b EXCEPT !.pmksa = q, !.msk = k] /\ x.msk = k /\ x.pmksa = q
    BY <2>2, <2>3 DEF AuthT, AuthType
  <2>7. ApOK(cfg, x)
    BY <2>5, <2>6 DEF MachineDoes
  <2> HIDE DEF x
  <2>8. ApsOK(cfg, [ap EXCEPT ![conn.bss] = x])
    BY <2>7, InvGives, ApUpdate
  <2>9. AuthInitPmk(x) \in Keys \cup {NoKey}
    BY <2>3, <2>6, <1>3 DEF AuthInitPmk
  <2>10. ConnOK(cfg, s, Msg1From(AuthInitPmk(x)))
    BY <2>9, <1>6
  <2> QED BY <2>1, <2>4, <2>8, <2>10, <1>1, <1>2, <1>5, InvGives, InvAfter DEF s
<1> QED BY <1>7, <1>8

\* The AP starts EAP again.
LEMMA RestartOK ==
    ASSUME Inv, NEW asked \in BOOLEAN, conn.bss \in cfg.local
    PROVE  ApsOK(cfg, [ap EXCEPT ![conn.bss] = Restarted(ap[conn.bss], asked)])
<1> DEFINE b == ap[conn.bss]
           p == IF asked THEN NoKey ELSE b.pmksa
<1>1. ApOK(cfg, b) /\ b \in AuthT /\ p \in {b.pmksa, NoKey}
  BY InvGives
<1>2. Restarted(b, asked) = [b EXCEPT !.pmksa = p, !.msk = NoKey]
  <2> HIDE DEF b
  <2> QED BY <1>1 DEF Restarted, AuthT, AuthType
<1> HIDE DEF b, p
<1>3. MachineDoes(cfg, b, p, NoKey)
  BY <1>1, MachineOK
<1>4. ApOK(cfg, Restarted(b, asked))
  BY <1>2, <1>3 DEF MachineDoes
<1> QED BY <1>4, InvGives, ApUpdate DEF b

\* Likewise for a BSS of any AP.
LEMMA BssRestartOK ==
    ASSUME Inv, NEW a, a = Bss(conn.bss, LAMBDA b : Restarted(b, TRUE))
    PROVE  ApsOK(cfg, a)
<1>1. CASE conn.bss \in cfg.local
  <2>1. a = [ap EXCEPT ![conn.bss] = Restarted(ap[conn.bss], TRUE)]
    BY <1>1 DEF Bss
  <2> QED BY <2>1, <1>1, RestartOK
<1>2. CASE conn.bss \notin cfg.local
  BY <1>2, InvGives DEF Bss
<1> QED BY <1>1, <1>2

\* Back to EAP: the key of the last session is forgotten.
LEMMA EapAgainOK ==
    ASSUME Inv, conn.stage \in {"msg1", "ptk", "done"}, NEW s, StaOK(cfg, s),
           s.msk = NoKey, s.bss = sta.bss, s.cur # NoCur => s.cur.aa = conn.bss
    PROVE  ConnOK(cfg, s, AtEap)
<1> DEFINE k == AtEap
<1>1. k \in ConnType /\ k.stage = "eap" /\ k.bss = conn.bss /\ k.req = conn.req
  BY InvGives DEF AtEap, ConnType, Stages
<1> HIDE DEF k
<1>2. StagesOK(cfg, s, k)
  BY <1>1, InvGives DEF StagesOK
<1>3. CurrentOK(s, k)
  BY <1>1, InvGives DEF CurrentOK
<1>4. \A i \in 1 .. Len(s.list) : s.list[i].pmk # NoKey
  <2> SUFFICES ASSUME NEW i \in 1 .. Len(s.list) PROVE s.list[i].pmk # NoKey
    OBVIOUS
  <2>1. s.list[i] \in StaEntry
    BY SuppTypes DEF StaOK, SuppOK
  <2> QED BY <2>1, KeysAssumption DEF StaEntry, NoKey
<1>5. MskOK(cfg, s, k)
  BY <1>1, <1>4 DEF MskOK
<1> QED BY <1>1, <1>2, <1>3, <1>5 DEF ConnOK, k

\* Message 1/4.
LEMMA Msg1Step == ASSUME Inv, Msg1 PROVE Inv'
<1> DEFINE max == cfg.max
           aa == conn.bss
           pmk == conn.pmk
           life == cfg.life
           reauth == cfg.reauth
           r == GetPmk(sta, max, aa, pmk, life, reauth)
<1>1. conn.stage = "msg1" /\ cfg' = cfg
  BY DEF Msg1
<1>2. \/ r.res = "ok" /\ sta' = r.sm /\ conn' = At1("ptk") /\ ap' = ap
      \/ /\ r.res = "start"
         /\ sta' = r.sm /\ conn' = AtEap
         /\ ap' = Bss(conn.bss, LAMBDA b : Restarted(b, TRUE))
      \/ r.res = "fail" /\ Leave(r.sm, ap)
  BY DEF Msg1
<1>3. /\ max \in Nat /\ life \in 1 .. Lifetime /\ reauth \in 0 .. Lifetime
      /\ aa \in BSSs /\ aa \in cfg.bss /\ pmk \in Keys \cup {NoKey} /\ sta.bss = aa
      /\ aa = conn.bss /\ pmk = conn.pmk
  BY <1>1, InvGives, ConfigTypes DEF StagesOK
<1> HIDE DEF max, life, reauth, aa, pmk
<1>4. /\ sta.cur # NoCur => sta.cur.aa = aa
      /\ sta.msk # NoKey /\ pmk # sta.msk => ~Has(sta.list, aa, sta.msk)
  BY <1>1, <1>3, InvGives DEF CurrentOK, MskOK
<1>5. GetPmkDoes(r, sta, aa, pmk)
  BY <1>3, <1>4, InvGives, GetPmkOK
<1> HIDE DEF r
<1>6. /\ SuppOK(r.sm) /\ ~r.sm.deauth /\ r.sm.bss = sta.bss /\ r.sm.msk = sta.msk
      /\ r.sm.cur # NoCur => r.sm.cur.aa = aa
      /\ ~cfg.okc => SuppStrict(r.sm)
  BY <1>3, <1>5, InvGives DEF GetPmkDoes, MskOK
<1>7. StaOK(cfg, r.sm)
  BY <1>6 DEF StaOK
<1>8. CASE r.res = "ok" /\ sta' = r.sm /\ conn' = At1("ptk") /\ ap' = ap
  <2> DEFINE k == At1("ptk")
  <2>1. k \in ConnType /\ k.stage = "ptk" /\ k.bss = aa /\ k.req = conn.req /\ k.pmk = pmk
    BY <1>3, InvGives DEF At1, ConnType, Stages
  <2> HIDE DEF k
  <2>2. r.sm.pmk = pmk /\ (r.sm.cur # NoCur => r.sm.cur = [aa |-> aa, pmk |-> pmk])
    BY <1>5, <1>8 DEF GetPmkDoes
  <2>3. StagesOK(cfg, r.sm, k)
    BY <2>1, <2>2, <1>3, <1>6 DEF StagesOK
  <2>4. CurrentOK(r.sm, k)
    BY <2>1, <2>2, <1>3, <1>6, InvGives DEF CurrentOK
  <2>5. MskOK(cfg, r.sm, k)
    <3>1. sta.msk # NoKey /\ pmk # sta.msk => ~Has(r.sm.list, aa, sta.msk)
      BY <1>5, <1>8 DEF GetPmkDoes
    <3>2. ASSUME ~cfg.okc, NEW i \in 1 .. Len(r.sm.list), r.sm.list[i].pmk = sta.msk
          PROVE  r.sm.list[i].aa = aa
      <4>1. r.sm.list[i].aa = aa \/ \E j \in 1 .. Len(sta.list) : r.sm.list[i] = sta.list[j]
        BY <1>5 DEF GetPmkDoes
      <4> QED BY <4>1, <3>2, <1>3, InvGives DEF MskOK
    <3> QED BY <3>1, <3>2, <2>1, <1>6 DEF MskOK
  <2>6. ConnOK(cfg, r.sm, k)
    BY <2>1, <2>3, <2>4, <2>5 DEF ConnOK
  <2> QED BY <2>6, <1>1, <1>7, <1>8, InvGives, InvAfter DEF k
<1>9. CASE /\ r.res = "start" /\ sta' = r.sm /\ conn' = AtEap
           /\ ap' = Bss(conn.bss, LAMBDA b : Restarted(b, TRUE))
  <2>1. r.sm.msk = NoKey
    BY <1>5, <1>6, <1>9 DEF GetPmkDoes
  <2>2. ConnOK(cfg, r.sm, AtEap)
    BY <2>1, <1>1, <1>3, <1>6, <1>7, EapAgainOK
  <2>3. ApsOK(cfg, ap')
    BY <1>9, BssRestartOK
  <2> QED BY <2>2, <2>3, <1>1, <1>7, <1>9, InvGives DEF Inv
<1>10. CASE r.res = "fail" /\ Leave(r.sm, ap)
  BY <1>1, <1>6, <1>10, InvGives, LeaveOK
<1> QED BY <1>2, <1>8, <1>9, <1>10

\* A PMK for a station comes into the cache of a BSS.
LEMMA AuthAdded ==
    ASSUME Inv, NEW b \in cfg.local, NEW spa \in {Me} \cup Others, NEW pmk \in Keys \cup {OtherKey},
           NEW life \in cfg.sessions
    PROVE  ApsOK(cfg, [ap EXCEPT ![b] = AuthAdd(ap[b], Me, cfg.apMax,
                                          [spa |-> spa, pmk |-> pmk, ttl |-> life])])
<1> DEFINE e == [spa |-> spa, pmk |-> pmk, ttl |-> life]
           max == cfg.apMax
           x == ap[b]
           n == AuthAdd(x, Me, max, e)
<1>1. life \in 1 .. Lifetime /\ max \in Nat \ {0} /\ Lifetime \in Nat
  BY InvGives, ConfigTypes, LifetimeAssumption
<1>2. e \in ApEntry /\ e.ttl >= 0
  BY <1>1 DEF ApEntry, Floor
<1>3. ApOK(cfg, x) /\ max = cfg.apMax
  BY InvGives
<1> HIDE DEF e, max, x
<1>4. /\ AuthBase(n) /\ Points(n)
      /\ Strict(x, max) => Strict(n, max)
  BY <1>1, <1>2, <1>3, AuthAddOK DEF ApOK
<1> HIDE DEF n
<1>5. ApOK(cfg, n)
  BY <1>3, <1>4 DEF ApOK
<1>6. ApsOK(cfg, [ap EXCEPT ![b] = n])
  BY <1>5, InvGives, ApUpdate
<1> QED BY <1>6 DEF n, e, max, x

\* The handshake completes.
LEMMA CompleteStep == ASSUME Inv, Complete PROVE Inv'
<1> DEFINE s == Confirm(sta)
           k == [At1("done") EXCEPT !.req = NoCur, !.up = TRUE, !.authenticated = TRUE]
<1>1. conn.stage = "ptk" /\ sta.pmk = conn.pmk /\ sta' = s /\ conn' = k /\ cfg' = cfg
  BY DEF Complete
<1>2. /\ SuppOK(s) /\ Kept(s, sta) /\ s.cur = sta.cur /\ s.pmk = sta.pmk /\ s.deauth = sta.deauth
      /\ Len(s.list) = Len(sta.list)
      /\ \A i \in 1 .. Len(sta.list) :
           s.list[i].aa = sta.list[i].aa /\ s.list[i].pmk = sta.list[i].pmk
      /\ SuppStrict(sta) => SuppStrict(s)
  BY InvGives, ConfirmOK
<1> HIDE DEF s
<1>3. StaOK(cfg, s)
  BY <1>2, InvGives DEF StaOK
<1>4. ConnOK(cfg, s, conn)
  BY <1>2, InvGives, CacheChange
<1>5. k \in ConnType /\ k.stage = "done" /\ k.req = NoCur /\ k.bss = conn.bss /\ k.pmk = conn.pmk
  <2>1. NoCur \in [aa : BSSs \cup {NoBss}, pmk : Keys \cup {NoKey}]
    BY DEF NoCur
  <2> QED BY <2>1, InvGives DEF At1, ConnType, Stages
<1> HIDE DEF k
<1>6. ConnOK(cfg, s, k)
  <2>1. StagesOK(cfg, s, k)
    BY <1>1, <1>4, <1>5 DEF ConnOK, StagesOK
  <2>2. CurrentOK(s, k)
    BY <1>1, <1>4, <1>5 DEF ConnOK, CurrentOK
  <2>3. MskOK(cfg, s, k)
    BY <1>1, <1>4, <1>5 DEF ConnOK, MskOK
  <2> QED BY <2>1, <2>2, <2>3, <1>5 DEF ConnOK
<1>7. ApsOK(cfg, ap')
  <2>1. CASE ~(conn.bss \in cfg.local /\ ap[conn.bss].msk # NoKey /\ ~conn.authenticated)
    BY <2>1, InvGives DEF Complete
  <2>2. CASE conn.bss \in cfg.local /\ ap[conn.bss].msk # NoKey /\ ~conn.authenticated
    <3> DEFINE pmk == ap[conn.bss].msk
    <3>1. PICK life \in cfg.sessions :
            ap' = [ap EXCEPT ![conn.bss] =
                     AuthAdd(ap[conn.bss], Me, cfg.apMax, [spa |-> Me, pmk |-> pmk, ttl |-> life])]
      BY <2>2 DEF Complete
    <3>2. pmk \in Keys
      <4>1. ApOK(cfg, ap[conn.bss]) /\ pmk # NoKey
        BY <2>2, InvGives
      <4> QED BY <4>1, AuthTypes DEF ApOK, AuthBase
    <3> HIDE DEF pmk
    <3> QED BY <2>2, <3>1, <3>2, AuthAdded
  <2> QED BY <2>1, <2>2
<1> QED BY <1>1, <1>3, <1>6, <1>7, InvGives DEF Inv

\* The connection ends.
LEMMA DisconnectStep == ASSUME Inv, Disconnect PROVE Inv'
BY InvGives, LeaveOK DEF Disconnect

\* The AP authenticates the station anew.
LEMMA ApReauthStep == ASSUME Inv, ApReauth PROVE Inv'
<1> DEFINE s == [sta EXCEPT !.msk = NoKey]
<1>1. /\ conn.stage = "done" /\ conn.bss \in cfg.local /\ cfg' = cfg /\ sta' = s
      /\ conn' = AtEap /\ ap' = [ap EXCEPT ![conn.bss] = Restarted(ap[conn.bss], FALSE)]
  BY DEF ApReauth
<1>2. /\ s \in SuppT /\ s.msk = NoKey /\ s.cur = sta.cur /\ s.bss = sta.bss
      /\ s.deauth = sta.deauth /\ s.list = sta.list /\ s.expire = sta.expire
  BY InvGives DEF SuppT
<1> HIDE DEF s
<1>3. StaOK(cfg, s)
  BY <1>2, InvGives DEF StaOK, SuppOK, SuppStrict, SuppPrompt, Known
<1>4. ConnOK(cfg, s, AtEap)
  BY <1>1, <1>2, <1>3, InvGives, EapAgainOK DEF CurrentOK
<1>5. ApsOK(cfg, [ap EXCEPT ![conn.bss] = Restarted(ap[conn.bss], FALSE)])
  BY <1>1, RestartOK
<1> QED BY <1>1, <1>3, <1>4, <1>5, InvGives, InvAfter

\* The AP renews the PTK.
LEMMA ApPtkRekeyStep == ASSUME Inv, ApPtkRekey PROVE Inv'
<1> DEFINE k == At1("msg1")
<1>1. conn.stage = "done" /\ conn' = k /\ cfg' = cfg /\ ap' = ap /\ sta' = sta
  BY DEF ApPtkRekey
<1>2. k \in ConnType /\ k.stage = "msg1" /\ k.bss = conn.bss /\ k.req = conn.req /\ k.pmk = conn.pmk
  BY InvGives DEF At1, ConnType, Stages
<1> HIDE DEF k
<1>3. ConnOK(cfg, sta, k)
  <2>1. StagesOK(cfg, sta, k)
    BY <1>1, <1>2, InvGives DEF StagesOK
  <2>2. CurrentOK(sta, k)
    BY <1>1, <1>2, InvGives DEF CurrentOK
  <2>3. MskOK(cfg, sta, k)
    BY <1>1, <1>2, InvGives DEF MskOK
  <2> QED BY <2>1, <2>2, <2>3, <1>2 DEF ConnOK
<1> QED BY <1>1, <1>3 DEF Inv

\* Entries of the station expire.
LEMMA StaExpireStep == ASSUME Inv, StaExpire PROVE Inv'
<1> DEFINE s == Expire(sta)
<1>1. Go(s, conn, ap) /\ cfg' = cfg
  BY DEF StaExpire
<1>2. /\ SuppOK(s) /\ Kept(s, sta)
      /\ \A n \in 1 .. Len(s.list) : \E j \in 1 .. Len(sta.list) : s.list[n] = sta.list[j]
      /\ SuppStrict(sta) => SuppStrict(s)
  BY InvGives, ExpireOK
<1> HIDE DEF s
<1>3. (~s.deauth) => ConnOK(cfg, s, conn)
  BY <1>2, InvGives, CacheChange
<1> QED BY <1>1, <1>2, <1>3, InvGives, GoOK

\* The station flushes its cache.
LEMMA StaFlushStep == ASSUME Inv, StaFlush PROVE Inv'
<1> DEFINE s == Flush(sta, Range(sta.list))
<1>1. Go(s, conn, ap) /\ cfg' = cfg
  BY DEF StaFlush
<1>2. SuppOK(s) /\ Kept(s, sta) /\ s.list = <<>> /\ SuppStrict(s)
  BY InvGives, FlushAllOK
<1> HIDE DEF s
<1>3. \A n \in 1 .. Len(s.list) : FALSE
  BY <1>2
<1>4. (~s.deauth) => ConnOK(cfg, s, conn)
  BY <1>2, <1>3, InvGives, CacheChange
<1> QED BY <1>1, <1>2, <1>4, InvGives, GoOK

\* The station is to authenticate again before its PMKSA expires.
LEMMA StaReauthStep == ASSUME Inv, StaReauth PROVE Inv'
<1> DEFINE s == [sta EXCEPT !.cur = NoCur, !.reauth = NoTimer]
           m == [s EXCEPT !.msk = NoKey]
<1>1. /\ cfg' = cfg
      /\ \/ sta' = s /\ ap' = ap /\ conn' = conn
         \/ /\ conn.stage = "done" /\ sta' = m
            /\ ap' = Bss(conn.bss, LAMBDA b : Restarted(b, TRUE))
            /\ conn' = AtEap
  BY DEF StaReauth
<1>2. /\ s \in SuppT /\ s.msk = sta.msk /\ s.cur = NoCur /\ s.bss = sta.bss /\ s.pmk = sta.pmk
      /\ s.deauth = sta.deauth /\ s.list = sta.list /\ s.expire = sta.expire
  <2>1. NoCur \in [aa : BSSs \cup {NoBss}, pmk : Keys \cup {NoKey}] /\ NoTimer \in NoTimer .. Lifetime
    BY LifetimeAssumption DEF NoCur, NoTimer
  <2> QED BY <2>1, InvGives DEF SuppT
<1>3. /\ m \in SuppT /\ m.msk = NoKey /\ m.cur = NoCur /\ m.bss = sta.bss
      /\ m.deauth = sta.deauth /\ m.list = sta.list /\ m.expire = sta.expire
  <2> HIDE DEF s
  <2> QED BY <1>2 DEF SuppT
<1> HIDE DEF s, m
<1>4. StaOK(cfg, s) /\ StaOK(cfg, m)
  BY <1>2, <1>3, InvGives DEF StaOK, SuppOK, SuppStrict, SuppPrompt
<1>5. CASE sta' = s /\ ap' = ap /\ conn' = conn
  <2>1. Kept(s, sta) /\ ~s.deauth
    BY <1>2, InvGives DEF Kept
  <2>2. ConnOK(cfg, s, conn)
    BY <2>1, <1>2, InvGives, CacheChange
  <2> QED BY <2>2, <1>1, <1>4, <1>5, InvGives, InvAfter
<1>6. CASE /\ conn.stage = "done" /\ sta' = m
           /\ ap' = Bss(conn.bss, LAMBDA b : Restarted(b, TRUE))
           /\ conn' = AtEap
  <2>1. ConnOK(cfg, m, AtEap)
    BY <1>3, <1>4, <1>6, EapAgainOK
  <2>2. ApsOK(cfg, ap')
    BY <1>6, BssRestartOK
  <2> QED BY <2>1, <2>2, <1>1, <1>4, <1>6, InvGives DEF Inv
<1> QED BY <1>1, <1>5, <1>6

\* Preauthentication at another BSS: the cache of the station takes a new PMK,
\* and the connection outlives it unless a guessed entry shares the PMK in use.
LEMMA PreauthStep ==
    ASSUME Inv, NEW b \in cfg.bss, Preauth(b)
    PROVE  Inv' /\ (~cfg.okc => conn' = conn)
<1>1. b # conn.bss /\ cfg' = cfg
  BY DEF Preauth
<1>2. PICK k \in FreshKeys, life \in cfg.sessions :
        Go(Add(sta, cfg.max, b, k, cfg.life, cfg.reauth), conn,
           Bss(b, LAMBDA x : AuthAdd(x, Me, cfg.apMax, [spa |-> Me, pmk |-> k, ttl |-> life])))
  BY DEF Preauth
<1> DEFINE max == cfg.max
           life0 == cfg.life
           reauth == cfg.reauth
           s == Add(sta, max, b, k, life0, reauth)
           a == Bss(b, LAMBDA x : AuthAdd(x, Me, cfg.apMax, [spa |-> Me, pmk |-> k, ttl |-> life]))
<1>3. Go(s, conn, a)
  BY <1>2
<1>4. k \in Keys /\ k # sta.msk /\ \A i \in 1 .. Len(sta.list) : sta.list[i].pmk # k
  BY FreshOK
<1>5. max \in Nat /\ life0 \in 1 .. Lifetime /\ reauth \in 0 .. Lifetime /\ b \in BSSs
  BY InvGives, ConfigTypes
<1>6. ApsOK(cfg, a)
  <2>1. CASE b \in cfg.local
    <3>1. a = [ap EXCEPT ![b] = AuthAdd(ap[b], Me, cfg.apMax, [spa |-> Me, pmk |-> k, ttl |-> life])]
      BY <2>1 DEF Bss
    <3> HIDE DEF a
    <3> QED BY <2>1, <3>1, <1>4, AuthAdded
  <2>2. CASE b \notin cfg.local
    <3>1. a = ap
      BY <2>2 DEF Bss
    <3> QED BY <3>1, InvGives
  <2> QED BY <2>1, <2>2
<1> HIDE DEF max, life0, reauth, a
<1>7. AddDoes(s, sta, b, k)
  BY <1>4, <1>5, InvGives, AddOK
<1> HIDE DEF s
<1>8. SuppOK(s) /\ Kept(s, sta) /\ (SuppStrict(sta) => SuppStrict(s) /\ s.deauth = sta.deauth)
  BY <1>4, <1>7 DEF AddDoes
<1>9. (~s.deauth) => ConnOK(cfg, s, conn)
  <2> SUFFICES ASSUME ~s.deauth PROVE ConnOK(cfg, s, conn)
    OBVIOUS
  <2>1. \A n \in 1 .. Len(s.list) :
          \/ s.list[n].aa = b /\ s.list[n].pmk = k
          \/ \E j \in 1 .. Len(sta.list) : s.list[n] = sta.list[j]
    BY <1>7 DEF AddDoes
  <2>2. \A n \in 1 .. Len(s.list) :
          \/ \E j \in 1 .. Len(sta.list) :
               s.list[n].aa = sta.list[j].aa /\ s.list[n].pmk = sta.list[j].pmk
          \/ /\ conn.stage \in {"off", "auth"} \/ s.list[n].aa # conn.bss
             /\ cfg.okc \/ s.list[n].pmk # sta.msk
    BY <2>1, <1>1, <1>4
  <2> QED BY <2>2, <1>8, InvGives, CacheChange
<1>10. Inv'
  BY <1>1, <1>3, <1>6, <1>8, <1>9, InvGives, GoOK
<1>11. ~cfg.okc => conn' = conn
  BY <1>3, <1>8, InvGives DEF Go
<1> QED BY <1>10, <1>11

\* An entry for another BSS is guessed.
LEMMA ScanResultStep == ASSUME Inv, NEW b \in cfg.bss, ScanResult(b) PROVE Inv'
<1> DEFINE old == sta.list[1]
           max == cfg.max
           life == cfg.life
           reauth == cfg.reauth
           s == Clone(sta, max, b, old, life, reauth)
<1>1. /\ cfg.okc /\ sta.list # <<>> /\ b # sta.bss /\ (\A e \in At(sta, b) : e.opp)
      /\ sta' = s /\ cfg' = cfg /\ ap' = ap /\ conn' = conn
  BY DEF ScanResult
<1>2. /\ max \in Nat /\ life \in 1 .. Lifetime /\ reauth \in 0 .. Lifetime /\ b \in BSSs
      /\ old \in StaEntry
  BY <1>1, InvGives, ConfigTypes
<1>3. \A i \in 1 .. Len(sta.list) : sta.list[i].aa = b => sta.list[i].opp
  BY <1>1, InvGives, AtOK
<1> HIDE DEF old, max, life, reauth
<1>4. CloneDoes(s, sta, b, old)
  BY <1>2, InvGives, CloneOK
<1> HIDE DEF s
<1>5. SuppOK(s) /\ Kept(s, sta) /\ ~s.deauth
  BY <1>3, <1>4, InvGives DEF CloneDoes
<1>6. StaOK(cfg, s)
  BY <1>1, <1>5 DEF StaOK
<1>7. conn.stage \in {"off", "auth"} \/ b # conn.bss
  BY <1>1, InvGives DEF StagesOK
<1>8. \A n \in 1 .. Len(s.list) :
        \/ \E j \in 1 .. Len(sta.list) :
             s.list[n].aa = sta.list[j].aa /\ s.list[n].pmk = sta.list[j].pmk
        \/ /\ conn.stage \in {"off", "auth"} \/ s.list[n].aa # conn.bss
           /\ cfg.okc \/ s.list[n].pmk # sta.msk
  BY <1>1, <1>4, <1>7 DEF CloneDoes
<1>9. ConnOK(cfg, s, conn)
  BY <1>5, <1>8, InvGives, CacheChange
<1> QED BY <1>1, <1>6, <1>9, InvGives, InvAfter

\* The steps of a BSS that the station does not see.
LEMMA ApSteps ==
    ASSUME Inv, NEW b \in cfg.local,
           ApExpire(b) \/ ApRemove(b) \/ ApFlush(b) \/ \E o \in cfg.others : OtherAdds(b, o)
    PROVE  Inv' /\ UNCHANGED <<cfg, sta, conn>>
<1> DEFINE x == ap[b]
<1>1. ApOK(cfg, x) /\ cfg.apMax \in Nat
  BY InvGives, ConfigTypes
<1>2. UNCHANGED <<cfg, sta, conn>>
  BY DEF ApExpire, ApRemove, ApFlush, OtherAdds
<1>3. ApsOK(cfg, ap') => Inv'
  BY <1>2, InvGives DEF Inv
<1>4. CASE ApExpire(b)
  <2> DEFINE n == AuthExpire(x, Me)
  <2>1. ap' = [ap EXCEPT ![b] = n]
    BY <1>4 DEF ApExpire
  <2> HIDE DEF x
  <2>2. AuthBase(n) /\ Points(n) /\ \A max \in Nat : Strict(x, max) => Strict(n, max)
    BY <1>1, AuthExpireOK DEF ApOK
  <2> HIDE DEF n
  <2>3. ApOK(cfg, n)
    BY <2>2, <1>1 DEF ApOK
  <2>4. ApsOK(cfg, [ap EXCEPT ![b] = n])
    BY <2>3, InvGives, ApUpdate
  <2> QED BY <2>1, <2>4, <1>2, <1>3
<1>5. CASE ApRemove(b)
  <2> DEFINE n == AuthRemove(x, Me, Me)
  <2>1. ap' = [ap EXCEPT ![b] = n]
    BY <1>5 DEF ApRemove
  <2> HIDE DEF x
  <2>2. /\ AuthBase(n) /\ (Points(x) => Points(n)) /\ (Prompt(x) => Prompt(n))
        /\ (Unique(x.list) => Unique(n.list)) /\ Len(n.list) <= Len(x.list)
    BY <1>1, AuthRemoveOK DEF ApOK
  <2> HIDE DEF n
  <2>3. Len(n.list) \in Nat /\ Len(x.list) \in Nat
    BY <2>2, <1>1, AuthTypes DEF ApOK, AuthBase
  <2>4. ApOK(cfg, n)
    BY <2>2, <2>3, <1>1 DEF ApOK, Strict
  <2>5. ApsOK(cfg, [ap EXCEPT ![b] = n])
    BY <2>4, InvGives, ApUpdate
  <2> QED BY <2>1, <2>5, <1>2, <1>3
<1>6. CASE ApFlush(b)
  <2> DEFINE n == AuthFree(x, Me, DOMAIN x.list)
  <2>1. ap' = [ap EXCEPT ![b] = n]
    BY <1>6 DEF ApFlush
  <2> HIDE DEF x
  <2>2. /\ AuthBase(n) /\ (Points(x) => Points(n)) /\ (Prompt(x) => Prompt(n))
        /\ (Unique(x.list) => Unique(n.list)) /\ Len(n.list) <= Len(x.list)
    BY <1>1, AuthFreeOK DEF ApOK
  <2> HIDE DEF n
  <2>3. Len(n.list) \in Nat /\ Len(x.list) \in Nat
    BY <2>2, <1>1, AuthTypes DEF ApOK, AuthBase
  <2>4. ApOK(cfg, n)
    BY <2>2, <2>3, <1>1 DEF ApOK, Strict
  <2>5. ApsOK(cfg, [ap EXCEPT ![b] = n])
    BY <2>4, InvGives, ApUpdate
  <2> QED BY <2>1, <2>5, <1>2, <1>3
<1>7. ASSUME NEW o \in cfg.others, OtherAdds(b, o) PROVE Inv'
  <2>1. PICK life \in cfg.sessions :
          ap' = [ap EXCEPT ![b] = AuthAdd(ap[b], Me, cfg.apMax,
                                          [spa |-> o, pmk |-> OtherKey, ttl |-> life])]
    BY <1>7 DEF OtherAdds
  <2>2. o \in {Me} \cup Others /\ OtherKey \in Keys \cup {OtherKey}
    BY InvGives, ConfigTypes
  <2>3. ApsOK(cfg, ap')
    BY <2>1, <2>2, AuthAdded
  <2> QED BY <2>3, <1>2 DEF Inv
<1> QED BY <1>2, <1>4, <1>5, <1>6, <1>7

\* A second passes.
LEMMA TickStep == ASSUME Inv, Tick PROVE Inv'
<1> DEFINE s == SuppTick(sta)
           a == [b \in cfg.local |-> AuthTick(ap[b])]
<1>1. /\ sta.expire # 0 /\ sta.reauth # 0 /\ \A b \in cfg.local : ap[b].timer # 0
      /\ sta' = s /\ ap' = a /\ cfg' = cfg /\ conn' = conn
  BY DEF Tick
<1>2. /\ SuppOK(s) /\ Kept(s, sta) /\ s.deauth = sta.deauth
      /\ Len(s.list) = Len(sta.list)
      /\ \A i \in 1 .. Len(sta.list) :
           s.list[i].aa = sta.list[i].aa /\ s.list[i].pmk = sta.list[i].pmk
      /\ SuppStrict(sta) => SuppStrict(s)
  BY <1>1, InvGives, SuppTickOK
<1> HIDE DEF s
<1>3. StaOK(cfg, s)
  BY <1>2, InvGives DEF StaOK
<1>4. ConnOK(cfg, s, conn)
  BY <1>2, InvGives, CacheChange
<1>5. ASSUME NEW b \in cfg.local PROVE ApOK(cfg, AuthTick(ap[b]))
  <2> DEFINE x == ap[b]
             n == AuthTick(x)
  <2>1. ApOK(cfg, x) /\ x.timer # 0 /\ cfg.apMax \in Nat
    BY <1>1, InvGives, ConfigTypes
  <2> HIDE DEF x
  <2>2. AuthBase(n) /\ Points(n) /\ \A max \in Nat : Strict(x, max) => Strict(n, max)
    BY <2>1, AuthTickOK DEF ApOK
  <2>3. ApOK(cfg, n)
    <3> HIDE DEF n
    <3> QED BY <2>1, <2>2 DEF ApOK
  <2> QED BY <2>3 DEF x
<1>6. ApsOK(cfg, a)
  <2>1. \A b \in cfg.local : AuthTick(ap[b]) \in AuthT
    BY <1>5 DEF ApOK, AuthBase
  <2>2. a \in [cfg.local -> AuthT]
    BY <2>1
  <2>3. \A b \in cfg.local : a[b] = AuthTick(ap[b])
    OBVIOUS
  <2> HIDE DEF a
  <2> QED BY <2>2, <2>3, <1>5 DEF ApsOK
<1> HIDE DEF a
<1> QED BY <1>1, <1>3, <1>4, <1>6, InvGives, InvAfter

(***************************************************************************)
(* Theorems.                                                               *)
(***************************************************************************)

\* The invariant holds of the empty caches, and every step preserves it.
LEMMA InvInit == Init => Inv
<1> SUFFICES ASSUME Init PROVE Inv
  OBVIOUS
<1>1. cfg \in Configs /\ ap = [b \in cfg.local |-> NewAuth] /\ sta = NewSupp /\ conn = Off
  BY DEF Init
<1>2. NewAuth \in AuthT /\ NewAuth.list = <<>> /\ NewAuth.pmksa = NoKey /\ NewAuth.msk = NoKey
  BY LifetimeAssumption DEF NewAuth, AuthT, AuthType, NoTimer
<1>3. cfg.apMax \in Nat
  BY <1>1, ConfigTypes
<1>4. ApOK(cfg, NewAuth)
  <2>1. NoKey # OtherKey
    BY DEF NoKey, OtherKey
  <2> QED BY <2>1, <1>2, <1>3 DEF ApOK, AuthBase, Points, Strict, Prompt, Unique, Sorted
<1>5. ApsOK(cfg, ap)
  BY <1>1, <1>2, <1>4 DEF ApsOK
<1>6. /\ NewSupp \in SuppT /\ NewSupp.list = <<>> /\ NewSupp.cur = NoCur /\ ~NewSupp.deauth
      /\ NewSupp.bss = NoBss /\ NewSupp.pmk = NoKey /\ NewSupp.msk = NoKey
  BY LifetimeAssumption DEF NewSupp, SuppT, NoTimer, NoCur
<1>7. SuppOK(NewSupp) /\ SuppStrict(NewSupp)
  BY <1>6 DEF SuppOK, OnePerAp, SuppStrict, Sorted, OnePerPmk, SuppPrompt
<1>8. /\ Off \in ConnType /\ Off.stage = "off" /\ Off.req = NoCur
  BY DEF Off, ConnType, Stages, NoCur
<1>9. StaOK(cfg, NewSupp) /\ ConnOK(cfg, NewSupp, Off)
  BY <1>6, <1>7, <1>8 DEF StaOK, ConnOK, StagesOK, CurrentOK, MskOK, Fresh
<1> QED BY <1>1, <1>5, <1>9 DEF Inv

\* One step per action.
LEMMA InvNext == Inv /\ [Next]_vars => Inv'
<1> SUFFICES ASSUME Inv, [Next]_vars PROVE Inv'
  OBVIOUS
<1>1. CASE UNCHANGED vars
  BY <1>1 DEF vars, Inv
<1>2. ASSUME NEW b \in cfg.bss, SmeAuthenticate(b) PROVE Inv'
  BY <1>2, SmeAuthenticateStep
<1>3. ASSUME NEW b \in cfg.bss, Preauth(b) PROVE Inv'
  BY <1>3, PreauthStep
<1>4. ASSUME NEW b \in cfg.bss, ScanResult(b) PROVE Inv'
  BY <1>4, ScanResultStep
<1>5. ASSUME NEW b \in cfg.local,
             ApExpire(b) \/ ApRemove(b) \/ ApFlush(b) \/ \E o \in cfg.others : OtherAdds(b, o)
      PROVE  Inv'
  BY <1>5, ApSteps
<1>6. CASE Associate
  BY <1>6, AssociateStep
<1>7. CASE EapSuccess
  BY <1>7, EapSuccessStep
<1>8. CASE Msg1
  BY <1>8, Msg1Step
<1>9. CASE Complete
  BY <1>9, CompleteStep
<1>10. CASE Disconnect
  BY <1>10, DisconnectStep
<1>11. CASE ApReauth
  BY <1>11, ApReauthStep
<1>12. CASE ApPtkRekey
  BY <1>12, ApPtkRekeyStep
<1>13. CASE StaExpire
  BY <1>13, StaExpireStep
<1>14. CASE StaReauth
  BY <1>14, StaReauthStep
<1>15. CASE StaFlush
  BY <1>15, StaFlushStep
<1>16. CASE Tick
  BY <1>16, TickStep
<1> QED BY <1>1, <1>2, <1>3, <1>4, <1>5, <1>6, <1>7, <1>8, <1>9, <1>10, <1>11, <1>12, <1>13,
           <1>14, <1>15, <1>16 DEF Next

\* The invariant holds in every reachable state.
LEMMA AlwaysInv == Spec => []Inv
<1>1. Init => Inv
  BY InvInit
<1>2. Inv /\ [Next]_vars => Inv'
  BY InvNext
<1> QED BY <1>1, <1>2, PTL DEF Spec

\* TypeOK is always true, for all sets of BSSs, stations and keys, all lifetimes,
\* cache sizes and configurations.
THEOREM TypeCorrect == Spec => []TypeOK
<1>1. Inv => TypeOK
  <2> SUFFICES ASSUME Inv PROVE TypeOK
    OBVIOUS
  <2>1. cfg \in Configs /\ ap \in [cfg.local -> AuthT]
    BY InvGives
  <2>2. sta \in SuppT /\ sta.deauth \in {FALSE}
    <3>1. sta \in SuppT /\ ~sta.deauth /\ sta.deauth \in BOOLEAN
      BY InvGives, SuppTypes
    <3> QED BY <3>1
  <2>3. sta \in SuppType(BSSs, Keys, Lifetime)
    BY <2>2 DEF SuppT, SuppType, StaEntry
  <2>4. conn \in ConnType
    BY InvGives
  <2> QED BY <2>1, <2>3, <2>4 DEF TypeOK, AuthT, ConnType
<1> QED BY <1>1, AlwaysInv, PTL

\* Neither sm->pmksa of an AP nor cur_pmksa of the station is ever left pointing
\* to an entry that has been freed: whichever of replacement, eviction, expiry,
\* removal and flush removes it, in whatever stage the connection is.
THEOREM NoDanglingPmksa == Spec => []NothingDangles
<1>1. Inv => NothingDangles
  <2> SUFFICES ASSUME Inv PROVE NothingDangles
    OBVIOUS
  <2>1. sta.cur # NoCur => Known(sta, sta.cur)
    BY InvGives DEF SuppOK
  <2>2. ASSUME NEW b \in cfg.local, ap[b].pmksa # NoKey
        PROVE  \E e \in Range(ap[b].list) : e.spa = Me /\ e.pmk = ap[b].pmksa
    <3> DEFINE l == ap[b].list
               p == ap[b].pmksa
    <3>1. ApOK(cfg, ap[b]) /\ ap[b] \in AuthT
      BY InvGives
    <3>2. l \in Seq(ApEntry)
      BY <3>1, AuthTypes
    <3>3. PICK i \in 1 .. Len(l) : l[i].spa = Me /\ l[i].pmk = p
      BY <2>2, <3>1 DEF ApOK, Points, Holds
    <3> HIDE DEF l, p
    <3>4. l[i] \in Range(l)
      BY <3>2, RangeOK
    <3> QED BY <3>3, <3>4 DEF l, p
  <2> QED BY <2>1, <2>2 DEF NothingDangles
<1> QED BY <1>1, AlwaysInv, PTL

\* Station and AP enter the 4-way handshake with the same PMK, whatever has
\* happened to the two caches since the association.
THEOREM SamePmk == Spec => []PmkAgreement
<1>1. Inv => PmkAgreement
  BY InvGives DEF StagesOK, PmkAgreement
<1> QED BY <1>1, AlwaysInv, PTL

\* The current entry of a station that is connected is that of its AP, with the
\* PMK in use.
THEOREM UsesCurrent == Spec => []CurrentIsUsed
<1>1. Inv => CurrentIsUsed
  BY InvGives DEF CurrentOK, CurrentIsUsed
<1> QED BY <1>1, AlwaysInv, PTL

\* Without opportunistic key caching no entry outlives its expiration time by
\* more than a second, at either end.
THEOREM EntriesExpire == Spec => []NoExpiredEntry
<1>1. Inv => NoExpiredEntry
  <2> SUFFICES ASSUME Inv, ~cfg.okc
               PROVE  /\ \A e \in Range(sta.list) : e.ttl >= -1
                      /\ \A b \in cfg.local : \A e \in Range(ap[b].list) : e.ttl >= -1
    BY DEF NoExpiredEntry
  <2>1. ASSUME NEW T, Timed(T), NEW l \in Seq(T), Sorted(l), l # <<>> => l[1].ttl >= -1,
               NEW e \in Range(l)
        PROVE  e.ttl >= -1
    <3>1. PICK i \in 1 .. Len(l) : e = l[i]
      BY <2>1, RangeOK
    <3>2. Len(l) \in Nat /\ 1 \in 1 .. Len(l) /\ l # <<>> /\ 1 <= i
      BY <2>1, <3>1
    <3>3. l[1].ttl <= l[i].ttl /\ l[1].ttl \in Int /\ l[i].ttl \in Int
      BY <2>1, <3>1, <3>2 DEF Sorted, Timed
    <3> QED BY <2>1, <3>1, <3>2, <3>3
  <2>2. \A e \in Range(sta.list) : e.ttl >= -1
    <3> DEFINE l == sta.list
    <3>1. Timed(StaEntry) /\ l \in Seq(StaEntry) /\ Sorted(l) /\ (l # <<>> => l[1].ttl >= -1)
      BY InvGives, SuppTypes DEF SuppStrict, SuppPrompt
    <3> HIDE DEF l
    <3>2. \A e \in Range(l) : e.ttl >= -1
      BY <3>1, <2>1
    <3> QED BY <3>2 DEF l
  <2>3. ASSUME NEW b \in cfg.local PROVE \A e \in Range(ap[b].list) : e.ttl >= -1
    <3> DEFINE l == ap[b].list
    <3>1. ApOK(cfg, ap[b]) /\ ap[b] \in AuthT
      BY InvGives
    <3>2. Timed(ApEntry) /\ l \in Seq(ApEntry) /\ Sorted(l) /\ (l # <<>> => l[1].ttl >= -1)
      BY <3>1, AuthTypes DEF ApOK, AuthBase, Strict, Prompt
    <3> HIDE DEF l
    <3>3. \A e \in Range(l) : e.ttl >= -1
      BY <3>2, <2>1
    <3> QED BY <3>3 DEF l
  <2> QED BY <2>2, <2>3
<1> QED BY <1>1, AlwaysInv, PTL

\* A cache that is not empty has a timeout, in time for its first entry.
THEOREM AlwaysScheduled == Spec => []ExpiryScheduled
<1>1. Inv => ExpiryScheduled
  <2> SUFFICES ASSUME Inv PROVE ExpiryScheduled
    OBVIOUS
  <2>1. ASSUME sta.list # <<>>
        PROVE  sta.expire # NoTimer /\ (~cfg.okc => sta.expire <= ExpireIn(sta.list[1].ttl))
    <3>1. sta.expire # NoTimer
      BY <2>1, InvGives DEF SuppOK
    <3>2. ASSUME ~cfg.okc PROVE sta.expire <= ExpireIn(sta.list[1].ttl)
      <4> DEFINE t == sta.list[1].ttl
                 x == sta.expire
      <4>1. t >= -1 /\ x <= t + 1
        BY <2>1, <3>2, InvGives DEF SuppStrict, SuppPrompt
      <4>2. t \in Int /\ x \in Int
        <5>1. sta.list[1] \in StaEntry
          BY <2>1, InvGives
        <5>2. x \in -1 .. Lifetime + 1
          BY InvGives, SuppTypes
        <5> QED BY <5>1, <5>2, SuppTypes, LifetimeAssumption DEF Timed
      <4> HIDE DEF t, x
      <4>3. x <= ExpireIn(t)
        BY <4>1, <4>2 DEF ExpireIn
      <4> QED BY <4>3 DEF t, x
    <3> QED BY <3>1, <3>2
  <2>2. \A b \in cfg.local : ap[b].list # <<>> => ap[b].timer \in 0 .. ExpireIn(ap[b].list[1].ttl)
    BY InvGives DEF ApOK, AuthBase
  <2> QED BY <2>1, <2>2 DEF ExpiryScheduled
<1> QED BY <1>1, AlwaysInv, PTL

\* Without opportunistic key caching an AP has one entry per station, and never
\* more than it may have.
THEOREM OnePerStation == Spec => []OneEntryPerStation
<1>1. Inv => OneEntryPerStation
  <2> SUFFICES ASSUME Inv, ~cfg.okc, NEW b \in cfg.local
               PROVE  /\ Len(ap[b].list) <= cfg.apMax
                      /\ \A i, j \in DOMAIN ap[b].list : ap[b].list[i].spa = ap[b].list[j].spa => i = j
    BY DEF OneEntryPerStation
  <2>1. ApOK(cfg, ap[b]) /\ ap[b] \in AuthT
    BY InvGives
  <2>2. ap[b].list \in Seq(ApEntry)
    BY <2>1, AuthTypes
  <2>3. DOMAIN ap[b].list = 1 .. Len(ap[b].list)
    BY <2>2
  <2> QED BY <2>1, <2>3 DEF ApOK, Strict, Unique
<1> QED BY <1>1, AlwaysInv, PTL

\* Without opportunistic key caching the station never loses its connection to
\* the arrival of another PMK, however full its cache is.
THEOREM PreauthSparesConnection == Spec => CurrentSpared
<1>1. Inv /\ [Next]_vars => [~cfg.okc => \A b \in cfg.bss : Preauth(b) => conn' = conn]_vars
  BY PreauthStep
<1> QED BY <1>1, AlwaysInv, PTL DEF Spec, CurrentSpared

=============================================================================
