----------------------------- MODULE NaturalFacts -----------------------------
(* Least and greatest elements of sets of naturals, from the well-foundedness  *)
(* of <, for the definitions that pick an extremum with CHOOSE; that functions *)
(* defined step by step exist; what the operators of Ordered return; and       *)
(* sequences in which nothing occurs twice.                                    *)
EXTENDS Ordered, Integers, FiniteSetTheorems, SequenceTheorems, TLAPS

Below == {p \in Nat \X Nat : p[1] < p[2]}

(* < is well founded on the naturals, as a set of pairs. *)
LEMMA BelowWellFounded == IsWellFoundedOn(Below, Nat)
  BY NatLessThanWellFounded DEF OpToRel, Below

(* A non-empty set of naturals has a least element. *)
LEMMA LeastNatural ==
  ASSUME NEW S, S \subseteq Nat, S # {}
  PROVE  \E x \in S : \A y \in S : x <= y
<1>1. \E x \in S : \A y \in S : ~ (<<y, x>> \in Below)
  BY BelowWellFounded, WFMin, Zenon
<1>2. PICK x \in S : \A y \in S : ~ (<<y, x>> \in Below)
  BY <1>1
<1>3. \A y \in S : y < x => <<y, x>> \in Below
  BY DEF Below
<1>4. \A y \in S : ~ (y < x)
  BY <1>2, <1>3
<1>5. \A y \in S : x <= y
  BY <1>4
<1> QED BY <1>5

(* A non-empty set of naturals with an upper bound has a greatest element. *)
LEMMA GreatestNatural ==
  ASSUME NEW N \in Nat, NEW S, S \subseteq 0 .. N, S # {}
  PROVE  \E m \in S : \A k \in S : m >= k
<1> DEFINE T == {u \in Nat : \E k \in S : u = N - k}
<1>1. \A k \in S : N - k \in T
  OBVIOUS
<1>2. T \subseteq Nat /\ T # {}
  BY <1>1
<1>3. \E t \in T : \A u \in T : t <= u
  <2> HIDE DEF T
  <2> QED BY <1>2, LeastNatural
<1>4. PICK t \in T : \A u \in T : t <= u
  BY <1>3
<1>5. PICK m \in S : t = N - m
  OBVIOUS
<1>6. \A k \in S : m >= k
  BY <1>4, <1>5, <1>1
<1> QED BY <1>6

----------------------------------------------------------------------------
(* Ordered *)

\* How many elements of S come no later than x.
Place(S, x) == Cardinality({y \in S : y <= x})

(* The place of an element is a number up to the size of the set, and a larger *)
(* one has a later place.                                                      *)
LEMMA PlacesRise ==
  ASSUME NEW S \in SUBSET Nat, IsFiniteSet(S), NEW x \in S
  PROVE  /\ Place(S, x) \in 1 .. Cardinality(S) /\ Cardinality(S) \in Nat
         /\ \A z \in S : x < z => Place(S, x) < Place(S, z)
<1> DEFINE UpTo(u) == {y \in S : y <= u}
<1>1. ASSUME NEW u \in S
      PROVE  /\ IsFiniteSet(UpTo(u)) /\ Cardinality(UpTo(u)) \in Nat
             /\ Cardinality(UpTo(u)) <= Cardinality(S) /\ u \in UpTo(u)
  <2>1. UpTo(u) \in SUBSET S /\ u \in UpTo(u)
    OBVIOUS
  <2> HIDE DEF UpTo
  <2> QED BY <2>1, FS_Subset, FS_CardinalityType
<1>2. Cardinality(S) \in Nat
  BY FS_CardinalityType
<1>3. Cardinality(UpTo(x)) >= 1
  <2>1. UpTo(x) # {}
    BY <1>1
  <2> HIDE DEF UpTo
  <2> QED BY <1>1, <2>1, FS_EmptySet
<1>4. ASSUME NEW z \in S, x < z
      PROVE  Cardinality(UpTo(x)) < Cardinality(UpTo(z))
  <2>0. x \in Nat /\ z \in Nat /\ \A y \in S : y \in Nat
    OBVIOUS
  <2>1. UpTo(x) \in SUBSET UpTo(z) /\ z \in UpTo(z) /\ z \notin UpTo(x)
    <3>1. \A y \in S : y <= x => y <= z
      BY <1>4, <2>0
    <3>2. ~(z <= x) /\ z <= z
      BY <1>4, <2>0
    <3> QED BY <3>1, <3>2
  <2> HIDE DEF UpTo
  <2>2. /\ Cardinality(UpTo(x)) <= Cardinality(UpTo(z))
        /\ Cardinality(UpTo(x)) # Cardinality(UpTo(z))
    BY <1>1, <2>1, FS_Subset
  <2> QED BY <1>1, <2>2
<1> QED BY <1>1, <1>2, <1>3, <1>4 DEF Place

(* A larger set gives its elements no earlier places. *)
LEMMA PlacesGrow ==
  ASSUME NEW T \in SUBSET Nat, IsFiniteSet(T), NEW S \in SUBSET T, NEW x
  PROVE  Place(S, x) \in Nat /\ Place(T, x) \in Nat /\ Place(S, x) <= Place(T, x)
<1> DEFINE A == {y \in S : y <= x}  B == {y \in T : y <= x}
<1>1. A \in SUBSET B /\ B \in SUBSET T
  OBVIOUS
<1> HIDE DEF A, B
<1>2. IsFiniteSet(B) /\ IsFiniteSet(A) /\ Cardinality(A) <= Cardinality(B)
  BY <1>1, FS_Subset
<1>3. Cardinality(A) \in Nat /\ Cardinality(B) \in Nat
  BY <1>2, FS_CardinalityType
<1> QED BY <1>2, <1>3 DEF A, B, Place

(* Places within a set L do not fall when the elements of a larger set K are moved   *)
(* to their places in K, and P is a set that has all of L there.                     *)
LEMMA PlacesCarryOver ==
  ASSUME NEW K \in SUBSET Nat, IsFiniteSet(K), NEW L \in SUBSET K,
         NEW P \in SUBSET Nat, IsFiniteSet(P), \A j \in L : Place(K, j) \in P,
         NEW i \in L
  PROVE  Place(L, i) <= Place(P, Place(K, i))
<1> DEFINE U == {j \in L : j <= i}
           V == {q \in P : q <= Place(K, i)}
           f == [j \in U |-> Place(K, j)]
<1>1. \A j, k \in K : j < k => Place(K, j) < Place(K, k)
  BY PlacesRise
<1>2. \A j \in K : j \in Nat /\ Place(K, j) \in Nat
  <2>1. \A j \in K : Place(K, j) \in 1 .. Cardinality(K) /\ Cardinality(K) \in Nat
    BY PlacesRise
  <2> QED BY <2>1
<1>3. ASSUME NEW j \in U
      PROVE  Place(K, j) \in V
  <2>1. j \in K /\ i \in K /\ (j < i \/ j = i)
    BY <1>2
  <2> QED BY <1>1, <1>2, <2>1
<1>4. ASSUME NEW j \in U, NEW k \in U, Place(K, j) = Place(K, k)
      PROVE  j = k
  <2>1. j \in K /\ k \in K /\ (j < k \/ j = k \/ k < j)
    BY <1>2
  <2> QED BY <1>1, <1>2, <1>4, <2>1
<1>5. f \in Injection(U, V)
  <2> HIDE DEF U, V
  <2> QED BY <1>3, <1>4 DEF Injection, IsInjective
<1>6. IsFiniteSet(V)
  <2>1. V \in SUBSET P
    OBVIOUS
  <2> HIDE DEF V
  <2> QED BY <2>1, FS_Subset
<1>7. Cardinality(U) <= Cardinality(V)
  <2> HIDE DEF U, V, f
  <2> QED BY <1>5, <1>6, FS_Injection
<1> QED BY <1>7 DEF Place

(* Ascending(S) has every element of S at its place.                           *)
LEMMA AscendingSorts ==
  ASSUME NEW S \in SUBSET Nat, IsFiniteSet(S)
  PROVE  /\ Cardinality(S) \in Nat
         /\ Ascending(S) \in [1 .. Cardinality(S) -> S]
         /\ \A k \in 1 .. Cardinality(S) : Place(S, Ascending(S)[k]) = k
         /\ \A x \in S : Place(S, x) \in 1 .. Cardinality(S) /\ Ascending(S)[Place(S, x)] = x
<1> DEFINE n == Cardinality(S)
           place == [x \in S |-> Place(S, x)]
<1>1. n \in Nat
  BY FS_CardinalityType
<1>2. \A x \in S : place[x] = Place(S, x) /\ place[x] \in 1 .. n
  BY PlacesRise
<1>3. \A x, z \in S : place[x] = place[z] => x = z
  <2>1. TAKE x, z \in S
  <2>2. x < z => Place(S, x) < Place(S, z)
    BY PlacesRise
  <2>3. z < x => Place(S, z) < Place(S, x)
    BY PlacesRise
  <2> QED BY <1>2, <2>2, <2>3
<1>4. place \in Injection(S, 1 .. n)
  BY <1>2, <1>3 DEF Injection, IsInjective
<1>5. IsFiniteSet(1 .. n) /\ Cardinality(1 .. n) = n
  BY <1>1, FS_Interval
<1>6. place \in Surjection(S, 1 .. n)
  <2> HIDE DEF place
  <2> QED BY <1>4, <1>5, FS_Injection
<1>7. \A k \in 1 .. n : \E x \in S : place[x] = k
  BY <1>6 DEF Surjection
<1>8. ASSUME NEW k \in 1 .. n
      PROVE  Ascending(S)[k] \in S /\ Place(S, Ascending(S)[k]) = k
  <2>1. \E x \in S : Place(S, x) = k
    BY <1>2, <1>7
  <2>2. Ascending(S)[k] = CHOOSE x \in S : Place(S, x) = k
    BY DEF Ascending, Place
  <2> QED BY <2>1, <2>2
<1>9. Ascending(S) \in [1 .. n -> S]
  BY <1>8 DEF Ascending
<1>10. ASSUME NEW x \in S
       PROVE  Ascending(S)[Place(S, x)] = x
  <2>1. Place(S, x) \in 1 .. n
    BY <1>2
  <2>2. PICK z \in S : z = Ascending(S)[Place(S, x)] /\ Place(S, z) = Place(S, x)
    BY <2>1, <1>8
  <2> QED BY <2>2, <1>2, <1>3
<1> QED BY <1>1, <1>2, <1>8, <1>9, <1>10

(* A finite non-empty set of naturals has a greatest element. *)
LEMMA LargestNatural ==
  ASSUME NEW S \in SUBSET Nat, IsFiniteSet(S), S # {}
  PROVE  \E m \in S : \A k \in S : m >= k
<1> DEFINE n == Cardinality(S)  m == Ascending(S)[n]
<1>1. n \in Nat /\ n # 0
  BY FS_CardinalityType, FS_EmptySet
<1>2. m \in S /\ Place(S, m) = n
  <2>1. n \in 1 .. n
    BY <1>1
  <2> QED BY <2>1, AscendingSorts
<1>3. ASSUME NEW k \in S
      PROVE  m >= k
  <2>1. Place(S, k) \in 1 .. n
    BY PlacesRise
  <2>2. m < k => Place(S, m) < Place(S, k)
    BY <1>2, PlacesRise
  <2> HIDE DEF m, n
  <2> QED BY <1>1, <1>2, <2>1, <2>2
<1> QED BY <1>2, <1>3

(* Picked(s, S) has the elements of s at the positions in S, each at its place. *)
LEMMA PickedOf ==
  ASSUME NEW T, NEW s \in Seq(T), NEW S \in SUBSET (DOMAIN s)
  PROVE  /\ S \in SUBSET Nat /\ IsFiniteSet(S) /\ Cardinality(S) \in Nat
         /\ Picked(s, S) \in Seq(T) /\ Len(Picked(s, S)) = Cardinality(S)
         /\ DOMAIN Picked(s, S) = 1 .. Cardinality(S)
         /\ \A k \in 1 .. Cardinality(S) :
              Ascending(S)[k] \in S /\ Picked(s, S)[k] = s[Ascending(S)[k]]
         /\ \A i \in S : Place(S, i) \in 1 .. Cardinality(S) /\ Picked(s, S)[Place(S, i)] = s[i]
         /\ \A k, l \in 1 .. Cardinality(S) : Ascending(S)[k] = Ascending(S)[l] => k = l
<1> DEFINE n == Cardinality(S)
<1>1. DOMAIN s = 1 .. Len(s) /\ Len(s) \in Nat /\ \A i \in DOMAIN s : s[i] \in T
  OBVIOUS
<1>2. S \in SUBSET Nat /\ IsFiniteSet(S)
  <2>1. IsFiniteSet(1 .. Len(s))
    BY <1>1, FS_Interval
  <2> QED BY <1>1, <2>1, FS_Subset
<1>3. /\ n \in Nat /\ Ascending(S) \in [1 .. n -> S]
      /\ \A k \in 1 .. n : Place(S, Ascending(S)[k]) = k
      /\ \A x \in S : Place(S, x) \in 1 .. n /\ Ascending(S)[Place(S, x)] = x
  BY <1>2, AscendingSorts
<1>4. Picked(s, S) = [k \in 1 .. n |-> s[Ascending(S)[k]]]
  BY DEF Picked
<1> HIDE DEF n
<1>5. Picked(s, S) \in [1 .. n -> T]
  BY <1>1, <1>3, <1>4
<1>6. Picked(s, S) \in Seq(T) /\ Len(Picked(s, S)) = n /\ DOMAIN Picked(s, S) = 1 .. n
  BY <1>3, <1>5
<1> QED BY <1>2, <1>3, <1>4, <1>6 DEF n

----------------------------------------------------------------------------
(* Steps *)

(* A product with a larger factor is larger by the other. *)
LEMMA Heavier ==
  ASSUME NEW c \in Nat, NEW x \in Nat, NEW y \in Nat, x < y
  PROVE  c * x + c <= c * y /\ c * x \in Nat /\ c * y \in Nat
<1>1. PICK d \in Nat : y = x + 1 + d
  <2>1. y - x - 1 \in Nat /\ y = x + 1 + (y - x - 1)
    OBVIOUS
  <2> QED BY <2>1
<1>2. c * y = c * x + c + c * d /\ c * d \in Nat /\ c * x \in Nat /\ c * y \in Nat
  BY <1>1
<1> QED BY <1>2

(* What holds of 0 and, of a number up to n, if it holds of the one before, holds up to n. *)
LEMMA StepByStep ==
  ASSUME NEW n \in Nat, NEW G, 0 \in G, \A k \in 1 .. n : k - 1 \in G => k \in G
  PROVE  \A k \in 0 .. n : k \in G
<1> DEFINE Bad == {k \in Nat : k <= n /\ k \notin G}
<1> SUFFICES ASSUME Bad # {} PROVE FALSE
  OBVIOUS
<1>1. PICK k \in Bad : \A l \in Bad : k <= l
  BY LeastNatural, Bad \subseteq Nat
<1>2. k \in Nat /\ k <= n /\ k \notin G /\ k # 0
  OBVIOUS
<1>3. k \in 1 .. n /\ k - 1 \in Nat /\ k - 1 <= n /\ ~(k <= k - 1)
  BY <1>2
<1>4. k - 1 \notin Bad
  <2> HIDE DEF Bad
  <2> QED BY <1>1, <1>3
<1> QED BY <1>2, <1>3, <1>4

(* A state for every number up to n, each made from the one before. *)
Stepwise(f, n, S, s0, step) ==
  f \in [0 .. n -> S] /\ f[0] = s0 /\ \A k \in 1 .. n : f[k] = step[<<k, f[k - 1]>>]

LEMMA StepsExist ==
  ASSUME NEW n \in Nat, NEW S, NEW s0 \in S, NEW step \in [(1 .. n) \X S -> S]
  PROVE  \E f : Stepwise(f, n, S, s0, step)
<1> DEFINE Made(f, k) == f[k] = IF k = 0 THEN s0 ELSE step[<<k, f[k - 1]>>]
           Ok(m) == \E f \in [0 .. n -> S] : \A k \in 0 .. n : k <= m => Made(f, k)
           G == {m \in 0 .. n : Ok(m)}
<1>1. Ok(0)
  <2>1. [k \in 0 .. n |-> s0] \in [0 .. n -> S] /\ \A k \in 0 .. n : k <= 0 => k = 0
    OBVIOUS
  <2>2. \A k \in 0 .. n : k <= 0 => Made([j \in 0 .. n |-> s0], k)
    BY <2>1
  <2> QED BY <2>1, <2>2
<1>2. ASSUME NEW m \in 1 .. n, Ok(m - 1)
      PROVE  Ok(m)
  <2>1. PICK f \in [0 .. n -> S] : \A k \in 0 .. n : k <= m - 1 => Made(f, k)
    BY <1>2
  <2> DEFINE g == [k \in 0 .. n |-> IF k = m THEN step[<<m, f[m - 1]>>] ELSE f[k]]
  <2>2. g \in [0 .. n -> S]
    <3>1. m \in 0 .. n => m \in 1 .. n /\ m - 1 \in 0 .. n
      OBVIOUS
    <3>2. m \in 0 .. n => step[<<m, f[m - 1]>>] \in S
      BY <3>1
    <3> QED BY <3>2
  <2>3. ASSUME NEW k \in 0 .. n, k <= m
        PROVE  Made(g, k)
    <3>1. CASE k = m
      <4>1. m - 1 \in 0 .. n /\ m - 1 # m /\ m # 0 /\ m \in 0 .. n
        BY <3>1
      <4>2. g[m - 1] = f[m - 1] /\ g[m] = step[<<m, f[m - 1]>>]
        BY <4>1
      <4> HIDE DEF g
      <4> QED BY <3>1, <4>1, <4>2
    <3>2. CASE k # m
      <4>1. k <= m - 1 /\ (k # 0 => k - 1 \in 0 .. n /\ k - 1 # m)
        BY <2>3, <3>2
      <4>2. g[k] = f[k] /\ (k # 0 => g[k - 1] = f[k - 1])
        BY <3>2, <4>1
      <4> HIDE DEF g
      <4> QED BY <2>1, <4>1, <4>2
    <3> QED BY <3>1, <3>2
  <2> HIDE DEF g
  <2> QED BY <2>2, <2>3
<1>3. \A m \in 0 .. n : m \in G
  <2> HIDE DEF Ok
  <2>1. \A m \in 1 .. n : m - 1 \in G => m \in G
    BY <1>2
  <2>2. 0 \in G
    BY <1>1
  <2> HIDE DEF G
  <2> QED BY <2>1, <2>2, StepByStep
<1>4. PICK f \in [0 .. n -> S] : \A k \in 0 .. n : k <= n => Made(f, k)
  <2>1. Ok(n)
    <3>1. n \in 0 .. n
      OBVIOUS
    <3> HIDE DEF Ok
    <3> QED BY <1>3, <3>1
  <2> QED BY <2>1
<1>5. f[0] = s0 /\ \A k \in 1 .. n : f[k] = step[<<k, f[k - 1]>>]
  <2>1. \A k \in 0 .. n : Made(f, k)
    BY <1>4
  <2>2. 0 \in 0 .. n /\ \A k \in 1 .. n : k \in 0 .. n /\ k # 0
    OBVIOUS
  <2> QED BY <2>1, <2>2
<1> QED BY <1>5 DEF Stepwise

----------------------------------------------------------------------------
(* Sequences without repetition. *)

Elements(s) == {s[k] : k \in DOMAIN s}
Once(s) == \A k, l \in DOMAIN s : s[k] = s[l] => k = l

\* order has every element of N once.
Lists(order, N) == order \in Seq(N) /\ Once(order) /\ Elements(order) = N

(* The elements of P in a listing. *)
LEMMA PickedLists ==
  ASSUME NEW N, NEW order, Lists(order, N), NEW P \in SUBSET N
  PROVE  Lists(Picked(order, {i \in DOMAIN order : order[i] \in P}), P)
<1> DEFINE S == {i \in DOMAIN order : order[i] \in P}
           q == Picked(order, S)
<1>0. order \in Seq(N) /\ Once(order) /\ Elements(order) = N /\ S \in SUBSET (DOMAIN order)
  BY DEF Lists
<1>1. \A i \in S : order[i] \in P
  OBVIOUS
<1>2. \A n \in P : \E i \in S : n = order[i]
  BY <1>0 DEF Elements
<1>3. \A i, j \in S : order[i] = order[j] => i = j
  BY <1>0 DEF Once
<1> HIDE DEF S
<1>4. /\ Cardinality(S) \in Nat
      /\ q \in Seq(N) /\ Len(q) = Cardinality(S) /\ DOMAIN q = 1 .. Cardinality(S)
      /\ \A k \in 1 .. Cardinality(S) : Ascending(S)[k] \in S /\ q[k] = order[Ascending(S)[k]]
      /\ \A i \in S : Place(S, i) \in 1 .. Cardinality(S) /\ q[Place(S, i)] = order[i]
      /\ \A k, l \in 1 .. Cardinality(S) : Ascending(S)[k] = Ascending(S)[l] => k = l
  BY <1>0, PickedOf
<1> HIDE DEF q
<1>5. Elements(q) = P
  <2>1. \A n \in P : \E k \in DOMAIN q : q[k] = n
    BY <1>2, <1>4
  <2>2. \A k \in DOMAIN q : q[k] \in P
    BY <1>1, <1>4
  <2> QED BY <2>1, <2>2 DEF Elements
<1>6. Once(q)
  <2> SUFFICES ASSUME NEW k \in DOMAIN q, NEW l \in DOMAIN q, q[k] = q[l] PROVE k = l
    BY DEF Once
  <2>1. Ascending(S)[k] = Ascending(S)[l]
    BY <1>3, <1>4
  <2> QED BY <1>4, <2>1
<1>7. q \in Seq(P)
  <2>1. \A k \in 1 .. Len(q) : q[k] \in P
    BY <1>4, <1>5 DEF Elements
  <2>2. q \in [1 .. Len(q) -> P] /\ Len(q) \in Nat
    BY <1>4, <2>1
  <2> QED BY <2>2
<1> QED BY <1>5, <1>6, <1>7 DEF Lists, q, S

(* One more element, one less at the head, and two sequences together. *)
LEMMA Longer ==
  ASSUME NEW N, NEW s \in Seq(N), NEW h \in N
  PROVE  /\ Append(s, h) \in Seq(N) /\ Elements(Append(s, h)) = Elements(s) \cup {h}
         /\ Once(s) /\ h \notin Elements(s) => Once(Append(s, h))
         /\ Len(Append(s, h)) = Len(s) + 1 /\ Len(s) \in Nat /\ DOMAIN s = 1 .. Len(s)
         /\ DOMAIN Append(s, h) = 1 .. Len(s) + 1 /\ Append(s, h)[Len(s) + 1] = h
         /\ \A k \in 1 .. Len(s) : Append(s, h)[k] = s[k]
<1> DEFINE t == Append(s, h)
<1>1. /\ t \in Seq(N) /\ Len(t) = Len(s) + 1 /\ Len(s) \in Nat /\ DOMAIN s = 1 .. Len(s)
      /\ DOMAIN t = 1 .. Len(s) + 1 /\ t[Len(s) + 1] = h
      /\ \A k \in 1 .. Len(s) : t[k] = s[k]
  OBVIOUS
<1> HIDE DEF t
<1>2. \A k \in DOMAIN t : k \in 1 .. Len(s) \/ k = Len(s) + 1
  BY <1>1
<1>3. Elements(t) = Elements(s) \cup {h}
  <2>1. \A k \in DOMAIN t : t[k] \in Elements(s) \cup {h}
    BY <1>1, <1>2 DEF Elements
  <2>2. \A k \in DOMAIN s : s[k] \in Elements(t)
    BY <1>1 DEF Elements
  <2>3. h \in Elements(t)
    <3>1. Len(s) + 1 \in DOMAIN t
      BY <1>1
    <3> QED BY <1>1, <3>1 DEF Elements
  <2> QED BY <2>1, <2>2, <2>3 DEF Elements
<1>4. Once(s) /\ h \notin Elements(s) => Once(t)
  BY <1>1, <1>2 DEF Once, Elements
<1> QED BY <1>1, <1>3, <1>4 DEF t

LEMMA Shorter ==
  ASSUME NEW N, NEW s \in Seq(N), s # <<>>
  PROVE  /\ Head(s) \in Elements(s) /\ Head(s) \in N /\ Tail(s) \in Seq(N)
         /\ Elements(s) = Elements(Tail(s)) \cup {Head(s)}
         /\ Once(s) => Once(Tail(s)) /\ Head(s) \notin Elements(Tail(s))
<1> DEFINE t == Tail(s)
<1>1. /\ Len(s) \in Nat \ {0} /\ DOMAIN s = 1 .. Len(s) /\ t \in Seq(N)
      /\ DOMAIN t = 1 .. (Len(s) - 1) /\ \A k \in DOMAIN t : t[k] = s[k + 1]
      /\ Head(s) = s[1] /\ s[1] \in N
  <2>1. Len(s) \in Nat \ {0} /\ DOMAIN s = 1 .. Len(s) /\ Head(s) = s[1] /\ s[1] \in N
    BY EmptySeq
  <2>2. t \in Seq(N) /\ Len(t) = Len(s) - 1 /\ \A k \in 1 .. Len(t) : t[k] = s[k + 1]
    BY HeadTailProperties
  <2> HIDE DEF t
  <2>3. DOMAIN t = 1 .. Len(t)
    BY <2>2
  <2> QED BY <2>1, <2>2, <2>3 DEF t
<1> HIDE DEF t
<1>2. /\ 1 \in DOMAIN s
      /\ \A k \in DOMAIN t : k + 1 \in DOMAIN s /\ k + 1 # 1
      /\ \A k \in DOMAIN s : k = 1 \/ (k - 1 \in DOMAIN t /\ k = (k - 1) + 1)
      /\ \A k, l \in DOMAIN t : k + 1 = l + 1 => k = l
  BY <1>1
<1>3. Elements(s) = Elements(t) \cup {s[1]}
  <2>1. \A k \in DOMAIN s : s[k] \in Elements(t) \cup {s[1]}
    BY <1>1, <1>2 DEF Elements
  <2>2. \A k \in DOMAIN t : t[k] \in Elements(s)
    BY <1>1, <1>2 DEF Elements
  <2> QED BY <1>2, <2>1, <2>2 DEF Elements
<1>4. Once(s) => Once(t) /\ s[1] \notin Elements(t)
  BY <1>1, <1>2 DEF Once, Elements
<1> QED BY <1>1, <1>2, <1>3, <1>4 DEF Elements, t

LEMMA TwoJoined ==
  ASSUME NEW N, NEW s \in Seq(N), NEW t \in Seq(N)
  PROVE  /\ s \o t \in Seq(N) /\ Elements(s \o t) = Elements(s) \cup Elements(t)
         /\ Once(s) /\ Once(t) /\ Elements(s) \cap Elements(t) = {} => Once(s \o t)
         /\ \A k \in DOMAIN (s \o t) :
              \/ k \in DOMAIN s /\ (s \o t)[k] = s[k]
              \/ k - Len(s) \in DOMAIN t /\ (s \o t)[k] = t[k - Len(s)] /\ k > Len(s)
         /\ Len(s) \in Nat /\ DOMAIN s = 1 .. Len(s) /\ DOMAIN (s \o t) \subseteq Nat
<1> DEFINE u == s \o t
<1>1. /\ u \in Seq(N) /\ Len(s) \in Nat /\ Len(t) \in Nat
      /\ DOMAIN u = 1 .. (Len(s) + Len(t)) /\ DOMAIN s = 1 .. Len(s) /\ DOMAIN t = 1 .. Len(t)
      /\ \A k \in 1 .. Len(s) + Len(t) : u[k] = IF k <= Len(s) THEN s[k] ELSE t[k - Len(s)]
  <2>1. u \in Seq(N) /\ Len(u) = Len(s) + Len(t)
        /\ \A k \in 1 .. Len(s) + Len(t) : u[k] = IF k <= Len(s) THEN s[k] ELSE t[k - Len(s)]
    BY ConcatProperties
  <2> HIDE DEF u
  <2>2. DOMAIN u = 1 .. Len(u) /\ Len(s) \in Nat /\ Len(t) \in Nat
        /\ DOMAIN s = 1 .. Len(s) /\ DOMAIN t = 1 .. Len(t)
    BY <2>1
  <2> QED BY <2>1, <2>2
<1> HIDE DEF u
<1>2. \A k \in DOMAIN u : \/ k \in DOMAIN s /\ u[k] = s[k]
                          \/ k - Len(s) \in DOMAIN t /\ u[k] = t[k - Len(s)] /\ k > Len(s)
  <2> TAKE k \in DOMAIN u
  <2>1. k \in Nat /\ k >= 1 /\ k <= Len(s) + Len(t)
    BY <1>1
  <2>2. CASE k <= Len(s)
    BY <1>1, <2>1, <2>2
  <2>3. CASE ~(k <= Len(s))
    BY <1>1, <2>1, <2>3
  <2> QED BY <2>2, <2>3
<1>3. /\ \A k \in DOMAIN s : k \in DOMAIN u /\ u[k] = s[k]
      /\ \A k \in DOMAIN t : k + Len(s) \in DOMAIN u /\ u[k + Len(s)] = t[k]
  <2>1. \A k \in DOMAIN t : /\ k + Len(s) \in 1 .. Len(s) + Len(t)
                            /\ ~(k + Len(s) <= Len(s)) /\ (k + Len(s)) - Len(s) = k
    BY <1>1
  <2>2. \A k \in DOMAIN s : k \in 1 .. Len(s) + Len(t) /\ k <= Len(s)
    BY <1>1
  <2> QED BY <1>1, <2>1, <2>2
<1>4. Elements(u) = Elements(s) \cup Elements(t)
  BY <1>2, <1>3 DEF Elements
<1>5. ASSUME Once(s), Once(t), Elements(s) \cap Elements(t) = {}
      PROVE  Once(u)
  <2> SUFFICES ASSUME NEW k \in DOMAIN u, NEW l \in DOMAIN u, u[k] = u[l] PROVE k = l
    BY DEF Once
  <2>1. CASE k \in DOMAIN s /\ u[k] = s[k] /\ l \in DOMAIN s /\ u[l] = s[l]
    BY <1>5, <2>1 DEF Once
  <2>2. CASE k - Len(s) \in DOMAIN t /\ u[k] = t[k - Len(s)] /\ l - Len(s) \in DOMAIN t /\ u[l] = t[l - Len(s)]
    <3>1. k - Len(s) = l - Len(s)
      BY <1>5, <2>2 DEF Once
    <3> QED BY <1>1, <3>1
  <2>3. CASE k \in DOMAIN s /\ u[k] = s[k] /\ l - Len(s) \in DOMAIN t /\ u[l] = t[l - Len(s)]
    BY <1>5, <2>3 DEF Elements
  <2>4. CASE k - Len(s) \in DOMAIN t /\ u[k] = t[k - Len(s)] /\ l \in DOMAIN s /\ u[l] = s[l]
    BY <1>5, <2>4 DEF Elements
  <2> QED BY <1>2, <2>1, <2>2, <2>3, <2>4
<1> QED BY <1>1, <1>2, <1>4, <1>5 DEF u

\* No more elements than the set has.
LEMMA OnceFits ==
  ASSUME NEW N, IsFiniteSet(N), NEW s \in Seq(N), Once(s)
  PROVE  Len(s) \in Nat /\ Cardinality(N) \in Nat /\ Len(s) <= Cardinality(N)
<1>1. Len(s) \in Nat /\ DOMAIN s = 1 .. Len(s) /\ \A k \in 1 .. Len(s) : s[k] \in N
  OBVIOUS
<1>2. s \in Injection(1 .. Len(s), N)
  <2>1. s \in [1 .. Len(s) -> N]
    OBVIOUS
  <2> QED BY <1>1, <2>1 DEF Injection, IsInjective, Once
<1>3. Cardinality(1 .. Len(s)) = Len(s)
  <2>1. \A m \in Nat : IsFiniteSet(1 .. m) /\ Cardinality(1 .. m) = m
    BY FS_Interval
  <2> QED BY <1>1, <2>1
<1> QED BY <1>1, <1>2, <1>3, FS_Injection, FS_CardinalityType

LEMMA ListsFill ==
  ASSUME NEW N, IsFiniteSet(N), NEW s, Lists(s, N)
  PROVE  Len(s) = Cardinality(N)
<1>0. s \in Seq(N) /\ Once(s) /\ Elements(s) = N
  BY DEF Lists
<1>1. Len(s) \in Nat /\ DOMAIN s = 1 .. Len(s)
  BY <1>0
<1>2. s \in Surjection(1 .. Len(s), N)
  <2>1. s \in [1 .. Len(s) -> N]
    BY <1>0
  <2> QED BY <1>0, <1>1, <2>1 DEF Surjection, Elements
<1>3. IsFiniteSet(1 .. Len(s)) /\ Cardinality(1 .. Len(s)) = Len(s)
  <2>1. \A m \in Nat : IsFiniteSet(1 .. m) /\ Cardinality(1 .. m) = m
    BY FS_Interval
  <2> QED BY <1>1, <2>1
<1>4. Cardinality(N) <= Len(s)
  BY <1>2, <1>3, FS_Surjection
<1> QED BY <1>0, <1>4, OnceFits
=============================================================================
