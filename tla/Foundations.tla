----------------------------- MODULE Foundations -----------------------------
(***************************************************************************)
(* Arithmetic, minimal elements and sums over finite sets, as the proofs   *)
(* of the components need them.  What holds of every finite set or of      *)
(* every number is shown by a minimal counterexample: the family of the    *)
(* sets for which it fails has no smallest member, so it is empty.         *)
(***************************************************************************)
EXTENDS FiniteSetsExt, FiniteSetTheorems, TLAPS

(* Division with remainder. *)
LEMMA DivMod ==
  ASSUME NEW x \in Nat, NEW p \in Nat \ {0}
  PROVE  /\ x \div p \in Nat /\ x % p \in 0 .. p - 1
         /\ x = (x \div p) * p + (x % p)
  OBVIOUS

LEMMA Multiple ==
  ASSUME NEW x \in Nat, NEW p \in Nat \ {0}, x % p = 0
  PROVE  x \div p \in Nat /\ x = (x \div p) * p
  <1>1. x \div p \in Nat /\ x = (x \div p) * p + (x % p)
    BY DivMod
  <1>2. (x \div p) * p \in Nat
    BY <1>1
  <1> QED
    BY <1>1, <1>2

(* A number has one quotient. *)
LEMMA OneQuotient ==
  ASSUME NEW p \in Nat \ {0}, NEW q1 \in Int, NEW q2 \in Int,
         NEW r1 \in 0 .. p - 1, NEW r2 \in 0 .. p - 1,
         q1 * p + r1 = q2 * p + r2
  PROVE  q1 = q2
  <1>1. CASE q1 < q2
    <2>1. PICK k \in Nat : q2 = q1 + 1 + k
      BY <1>1
    <2>2. q2 * p = q1 * p + p + k * p
      BY <2>1
    <2>3. k * p \in Nat
      BY <2>1
    <2> QED
      BY <2>2, <2>3
  <1>2. CASE q2 < q1
    <2>1. PICK k \in Nat : q1 = q2 + 1 + k
      BY <1>2
    <2>2. q1 * p = q2 * p + p + k * p
      BY <2>1
    <2>3. k * p \in Nat
      BY <2>1
    <2> QED
      BY <2>2, <2>3
  <1> QED
    BY <1>1, <1>2

(* A number below the divisor is its own remainder. *)
LEMMA SmallRemainder ==
  ASSUME NEW x \in Nat, NEW p \in Nat \ {0}, x < p
  PROVE  x % p = x
  <1> DEFINE q == x \div p
             r == x % p
  <1>1. q \in Nat /\ r \in 0 .. p - 1 /\ x = q * p + r
    BY DivMod
  <1> HIDE DEF q, r
  <1>2. 0 * p = 0 /\ x \in 0 .. p - 1 /\ q * p + r = 0 * p + x
    BY <1>1
  <1>3. q = 0
    BY <1>1, <1>2, OneQuotient
  <1> QED
    BY <1>1, <1>2, <1>3 DEF r

(* A multiple of i below another one is at least i below it. *)
LEMMA NextMultiple ==
  ASSUME NEW i \in Nat \ {0}, NEW m \in Int, NEW n \in Int, m * i < n * i
  PROVE  m * i + i <= n * i
  <1>1. m < n
    <2> SUFFICES ASSUME n <= m PROVE FALSE
      OBVIOUS
    <2>1. PICK k \in Nat : m = n + k
      OBVIOUS
    <2>2. m * i = n * i + k * i /\ k * i \in Nat
      BY <2>1
    <2> QED
      BY <2>2
  <1>2. PICK k \in Nat : n = m + 1 + k
    BY <1>1
  <1>3. n * i = m * i + i + k * i /\ k * i \in Nat
    BY <1>2
  <1> QED
    BY <1>3

-----------------------------------------------------------------------------
(* A non-empty family of subsets of a finite set has a minimal member.     *)
LEMMA SetMin ==
  ASSUME NEW S, IsFiniteSet(S), NEW T, \A V \in T : V \subseteq S, T # {}
  PROVE  \E U \in T : \A V \in T : V \subseteq U => V = U
<1>0. IsWellFoundedOn(StrictSubsetOrdering(S), SUBSET S)
  BY FS_StrictSubsetOrderingWellFounded, FS_FiniteSubsetsOfFinite
<1>2. T \subseteq SUBSET S
  OBVIOUS
<1>1. PICK U \in T : \A V \in T : ~(<<V, U>> \in StrictSubsetOrdering(S))
  BY <1>0, <1>2, WFMin
<1> QED
  BY <1>1 DEF StrictSubsetOrdering

(* A non-empty set of naturals has a least element: one of its members     *)
(* begins a shortest interval.                                             *)
LEMMA NatMin ==
  ASSUME NEW T, T \subseteq Nat, T # {}
  PROVE  \E n \in T : \A m \in T : n <= m
<1>1. PICK k \in T : k \in Nat
  OBVIOUS
<1> DEFINE I == {0 .. n : n \in T \cap (0 .. k)}
<1>2. IsFiniteSet(0 .. k)
  BY <1>1, FS_Interval
<1>3. (\A V \in I : V \subseteq 0 .. k) /\ I # {}
  BY <1>1
<1>4. PICK U \in I : \A V \in I : V \subseteq U => V = U
  <2> HIDE DEF I
  <2> QED
    BY <1>2, <1>3, SetMin
<1>5. PICK n \in T \cap (0 .. k) : U = 0 .. n
  BY <1>4
<1>6. ASSUME NEW m \in T, m < n
      PROVE  FALSE
  <2>1. m \in Nat /\ n \in Nat /\ k \in Nat /\ m \in 0 .. k
    BY <1>1, <1>5, <1>6
  <2>2. 0 .. m \in I /\ 0 .. m \subseteq 0 .. n /\ n \in 0 .. n /\ n \notin 0 .. m
    BY <1>6, <2>1
  <2> QED
    BY <2>2, <1>4, <1>5
<1>7. \A m \in T : m \in Nat /\ n \in Nat
  BY <1>5
<1> QED
  BY <1>5, <1>6, <1>7

-----------------------------------------------------------------------------
(* The order in which MapThenSumSet takes the elements of a set, and what  *)
(* it computes: g gives the sum of f over every subset of S.               *)
FirstOf(s) == CHOOSE x \in s : TRUE
RestOf(s) == s \ {FirstOf(s)}

LEMMA RestSmaller ==
  ASSUME NEW s, s # {}
  PROVE  FirstOf(s) \in s /\ RestOf(s) \subseteq s /\ RestOf(s) # s
BY DEF FirstOf, RestOf

IsSum(f, S, g) ==
  g = [s \in SUBSET S |-> IF s = {} THEN 0 ELSE f[FirstOf(s)] + g[RestOf(s)]]

(* Two such functions agree wherever both are defined.                     *)
LEMMA SumUnique ==
  ASSUME NEW f, NEW A, NEW B, IsFiniteSet(A),
         NEW g, IsSum(f, A, g), NEW h, IsSum(f, B, h),
         NEW U, U \subseteq A, U \subseteq B
  PROVE  g[U] = h[U]
<1> DEFINE Bad == {V \in SUBSET A : V \subseteq B /\ g[V] # h[V]}
<1> SUFFICES ASSUME Bad # {} PROVE FALSE
  OBVIOUS
<1>1. PICK V \in Bad : \A W \in Bad : W \subseteq V => W = V
  <2>1. \A W \in Bad : W \subseteq A
    OBVIOUS
  <2> HIDE DEF Bad
  <2> QED
    BY <2>1, SetMin
<1>2. V # {}
  BY DEF IsSum
<1>3. g[RestOf(V)] = h[RestOf(V)]
  BY <1>1, <1>2, RestSmaller
<1>4. g[V] = f[FirstOf(V)] + g[RestOf(V)]
  BY <1>2 DEF IsSum
<1>5. h[V] = f[FirstOf(V)] + h[RestOf(V)]
  BY <1>2 DEF IsSum
<1> QED
  BY <1>3, <1>4, <1>5

(* There is one for every finite set.                                      *)
LEMMA SumExists ==
  ASSUME NEW f, NEW S, IsFiniteSet(S)
  PROVE  \E g : IsSum(f, S, g)
<1> DEFINE Bad == {V \in SUBSET S : ~ \E g : IsSum(f, V, g)}
<1> SUFFICES ASSUME Bad # {} PROVE FALSE
  OBVIOUS
<1>1. PICK T \in Bad : \A W \in Bad : W \subseteq T => W = T
  <2>1. \A W \in Bad : W \subseteq S
    OBVIOUS
  <2> HIDE DEF Bad
  <2> QED
    BY <2>1, SetMin
<1> DEFINE Of(V) == CHOOSE g : IsSum(f, V, g)
           Value(V) == IF V = {} THEN 0 ELSE f[FirstOf(V)] + Of(RestOf(V))[RestOf(V)]
           h == [V \in SUBSET T |-> Value(V)]
<1>2. ASSUME NEW V, V \subseteq T, V # T
      PROVE  IsSum(f, V, Of(V)) /\ IsFiniteSet(V)
  <2>1. V \notin Bad
    BY <1>1, <1>2
  <2>2. \E g : IsSum(f, V, g)
    BY <2>1, <1>1, <1>2
  <2>3. IsSum(f, V, Of(V))
    BY <2>2
  <2> QED
    BY <2>3, <1>1, <1>2, FS_Subset
<1>3. ASSUME NEW V, V \subseteq T, V # T
      PROVE  Of(V)[V] = Value(V)
  <2> DEFINE g == Of(V)
  <2>0. IsSum(f, V, g)
    BY <1>2, <1>3
  <2>1. CASE V = {}
    <3> HIDE DEF g
    <3>1. g[V] = 0
      BY <2>0, <2>1 DEF IsSum
    <3> QED
      BY <3>1, <2>1 DEF g
  <2>2. CASE V # {}
    <3>1. RestOf(V) \subseteq V /\ RestOf(V) \subseteq T /\ RestOf(V) # T
      BY <2>2, <1>3, RestSmaller
    <3>2. IsSum(f, RestOf(V), Of(RestOf(V))) /\ IsFiniteSet(RestOf(V))
      BY <1>2, <3>1
    <3> DEFINE r == Of(RestOf(V))
    <3> HIDE DEF g, r
    <3>3. g[RestOf(V)] = r[RestOf(V)]
      BY <3>1, <3>2, <2>0, <1>2, <1>3, SumUnique DEF r
    <3>4. g[V] = f[FirstOf(V)] + g[RestOf(V)]
      BY <2>0, <2>2 DEF IsSum
    <3> QED
      BY <3>3, <3>4, <2>2 DEF g, r
  <2> QED
    BY <2>1, <2>2
<1>4. ASSUME NEW V \in SUBSET T, V # {}
      PROVE  h[V] = f[FirstOf(V)] + h[RestOf(V)]
  <2>1. RestOf(V) \subseteq T /\ RestOf(V) # T
    BY <1>4, RestSmaller
  <2>2. h[RestOf(V)] = Of(RestOf(V))[RestOf(V)]
    BY <2>1, <1>3
  <2> QED
    BY <1>4, <2>2
<1>5. IsSum(f, T, h)
  <2>1. h = [V \in SUBSET T |-> h[V]] /\ h[{}] = 0
    OBVIOUS
  <2> HIDE DEF h
  <2> QED
    BY <2>1, <1>4 DEF IsSum
<1> QED
  BY <1>5, <1>1

SumOver(f, S) == MapThenSumSet(LAMBDA p : f[p], S)

(* The library's sum is its value at the whole set.                        *)
LEMMA SumDef ==
  ASSUME NEW f, NEW S, IsFiniteSet(S)
  PROVE  \E g : IsSum(f, S, g) /\ SumOver(f, S) = g[S]
<1> DEFINE g == CHOOSE g : IsSum(f, S, g)
<1>1. IsSum(f, S, g)
  BY SumExists
<1>2. SumOver(f, S) = g[S]
  BY DEF SumOver, MapThenSumSet, MapThenFoldSet, IsSum, FirstOf, RestOf
<1> QED
  BY <1>1, <1>2

(* Adding to one term adds as much to the sum.                             *)
LEMMA SumAdd ==
  ASSUME NEW S, IsFiniteSet(S), NEW f \in [S -> Int], NEW x \in S, NEW d \in Int,
         NEW e, e[x] = f[x] + d, \A y \in S \ {x} : e[y] = f[y]
  PROVE  SumOver(f, S) \in Int /\ SumOver(e, S) = SumOver(f, S) + d
<1>1. PICK g : IsSum(f, S, g) /\ SumOver(f, S) = g[S]
  BY SumDef
<1>2. PICK h : IsSum(e, S, h) /\ SumOver(e, S) = h[S]
  BY SumDef
<1> DEFINE Good(V) == g[V] \in Int /\ h[V] = g[V] + (IF x \in V THEN d ELSE 0)
           Bad == {V \in SUBSET S : ~Good(V)}
<1> SUFFICES ASSUME Bad # {} PROVE FALSE
  BY <1>1, <1>2
<1>3. PICK V \in Bad : \A W \in Bad : W \subseteq V => W = V
  <2>1. \A W \in Bad : W \subseteq S
    OBVIOUS
  <2> HIDE DEF Bad
  <2> QED
    BY <2>1, SetMin
<1>4. V # {}
  BY <1>1, <1>2, <1>3 DEF IsSum
<1>5. FirstOf(V) \in V /\ RestOf(V) \subseteq V /\ Good(RestOf(V))
  <2>1. FirstOf(V) \in V /\ RestOf(V) \subseteq V /\ RestOf(V) # V
    BY <1>4, RestSmaller
  <2> QED
    BY <1>3, <2>1
<1>6. g[V] = f[FirstOf(V)] + g[RestOf(V)]
  BY <1>1, <1>3, <1>4 DEF IsSum
<1>7. h[V] = e[FirstOf(V)] + h[RestOf(V)]
  BY <1>2, <1>3, <1>4 DEF IsSum
<1>8. FirstOf(V) \in S /\ f[FirstOf(V)] \in Int
  BY <1>3, <1>5
<1>9. e[FirstOf(V)] = f[FirstOf(V)] + (IF FirstOf(V) = x THEN d ELSE 0)
  BY <1>8
<1>10. x \in V <=> FirstOf(V) = x \/ x \in RestOf(V)
  BY <1>5 DEF RestOf
<1>11. ~(FirstOf(V) = x /\ x \in RestOf(V))
  BY DEF RestOf
<1>12. Good(V)
  BY <1>5, <1>6, <1>7, <1>8, <1>9, <1>10, <1>11
<1> QED
  BY <1>3, <1>12

(* Nothing adds up to nothing.                                             *)
LEMMA SumZero ==
  ASSUME NEW S, IsFiniteSet(S)
  PROVE  SumOver([p \in S |-> 0], S) = 0
<1> DEFINE f == [p \in S |-> 0]
<1>1. PICK g : IsSum(f, S, g) /\ SumOver(f, S) = g[S]
  <2> HIDE DEF f
  <2> QED
    BY SumDef
<1> DEFINE Bad == {V \in SUBSET S : g[V] # 0}
<1> SUFFICES ASSUME Bad # {} PROVE FALSE
  BY <1>1
<1>3. PICK V \in Bad : \A W \in Bad : W \subseteq V => W = V
  <2>1. \A W \in Bad : W \subseteq S
    OBVIOUS
  <2> HIDE DEF Bad
  <2> QED
    BY <2>1, SetMin
<1>4. V # {}
  BY <1>1, <1>3 DEF IsSum
<1>5. FirstOf(V) \in S /\ g[RestOf(V)] = 0
  BY <1>3, <1>4, RestSmaller
<1>6. g[V] = f[FirstOf(V)] + g[RestOf(V)]
  BY <1>1, <1>3, <1>4 DEF IsSum
<1> QED
  BY <1>3, <1>5, <1>6
=============================================================================
