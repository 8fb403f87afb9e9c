------------------------------ MODULE SetFacts ------------------------------
(***************************************************************************)
(* Facts about finite sets, sums over them and division, that the proofs of  *)
(* the components share.  They rest on one principle, LeastSubset: of some   *)
(* subsets of a finite set one has no other within it.  It takes the place   *)
(* of induction, with the set of the counterexamples for the predicate.      *)
(***************************************************************************)
EXTENDS Integers, FiniteSets, FiniteSetsExt, FiniteSetTheorems, TLAPS

\* of some subsets of a finite set one has no other within it
LEMMA LeastSubset ==
  ASSUME NEW S, IsFiniteSet(S), NEW F, F # {}, \A s \in F : s \subseteq S
  PROVE  \E s \in F : \A u \in F : u \subseteq s => u = s
<1> SUFFICES \E s \in F : \A u \in F : << u, s >> \notin StrictSubsetOrdering(S)
  BY DEF StrictSubsetOrdering
<1>1. IsWellFoundedOn(StrictSubsetOrdering(S), SUBSET S)
  BY FS_StrictSubsetOrderingWellFounded, FS_FiniteSubsetsOfFinite
<1>2. F \subseteq SUBSET S
  OBVIOUS
<1> QED
  BY <1>1, <1>2, WFMin

(***************************************************************************)
(* A finite set of numbers that is not empty has a least and a greatest      *)
(* element: what is below the least, or above the greatest, is a least       *)
(* subset.                                                                 *)
(***************************************************************************)
LEMMA HasLeast ==
  ASSUME NEW S, IsFiniteSet(S), \A z \in S : z \in Int, S # {}
  PROVE  \E x \in S : \A y \in S : x <= y
<1> DEFINE Below(x) == { y \in S : y < x }
           F == { Below(x) : x \in S }
<1>1. PICK s \in F : \A u \in F : u \subseteq s => u = s
  <2>1. F # {} /\ \A u \in F : u \subseteq S
    OBVIOUS
  <2> HIDE DEF F
  <2> QED
    BY <2>1, LeastSubset
<1>2. PICK x \in S : s = Below(x)
  BY <1>1
<1>3. ASSUME NEW y \in S, y < x PROVE FALSE
  <2>1. Below(y) \subseteq Below(x)
    BY <1>3
  <2>2. Below(y) = Below(x)
    BY <1>1, <1>2, <2>1
  <2> QED
    BY <1>3, <2>2
<1> QED
  BY <1>3

\* the same, upwards
LEMMA HasGreatest ==
  ASSUME NEW S, IsFiniteSet(S), \A z \in S : z \in Int, S # {}
  PROVE  \E x \in S : \A y \in S : y <= x
<1> DEFINE Above(x) == { y \in S : y > x }
           F == { Above(x) : x \in S }
<1>1. PICK s \in F : \A u \in F : u \subseteq s => u = s
  <2>1. F # {} /\ \A u \in F : u \subseteq S
    OBVIOUS
  <2> HIDE DEF F
  <2> QED
    BY <2>1, LeastSubset
<1>2. PICK x \in S : s = Above(x)
  BY <1>1
<1>3. ASSUME NEW y \in S, y > x PROVE FALSE
  <2>1. Above(y) \subseteq Above(x)
    BY <1>3
  <2>2. Above(y) = Above(x)
    BY <1>1, <1>2, <2>1
  <2> QED
    BY <1>3, <2>2
<1> QED
  BY <1>3

\* so the library's Min is an element
LEMMA MinIsIn ==
  ASSUME NEW S, IsFiniteSet(S), \A z \in S : z \in Int, S # {}
  PROVE  Min(S) \in S
  BY HasLeast DEF Min

(***************************************************************************)
(* Any order of a finite set has a first element, and the first k elements   *)
(* when it leaves nothing open.  An order is the set of its pairs.           *)
(***************************************************************************)
LEMMA HasFirst ==
  ASSUME NEW S, IsFiniteSet(S), S # {}, NEW R,
         \A x \in S : << x, x >> \notin R,
         \A x, y, z \in S : << x, y >> \in R /\ << y, z >> \in R => << x, z >> \in R
  PROVE  \E x \in S : \A y \in S : << y, x >> \notin R
<1> DEFINE Before(x) == { y \in S : << y, x >> \in R }
           F == { Before(x) : x \in S }
<1>0. /\ \A x \in S : Before(x) \subseteq S /\ x \notin Before(x)
      /\ \A x \in S, y \in S : << y, x >> \in R => y \in Before(x) /\ Before(y) \subseteq Before(x)
  OBVIOUS
<1> HIDE DEF Before
<1>1. PICK s \in F : \A u \in F : u \subseteq s => u = s
  <2>1. F # {} /\ \A u \in F : u \subseteq S
    BY <1>0
  <2> HIDE DEF F
  <2> QED
    BY <2>1, LeastSubset
<1>2. PICK x \in S : s = Before(x)
  BY <1>1
<1>3. ASSUME NEW y \in S, << y, x >> \in R PROVE FALSE
  <2>1. Before(y) \subseteq Before(x)
    BY <1>0, <1>3
  <2>2. Before(y) = Before(x)
    BY <1>1, <1>2, <2>1
  <2>3. y \in Before(x) /\ y \notin Before(y)
    BY <1>0, <1>3
  <2> QED
    BY <2>2, <2>3
<1> QED
  BY <1>3

\* R is an order of S that leaves nothing open
Orders(R, S) ==
  /\ \A x \in S : << x, x >> \notin R
  /\ \A x, y, z \in S : << x, y >> \in R /\ << y, z >> \in R => << x, z >> \in R
  /\ \A x, y \in S : x # y => << x, y >> \in R \/ << y, x >> \in R

\* the first k elements of a finite set in such an order
LEMMA FirstOnes ==
  ASSUME NEW S, IsFiniteSet(S), NEW R, Orders(R, S), NEW k \in Nat, k <= Cardinality(S)
  PROVE  \E s \in kSubset(k, S) : \A x \in s, y \in S \ s : << x, y >> \in R
<1> DEFINE F == { s \in SUBSET S : /\ k <= Cardinality(s)
                                   /\ \A x \in s, y \in S \ s : << x, y >> \in R }
<1>1. S \in F
  OBVIOUS
<1>2. PICK s \in F : \A u \in F : u \subseteq s => u = s
  <2>1. F # {} /\ \A u \in F : u \subseteq S
    BY <1>1
  <2> HIDE DEF F
  <2> QED
    BY <2>1, LeastSubset
<1>3. /\ IsFiniteSet(s) /\ s \subseteq S /\ k <= Cardinality(s) /\ Cardinality(s) \in Nat
      /\ \A x \in s, y \in S \ s : << x, y >> \in R
  BY FS_Subset, FS_CardinalityType
<1>4. ASSUME Cardinality(s) # k PROVE FALSE
  <2>1. s # {} /\ k + 1 <= Cardinality(s)
    BY <1>3, <1>4, FS_EmptySet
  <2> DEFINE Q == { p \in S \X S : << p[2], p[1] >> \in R }
  <2>2. PICK g \in s : \A y \in s : << y, g >> \notin Q
    <3>1. \A x \in s : << x, x >> \notin Q
      BY <1>3 DEF Orders
    <3>2. \A x, y, z \in s : << x, y >> \in Q /\ << y, z >> \in Q => << x, z >> \in Q
      BY <1>3 DEF Orders
    <3> HIDE DEF Q
    <3> QED
      BY <1>3, <2>1, <3>1, <3>2, HasFirst
  <2>3. \A y \in s \ {g} : << y, g >> \in R
    BY <1>3, <2>2 DEF Orders
  <2>4. Cardinality(s \ {g}) = Cardinality(s) - 1
    BY <1>3, FS_RemoveElement
  <2>5. s \ {g} \in F
    BY <1>3, <2>1, <2>3, <2>4
  <2> QED
    BY <1>2, <2>5
<1> QED
  BY <1>3, <1>4 DEF kSubset

\* the same in the order of numbers
LEMMA LowestOnes ==
  ASSUME NEW S, IsFiniteSet(S), \A x \in S : x \in Int, NEW k \in Nat, k <= Cardinality(S)
  PROVE  \E s \in kSubset(k, S) : \A x \in s, y \in S \ s : x < y
<1> DEFINE R == { p \in S \X S : p[1] < p[2] }
<1>1. Orders(R, S) /\ \A x, y \in S : << x, y >> \in R => x < y
  BY DEF Orders
<1> HIDE DEF R
<1>2. PICK s \in kSubset(k, S) : \A x \in s, y \in S \ s : << x, y >> \in R
  BY <1>1, FirstOnes
<1>3. s \subseteq S
  BY DEF kSubset
<1> QED
  BY <1>1, <1>2, <1>3

(***************************************************************************)
(* The elements that have fewer than n others before them are n at most, and *)
(* all of them are the n last if there are as many: the two ways in which    *)
(* the daemon cuts its queue and its history.                              *)
(***************************************************************************)
LEMMA FirstFew ==
  ASSUME NEW S, IsFiniteSet(S), \A z \in S : z \in Int, NEW n \in Nat
  PROVE  Cardinality({ j \in S : Cardinality({ k \in S : k < j }) < n }) <= n
<1> DEFINE First == { j \in S : Cardinality({ k \in S : k < j }) < n }
<1>1. IsFiniteSet(First) /\ Cardinality(First) \in Nat
  BY FS_Subset, FS_CardinalityType
<1>2. CASE First = {}
  <2>1. Cardinality(First) = 0
    BY <1>2, FS_EmptySet
  <2> QED
    BY <2>1
<1>3. CASE First # {}
  <2>1. PICK x \in First : \A y \in First : y <= x
    BY <1>1, <1>3, HasGreatest
  <2>2. First \ {x} \subseteq { k \in S : k < x }
    BY <2>1
  <2>3. IsFiniteSet({ k \in S : k < x }) /\ Cardinality({ k \in S : k < x }) \in Nat
    BY FS_Subset, FS_CardinalityType
  <2>4. Cardinality(First \ {x}) <= Cardinality({ k \in S : k < x })
    BY <2>2, <2>3, FS_Subset
  <2>5. Cardinality(First \ {x}) = Cardinality(First) - 1
    BY <1>1, <2>1, FS_RemoveElement
  <2>6. Cardinality({ k \in S : k < x }) < n
    BY <2>1
  <2> QED
    BY <1>1, <2>3, <2>4, <2>5, <2>6
<1> QED
  BY <1>2, <1>3

\* of those after j as many are among the last n
LEMMA LastFew ==
  ASSUME NEW S, IsFiniteSet(S), \A z \in S : z \in Int, NEW n \in Nat, NEW j \in Int,
         Cardinality({ k \in S : k > j }) >= n
  PROVE  Cardinality({ k \in { i \in S : ~(Cardinality({ m \in S : m > i }) >= n) } : k > j }) >= n
<1> DEFINE After(i) == { m \in S : m > i }
           Dropped == { i \in S : Cardinality(After(i)) >= n }
           Last == { i \in S : ~(Cardinality(After(i)) >= n) }
<1>1. \A i \in Int : IsFiniteSet(After(i)) /\ Cardinality(After(i)) \in Nat
  BY FS_Subset, FS_CardinalityType
<1>2. CASE Dropped \cap After(j) = {}
  <2>1. { k \in Last : k > j } = After(j)
    BY <1>2
  <2> QED
    BY <2>1
<1>3. CASE Dropped \cap After(j) # {}
  <2>1. PICK x \in Dropped \cap After(j) : \A y \in Dropped \cap After(j) : y <= x
    <3>1. IsFiniteSet(Dropped \cap After(j)) /\ \A z \in Dropped \cap After(j) : z \in Int
      BY FS_Subset
    <3> QED
      BY <1>3, <3>1, HasGreatest
  <2>2. After(x) \subseteq { k \in Last : k > j }
    BY <2>1
  <2>3. IsFiniteSet({ k \in Last : k > j }) /\ Cardinality({ k \in Last : k > j }) \in Nat
    BY FS_Subset, FS_CardinalityType
  <2>4. Cardinality(After(x)) <= Cardinality({ k \in Last : k > j })
    BY <2>2, <2>3, FS_Subset
  <2>5. Cardinality(After(x)) >= n /\ Cardinality(After(x)) \in Nat
    BY <1>1, <2>1
  <2> QED
    BY <2>3, <2>4, <2>5
<1> QED
  BY <1>2, <1>3

-----------------------------------------------------------------------------
(***************************************************************************)
(* Sums.  Sums(h, f, S) says that h has for every subset of S the sum of f   *)
(* over it, by taking an element out of it and the sum over the rest.        *)
(***************************************************************************)
AnyOf(s) == CHOOSE x \in s : TRUE

Sums(h, f, S) ==
  h = [s \in SUBSET S |-> IF s = {} THEN 0 ELSE f[AnyOf(s)] + h[s \ {AnyOf(s)}]]

\* what is chosen is in the set
LEMMA AnyOfIn == \A s : s # {} => AnyOf(s) \in s
  BY DEF AnyOf

\* the sum over one subset
LEMMA SumsAt ==
  ASSUME NEW h, NEW f, NEW S, Sums(h, f, S), NEW s \in SUBSET S
  PROVE  h[s] = IF s = {} THEN 0 ELSE f[AnyOf(s)] + h[s \ {AnyOf(s)}]
  BY DEF Sums

(***************************************************************************)
(* Functions that agree where two tables overlap have the same sums there.   *)
(***************************************************************************)
LEMMA SumsAgree ==
  ASSUME NEW S, IsFiniteSet(S), NEW T, NEW f, NEW g, NEW h, NEW k,
         Sums(h, f, S), Sums(k, g, T), \A x \in S \cap T : f[x] = g[x],
         NEW s \in SUBSET (S \cap T)
  PROVE  h[s] = k[s]
<1> DEFINE F == { u \in SUBSET (S \cap T) : h[u] # k[u] }
<1>1. ASSUME F # {} PROVE FALSE
  <2>1. PICK u \in F : \A v \in F : v \subseteq u => v = u
    <3>1. \A v \in F : v \subseteq S
      OBVIOUS
    <3> HIDE DEF F
    <3> QED
      BY <1>1, <3>1, LeastSubset
  <2>2. u \in SUBSET S /\ u \in SUBSET T /\ h[u] # k[u]
    OBVIOUS
  <2>3. h[u] = IF u = {} THEN 0 ELSE f[AnyOf(u)] + h[u \ {AnyOf(u)}]
    BY <2>2, SumsAt
  <2>4. k[u] = IF u = {} THEN 0 ELSE g[AnyOf(u)] + k[u \ {AnyOf(u)}]
    <3> HIDE DEF F
    <3> QED
      BY <2>2, SumsAt
  <2>5. u # {}
    BY <2>2, <2>3, <2>4
  <2>6. AnyOf(u) \in u
    BY <2>5, AnyOfIn
  <2>7. u \ {AnyOf(u)} \notin F
    BY <2>1, <2>6
  <2>8. h[u \ {AnyOf(u)}] = k[u \ {AnyOf(u)}]
    BY <2>2, <2>7
  <2>9. f[AnyOf(u)] = g[AnyOf(u)]
    BY <2>2, <2>6
  <2> QED
    BY <2>2, <2>3, <2>4, <2>5, <2>8, <2>9
<1> QED
  BY <1>1

(***************************************************************************)
(* There is such a table for any function on a finite set.  A least set      *)
(* without one would have the table made of those of its smaller subsets.    *)
(***************************************************************************)
LEMMA SumsExist ==
  ASSUME NEW S, IsFiniteSet(S), NEW f
  PROVE  \E h : Sums(h, f, S)
<1> DEFINE F == { s \in SUBSET S : ~\E h : Sums(h, f, s) }
<1>1. SUFFICES ASSUME F # {} PROVE FALSE
  OBVIOUS
<1>2. PICK s \in F : \A u \in F : u \subseteq s => u = s
  <2>1. \A u \in F : u \subseteq S
    OBVIOUS
  <2> HIDE DEF F
  <2> QED
    BY <1>1, <2>1, LeastSubset
<1> DEFINE G(u) == CHOOSE h : Sums(h, f, u)
           h == [u \in SUBSET s |-> IF u = {} THEN 0
                                    ELSE f[AnyOf(u)] + G(u \ {AnyOf(u)})[u \ {AnyOf(u)}]]
<1>3. \A u \in SUBSET s : u # s => Sums(G(u), f, u) /\ IsFiniteSet(u)
  <2>1. TAKE u \in SUBSET s
  <2>2. HAVE u # s
  <2>3. u \in SUBSET S /\ u \notin F
    BY <1>2, <2>2
  <2>4. \E g : Sums(g, f, u)
    BY <2>3
  <2>5. IsFiniteSet(u)
    BY <2>3, FS_Subset
  <2> QED
    BY <2>4, <2>5, Zenon
<1> HIDE DEF G
<1>4. ASSUME NEW u \in SUBSET s, u # s PROVE h[u] = G(u)[u]
  <2>1. Sums(G(u), f, u) /\ IsFiniteSet(u)
    BY <1>3, <1>4
  <2>2. G(u)[u] = IF u = {} THEN 0 ELSE f[AnyOf(u)] + G(u)[u \ {AnyOf(u)}]
    BY <2>1, SumsAt
  <2>3. CASE u = {}
    BY <2>2, <2>3
  <2>4. CASE u # {}
    <3> DEFINE v == u \ {AnyOf(u)}
    <3>1. v \in SUBSET s /\ v # s /\ v \in SUBSET (u \cap v)
      BY <1>4
    <3>2. Sums(G(v), f, v)
      BY <1>3, <3>1
    <3>3. G(u)[v] = G(v)[v]
      BY <2>1, <3>1, <3>2, SumsAgree
    <3>4. h[u] = f[AnyOf(u)] + G(v)[v]
      BY <2>4
    <3> QED
      BY <2>2, <2>4, <3>3, <3>4
  <2> QED
    BY <2>3, <2>4
<1>5. ASSUME NEW u \in SUBSET s
      PROVE  h[u] = IF u = {} THEN 0 ELSE f[AnyOf(u)] + h[u \ {AnyOf(u)}]
  <2>1. CASE u = {}
    BY <2>1
  <2>2. CASE u # {}
    <3> DEFINE v == u \ {AnyOf(u)}
    <3>1. v \in SUBSET s /\ v # s
      BY <2>2, AnyOfIn
    <3>2. h[v] = G(v)[v]
      BY <1>4, <3>1
    <3>3. h[u] = f[AnyOf(u)] + G(v)[v]
      BY <2>2
    <3> QED
      BY <2>2, <3>2, <3>3
  <2> QED
    BY <2>1, <2>2
<1>6. h = [u \in SUBSET s |-> h[u]]
  OBVIOUS
<1> HIDE DEF h
<1>7. Sums(h, f, s)
  BY <1>5, <1>6 DEF Sums
<1> QED
  BY <1>2, <1>7

(***************************************************************************)
(* The order does not matter: any element may be taken out first.            *)
(***************************************************************************)
LEMMA SumsAny ==
  ASSUME NEW S, IsFiniteSet(S), NEW f, \A x \in S : f[x] \in Int, NEW h, Sums(h, f, S),
         NEW s \in SUBSET S
  PROVE  /\ h[s] \in Int
         /\ \A x \in s : h[s] = f[x] + h[s \ {x}]
<1> DEFINE Good(u) == h[u] \in Int /\ \A x \in u : h[u] = f[x] + h[u \ {x}]
           F == { u \in SUBSET S : ~Good(u) }
<1>1. SUFFICES ASSUME F # {} PROVE FALSE
  OBVIOUS
<1>2. PICK u \in F : \A v \in F : v \subseteq u => v = u
  <2>1. \A v \in F : v \subseteq S
    OBVIOUS
  <2> HIDE DEF F
  <2> QED
    BY <1>1, <2>1, LeastSubset
<1>3. \A v \in SUBSET u : v # u => Good(v)
  BY <1>2
<1> DEFINE a == AnyOf(u)
<1>4. h[u] = IF u = {} THEN 0 ELSE f[a] + h[u \ {a}]
  <2>1. u \in SUBSET S /\ Sums(h, f, S)
    OBVIOUS
  <2> HIDE DEF F
  <2> QED
    BY <2>1, SumsAt
<1>5. CASE u = {}
  BY <1>4, <1>5
<1>6. CASE u # {}
  <2>1. a \in u /\ f[a] \in Int
    BY <1>6, AnyOfIn
  <2>2. Good(u \ {a})
    BY <1>3, <2>1
  <2>3. h[u] \in Int
    BY <1>4, <1>6, <2>1, <2>2
  <2>4. ASSUME NEW x \in u PROVE h[u] = f[x] + h[u \ {x}]
    <3>1. CASE x = a
      BY <1>4, <1>6, <3>1
    <3>2. CASE x # a
      <4>1. Good(u \ {x}) /\ Good((u \ {x}) \ {a})
        BY <1>3, <2>1, <2>4
      <4>2. (u \ {x}) \ {a} = (u \ {a}) \ {x}
        OBVIOUS
      <4>3. h[u \ {a}] = f[x] + h[(u \ {x}) \ {a}]
        BY <2>2, <2>4, <3>2, <4>2
      <4>4. h[u \ {x}] = f[a] + h[(u \ {x}) \ {a}]
        BY <2>1, <3>2, <4>1
      <4>5. f[x] \in Int /\ h[(u \ {x}) \ {a}] \in Int
        BY <4>1
      <4> QED
        BY <1>4, <1>6, <2>1, <4>3, <4>4, <4>5
    <3> QED
      BY <3>1, <3>2
  <2> QED
    BY <1>2, <2>3, <2>4
<1> QED
  BY <1>5, <1>6

(***************************************************************************)
(* SumFunction, the sum the models use, is the last entry of the table.  The *)
(* definition is the library's, a fold whose recursion ends in CHOOSE.       *)
(***************************************************************************)
LEMMA SumOf ==
  ASSUME NEW f, IsFiniteSet(DOMAIN f)
  PROVE  \E h : Sums(h, f, DOMAIN f) /\ SumFunction(f) = h[DOMAIN f]
<1> DEFINE P(h) == h = [s \in SUBSET (DOMAIN f) |->
                           IF s = {} THEN 0
                           ELSE f[CHOOSE x \in s : TRUE] + h[s \ {CHOOSE x \in s : TRUE}]]
           it == CHOOSE h : P(h)
<1>1. \A h : P(h) <=> Sums(h, f, DOMAIN f)
  BY DEF Sums, AnyOf
<1>2. P(it)
  <2>1. PICK h : Sums(h, f, DOMAIN f)
    BY SumsExist
  <2>2. P(h)
    BY <2>1 DEF Sums, AnyOf
  <2> HIDE DEF P
  <2> QED
    BY <2>2, Zenon
<1>3. SumFunction(f) = it[DOMAIN f]
  BY DEF SumFunction, SumFunctionOnSet, FoldFunctionOnSet, MapThenFoldSet
<1> HIDE DEF it
<1> QED
  BY <1>1, <1>2, <1>3

(***************************************************************************)
(* What the proofs about the books use: the sum of nothing, the sum with one *)
(* more, and that a sum of natural numbers is one and no less than two of    *)
(* them.                                                                     *)
(***************************************************************************)
LEMMA SumEmpty ==
  ASSUME NEW f, DOMAIN f = {}
  PROVE  SumFunction(f) = 0
<1>1. IsFiniteSet(DOMAIN f)
  BY FS_EmptySet
<1>2. PICK h : Sums(h, f, DOMAIN f) /\ SumFunction(f) = h[DOMAIN f]
  BY <1>1, SumOf
<1>3. h[DOMAIN f] = IF DOMAIN f = {} THEN 0 ELSE f[AnyOf(DOMAIN f)]
                                                + h[DOMAIN f \ {AnyOf(DOMAIN f)}]
  BY <1>2, SumsAt
<1> QED
  BY <1>2, <1>3

\* the sum is any value and the sum of the others
LEMMA SumPlus ==
  ASSUME NEW f, IsFiniteSet(DOMAIN f), \A x \in DOMAIN f : f[x] \in Int, NEW x \in DOMAIN f
  PROVE  SumFunction(f) = f[x] + SumFunction([y \in DOMAIN f \ {x} |-> f[y]])
<1> DEFINE D == DOMAIN f
           R == D \ {x}
           g == [y \in R |-> f[y]]
<1>1. PICK h : Sums(h, f, D) /\ SumFunction(f) = h[D]
  BY SumOf
<1>2. IsFiniteSet(R) /\ DOMAIN g = R
  BY FS_Subset
<1>3. PICK k : Sums(k, g, R) /\ SumFunction(g) = k[R]
  BY <1>2, SumOf
<1>4. h[D] = f[x] + h[R]
  <2>1. D \in SUBSET D /\ x \in D /\ Sums(h, f, D) /\ IsFiniteSet(D) /\ \A y \in D : f[y] \in Int
    BY <1>1
  <2> HIDE DEF D
  <2>2. \A y \in D : h[D] = f[y] + h[D \ {y}]
    BY <2>1, SumsAny
  <2> QED
    BY <2>1, <2>2
<1>5. h[R] = k[R]
  <2>1. \A y \in D \cap R : f[y] = g[y]
    OBVIOUS
  <2>2. R \in SUBSET (D \cap R)
    OBVIOUS
  <2> HIDE DEF D, R, g
  <2> QED
    BY <1>1, <1>3, <2>1, <2>2, SumsAgree DEF D
<1> QED
  BY <1>1, <1>3, <1>4, <1>5

\* a sum of integers is one
LEMMA SumInt ==
  ASSUME NEW f, IsFiniteSet(DOMAIN f), \A x \in DOMAIN f : f[x] \in Int
  PROVE  SumFunction(f) \in Int
<1>1. PICK h : Sums(h, f, DOMAIN f) /\ SumFunction(f) = h[DOMAIN f]
  BY SumOf
<1>2. h[DOMAIN f] \in Int
  BY <1>1, SumsAny
<1> QED
  BY <1>1, <1>2

\* one more
LEMMA SumWith ==
  ASSUME NEW S, IsFiniteSet(S), NEW x, x \notin S, NEW f, DOMAIN f = S \cup {x},
         NEW g, g = [y \in S |-> f[y]], \A y \in S \cup {x} : f[y] \in Int
  PROVE  SumFunction(f) = f[x] + SumFunction(g)
<1>1. IsFiniteSet(DOMAIN f)
  BY FS_AddElement
<1>2. DOMAIN f \ {x} = S
  OBVIOUS
<1> QED
  BY <1>1, <1>2, SumPlus

\* a sum of natural numbers is one
LEMMA SumNat ==
  ASSUME NEW f, IsFiniteSet(DOMAIN f), \A x \in DOMAIN f : f[x] \in Nat
  PROVE  SumFunction(f) \in Nat
<1> DEFINE D == DOMAIN f
<1>1. PICK h : Sums(h, f, D) /\ SumFunction(f) = h[D]
  BY SumOf
<1> DEFINE F == { u \in SUBSET D : ~(h[u] \in Nat) }
<1>2. ASSUME F # {} PROVE FALSE
  <2>1. PICK u \in F : \A v \in F : v \subseteq u => v = u
    <3>1. \A v \in F : v \subseteq D
      OBVIOUS
    <3> HIDE DEF F
    <3> QED
      BY <1>2, <3>1, LeastSubset
  <2>2. h[u] = IF u = {} THEN 0 ELSE f[AnyOf(u)] + h[u \ {AnyOf(u)}]
    <3>1. u \in SUBSET D
      OBVIOUS
    <3> HIDE DEF D, F
    <3> QED
      BY <1>1, <3>1, SumsAt
  <2>3. u # {}
    BY <2>2
  <2>4. AnyOf(u) \in u
    BY <2>3, AnyOfIn
  <2>5. h[u \ {AnyOf(u)}] \in Nat
    BY <2>1, <2>4
  <2>6. f[AnyOf(u)] \in Nat
    BY <2>4
  <2> QED
    BY <2>2, <2>3, <2>5, <2>6
<1> QED
  BY <1>1, <1>2

\* and no less than any two of them
LEMMA SumAtLeastTwo ==
  ASSUME NEW f, IsFiniteSet(DOMAIN f), \A x \in DOMAIN f : f[x] \in Nat,
         NEW x \in DOMAIN f, NEW y \in DOMAIN f, x # y
  PROVE  f[x] + f[y] <= SumFunction(f)
<1> DEFINE g == [z \in DOMAIN f \ {x} |-> f[z]]
           k == [z \in DOMAIN g \ {y} |-> g[z]]
<1>1. IsFiniteSet(DOMAIN g) /\ IsFiniteSet(DOMAIN k)
  BY FS_Subset
<1>2. SumFunction(f) = f[x] + SumFunction(g)
  BY SumPlus
<1>3. SumFunction(g) = g[y] + SumFunction(k)
  <2>1. y \in DOMAIN g /\ \A z \in DOMAIN g : g[z] \in Int
    OBVIOUS
  <2> HIDE DEF g
  <2> QED
    BY <1>1, <2>1, SumPlus
<1>4. SumFunction(k) \in Nat
  <2>1. \A z \in DOMAIN k : k[z] \in Nat
    OBVIOUS
  <2> HIDE DEF k
  <2> QED
    BY <1>1, <2>1, SumNat
<1>5. g[y] = f[y] /\ f[x] \in Nat /\ f[y] \in Nat
  OBVIOUS
<1> HIDE DEF g, k
<1> QED
  BY <1>2, <1>3, <1>4, <1>5

\* a part of it sums up to no more
LEMMA SumSubset ==
  ASSUME NEW f, IsFiniteSet(DOMAIN f), \A x \in DOMAIN f : f[x] \in Nat,
         NEW S \in SUBSET DOMAIN f
  PROVE  SumFunction([x \in S |-> f[x]]) <= SumFunction(f)
<1> DEFINE D == DOMAIN f
           g == [x \in S |-> f[x]]
<1>1. PICK h : Sums(h, f, D) /\ SumFunction(f) = h[D]
  BY SumOf
<1>2. IsFiniteSet(S) /\ DOMAIN g = S
  BY FS_Subset
<1>3. PICK k : Sums(k, g, S) /\ SumFunction(g) = k[S]
  BY <1>2, SumOf
<1>4. h[S] = k[S]
  <2>1. \A y \in D \cap S : f[y] = g[y]
    OBVIOUS
  <2>2. S \in SUBSET (D \cap S) /\ IsFiniteSet(D)
    OBVIOUS
  <2> HIDE DEF D, g
  <2> QED
    BY <1>1, <1>3, <2>1, <2>2, SumsAgree
<1>5. \A u \in SUBSET D : h[u] \in Int /\ \A x \in u : h[u] = f[x] + h[u \ {x}]
  <2>1. IsFiniteSet(D) /\ \A x \in D : f[x] \in Int
    OBVIOUS
  <2> HIDE DEF D
  <2> QED
    BY <1>1, <2>1, SumsAny
<1> DEFINE F == { u \in SUBSET D : S \subseteq u /\ ~(h[S] <= h[u]) }
<1>6. ASSUME F # {} PROVE FALSE
  <2>1. PICK u \in F : \A v \in F : v \subseteq u => v = u
    <3>1. \A v \in F : v \subseteq D
      OBVIOUS
    <3> HIDE DEF F
    <3> QED
      BY <1>6, <3>1, LeastSubset
  <2>2. u \in SUBSET D /\ S \subseteq u /\ ~(h[S] <= h[u]) /\ S \in SUBSET D
    OBVIOUS
  <2>3. u # S
    BY <1>5, <2>2
  <2>4. PICK x \in u : x \notin S
    BY <2>2, <2>3
  <2>5. u \ {x} \in SUBSET D /\ S \subseteq u \ {x} /\ u \ {x} \notin F
    BY <2>1, <2>2, <2>4
  <2>6. h[S] <= h[u \ {x}]
    BY <2>5
  <2>7. h[u] = f[x] + h[u \ {x}] /\ f[x] \in Nat /\ h[u \ {x}] \in Int /\ h[S] \in Int
    BY <1>5, <2>2, <2>4, <2>5
  <2> QED
    BY <2>2, <2>6, <2>7
<1>7. h[S] <= h[D]
  BY <1>6
<1> QED
  BY <1>1, <1>3, <1>4, <1>7

\* what bounds every value, up to a factor, bounds the sum
LEMMA SumDominated ==
  ASSUME NEW S, IsFiniteSet(S), NEW f, DOMAIN f = S, NEW g, DOMAIN g = S,
         \A x \in S : f[x] \in Int /\ g[x] \in Int,
         NEW b \in Int, NEW c \in Int, \A x \in S : b * f[x] <= c * g[x]
  PROVE  b * SumFunction(f) <= c * SumFunction(g)
<1>1. PICK h : Sums(h, f, S) /\ SumFunction(f) = h[S]
  BY SumOf
<1>2. PICK k : Sums(k, g, S) /\ SumFunction(g) = k[S]
  BY SumOf
<1>3. \A u \in SUBSET S : h[u] \in Int /\ \A x \in u : h[u] = f[x] + h[u \ {x}]
  BY <1>1, SumsAny
<1>4. \A u \in SUBSET S : k[u] \in Int /\ \A x \in u : k[u] = g[x] + k[u \ {x}]
  BY <1>2, SumsAny
<1>5. \A s \in SUBSET S : s = {} => h[s] = 0 /\ k[s] = 0
  BY <1>1, <1>2, SumsAt
<1> DEFINE F == { u \in SUBSET S : ~(b * h[u] <= c * k[u]) }
<1>6. ASSUME F # {} PROVE FALSE
  <2>1. PICK u \in F : \A v \in F : v \subseteq u => v = u
    <3>1. \A v \in F : v \subseteq S
      OBVIOUS
    <3> HIDE DEF F
    <3> QED
      BY <1>6, <3>1, LeastSubset
  <2>2. u \in SUBSET S /\ ~(b * h[u] <= c * k[u])
    OBVIOUS
  <2>3. u # {}
    BY <1>5, <2>2
  <2>4. PICK x \in u : TRUE
    BY <2>3
  <2>5. u \ {x} \in SUBSET S /\ u \ {x} \notin F
    BY <2>1, <2>2, <2>4
  <2>6. b * h[u \ {x}] <= c * k[u \ {x}]
    BY <2>5
  <2>7. h[u] = f[x] + h[u \ {x}] /\ k[u] = g[x] + k[u \ {x}]
    BY <1>3, <1>4, <2>2, <2>4
  <2>8. f[x] \in Int /\ g[x] \in Int /\ h[u \ {x}] \in Int /\ k[u \ {x}] \in Int
        /\ b * f[x] <= c * g[x]
    BY <1>3, <1>4, <2>2, <2>4, <2>5
  <2>9. \A p, q, r, s \in Int : b * p <= c * q /\ b * r <= c * s => b * (p + r) <= c * (q + s)
    OBVIOUS
  <2> QED
    BY <2>2, <2>6, <2>7, <2>8, <2>9
<1>7. b * h[S] <= c * k[S]
  BY <1>6
<1> QED
  BY <1>1, <1>2, <1>7

\* what is zero adds nothing
LEMMA SumOutside ==
  ASSUME NEW f, IsFiniteSet(DOMAIN f), \A x \in DOMAIN f : f[x] \in Int,
         NEW S \in SUBSET DOMAIN f, \A x \in DOMAIN f \ S : f[x] = 0
  PROVE  SumFunction(f) = SumFunction([x \in S |-> f[x]])
<1> DEFINE D == DOMAIN f
           g == [x \in S |-> f[x]]
<1>1. PICK h : Sums(h, f, D) /\ SumFunction(f) = h[D]
  BY SumOf
<1>2. IsFiniteSet(S) /\ DOMAIN g = S
  BY FS_Subset
<1>3. PICK k : Sums(k, g, S) /\ SumFunction(g) = k[S]
  BY <1>2, SumOf
<1>4. h[S] = k[S]
  <2>1. \A y \in D \cap S : f[y] = g[y]
    OBVIOUS
  <2>2. S \in SUBSET (D \cap S) /\ IsFiniteSet(D)
    OBVIOUS
  <2> HIDE DEF D, g
  <2> QED
    BY <1>1, <1>3, <2>1, <2>2, SumsAgree
<1>5. \A u \in SUBSET D : h[u] \in Int /\ \A x \in u : h[u] = f[x] + h[u \ {x}]
  <2>1. IsFiniteSet(D) /\ \A x \in D : f[x] \in Int
    OBVIOUS
  <2> HIDE DEF D
  <2> QED
    BY <1>1, <2>1, SumsAny
<1> DEFINE F == { u \in SUBSET D : S \subseteq u /\ h[S] # h[u] }
<1>6. ASSUME F # {} PROVE FALSE
  <2>1. PICK u \in F : \A v \in F : v \subseteq u => v = u
    <3>1. \A v \in F : v \subseteq D
      OBVIOUS
    <3> HIDE DEF F
    <3> QED
      BY <1>6, <3>1, LeastSubset
  <2>2. u \in SUBSET D /\ S \subseteq u /\ h[S] # h[u] /\ S \in SUBSET D
    OBVIOUS
  <2>3. u # S
    BY <2>2
  <2>4. PICK x \in u : x \notin S
    BY <2>2, <2>3
  <2>5. u \ {x} \in SUBSET D /\ S \subseteq u \ {x} /\ u \ {x} \notin F
    BY <2>1, <2>2, <2>4
  <2>6. h[S] = h[u \ {x}]
    BY <2>5
  <2>7. h[u] = f[x] + h[u \ {x}] /\ f[x] = 0 /\ h[u \ {x}] \in Int
    BY <1>5, <2>2, <2>4, <2>5
  <2> QED
    BY <2>2, <2>6, <2>7
<1>7. h[S] = h[D]
  BY <1>6
<1> QED
  BY <1>1, <1>3, <1>4, <1>7

\* one value and zeros
LEMMA SumSingle ==
  ASSUME NEW f, IsFiniteSet(DOMAIN f), NEW x \in DOMAIN f, f[x] \in Int,
         \A y \in DOMAIN f \ {x} : f[y] = 0
  PROVE  SumFunction(f) = f[x]
<1> DEFINE g == [y \in DOMAIN f \ {x} |-> f[y]]
<1>1. \A y \in DOMAIN f : f[y] \in Int
  OBVIOUS
<1>2. SumFunction(f) = f[x] + SumFunction(g)
  BY <1>1, SumPlus
<1>3. SumFunction(g) = 0
  <2> DEFINE e == [y \in {} |-> g[y]]
  <2>1. IsFiniteSet(DOMAIN g) /\ DOMAIN g = DOMAIN f \ {x} /\ \A y \in DOMAIN g : g[y] = 0
    BY FS_Subset
  <2> HIDE DEF g
  <2>2. SumFunction(g) = SumFunction(e)
    <3>1. /\ {} \in SUBSET DOMAIN g /\ \A y \in DOMAIN g \ {} : g[y] = 0
          /\ \A y \in DOMAIN g : g[y] \in Int
      BY <2>1
    <3> QED
      BY <2>1, <3>1, SumOutside
  <2>3. SumFunction(e) = 0
    BY SumEmpty
  <2> QED
    BY <2>2, <2>3
<1> QED
  BY <1>2, <1>3

\* two sets that share nothing
LEMMA DisjointUnion ==
  ASSUME NEW A, IsFiniteSet(A), NEW B, IsFiniteSet(B), A \cap B = {}
  PROVE  IsFiniteSet(A \cup B) /\ Cardinality(A \cup B) = Cardinality(A) + Cardinality(B)
<1>1. /\ IsFiniteSet(A \cup B)
      /\ Cardinality(A \cup B) = Cardinality(A) + Cardinality(B) - Cardinality(A \cap B)
  BY FS_Union
<1>2. Cardinality({}) = 0 /\ Cardinality(A) \in Nat /\ Cardinality(B) \in Nat
  BY FS_EmptySet, FS_CardinalityType
<1>3. Cardinality(A \cap B) = 0
  BY <1>2
<1> QED
  BY <1>1, <1>2, <1>3

\* the sizes of sets that share nothing add up to the size of all of them
LEMMA SumOfDisjoint ==
  ASSUME NEW S, IsFiniteSet(S), NEW f, DOMAIN f = S, \A x \in S : IsFiniteSet(f[x]),
         \A x, y \in S : x # y => f[x] \cap f[y] = {}
  PROVE  SumFunction([x \in S |-> Cardinality(f[x])]) = Cardinality(UNION { f[x] : x \in S })
<1> DEFINE g == [x \in S |-> Cardinality(f[x])]
           All(u) == UNION { f[x] : x \in u }
<1>1. \A x \in S : g[x] = Cardinality(f[x]) /\ g[x] \in Nat
  BY FS_CardinalityType
<1>2. DOMAIN g = S
  OBVIOUS
<1> HIDE DEF g
<1>3. PICK h : Sums(h, g, S) /\ SumFunction(g) = h[S]
  BY <1>2, SumOf
<1>4. \A u \in SUBSET S : h[u] \in Int /\ \A x \in u : h[u] = g[x] + h[u \ {x}]
  <2>1. \A x \in S : g[x] \in Int
    BY <1>1
  <2> QED
    BY <1>3, <2>1, SumsAny
<1>5. \A s \in SUBSET S : s = {} => h[s] = 0
  BY <1>3, SumsAt
<1> DEFINE F == { u \in SUBSET S : ~(IsFiniteSet(All(u)) /\ h[u] = Cardinality(All(u))) }
<1>6. ASSUME F # {} PROVE FALSE
  <2>1. PICK u \in F : \A v \in F : v \subseteq u => v = u
    <3>1. \A v \in F : v \subseteq S
      OBVIOUS
    <3> HIDE DEF F
    <3> QED
      BY <1>6, <3>1, LeastSubset
  <2>2. u \in SUBSET S /\ ~(IsFiniteSet(All(u)) /\ h[u] = Cardinality(All(u)))
    OBVIOUS
  <2>3. CASE u = {}
    <3>1. All(u) = {}
      BY <2>3
    <3> QED
      BY <1>5, <2>2, <2>3, <3>1, FS_EmptySet
  <2>4. CASE u # {}
    <3>1. PICK x \in u : TRUE
      BY <2>4
    <3> DEFINE v == u \ {x}
    <3>2. v \in SUBSET S /\ v \notin F
      <4>1. v \subseteq u /\ v # u
        BY <3>1
      <4> HIDE DEF F, v
      <4> QED
        BY <2>1, <2>2, <4>1
    <3>3. IsFiniteSet(All(v)) /\ h[v] = Cardinality(All(v))
      BY <3>2
    <3>4. All(u) = f[x] \cup All(v) /\ f[x] \cap All(v) = {}
      BY <2>2, <3>1
    <3>5. IsFiniteSet(f[x]) /\ x \in S
      BY <2>2, <3>1
    <3>6. h[u] = g[x] + h[v]
      BY <1>4, <2>2, <3>1
    <3> HIDE DEF All, v
    <3>7. IsFiniteSet(All(u)) /\ Cardinality(All(u)) = Cardinality(f[x]) + Cardinality(All(v))
      BY <3>3, <3>4, <3>5, DisjointUnion
    <3>8. h[u] = Cardinality(f[x]) + Cardinality(All(v))
      BY <1>1, <3>3, <3>5, <3>6
    <3> QED
      BY <2>2, <3>7, <3>8
  <2> QED
    BY <2>3, <2>4
<1>7. h[S] = Cardinality(All(S))
  BY <1>6
<1> QED
  BY <1>3, <1>7 DEF g

\* a finite set has a finite image
LEMMA FiniteImage ==
  ASSUME NEW S, IsFiniteSet(S), NEW f, DOMAIN f = S
  PROVE  IsFiniteSet({ f[x] : x \in S })
<1> DEFINE T == { f[x] : x \in S }
           g == [x \in S |-> f[x]]
<1>1. g \in Surjection(S, T)
  BY DEF Surjection
<1> QED
  BY <1>1, FS_Surjection

\* a sum of natural numbers is no less than any of them
LEMMA SumAtLeast ==
  ASSUME NEW f, IsFiniteSet(DOMAIN f), \A x \in DOMAIN f : f[x] \in Nat, NEW x \in DOMAIN f
  PROVE  f[x] <= SumFunction(f)
<1> DEFINE g == [z \in DOMAIN f \ {x} |-> f[z]]
<1>1. IsFiniteSet(DOMAIN g)
  BY FS_Subset
<1>2. SumFunction(f) = f[x] + SumFunction(g)
  BY SumPlus
<1>3. SumFunction(g) \in Nat
  <2>1. \A z \in DOMAIN g : g[z] \in Nat
    OBVIOUS
  <2> HIDE DEF g
  <2> QED
    BY <1>1, <2>1, SumNat
<1>4. f[x] \in Nat
  OBVIOUS
<1> HIDE DEF g
<1> QED
  BY <1>2, <1>3, <1>4

-----------------------------------------------------------------------------
(***************************************************************************)
(* Division that rounds down, as the shares of memory do.                    *)
(***************************************************************************)
LEMMA DivBound ==
  ASSUME NEW x \in Nat, NEW n \in Nat \ {0}
  PROVE  x \div n \in Nat /\ n * (x \div n) <= x /\ x < n * (x \div n) + n
  OBVIOUS

\* a factor cancels
LEMMA ScaleLess ==
  ASSUME NEW a \in Int, NEW b \in Int, NEW n \in Nat \ {0}, n * a < n * b + n
  PROVE  a <= b
<1>1. SUFFICES ASSUME a >= b + 1 PROVE FALSE
  OBVIOUS
<1>2. n * a >= n * (b + 1)
  BY <1>1
<1>3. n * (b + 1) = n * b + n
  OBVIOUS
<1> QED
  BY <1>2, <1>3

\* a larger number is worth no less
LEMMA DivMono ==
  ASSUME NEW x \in Nat, NEW y \in Nat, x <= y, NEW n \in Nat \ {0}
  PROVE  x \div n <= y \div n
<1>1. n * (x \div n) <= x /\ y < n * (y \div n) + n /\ x \div n \in Nat /\ y \div n \in Nat
  BY DivBound
<1>2. n * (x \div n) < n * (y \div n) + n
  <2>1. \A p, q, r \in Int : p <= x /\ y < q + r => p < q + r
    OBVIOUS
  <2>2. n * (x \div n) \in Int /\ n * (y \div n) \in Int
    BY <1>1
  <2> QED
  BY <1>1, <2>1, <2>2
<1> QED
  BY <1>1, <1>2, ScaleLess

=============================================================================
