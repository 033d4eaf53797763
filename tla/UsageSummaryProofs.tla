------------------------- MODULE UsageSummaryProofs -------------------------
(***************************************************************************)
(* That the summary is right, for any events, values, instants and length  *)
(* of months.  First what the sums and the walk over the deltas come to,   *)
(* for any rows: by induction on finite sets and on numbers, each time on  *)
(* the set of those that have the property.  Then that a summary that no   *)
(* commit overtakes has read what its queries would return now.            *)
(***************************************************************************)
EXTENDS UsageSummary, FiniteSetTheorems, TLAPS

-----------------------------------------------------------------------------
(* Induction *)

\* Induction on numbers, with the set of those that have the property for the property.
LEMMA NumberInduction ==
    ASSUME NEW G, 0 \in G, \A n \in Nat : n \in G => n + 1 \in G
    PROVE  \A n \in Nat : n \in G
<1> DEFINE N == Nat \ G
<1> SUFFICES ASSUME N # {} PROVE FALSE
  OBVIOUS
<1>1. PICK n \in N : \A k \in N : <<k, n>> \notin OpToRel(<, Nat)
  BY NatLessThanWellFounded, WFMin
<1>2. \A k \in N : ~(k < n)
  BY <1>1 DEF OpToRel
<1>3. n # 0 /\ n - 1 \in Nat /\ n - 1 < n
  OBVIOUS
<1> QED
  BY <1>2, <1>3

\* Induction on the subsets of a finite set, in the same form.
LEMMA SetInduction ==
    ASSUME NEW E, IsFiniteSet(E), NEW G,
           \A s \in SUBSET E : (\A t \in SUBSET s : t # s => t \in G) => s \in G
    PROVE  \A s \in SUBSET E : s \in G
<1> DEFINE F == (SUBSET E) \ G
<1> SUFFICES ASSUME F # {} PROVE FALSE
  OBVIOUS
<1>1. F \subseteq FiniteSubsetsOf(E) /\ F # {}
  BY FS_FiniteSubsetsOfFinite
<1> HIDE DEF F
<1>2. PICK s \in F : \A t \in F : <<t, s>> \notin StrictSubsetOrdering(E)
  BY <1>1, FS_StrictSubsetOrderingWellFounded, WFMin
<1> USE DEF F
<1>3. \A t \in SUBSET s : t # s => t \in G
  BY <1>2 DEF StrictSubsetOrdering
<1> QED
  BY <1>2, <1>3

-----------------------------------------------------------------------------
(* Sums over finite sets *)

\* The element that a fold takes first, and one round of the sum over the sets S.
First(s) == CHOOSE x \in s : TRUE

Round(S, v, g) == [s \in S |-> IF s = {} THEN 0 ELSE v[First(s)] + g[s \ {First(s)}]]

Upto(E, n) == {s \in SUBSET E : Cardinality(s) =< n}

\* The recursion that defines a sum over a finite set has a solution.
LEMMA RoundsEnd ==
    ASSUME NEW E, IsFiniteSet(E), NEW v
    PROVE  \E g : g = Round(SUBSET E, v, g)
<1> DEFINE N == {n \in Nat : \E g : g = Round(Upto(E, n), v, g)}
<1>1. \A s \in SUBSET E : IsFiniteSet(s) /\ Cardinality(s) \in Nat
  BY FS_Subset, FS_CardinalityType
<1>2. 0 \in N
  <2> DEFINE g == [s \in Upto(E, 0) |-> 0]
  <2>1. \A s \in Upto(E, 0) : s = {}
    BY <1>1, FS_EmptySet DEF Upto
  <2>2. g = Round(Upto(E, 0), v, g)
    BY <2>1 DEF Round
  <2> QED
    BY <2>2
<1>3. ASSUME NEW n \in Nat, n \in N PROVE n + 1 \in N
  <2>1. PICK g : g = Round(Upto(E, n), v, g)
    BY <1>3
  <2> DEFINE h == Round(Upto(E, n + 1), v, g)
  <2>2. ASSUME NEW s \in Upto(E, n + 1), s # {} PROVE s \ {First(s)} \in Upto(E, n)
    <3>1. First(s) \in s
      BY <2>2 DEF First
    <3>2. Cardinality(s \ {First(s)}) = Cardinality(s) - 1
      BY <1>1, <3>1, FS_RemoveElement DEF Upto
    <3> QED
      BY <1>1, <3>2 DEF Upto
  <2>3. ASSUME NEW s \in Upto(E, n) PROVE s \in Upto(E, n + 1) /\ h[s] = g[s]
    <3>1. s \in Upto(E, n + 1)
      BY <1>1 DEF Upto
    <3>2. g[s] = Round(Upto(E, n), v, g)[s]
      BY <2>1
    <3> QED
      BY <3>1, <3>2 DEF Round
  <2>4. h = Round(Upto(E, n + 1), v, h)
    <3>1. ASSUME NEW s \in Upto(E, n + 1), s # {} PROVE h[s \ {First(s)}] = g[s \ {First(s)}]
      BY <2>2, <2>3, <3>1
    <3> HIDE DEF h
    <3>2. [s \in Upto(E, n + 1) |-> IF s = {} THEN 0 ELSE v[First(s)] + g[s \ {First(s)}]]
            = [s \in Upto(E, n + 1) |-> IF s = {} THEN 0 ELSE v[First(s)] + h[s \ {First(s)}]]
      BY <3>1
    <3> QED
      BY <3>2 DEF h, Round
  <2> HIDE DEF h
  <2> QED
    BY <2>4
<1> HIDE DEF N
<1>4. \A n \in Nat : n \in N
  BY <1>2, <1>3, NumberInduction
<1>5. Cardinality(E) \in Nat /\ SUBSET E = Upto(E, Cardinality(E))
  BY FS_Subset, FS_CardinalityType DEF Upto
<1> QED
  BY <1>4, <1>5 DEF N

\* g gives the sum of v over each subset of E.
IsSum(g, E, v) ==
    /\ \A x \in E : v[x] \in Int
    /\ g \in [SUBSET E -> Int] /\ g[{}] = 0
    /\ \A s \in SUBSET E : \A x \in s : g[s] = v[x] + g[s \ {x}]

\* There are sums, and they do not depend on the order.
LEMMA SumExists ==
    ASSUME NEW E, IsFiniteSet(E), NEW v, \A x \in E : v[x] \in Int
    PROVE  \E g : IsSum(g, E, v)
<1>1. PICK g : g = Round(SUBSET E, v, g)
  BY RoundsEnd
<1>2. /\ g = [s \in SUBSET E |-> g[s]] /\ g[{}] = 0
      /\ \A s \in SUBSET E : s # {} => First(s) \in s /\ g[s] = v[First(s)] + g[s \ {First(s)}]
  <2>1. \A s : s # {} => First(s) \in s
    BY DEF First
  <2>2. g = [s \in SUBSET E |-> IF s = {} THEN 0 ELSE v[First(s)] + g[s \ {First(s)}]]
    BY <1>1 DEF Round
  <2>3. ASSUME NEW s \in SUBSET E
        PROVE  g[s] = IF s = {} THEN 0 ELSE v[First(s)] + g[s \ {First(s)}]
    BY <2>2
  <2>4. g = [s \in SUBSET E |-> g[s]]
    BY <2>2
  <2> QED
    BY <2>1, <2>3, <2>4
<1>3. \A s \in SUBSET E : g[s] \in Int
  <2> DEFINE G == {s \in SUBSET E : g[s] \in Int}
  <2>1. ASSUME NEW s \in SUBSET E, \A t \in SUBSET s : t # s => t \in G PROVE s \in G
    <3>1. CASE s = {}
      BY <1>2, <3>1
    <3>2. CASE s # {}
      <4>1. s \ {First(s)} \in G
        BY <1>2, <2>1, <3>2
      <4>2. g[s] = v[First(s)] + g[s \ {First(s)}] /\ v[First(s)] \in Int
        BY <1>2, <3>2
      <4> QED
        BY <4>1, <4>2
    <3> QED
      BY <3>1, <3>2
  <2> HIDE DEF G
  <2>2. \A s \in SUBSET E : s \in G
    BY <2>1, SetInduction
  <2> QED
    BY <2>2 DEF G
<1>4. \A s \in SUBSET E : \A x \in s : g[s] = v[x] + g[s \ {x}]
  <2> DEFINE G == {s \in SUBSET E : \A x \in s : g[s] = v[x] + g[s \ {x}]}
  <2>1. ASSUME NEW s \in SUBSET E, \A t \in SUBSET s : t # s => t \in G PROVE s \in G
    <3> SUFFICES ASSUME NEW x \in s PROVE g[s] = v[x] + g[s \ {x}]
      OBVIOUS
    <3> DEFINE c == First(s)
               r == s \ {x}
               q == s \ {c}
               p == r \ {c}
    <3>1. c \in s /\ g[s] = v[c] + g[q]
      BY <1>2
    <3>2. CASE c = x
      BY <3>1, <3>2
    <3>3. CASE c # x
      <4>1. /\ r \in SUBSET E /\ q \in SUBSET E /\ p \in SUBSET E
            /\ r # s /\ q # s /\ p = q \ {x} /\ x \in q /\ c \in r
        BY <3>1, <3>3
      <4>2. r \in G /\ q \in G
        BY <2>1, <4>1
      <4>3. g[q] = v[x] + g[p] /\ g[r] = v[c] + g[p]
        BY <4>1, <4>2
      <4>4. g[p] \in Int /\ v[x] \in Int /\ v[c] \in Int
        BY <1>3, <3>1, <4>1
      <4> HIDE DEF c, r, q, p, G
      <4>5. g[s] = v[x] + g[r]
        BY <3>1, <4>3, <4>4
      <4> QED
        BY <4>5 DEF r
    <3> QED
      BY <3>2, <3>3
  <2> HIDE DEF G
  <2>2. \A s \in SUBSET E : s \in G
    BY <2>1, SetInduction
  <2> QED
    BY <2>2 DEF G
<1>5. g \in [SUBSET E -> Int]
  BY <1>2, <1>3
<1> QED
  BY <1>2, <1>4, <1>5 DEF IsSum

\* What SumFunction gives is the sum.
LEMMA SumFunctionIs ==
    ASSUME NEW E, IsFiniteSet(E), NEW v, NEW g, IsSum(g, E, v), NEW s \in SUBSET E
    PROVE  SumFunction([x \in s |-> v[x]]) = g[s]
<1> DEFINE w == [x \in s |-> v[x]]
           iter == CHOOSE h : h = Round(SUBSET s, w, h)
<1>1. SumFunction(w) = iter[s]
  BY DEF SumFunction, SumFunctionOnSet, FoldFunctionOnSet, MapThenFoldSet, Round, First
<1>2. IsFiniteSet(s)
  BY FS_Subset
<1>3. iter = Round(SUBSET s, w, iter)
  BY <1>2, RoundsEnd
<1> HIDE DEF iter
<1>4. \A t \in SUBSET s :
         /\ iter[t] = IF t = {} THEN 0 ELSE w[First(t)] + iter[t \ {First(t)}]
         /\ t # {} => First(t) \in t
  BY <1>3 DEF Round, First
<1> DEFINE G == {t \in SUBSET s : iter[t] = g[t]}
<1>5. ASSUME NEW t \in SUBSET s, \A u \in SUBSET t : u # t => u \in G PROVE t \in G
  <2>1. CASE t = {}
    BY <1>4, <2>1 DEF IsSum
  <2>2. CASE t # {}
    <3>1. First(t) \in t /\ iter[t] = w[First(t)] + iter[t \ {First(t)}]
      BY <1>4, <2>2
    <3>2. iter[t \ {First(t)}] = g[t \ {First(t)}]
      BY <1>5, <3>1
    <3>3. g[t] = v[First(t)] + g[t \ {First(t)}]
      BY <3>1 DEF IsSum
    <3>4. w[First(t)] = v[First(t)]
      BY <3>1
    <3> QED
      BY <3>1, <3>2, <3>3, <3>4
  <2> QED
    BY <2>1, <2>2
<1> HIDE DEF G
<1>6. \A t \in SUBSET s : t \in G
  BY <1>2, <1>5, SetInduction
<1> QED
  BY <1>1, <1>6 DEF G

\* A sum over two parts.
LEMMA SumOfParts ==
    ASSUME NEW E, IsFiniteSet(E), NEW v, NEW g, IsSum(g, E, v),
           NEW A \in SUBSET E, NEW B \in SUBSET E, A \cap B = {}
    PROVE  g[A \cup B] = g[A] + g[B]
<1> DEFINE G == {t \in SUBSET B : g[A \cup t] = g[A] + g[t]}
<1>0. \A t \in SUBSET E : g[t] \in Int
  BY DEF IsSum
<1>1. IsFiniteSet(B)
  BY FS_Subset
<1>2. ASSUME NEW t \in SUBSET B, \A u \in SUBSET t : u # t => u \in G PROVE t \in G
  <2>1. CASE t = {}
    <3>1. A \cup t = A /\ g[t] = 0 /\ g[A] \in Int
      BY <1>0, <2>1 DEF IsSum
    <3>2. g[A] + 0 = g[A]
      BY <3>1
    <3>3. g[A \cup t] = g[A] + g[t]
      BY <3>1, <3>2, Zenon
    <3> QED
      BY <3>3
  <2>2. CASE t # {}
    <3>1. PICK x \in t : TRUE
      BY <2>2
    <3> DEFINE u == t \ {x}
    <3>2. g[A \cup u] = g[A] + g[u]
      BY <1>2, <3>1
    <3>3. (A \cup t) \ {x} = A \cup u /\ A \cup t \in SUBSET E /\ t \in SUBSET E
      BY <3>1
    <3>4. g[A \cup t] = v[x] + g[A \cup u] /\ g[t] = v[x] + g[u]
      BY <3>1, <3>3 DEF IsSum
    <3>5. x \in E /\ u \in SUBSET E
      BY <3>1
    <3>6. v[x] \in Int
      BY <3>5 DEF IsSum
    <3>7. g[A] \in Int /\ g[u] \in Int
      BY <1>0, <3>5
    <3> HIDE DEF u
    <3>8. g[A \cup t] = g[A] + g[t]
      BY <3>2, <3>4, <3>6, <3>7
    <3> QED
      BY <3>8
  <2> QED
    BY <2>1, <2>2
<1> HIDE DEF G
<1>3. \A t \in SUBSET B : t \in G
  BY <1>1, <1>2, SetInduction
<1> QED
  BY <1>3 DEF G

\* A sum over an interval on which v is constant.
LEMMA SumOfConstant ==
    ASSUME NEW E, NEW v, NEW g, IsSum(g, E, v), NEW from \in Int, NEW a \in Int, NEW b \in Int,
           from =< a, a =< b, from..(b - 1) \subseteq E,
           NEW k \in Int, \A t \in a..(b - 1) : v[t] = k
    PROVE  g[from..(b - 1)] = g[from..(a - 1)] + k * (b - a)
<1> DEFINE G == {n \in Nat : a + n =< b => g[from..(a + n - 1)] = g[from..(a - 1)] + k * n}
<1>0. \A n \in Nat : a + n =< b => g[from..(a + n - 1)] \in Int
  BY DEF IsSum
<1>1. 0 \in G
  <2>1. g[from..(a - 1)] \in Int
    BY DEF IsSum
  <2>2. a + 0 - 1 = a - 1 /\ k * 0 = 0
    OBVIOUS
  <2>3. g[from..(a - 1)] + 0 = g[from..(a - 1)]
    BY <2>1
  <2>4. g[from..(a + 0 - 1)] = g[from..(a - 1)] + k * 0
    BY <2>2, <2>3, Zenon
  <2> QED
    BY <2>4
<1>2. ASSUME NEW n \in Nat, n \in G PROVE n + 1 \in G
  <2> SUFFICES ASSUME a + (n + 1) =< b
               PROVE  g[from..(a + (n + 1) - 1)] = g[from..(a - 1)] + k * (n + 1)
    OBVIOUS
  <2>1. g[from..(a + n - 1)] = g[from..(a - 1)] + k * n
    BY <1>2
  <2> DEFINE t == a + n
  <2>2. /\ t \in a..(b - 1) /\ t \in from..t /\ from..t \in SUBSET E
        /\ (from..t) \ {t} = from..(a + n - 1) /\ a + (n + 1) - 1 = t
    OBVIOUS
  <2>3. g[from..t] = v[t] + g[from..(a + n - 1)] /\ v[t] = k
    BY <2>2 DEF IsSum
  <2>4. k * (n + 1) = k * n + k /\ k * n \in Int
    OBVIOUS
  <2>5. g[from..(a - 1)] \in Int
    BY DEF IsSum
  <2> DEFINE before == g[from..(a - 1)]
             area == k * n
  <2> HIDE DEF t, before, area
  <2>6. /\ before \in Int /\ area \in Int
        /\ g[from..t] = k + (before + area) /\ k * (n + 1) = area + k
    BY <2>1, <2>3, <2>4, <2>5, Zenon DEF before, area
  <2>7. g[from..t] = before + k * (n + 1)
    BY <2>6
  <2> QED
    BY <2>2, <2>7 DEF before
<1> HIDE DEF G
<1>3. \A n \in Nat : n \in G
  BY <1>1, <1>2, NumberInduction
<1>4. b - a \in Nat /\ a + (b - a) =< b /\ a + (b - a) - 1 = b - 1
  OBVIOUS
<1> QED
  BY <1>3, <1>4 DEF G

-----------------------------------------------------------------------------
(* Instants in order *)

\* A finite set of integers has a greatest element.
LEMMA GreatestExists ==
    ASSUME NEW S, IsFiniteSet(S), S \subseteq Int, S # {}
    PROVE  \E x \in S : \A y \in S : y =< x
<1> DEFINE G == {s \in SUBSET S : s # {} => \E x \in s : \A y \in s : y =< x}
<1>1. ASSUME NEW s \in SUBSET S, \A t \in SUBSET s : t # s => t \in G PROVE s \in G
  <2> SUFFICES ASSUME s # {} PROVE \E x \in s : \A y \in s : y =< x
    OBVIOUS
  <2>1. PICK z \in s : TRUE
    OBVIOUS
  <2>2. CASE s \ {z} = {}
    BY <2>1, <2>2
  <2>3. CASE s \ {z} # {}
    <3>0. s \ {z} \in G
      BY <1>1, <2>1
    <3>1. PICK x \in s \ {z} : \A y \in s \ {z} : y =< x
      BY <2>3, <3>0
    <3>2. x \in Int /\ z \in Int /\ \A y \in s : y \in Int
      BY <2>1, <3>1
    <3> QED
      BY <2>1, <3>1, <3>2
  <2> QED
    BY <2>2, <2>3
<1> HIDE DEF G
<1>2. \A s \in SUBSET S : s \in G
  BY <1>1, SetInduction
<1> QED
  BY <1>2 DEF G

\* d lists the elements of S in increasing order, n in all.
Lists(d, n, S) ==
    /\ d \in [1..n -> S] /\ \A x \in S : \E i \in 1..n : d[i] = x
    /\ \A i, j \in 1..n : i < j => d[i] < d[j]

\* A finite set of integers can be listed.
LEMMA ListExists ==
    ASSUME NEW S, IsFiniteSet(S), S \subseteq Int
    PROVE  \E n \in Nat : \E d : Lists(d, n, S)
<1> DEFINE G == {s \in SUBSET S : \E n \in Nat : \E d : Lists(d, n, s)}
<1>1. ASSUME NEW s \in SUBSET S, \A t \in SUBSET s : t # s => t \in G PROVE s \in G
  <2>1. CASE s = {}
    <3>1. Lists([i \in 1..0 |-> i], 0, s)
      BY <2>1 DEF Lists
    <3> QED
      BY <3>1
  <2>2. CASE s # {}
    <3>1. PICK x \in s : \A y \in s : y =< x
      BY <2>2, GreatestExists, FS_Subset
    <3>0. PICK n \in Nat : \E d : Lists(d, n, s \ {x})
      BY <1>1, <3>1
    <3>2. PICK d : n \in Nat /\ Lists(d, n, s \ {x})
      BY <3>0
    <3> DEFINE e == [i \in 1..(n + 1) |-> IF i = n + 1 THEN x ELSE d[i]]
    <3>3. \A i \in 1..n : i \in 1..(n + 1) /\ e[i] = d[i] /\ d[i] \in s \ {x}
      BY <3>2 DEF Lists
    <3>4. n + 1 \in 1..(n + 1) /\ e[n + 1] = x /\ \A i \in 1..(n + 1) : i \in 1..n \/ i = n + 1
      OBVIOUS
    <3>5. e \in [1..(n + 1) -> s]
      BY <3>1, <3>3, <3>4
    <3>6. \A y \in s : \E i \in 1..(n + 1) : e[i] = y
      <4> SUFFICES ASSUME NEW y \in s PROVE \E i \in 1..(n + 1) : e[i] = y
        OBVIOUS
      <4> HIDE DEF e
      <4>1. CASE y = x
        BY <3>4, <4>1
      <4>2. CASE y # x
        <5>1. PICK i \in 1..n : d[i] = y
          BY <3>2, <4>2 DEF Lists
        <5> QED
          BY <3>3, <5>1
      <4> QED
        BY <4>1, <4>2
    <3>7. ASSUME NEW i \in 1..(n + 1), NEW j \in 1..(n + 1), i < j PROVE e[i] < e[j]
      <4>1. i \in 1..n
        BY <3>7
      <4>2. CASE j \in 1..n
        BY <3>2, <3>3, <3>7, <4>1, <4>2 DEF Lists
      <4>3. CASE j = n + 1
        <5>1. e[i] \in s \ {x} /\ e[j] = x
          BY <3>3, <3>4, <4>1, <4>3
        <5> HIDE DEF e
        <5>2. e[i] \in Int /\ x \in Int /\ e[i] =< x /\ e[i] # x
          BY <3>1, <5>1
        <5> QED
          BY <5>1, <5>2
      <4> QED
        BY <3>4, <4>2, <4>3
    <3> HIDE DEF e
    <3>8. Lists(e, n + 1, s)
      BY <3>5, <3>6, <3>7 DEF Lists
    <3> QED
      BY <3>8
  <2> QED
    BY <2>1, <2>2
<1> HIDE DEF G
<1>2. \A s \in SUBSET S : s \in G
  BY <1>1, SetInduction
<1> QED
  BY <1>2 DEF G

\* The instants that InOrder gives are those of S, in increasing order.
LEMMA InOrderLists ==
    ASSUME NEW S, IsFiniteSet(S), S \subseteq Int
    PROVE  Cardinality(S) \in Nat /\ Lists(InOrder(S), Cardinality(S), S)
<1> DEFINE Increasing(s) == \A i, j \in DOMAIN s : i < j => s[i] < s[j]
<1>0. PICK n \in Nat : \E d : Lists(d, n, S)
  BY ListExists
<1>1. PICK d : n \in Nat /\ Lists(d, n, S)
  BY <1>0
<1>2. d \in Bijection(1..n, S)
  <2>1. \A i, j \in 1..n : d[i] = d[j] => i = j
    <3> SUFFICES ASSUME NEW i \in 1..n, NEW j \in 1..n, d[i] = d[j] PROVE i = j
      OBVIOUS
    <3>1. d[i] \in Int /\ d[j] \in Int
      BY <1>1 DEF Lists
    <3>2. ~(d[i] < d[j]) /\ ~(d[j] < d[i])
      BY <3>1
    <3>3. ~(i < j) /\ ~(j < i)
      BY <1>1, <3>2 DEF Lists
    <3> QED
      BY <3>3
  <2>2. d \in [1..n -> S] /\ IsInjective(d)
    BY <1>1, <2>1 DEF Lists, IsInjective
  <2> QED
    BY <1>1, <2>2 DEF Lists, Bijection, Injection, Surjection
<1>3. Cardinality(S) = n
  BY <1>2, FS_CountingElements DEF ExistsBijection
<1>4. d \in [1..Cardinality(S) -> S] /\ Increasing(d)
  BY <1>1, <1>3 DEF Lists
<1>5. InOrder(S) \in [1..Cardinality(S) -> S] /\ Increasing(InOrder(S))
  BY <1>4 DEF InOrder
<1> DEFINE s == InOrder(S)
<1>6. \A i, j \in 1..n : i < j => s[i] < s[j]
  BY <1>3, <1>5
<1>7. s \in Injection(1..n, S)
  <2>1. \A i, j \in 1..n : s[i] = s[j] => i = j
    <3> SUFFICES ASSUME NEW i \in 1..n, NEW j \in 1..n, s[i] = s[j] PROVE i = j
      OBVIOUS
    <3>1. s[i] \in Int /\ s[j] \in Int
      BY <1>3, <1>5
    <3> HIDE DEF s
    <3>2. ~(s[i] < s[j]) /\ ~(s[j] < s[i])
      BY <3>1
    <3>3. ~(i < j) /\ ~(j < i)
      BY <1>6, <3>2
    <3> QED
      BY <3>3
  <2>2. s \in [1..n -> S]
    BY <1>3, <1>5
  <2> HIDE DEF s
  <2>3. IsInjective(s)
    BY <2>1, <2>2 DEF IsInjective
  <2> QED
    BY <2>2, <2>3 DEF Injection
<1> HIDE DEF s
<1>8. s \in Surjection(1..n, S)
  <2>1. IsFiniteSet(1..n) /\ Cardinality(1..n) = n
    BY FS_Interval
  <2> QED
    BY <1>3, <1>7, <2>1, FS_Injection
<1>9. Lists(s, n, S)
  BY <1>6, <1>8 DEF Lists, Surjection
<1> QED
  BY <1>3, <1>9 DEF s

-----------------------------------------------------------------------------
(* The walk over the deltas *)

\* The states of the loop, given those before.
Loop(start, deltas, asOf, n, after) ==
    [i \in 0..n |-> IF i = 0 THEN start ELSE Accumulated(after[i - 1], deltas[i], asOf)]

\* The loop has a state after each delta.
LEMMA LoopGoesOn ==
    ASSUME NEW start, NEW deltas, NEW asOf, NEW n \in Nat
    PROVE  \E after : after = Loop(start, deltas, asOf, n, after)
<1> DEFINE L(after, m) == Loop(start, deltas, asOf, m, after)
           G == {m \in Nat : \E after : after = L(after, m)}
<1>1. 0 \in G
  <2> DEFINE after == [i \in 0..0 |-> start]
  <2>1. after = L(after, 0)
    BY DEF Loop
  <2> QED
    BY <2>1
<1>2. ASSUME NEW m \in Nat, m \in G PROVE m + 1 \in G
  <2>1. PICK before : before = L(before, m)
    BY <1>2
  <2> DEFINE after == L(before, m + 1)
  <2>2. ASSUME NEW i \in 0..m PROVE i \in 0..(m + 1) /\ after[i] = before[i]
    <3>1. before[i] = L(before, m)[i]
      BY <2>1
    <3>2. i \in 0..(m + 1)
      OBVIOUS
    <3> QED
      BY <3>1, <3>2 DEF Loop
  <2>3. ASSUME NEW i \in 0..(m + 1), i # 0 PROVE before[i - 1] = after[i - 1]
    <3>1. i - 1 \in 0..m
      BY <2>3
    <3> HIDE DEF after
    <3> QED
      BY <2>2, <3>1
  <2>4. after = L(after, m + 1)
    <3> HIDE DEF after
    <3>1. L(before, m + 1) = L(after, m + 1)
      BY <2>3 DEF Loop
    <3> QED
      BY <3>1 DEF after
  <2> HIDE DEF after
  <2> QED
    BY <2>4
<1> HIDE DEF G
<1>3. \A m \in Nat : m \in G
  BY <1>1, <1>2, NumberInduction
<1> QED
  BY <1>3 DEF G

\* after is what the walk has after each delta.
Walk(from, asOf, opening, deltas, after) ==
    /\ after[0] = Opened(from, opening)
    /\ \A i \in 1..Len(deltas) : after[i] = Accumulated(after[i - 1], deltas[i], asOf)
    /\ Accrual(from, asOf, opening, deltas) = after[Len(deltas)]

\* It starts with the opening balance, takes one delta after the other, and ends with the last.
LEMMA AccrualLoops ==
    ASSUME NEW from, NEW asOf, NEW opening, NEW deltas, Len(deltas) \in Nat
    PROVE  \E after : Walk(from, asOf, opening, deltas, after)
<1> DEFINE n == Len(deltas)
           start == Opened(from, opening)
           after == CHOOSE f : f = Loop(start, deltas, asOf, n, f)
<1>1. Accrual(from, asOf, opening, deltas) = after[n]
  BY DEF Accrual, Loop
<1> HIDE DEF start
<1>2. after = Loop(start, deltas, asOf, n, after)
  BY LoopGoesOn
<1> HIDE DEF after
<1>3. after[0] = start
  BY <1>2 DEF Loop
<1>4. ASSUME NEW i \in 1..n PROVE after[i] = Accumulated(after[i - 1], deltas[i], asOf)
  BY <1>2 DEF Loop
<1> QED
  BY <1>1, <1>3, <1>4 DEF start, Walk

State == [cursor : Int, running : Int, area : Int, ok : BOOLEAN]

\* The loop computes integers.
LEMMA AccrualType ==
    ASSUME NEW from \in Int, NEW asOf \in Int, NEW opening \in Int, NEW deltas,
           Len(deltas) \in Nat,
           \A i \in 1..Len(deltas) : deltas[i].at \in Int /\ deltas[i].value \in Int
    PROVE  Accrual(from, asOf, opening, deltas) \in State
<1>0. PICK after : Walk(from, asOf, opening, deltas, after)
  BY AccrualLoops
<1>1. /\ after[0] = Opened(from, opening)
      /\ \A i \in 1..Len(deltas) : after[i] = Accumulated(after[i - 1], deltas[i], asOf)
      /\ Accrual(from, asOf, opening, deltas) = after[Len(deltas)]
  BY <1>0 DEF Walk
<1> DEFINE G == {i \in Nat : i \in 0..Len(deltas) => after[i] \in State}
<1>2. 0 \in G
  <2>1. Opened(from, opening) \in State
    BY DEF Opened, State
  <2> QED
    BY <1>1, <2>1
<1>3. ASSUME NEW i \in Nat, i \in G PROVE i + 1 \in G
  <2> SUFFICES ASSUME i + 1 \in 0..Len(deltas) PROVE after[i + 1] \in State
    OBVIOUS
  <2>1. after[i] \in State
    BY <1>3
  <2>2. after[i + 1] = Accumulated(after[i], deltas[i + 1], asOf)
    BY <1>1
  <2>3. deltas[i + 1].at \in Int /\ deltas[i + 1].value \in Int
    OBVIOUS
  <2> DEFINE before == after[i]
             delta == deltas[i + 1]
  <2>4. before \in State /\ delta.at \in Int /\ delta.value \in Int
    BY <2>1, <2>3
  <2> HIDE DEF before, delta
  <2> DEFINE stretch == before.running * (delta.at - before.cursor)
  <2>5. /\ stretch \in Int /\ before.area \in Int
         /\ delta.at \in Int /\ before.running + delta.value \in Int
    BY <2>4 DEF State
  <2> HIDE DEF stretch
  <2>6. before.area + stretch \in Int
    BY <2>5
  <2>7. Accumulated(before, delta, asOf) \in State
    BY <2>5, <2>6 DEF Accumulated, State, stretch
  <2> QED
    BY <2>2, <2>7 DEF before, delta
<1> HIDE DEF G
<1>4. \A i \in Nat : i \in G
  BY <1>2, <1>3, NumberInduction
<1> QED
  BY <1>1, <1>4 DEF G

\* held is the balance at each instant from the one before the period on; it changes only
\* at the instants S, n in all, by what the deltas say.
Balance(held, from, asOf, opening, deltas, S) ==
    /\ from \in Int /\ asOf \in Int /\ from =< asOf
    /\ \A t \in (from - 1)..(asOf - 1) : held[t] \in Int
    /\ opening = held[from - 1]
    /\ S \subseteq from..(asOf - 1) /\ Len(deltas) \in Nat
    /\ Lists([i \in 1..Len(deltas) |-> deltas[i].at], Len(deltas), S)
    /\ \A i \in 1..Len(deltas) : /\ deltas[i].value \in Int
                                 /\ held[deltas[i].at] = held[deltas[i].at - 1] + deltas[i].value
    /\ \A t \in (from..(asOf - 1)) \ S : held[t] = held[t - 1]

\* The instant of delta i, with one before the first and one after the last.
LastAt(from, deltas, i) == IF i = 0 THEN from - 1 ELSE deltas[i].at

NextAt(asOf, deltas, i) == IF i = Len(deltas) THEN asOf ELSE deltas[i + 1].at

\* Deltas are in order and within the period.
LEMMA DeltasInOrder ==
    ASSUME NEW held, NEW from, NEW asOf, NEW opening, NEW deltas, NEW S,
           Balance(held, from, asOf, opening, deltas, S)
    PROVE  /\ \A i \in 1..Len(deltas) : deltas[i].at \in S /\ deltas[i].at \in from..(asOf - 1)
           /\ \A i, j \in 1..Len(deltas) : i < j => deltas[i].at < deltas[j].at
           /\ \A t \in S : \E i \in 1..Len(deltas) : deltas[i].at = t
<1> DEFINE n == Len(deltas)
           d == [i \in 1..n |-> deltas[i].at]
<1>1. \A i \in 1..n : d[i] = deltas[i].at
  OBVIOUS
<1>2. Lists(d, n, S) /\ S \subseteq from..(asOf - 1)
  BY DEF Balance
<1> HIDE DEF d, n
<1>3. /\ \A i \in 1..n : d[i] \in S /\ d[i] \in from..(asOf - 1)
      /\ \A i, j \in 1..n : i < j => d[i] < d[j]
      /\ \A t \in S : \E i \in 1..n : d[i] = t
  BY <1>2 DEF Lists
<1>4. /\ \A i \in 1..n : deltas[i].at \in S /\ deltas[i].at \in from..(asOf - 1)
      /\ \A i, j \in 1..n : i < j => deltas[i].at < deltas[j].at
      /\ \A t \in S : \E i \in 1..n : deltas[i].at = t
  BY <1>1, <1>3
<1> QED
  BY <1>4 DEF n

\* Between two deltas the balance stays.
LEMMA BalanceStays ==
    ASSUME NEW held, NEW from, NEW asOf, NEW opening, NEW deltas, NEW S,
           Balance(held, from, asOf, opening, deltas, S), NEW i \in 0..Len(deltas)
    PROVE  /\ LastAt(from, deltas, i) \in (from - 1)..(asOf - 1)
           /\ NextAt(asOf, deltas, i) \in from..asOf
           /\ LastAt(from, deltas, i) < NextAt(asOf, deltas, i)
           /\ \A t \in LastAt(from, deltas, i)..(NextAt(asOf, deltas, i) - 1) :
                 held[t] = held[LastAt(from, deltas, i)]
<1> DEFINE n == Len(deltas)
           last == LastAt(from, deltas, i)
           next == NextAt(asOf, deltas, i)
<1>0. from \in Int /\ asOf \in Int /\ from =< asOf /\ n \in Nat
  BY DEF Balance
<1>1. /\ \A j \in 1..n : deltas[j].at \in from..(asOf - 1)
      /\ \A j, k \in 1..n : j < k => deltas[j].at < deltas[k].at
      /\ \A t \in S : \E j \in 1..n : deltas[j].at = t
  BY DeltasInOrder
<1>2. last \in (from - 1)..(asOf - 1)
  BY <1>0, <1>1 DEF LastAt
<1>3. next \in from..asOf
  BY <1>0, <1>1 DEF NextAt
<1>4. last < next
  BY <1>0, <1>1 DEF LastAt, NextAt
<1>5. ASSUME NEW t \in Int, last < t, t < next PROVE t \in from..(asOf - 1) /\ t \notin S
  <2>1. t \in from..(asOf - 1)
    BY <1>0, <1>2, <1>3, <1>5
  <2>2. ASSUME NEW j \in 1..n, deltas[j].at = t PROVE FALSE
    <3>1. i < j
      <4>1. CASE i = 0
        BY <4>1
      <4>2. CASE i # 0
        <5>1. i \in 1..n /\ last = deltas[i].at
          BY <4>2 DEF LastAt
        <5>2. ~(deltas[j].at < deltas[i].at) /\ deltas[j].at # deltas[i].at
          BY <1>1, <1>5, <2>2, <5>1
        <5> QED
          BY <1>1, <5>1, <5>2
      <4> QED
        BY <4>1, <4>2
    <3>2. i # n /\ i + 1 \in 1..n /\ next = deltas[i + 1].at
      BY <1>0, <3>1 DEF NextAt
    <3>3. ~(deltas[i + 1].at < deltas[j].at) /\ deltas[i + 1].at # deltas[j].at
      BY <1>1, <1>5, <2>2, <3>2
    <3> QED
      BY <1>1, <3>1, <3>2, <3>3
  <2> QED
    BY <1>1, <2>1, <2>2
<1> HIDE DEF last, next
<1>6. ASSUME NEW t \in Int, last < t, t < next PROVE held[t] = held[t - 1]
  BY <1>5, <1>6 DEF Balance
<1> DEFINE G == {k \in Nat : last + k < next => held[last + k] = held[last]}
<1>7. 0 \in G
  BY <1>2
<1>8. ASSUME NEW k \in Nat, k \in G PROVE k + 1 \in G
  <2> SUFFICES ASSUME last + (k + 1) < next PROVE held[last + (k + 1)] = held[last]
    OBVIOUS
  <2>1. held[last + k] = held[last]
    BY <1>2, <1>3, <1>8
  <2> DEFINE t == last + (k + 1)
  <2>2. t \in Int /\ last < t /\ t < next /\ t - 1 = last + k
    BY <1>2
  <2> HIDE DEF t
  <2>3. held[t] = held[t - 1]
    BY <1>6, <2>2
  <2>4. held[t] = held[last]
    BY <2>1, <2>2, <2>3, Zenon
  <2> QED
    BY <2>4 DEF t
<1> HIDE DEF G
<1>9. \A k \in Nat : k \in G
  BY <1>7, <1>8, NumberInduction
<1>10. ASSUME NEW t \in last..(next - 1) PROVE held[t] = held[last]
  <2>1. t - last \in Nat /\ last + (t - last) = t /\ t < next
    BY <1>2, <1>3
  <2>2. t - last \in G
    BY <1>9, <2>1
  <2> QED
    BY <2>1, <2>2 DEF G
<1> QED
  BY <1>2, <1>3, <1>4, <1>10 DEF last, next

\* The state of the loop once it has taken the deltas up to i: the balance at the last one,
\* what accrued before it, and whether no balance was negative so far.
Walked(held, from, deltas, g, i, state) ==
    /\ state.cursor = IF i = 0 THEN from ELSE LastAt(from, deltas, i)
    /\ state.running = held[LastAt(from, deltas, i)]
    /\ state.area = g[from..(state.cursor - 1)]
    /\ state.ok \in BOOLEAN
    /\ state.ok <=> \A t \in (from - 1)..LastAt(from, deltas, i) : held[t] >= 0

\* The area of the rectangle from where the loop is up to the next instant.
LEMMA StretchArea ==
    ASSUME NEW held, NEW from, NEW asOf, NEW opening, NEW deltas, NEW S, NEW g, NEW E,
           Balance(held, from, asOf, opening, deltas, S),
           IsSum(g, E, held), from..(asOf - 1) \subseteq E,
           NEW i \in 0..Len(deltas), NEW state, Walked(held, from, deltas, g, i, state)
    PROVE  LET next == NextAt(asOf, deltas, i)
           IN  /\ state.area + state.running * (next - state.cursor) = g[from..(next - 1)]
               /\ state.cursor \in from..next
               /\ state.running \in Int /\ state.area \in Int
               /\ state.running = held[next - 1]
               /\ state.ok <=> \A t \in (from - 1)..(next - 1) : held[t] >= 0
<1> DEFINE last == LastAt(from, deltas, i)
           next == NextAt(asOf, deltas, i)
           cursor == state.cursor
           running == state.running
<1>0. from \in Int /\ asOf \in Int /\ from =< asOf
  BY DEF Balance
<1>1. /\ last \in (from - 1)..(asOf - 1) /\ next \in from..asOf /\ last < next
      /\ \A t \in last..(next - 1) : held[t] = held[last]
  BY BalanceStays
<1>2. held[last] \in Int
  BY <1>1 DEF Balance
<1>3. /\ cursor = IF i = 0 THEN from ELSE last
      /\ running = held[last]
      /\ state.area = g[from..(cursor - 1)]
      /\ state.ok \in BOOLEAN
      /\ state.ok <=> \A t \in (from - 1)..last : held[t] >= 0
  BY DEF Walked
<1>4. i = 0 => last = from - 1
  BY DEF LastAt
<1>5. i # 0 => last \in from..(asOf - 1)
  BY DeltasInOrder, i \in 1..Len(deltas) \/ i = 0 DEF LastAt
<1> HIDE DEF last, next, cursor, running
<1>6. cursor \in from..next /\ \A t \in cursor..(next - 1) : t \in last..(next - 1)
  BY <1>0, <1>1, <1>3, <1>4, <1>5
<1>7. \A t \in cursor..(next - 1) : held[t] = running
  BY <1>1, <1>3, <1>6
<1>8. /\ cursor \in Int /\ next \in Int /\ from =< cursor /\ cursor =< next
      /\ from..(next - 1) \subseteq E /\ running \in Int
  BY <1>0, <1>1, <1>2, <1>3, <1>6
<1>9. g[from..(next - 1)] = g[from..(cursor - 1)] + running * (next - cursor)
  BY <1>0, <1>7, <1>8, SumOfConstant
<1>10. state.area \in Int
  <2>1. from..(cursor - 1) \in SUBSET E
    BY <1>0, <1>8
  <2>2. g[from..(cursor - 1)] \in Int
    BY <2>1 DEF IsSum
  <2> QED
    BY <1>3, <2>2, Zenon
<1>11. next - 1 \in last..(next - 1) /\ last \in Int /\ next \in Int
  BY <1>1
<1>12. running = held[next - 1]
  BY <1>1, <1>3, <1>11
<1>13. state.ok <=> \A t \in (from - 1)..(next - 1) : held[t] >= 0
  <2>1. ASSUME NEW t \in (from - 1)..(next - 1)
        PROVE  t \in (from - 1)..last \/ (t \in last..(next - 1) /\ held[t] = held[last])
    BY <1>0, <1>1
  <2>2. last \in (from - 1)..last /\ \A t \in (from - 1)..last : t \in (from - 1)..(next - 1)
    BY <1>0, <1>1
  <2> QED
    BY <1>3, <2>1, <2>2
<1>14. state.area + running * (next - cursor) = g[from..(next - 1)]
  BY <1>3, <1>9
<1> QED
  BY <1>6, <1>8, <1>10, <1>12, <1>13, <1>14 DEF next, cursor, running

\* What the walk over the deltas comes to, whatever the balance: the balance at the end, the
\* sum of the balances at the instants of the period, and whether none was negative.
THEOREM WalkIntegrates ==
    ASSUME NEW held, NEW from, NEW asOf, NEW opening, NEW deltas, NEW S, NEW g, NEW E,
           Balance(held, from, asOf, opening, deltas, S),
           IsSum(g, E, held), from..(asOf - 1) \subseteq E
    PROVE  LET end == Accrual(from, asOf, opening, deltas)
           IN  /\ end.running = held[asOf - 1]
               /\ StorageByteTime(end, asOf) = g[from..(asOf - 1)]
               /\ end.ok <=> \A t \in (from - 1)..(asOf - 1) : held[t] >= 0
<1>0. from \in Int /\ asOf \in Int /\ from =< asOf /\ Len(deltas) \in Nat
  BY DEF Balance
<1>1. PICK after : Walk(from, asOf, opening, deltas, after)
  BY <1>0, AccrualLoops
<1> DEFINE n == Len(deltas)
           W(i) == Walked(held, from, deltas, g, i, after[i])
           G == {i \in Nat : i \in 0..n => W(i)}
<1>2. 0 \in G
  <2>1. /\ held[from - 1] \in Int /\ opening = held[from - 1] /\ LastAt(from, deltas, 0) = from - 1
    BY <1>0 DEF Balance, LastAt
  <2>2. from..(from - 1) = {} /\ g[{}] = 0
    BY <1>0 DEF IsSum
  <2>3. \A t \in (from - 1)..(from - 1) : t = from - 1
    BY <1>0
  <2>4. from - 1 \in (from - 1)..(from - 1)
    BY <1>0
  <2>5. (opening >= 0) <=> \A t \in (from - 1)..(from - 1) : held[t] >= 0
    BY <2>1, <2>3, <2>4
  <2> DEFINE state == Opened(from, opening)
  <2>6. /\ state.cursor = from /\ state.running = held[from - 1] /\ state.area = 0
         /\ state.ok = (opening >= 0) /\ (opening >= 0) \in BOOLEAN
    BY <2>1 DEF Opened
  <2> HIDE DEF state
  <2>7. Walked(held, from, deltas, g, 0, state)
    BY <2>1, <2>2, <2>5, <2>6 DEF Walked
  <2>8. after[0] = state
    BY <1>1 DEF Walk, state
  <2> HIDE DEF n
  <2>9. W(0)
    BY <2>7, <2>8, Zenon
  <2> QED
    BY <2>9
<1>3. ASSUME NEW i \in Nat, i \in G PROVE i + 1 \in G
  <2> SUFFICES ASSUME i + 1 \in 0..n PROVE W(i + 1)
    OBVIOUS
  <2> DEFINE state == after[i]
             next == NextAt(asOf, deltas, i)
             delta == deltas[i + 1]
  <2>1. i \in 0..n /\ i + 1 \in 1..n /\ i # n
    BY <1>0
  <2>2. Walked(held, from, deltas, g, i, state)
    BY <1>3, <2>1
  <2>3. /\ state.area + state.running * (next - state.cursor) = g[from..(next - 1)]
        /\ state.cursor \in from..next
        /\ state.running \in Int /\ state.area \in Int
        /\ state.running = held[next - 1]
        /\ state.ok <=> \A t \in (from - 1)..(next - 1) : held[t] >= 0
    BY <2>1, <2>2, StretchArea
  <2>4. next = delta.at /\ LastAt(from, deltas, i + 1) = delta.at /\ i + 1 # 0
    BY <2>1 DEF NextAt, LastAt
  <2>5. /\ delta.at \in from..(asOf - 1) /\ delta.value \in Int
        /\ held[delta.at] = held[delta.at - 1] + delta.value
    <3>1. delta.at \in from..(asOf - 1)
      BY <2>1, DeltasInOrder
    <3> QED
      BY <2>1, <3>1 DEF Balance
  <2>6. after[i + 1] = Accumulated(state, delta, asOf)
    <3>1. after[i + 1] = Accumulated(after[(i + 1) - 1], deltas[i + 1], asOf)
      BY <1>1, <2>1 DEF Walk
    <3>2. (i + 1) - 1 = i
      OBVIOUS
    <3> QED
      BY <3>1, <3>2, Zenon
  <2>7. state.ok \in BOOLEAN
    BY <2>2 DEF Walked
  <2> HIDE DEF state, next, delta
  <2> DEFINE new == Accumulated(state, delta, asOf)
             at == delta.at
  <2>8. new.cursor = at /\ new.area = g[from..(at - 1)]
    BY <2>3, <2>4 DEF Accumulated
  <2>9. state.running + delta.value = held[at]
    BY <2>3, <2>4, <2>5
  <2>10. /\ new.running = held[at]
         /\ new.ok = (state.ok /\ at \in state.cursor..(asOf - 1) /\ held[at] >= 0)
    BY <2>9 DEF Accumulated
  <2>11. at \in state.cursor..(asOf - 1)
    BY <1>0, <2>3, <2>4, <2>5
  <2> HIDE DEF at
  <2>12. \A t \in (from - 1)..at : t = at \/ t \in (from - 1)..(at - 1)
    BY <1>0, <2>5 DEF at
  <2>13. at \in (from - 1)..at /\ \A t \in (from - 1)..(at - 1) : t \in (from - 1)..at
    BY <1>0, <2>5 DEF at
  <2>14. state.ok <=> \A t \in (from - 1)..(at - 1) : held[t] >= 0
    BY <2>3, <2>4 DEF at
  <2>15. (state.ok /\ held[at] >= 0) <=> \A t \in (from - 1)..at : held[t] >= 0
    BY <2>12, <2>13, <2>14
  <2> HIDE DEF new
  <2>16. new.ok \in BOOLEAN /\ (new.ok <=> \A t \in (from - 1)..at : held[t] >= 0)
    BY <2>7, <2>10, <2>11, <2>15
  <2>17. LastAt(from, deltas, i + 1) = at /\ i + 1 # 0
    BY <2>4 DEF at
  <2>18. Walked(held, from, deltas, g, i + 1, new)
    BY <2>8, <2>10, <2>16, <2>17 DEF Walked
  <2> QED
    BY <2>6, <2>18 DEF new
<1> HIDE DEF G
<1>4. \A i \in Nat : i \in G
  BY <1>2, <1>3, NumberInduction
<1> DEFINE end == after[n]
<1>5. Walked(held, from, deltas, g, n, end)
  BY <1>0, <1>4 DEF G
<1>6. n \in 0..n /\ NextAt(asOf, deltas, n) = asOf
  BY <1>0 DEF NextAt
<1> HIDE DEF end, n
<1>7. /\ end.area + end.running * (asOf - end.cursor) = g[from..(asOf - 1)]
      /\ end.running = held[asOf - 1]
      /\ end.ok <=> \A t \in (from - 1)..(asOf - 1) : held[t] >= 0
  BY <1>5, <1>6, StretchArea DEF n
<1>8. Accrual(from, asOf, opening, deltas) = end
  BY <1>1 DEF Walk, end, n
<1>9. /\ end.running = held[asOf - 1]
      /\ StorageByteTime(end, asOf) = g[from..(asOf - 1)]
      /\ end.ok <=> \A t \in (from - 1)..(asOf - 1) : held[t] >= 0
  BY <1>7 DEF StorageByteTime
<1> QED
  BY <1>8, <1>9

-----------------------------------------------------------------------------
(* What the queries return *)

\* A month's metrics up to the as-of, by the rows visible now.
PushOf(from, asOf) == SumUsageMetricBetween("push-op-count", from, asOf)

OpeningOf(from) == SumUsageMetricBefore("storage-bytes", from)

DeltasOf(from, asOf) == ListUsageMetricDeltas("storage-bytes", from, asOf)

EndOf(from, asOf) == Accrual(from, asOf, OpeningOf(from), DeltasOf(from, asOf))

Row == [at : Nat, metric : {"storage-bytes", "push-op-count"}, value : Int,
        committed : BOOLEAN]

LedgerOK ==
    /\ now \in 0..MaxNow
    /\ ledger \in [Event -> Row \cup {NoEvent}]
    /\ \A e \in Event : ledger[e] # NoEvent => /\ ledger[e].at =< now
                                               /\ <<ledger[e].metric, ledger[e].value>> \in Usage
    /\ IsFiniteSet({e \in Event : ledger[e] # NoEvent})

\* There are finitely many rows, and each is typed.
LEMMA CommittedRows ==
    ASSUME LedgerOK
    PROVE  /\ IsFiniteSet(Committed)
           /\ \A e \in Committed : ledger[e].at \in Nat /\ ledger[e].value \in Int
<1>1. Committed \subseteq {e \in Event : ledger[e] # NoEvent}
  BY DEF Committed
<1>2. IsFiniteSet(Committed)
  BY <1>1, FS_Subset DEF LedgerOK
<1>3. \A e \in Committed : ledger[e] \in Row
  BY DEF Committed, LedgerOK
<1> QED
  BY <1>2, <1>3 DEF Row

\* Totals of rows are sums.
LEMMA TotalsAreSums ==
    ASSUME LedgerOK
    PROVE  \E g : /\ IsSum(g, Committed, [e \in Committed |-> ledger[e].value])
                  /\ \A rows \in SUBSET Committed : Total(rows) = g[rows]
<1> DEFINE v == [e \in Committed |-> ledger[e].value]
<1>1. \A e \in Committed : v[e] \in Int
  BY CommittedRows
<1>2. IsFiniteSet(Committed)
  BY CommittedRows
<1>3. ASSUME NEW rows \in SUBSET Committed PROVE Total(rows) = SumFunction([e \in rows |-> v[e]])
  <2>1. [e \in rows |-> ledger[e].value] = [e \in rows |-> v[e]]
    OBVIOUS
  <2> QED
    BY <2>1 DEF Total
<1> HIDE DEF v
<1>4. PICK g : IsSum(g, Committed, v)
  BY <1>1, <1>2, SumExists
<1>5. ASSUME NEW rows \in SUBSET Committed PROVE Total(rows) = g[rows]
  <2>1. SumFunction([e \in rows |-> v[e]]) = g[rows]
    BY <1>2, <1>4, SumFunctionIs
  <2> QED
    BY <1>3, <2>1
<1> QED
  BY <1>4, <1>5 DEF v

\* A total is a number.
LEMMA TotalType ==
    ASSUME LedgerOK, NEW rows \in SUBSET Committed
    PROVE  Total(rows) \in Int
BY TotalsAreSums DEF IsSum

\* The total of two parts.
LEMMA TotalOfParts ==
    ASSUME LedgerOK, NEW A \in SUBSET Committed, NEW B \in SUBSET Committed, A \cap B = {}
    PROVE  Total(A \cup B) = Total(A) + Total(B)
<1> DEFINE v == [e \in Committed |-> ledger[e].value]
<1>1. PICK g : /\ IsSum(g, Committed, v)
               /\ \A rows \in SUBSET Committed : Total(rows) = g[rows]
  BY TotalsAreSums
<1>2. IsFiniteSet(Committed)
  BY CommittedRows
<1> HIDE DEF v
<1>3. g[A \cup B] = g[A] + g[B]
  BY <1>1, <1>2, SumOfParts
<1>4. A \cup B \in SUBSET Committed
  OBVIOUS
<1> QED
  BY <1>1, <1>3, <1>4

\* The bytes held, the pushes and the opening balance are numbers.
LEMMA QueryTypes ==
    ASSUME LedgerOK, NEW from, NEW asOf, NEW t
    PROVE  BytesAt(t) \in Int /\ PushOf(from, asOf) \in Int /\ OpeningOf(from) \in Int
<1>1. {e \in Committed : ledger[e].metric = "storage-bytes" /\ ledger[e].at =< t}
        \in SUBSET Committed
  OBVIOUS
<1>2. BytesAt(t) \in Int
  BY <1>1, TotalType DEF BytesAt
<1>3. /\ RowsBetween("push-op-count", from, asOf) \in SUBSET Committed
      /\ RowsBetween("storage-bytes", 0, from) \in SUBSET Committed
  BY DEF RowsBetween
<1> QED
  BY <1>2, <1>3, TotalType DEF PushOf, OpeningOf, SumUsageMetricBetween, SumUsageMetricBefore

\* The opening balance of a period is what was held at the instant before it.
LEMMA OpeningIs ==
    ASSUME LedgerOK, NEW from \in Nat
    PROVE  OpeningOf(from) = BytesAt(from - 1)
<1>1. \A e \in Committed : ledger[e].at \in Nat
  BY CommittedRows
<1>2. RowsBetween("storage-bytes", 0, from)
        = {e \in Committed : ledger[e].metric = "storage-bytes" /\ ledger[e].at =< from - 1}
  BY <1>1 DEF RowsBetween
<1> QED
  BY <1>2 DEF OpeningOf, SumUsageMetricBefore, BytesAt

\* The opening balance and the deltas of a period say when and how the bytes held change in it.
LEMMA QueriesBalance ==
    ASSUME LedgerOK, NEW from \in Nat, NEW asOf \in Nat, from =< asOf
    PROVE  \E S : Balance([t \in Int |-> BytesAt(t)], from, asOf, OpeningOf(from),
                          DeltasOf(from, asOf), S)
<1> DEFINE held == [t \in Int |-> BytesAt(t)]
           opening == OpeningOf(from)
           deltas == DeltasOf(from, asOf)
           rows == RowsBetween("storage-bytes", from, asOf)
           S == {ledger[e].at : e \in rows}
           Of(t) == {e \in rows : ledger[e].at = t}
           Upon(t) == {e \in Committed : ledger[e].metric = "storage-bytes" /\ ledger[e].at =< t}
           n == Cardinality(S)
           d == InOrder(S)
<1>0. IsFiniteSet(Committed) /\ \A e \in Committed : ledger[e].at \in Nat
  BY CommittedRows
<1>1. \A t \in Int : held[t] = Total(Upon(t)) /\ held[t] \in Int
  <2>1. \A t \in Int : BytesAt(t) = Total(Upon(t)) /\ BytesAt(t) \in Int
    BY QueryTypes DEF BytesAt
  <2> QED
    BY <2>1
<1>2. opening = held[from - 1]
  BY OpeningIs
<1>3. rows \subseteq Committed /\ IsFiniteSet(rows) /\ S \subseteq from..(asOf - 1)
  <2>1. rows \subseteq Committed
    BY DEF RowsBetween
  <2>2. IsFiniteSet(rows)
    BY <1>0, <2>1, FS_Subset
  <2> QED
    BY <2>1, <2>2 DEF RowsBetween
<1>4. IsFiniteSet(S)
  <2> DEFINE f == [e \in rows |-> ledger[e].at]
  <2>1. f \in Surjection(rows, S)
    BY DEF Surjection
  <2> HIDE DEF f, S, rows
  <2> QED
    BY <1>3, <2>1, FS_Surjection
<1>5. n \in Nat /\ Lists(d, n, S)
  <2>1. S \subseteq Int
    BY <1>3
  <2> HIDE DEF S
  <2> QED
    BY <1>4, <2>1, InOrderLists
<1>6. /\ Len(deltas) = n
      /\ \A i \in 1..n : deltas[i].at = d[i] /\ deltas[i].value = Total(Of(d[i]))
  <2>1. deltas = [i \in DOMAIN d |-> [at |-> d[i], value |-> Total(Of(d[i]))]]
    BY DEF DeltasOf, ListUsageMetricDeltas
  <2>2. DOMAIN d = 1..n
    BY <1>5 DEF Lists
  <2> HIDE DEF deltas, d, n, Of
  <2>3. deltas = [i \in 1..n |-> [at |-> d[i], value |-> Total(Of(d[i]))]]
    BY <2>1, <2>2
  <2> QED
    BY <1>5, <2>3
<1>7. Lists([i \in 1..n |-> deltas[i].at], n, S)
  <2>1. d = [i \in 1..n |-> d[i]]
    BY <1>5 DEF Lists
  <2> HIDE DEF deltas, d, n, S
  <2>2. [i \in 1..n |-> deltas[i].at] = [i \in 1..n |-> d[i]]
    BY <1>6
  <2> QED
    BY <1>5, <2>1, <2>2
<1>8. ASSUME NEW t \in from..(asOf - 1)
      PROVE  held[t] = held[t - 1] + Total(Of(t)) /\ Total(Of(t)) \in Int
  <2>1. t \in Int /\ t - 1 \in Int /\ Of(t) \in SUBSET Committed /\ Upon(t - 1) \in SUBSET Committed
    BY <1>3
  <2>2. Upon(t) = Upon(t - 1) \cup Of(t) /\ Upon(t - 1) \cap Of(t) = {}
    BY <1>0 DEF RowsBetween
  <2> HIDE DEF held, Upon, Of
  <2>3. Total(Upon(t)) = Total(Upon(t - 1)) + Total(Of(t))
    BY <2>1, <2>2, TotalOfParts
  <2> QED
    BY <1>1, <2>1, <2>3, TotalType
<1>9. ASSUME NEW i \in 1..n
      PROVE  /\ deltas[i].value \in Int
             /\ held[deltas[i].at] = held[deltas[i].at - 1] + deltas[i].value
  <2>1. d[i] \in from..(asOf - 1)
    BY <1>3, <1>5 DEF Lists
  <2> HIDE DEF held, deltas, d, Of
  <2> QED
    BY <1>6, <1>8, <2>1
<1>10. ASSUME NEW t \in (from..(asOf - 1)) \ S PROVE held[t] = held[t - 1]
  <2>1. t \in Int /\ t - 1 \in Int
    OBVIOUS
  <2>2. Upon(t) = Upon(t - 1)
    BY <1>0 DEF RowsBetween
  <2> HIDE DEF held, Upon
  <2> QED
    BY <1>1, <2>1, <2>2
<1> HIDE DEF held, opening, deltas, S, n
<1>11. ASSUME NEW t \in (from - 1)..(asOf - 1) PROVE held[t] \in Int
  <2>1. t \in Int
    OBVIOUS
  <2> QED
    BY <1>1, <2>1
<1>12. Balance(held, from, asOf, opening, deltas, S)
  BY <1>2, <1>3, <1>5, <1>6, <1>7, <1>9, <1>10, <1>11 DEF Balance
<1> QED
  BY <1>12 DEF held, opening, deltas

\* What a summary computed from queries of one instant comes to: the bytes held at the end of
\* the period, their sum over its instants, and whether they were never negative.
LEMMA SummaryIs ==
    ASSUME LedgerOK, NEW from \in Nat, NEW asOf \in Nat, from =< asOf
    PROVE  /\ EndOf(from, asOf).running = BytesAt(asOf - 1)
           /\ StorageByteTime(EndOf(from, asOf), asOf)
                = SumFunction([t \in from..(asOf - 1) |-> BytesAt(t)])
           /\ EndOf(from, asOf).ok <=> \A t \in (from - 1)..(asOf - 1) : BytesAt(t) >= 0
<1> DEFINE held == [t \in Int |-> BytesAt(t)]
           end == EndOf(from, asOf)
           E == from..(asOf - 1)
<1>1. IsFiniteSet(E)
  BY FS_Interval
<1>2. PICK S : Balance(held, from, asOf, OpeningOf(from), DeltasOf(from, asOf), S)
  BY QueriesBalance
<1>3. /\ \A t \in Int : held[t] = BytesAt(t)
      /\ asOf - 1 \in Int /\ \A t \in (from - 1)..(asOf - 1) : t \in Int
      /\ E \subseteq Int
  OBVIOUS
<1>4. \A t \in Int : held[t] \in Int
  BY QueryTypes
<1> HIDE DEF held, E
<1>5. PICK g : IsSum(g, E, held)
  BY <1>1, <1>3, <1>4, SumExists
<1>6. /\ end.running = held[asOf - 1]
      /\ StorageByteTime(end, asOf) = g[from..(asOf - 1)]
      /\ end.ok <=> \A t \in (from - 1)..(asOf - 1) : held[t] >= 0
  <2>1. from..(asOf - 1) \subseteq E
    BY DEF E
  <2> QED
    BY <1>2, <1>5, <2>1, WalkIntegrates DEF EndOf
<1>7. SumFunction([t \in E |-> held[t]]) = g[E]
  BY <1>1, <1>5, SumFunctionIs
<1>8. [t \in E |-> held[t]] = [t \in E |-> BytesAt(t)]
  BY <1>3
<1> HIDE DEF end
<1>9. StorageByteTime(end, asOf) = SumFunction([t \in from..(asOf - 1) |-> BytesAt(t)])
  BY <1>6, <1>7, <1>8 DEF E
<1>10. end.running = BytesAt(asOf - 1)
  BY <1>3, <1>6
<1>11. end.ok <=> \A t \in (from - 1)..(asOf - 1) : BytesAt(t) >= 0
  BY <1>3, <1>6
<1> QED
  BY <1>9, <1>10, <1>11 DEF end

\* Whatever opening balance the walk starts from, it computes numbers.
LEMMA WalkType ==
    ASSUME LedgerOK, NEW from \in Nat, NEW asOf \in Nat, from =< asOf, NEW opening \in Int
    PROVE  LET end == Accrual(from, asOf, opening, DeltasOf(from, asOf))
           IN  end.running \in Int /\ StorageByteTime(end, asOf) \in Int
<1> DEFINE deltas == DeltasOf(from, asOf)
           held == [t \in Int |-> BytesAt(t)]
           end == Accrual(from, asOf, opening, deltas)
<1>1. PICK S : Balance(held, from, asOf, OpeningOf(from), deltas, S)
  BY QueriesBalance
<1> HIDE DEF deltas, held
<1>2. /\ Len(deltas) \in Nat
      /\ \A i \in 1..Len(deltas) : deltas[i].at \in Int /\ deltas[i].value \in Int
  <2>1. \A i \in 1..Len(deltas) : deltas[i].at \in from..(asOf - 1)
    BY <1>1, DeltasInOrder
  <2> QED
    BY <1>1, <2>1 DEF Balance
<1>3. end \in State
  BY <1>2, AccrualType
<1> HIDE DEF end
<1>4. end.running \in Int /\ StorageByteTime(end, asOf) \in Int
  BY <1>3 DEF State, StorageByteTime
<1> QED
  BY <1>4 DEF end, deltas

-----------------------------------------------------------------------------
(* The strengthened invariant *)

Request ==
    [step : {"push", "opening", "deltas", "ok", "failed"}, from : Months, asOf : Nat,
     push : Int, opening : Int, closing : Int, area : Int, late : BOOLEAN, settled : BOOLEAN]

\* The as-of lies in the period.
Within(rq) == rq.from =< rq.asOf /\ rq.asOf =< rq.from + MonthLength

RequestOK == request = Idle \/ (request \in Request /\ Within(request))

\* What a request about this period has read is what its queries would return now.
ReadsNow(from, asOf) ==
    /\ request.step \in {"opening", "deltas", "ok", "failed"} => request.push = PushOf(from, asOf)
    /\ request.step \in {"deltas", "ok", "failed"} => request.opening = OpeningOf(from)
    /\ request.step = "ok" => /\ EndOf(from, asOf).ok
                              /\ request.closing = EndOf(from, asOf).running
                              /\ request.area = StorageByteTime(EndOf(from, asOf), asOf)
    /\ request.step = "failed" => ~EndOf(from, asOf).ok

RequestCurrent ==
    \A from \in Months, asOf \in Nat :
       request # Idle /\ ~request.late /\ request.from = from /\ request.asOf = asOf
          => ReadsNow(from, asOf)

\* The month is over, and so is every insert begun in it.
Settled(m) ==
    /\ m + MonthLength =< now
    /\ \A e \in Open : ledger[e].at >= m + MonthLength

RequestSettled ==
    \A m \in Months :
       request # Idle /\ request.settled /\ request.from = m
          => Settled(m) /\ request.asOf = m + MonthLength /\ ~request.late

\* Every report is what its month reports now.
ReportOf(m) ==
    LET asOf == m + MonthLength
    IN  [from |-> m, push |-> PushOf(m, asOf), opening |-> OpeningOf(m),
         closing |-> EndOf(m, asOf).running, area |-> StorageByteTime(EndOf(m, asOf), asOf)]

ReportsCurrent ==
    \A r \in reports : \E m \in Months : Settled(m) /\ r = ReportOf(m)

UsageInv == LedgerOK /\ RequestOK /\ RequestCurrent /\ RequestSettled /\ ReportsCurrent

\* Months are instants.
LEMMA MonthsAreInstants ==
    ASSUME NEW m \in Months
    PROVE  m \in Nat /\ m + MonthLength \in Nat /\ m < m + MonthLength
BY UsageAssumption DEF Months

-----------------------------------------------------------------------------
(* The ledger's steps *)

\* One row is written: rows stay typed and finitely many.
LEMMA OneRowWritten ==
    ASSUME LedgerOK, now' = now, NEW e \in Event, NEW row, ledger' = [ledger EXCEPT ![e] = row],
           row = NoEvent \/ (row \in Row /\ row.at =< now /\ <<row.metric, row.value>> \in Usage)
    PROVE  LedgerOK'
<1> DEFINE rows == {d \in Event : ledger[d] # NoEvent}
<1>1. ledger \in [Event -> Row \cup {NoEvent}]
  BY DEF LedgerOK
<1>2. ledger'[e] = row /\ \A d \in Event : d # e => ledger'[d] = ledger[d]
  BY <1>1
<1>3. ledger' \in [Event -> Row \cup {NoEvent}]
  BY <1>1
<1>4. IsFiniteSet(rows \cup {e})
  BY FS_AddElement DEF LedgerOK
<1>5. rows' \subseteq rows \cup {e}
  BY <1>2
<1>6. IsFiniteSet(rows')
  BY <1>4, <1>5, FS_Subset
<1>7. \A d \in Event : ledger'[d] # NoEvent =>
         ledger'[d].at =< now /\ <<ledger'[d].metric, ledger'[d].value>> \in Usage
  BY <1>2 DEF LedgerOK
<1> QED
  BY <1>3, <1>6, <1>7 DEF LedgerOK

\* Rows keep to their type, and the clock does not run back.
LEMMA LedgerStep ==
    ASSUME LedgerOK, [Next]_vars
    PROVE  LedgerOK' /\ now' >= now
<1>0. now \in Nat
  BY UsageAssumption DEF LedgerOK
<1>1. CASE Tick
  <2>1. now' = now + 1 /\ now' \in 0..MaxNow /\ ledger' = ledger
    BY <1>0, <1>1, UsageAssumption DEF Tick
  <2>2. \A e \in Event : ledger[e] # NoEvent => ledger[e].at \in Nat
    BY DEF LedgerOK, Row
  <2> QED
    BY <1>0, <2>1, <2>2 DEF LedgerOK
<1>2. ASSUME NEW e \in Event, NEW usage \in Usage, InsertUsageEvents(e, usage)
      PROVE  LedgerOK' /\ now' >= now
  <2> DEFINE row == [at |-> now, metric |-> usage[1], value |-> usage[2], committed |-> FALSE]
  <2>1. usage[1] \in {"storage-bytes", "push-op-count"} /\ usage[2] \in Int
        /\ <<usage[1], usage[2]>> = usage
    BY UsageAssumption
  <2>2. row \in Row /\ row.at =< now /\ <<row.metric, row.value>> \in Usage
    BY <1>0, <2>1 DEF Row
  <2>3. ledger' = [ledger EXCEPT ![e] = row] /\ now' = now
    BY <1>2 DEF InsertUsageEvents
  <2> HIDE DEF row
  <2>4. LedgerOK'
    BY <2>2, <2>3, OneRowWritten
  <2> QED
    BY <1>0, <2>2, <2>3, <2>4
<1>3. ASSUME NEW e \in Event, CommitInsert(e)
      PROVE  LedgerOK' /\ now' >= now
  <2> DEFINE row == [ledger[e] EXCEPT !.committed = TRUE]
  <2>1. /\ ledger[e] \in Row /\ ledger[e].at =< now
        /\ <<ledger[e].metric, ledger[e].value>> \in Usage
    BY <1>3 DEF CommitInsert, Open, LedgerOK
  <2>2. row \in Row /\ row.at =< now /\ <<row.metric, row.value>> \in Usage
    BY <2>1 DEF Row
  <2>3. ledger' = [ledger EXCEPT ![e] = row] /\ now' = now
    BY <1>3 DEF CommitInsert
  <2> HIDE DEF row
  <2>4. LedgerOK'
    BY <2>2, <2>3, OneRowWritten
  <2> QED
    BY <1>0, <2>2, <2>3, <2>4
<1>4. ASSUME NEW e \in Event, RollbackInsert(e)
      PROVE  LedgerOK' /\ now' >= now
  <2>1. ledger' = [ledger EXCEPT ![e] = NoEvent] /\ now' = now
    BY <1>4 DEF RollbackInsert
  <2>2. LedgerOK'
    BY <2>1, OneRowWritten
  <2> QED
    BY <1>0, <2>1, <2>2
<1>5. CASE UNCHANGED <<now, ledger>>
  BY <1>0, <1>5 DEF LedgerOK
<1> QED
  BY <1>1, <1>2, <1>3, <1>4, <1>5
  DEF Next, vars, AskSummary, ReadOpCount, ReadOpening, ReadDeltasAndCalculate, Respond

\* The rows older than an instant stay the same.
SameRows(to) ==
    \A e \in Event :
       /\ e \in Committed' /\ ledger'[e].at < to <=> e \in Committed /\ ledger[e].at < to
       /\ e \in Committed /\ ledger[e].at < to => ledger'[e] = ledger[e]

\* They do unless an insert of one of them commits.
LEMMA RowsKept ==
    ASSUME LedgerOK, [Next]_vars, NEW to, \A e \in Event : CommitInsert(e) => ~(ledger[e].at < to)
    PROVE  SameRows(to)
<1>1. CASE UNCHANGED ledger
  BY <1>1 DEF SameRows, Committed
<1>2. ASSUME NEW e \in Event, NEW row, ledger' = [ledger EXCEPT ![e] = row], e \notin Committed,
             row # NoEvent /\ row.committed => ~(row.at < to)
      PROVE  SameRows(to)
  <2>1. ledger'[e] = row /\ \A d \in Event : d # e => ledger'[d] = ledger[d]
    BY <1>2 DEF LedgerOK
  <2>2. e \in Committed' => ~(ledger'[e].at < to)
    BY <1>2, <2>1 DEF Committed
  <2>3. \A d \in Event : d # e => (d \in Committed' <=> d \in Committed)
    BY <2>1 DEF Committed
  <2> QED
    BY <1>2, <2>1, <2>2, <2>3 DEF SameRows
<1>3. ASSUME NEW e \in Event, NEW usage \in Usage, InsertUsageEvents(e, usage) PROVE SameRows(to)
  <2> DEFINE row == [at |-> now, metric |-> usage[1], value |-> usage[2], committed |-> FALSE]
  <2>1. ~row.committed
    OBVIOUS
  <2>2. ledger' = [ledger EXCEPT ![e] = row] /\ e \notin Committed
    BY <1>3 DEF InsertUsageEvents, Committed
  <2> HIDE DEF row
  <2> QED
    BY <1>2, <2>1, <2>2
<1>4. ASSUME NEW e \in Event, CommitInsert(e) PROVE SameRows(to)
  <2> DEFINE row == [ledger[e] EXCEPT !.committed = TRUE]
  <2>1. ledger[e] \in Row /\ e \notin Committed
    BY <1>4 DEF CommitInsert, Open, LedgerOK, Committed
  <2>2. row.at = ledger[e].at
    BY <2>1 DEF Row
  <2>3. ledger' = [ledger EXCEPT ![e] = row]
    BY <1>4 DEF CommitInsert
  <2> HIDE DEF row
  <2> QED
    BY <1>2, <1>4, <2>1, <2>2, <2>3
<1>5. ASSUME NEW e \in Event, RollbackInsert(e) PROVE SameRows(to)
  <2>1. ledger' = [ledger EXCEPT ![e] = NoEvent] /\ e \notin Committed
    BY <1>5 DEF RollbackInsert, Open, Committed
  <2> QED
    BY <1>2, <2>1
<1> QED
  BY <1>1, <1>3, <1>4, <1>5
  DEF Next, vars, Tick, AskSummary, ReadOpCount, ReadOpening, ReadDeltasAndCalculate, Respond

\* A settled month stays settled, and its rows and those before it stay.
LEMMA SettledStep ==
    ASSUME LedgerOK, [Next]_vars, NEW m \in Months, Settled(m)
    PROVE  Settled(m)' /\ SameRows(m + MonthLength)
<1> DEFINE end == m + MonthLength
<1>0. end \in Nat /\ now \in Nat /\ end =< now
  BY MonthsAreInstants, UsageAssumption DEF LedgerOK, Settled
<1>1. \A e \in Open : ledger[e].at >= end /\ ledger[e].at \in Nat
  BY DEF Settled, Open, LedgerOK, Row
<1>2. LedgerOK' /\ now' >= now /\ now' \in Nat
  BY LedgerStep, UsageAssumption DEF LedgerOK
<1>3. SameRows(end)
  <2>1. \A e \in Event : CommitInsert(e) => ~(ledger[e].at < end)
    BY <1>0, <1>1 DEF CommitInsert
  <2> HIDE DEF end
  <2> QED
    BY <2>1, RowsKept
<1>4. ASSUME NEW e \in Open' PROVE ledger'[e].at >= end
  <2>1. CASE e \in Open /\ ledger'[e].at = ledger[e].at
    BY <1>1, <2>1
  <2>2. CASE ~(e \in Open /\ ledger'[e].at = ledger[e].at)
    <3>1. ledger'[e].at = now
      BY <1>4, <2>2 DEF LedgerOK, Open, Row, Next, vars, Tick, InsertUsageEvents, CommitInsert,
         RollbackInsert, AskSummary, ReadOpCount, ReadOpening, ReadDeltasAndCalculate, Respond
    <3> QED
      BY <1>0, <3>1
  <2> QED
    BY <2>1, <2>2
<1> HIDE DEF end
<1>5. end =< now'
  BY <1>0, <1>2
<1> QED
  BY <1>3, <1>4, <1>5 DEF Settled, end

-----------------------------------------------------------------------------
(* What the queries return after a step *)

\* A sum is of the values of its rows only.
LEMMA TotalStep ==
    ASSUME NEW rows, \A e \in rows : ledger'[e] = ledger[e]
    PROVE  SumFunction([e \in rows |-> ledger'[e].value])
             = SumFunction([e \in rows |-> ledger[e].value])
<1>1. [e \in rows |-> ledger'[e].value] = [e \in rows |-> ledger[e].value]
  OBVIOUS
<1> QED
  BY <1>1

\* The rows of a query about instants whose rows stay, and the sum of any of them, stay.
LEMMA RowsStep ==
    ASSUME NEW end \in Nat, SameRows(end), NEW metric, NEW from \in Nat, NEW to \in Nat, to =< end
    PROVE  /\ RowsBetween(metric, from, to)' = RowsBetween(metric, from, to)
           /\ \A e \in RowsBetween(metric, from, to) : ledger'[e] = ledger[e]
           /\ Total(RowsBetween(metric, from, to))' = Total(RowsBetween(metric, from, to))
<1>1. ASSUME NEW e \in Event
      PROVE  /\ e \in RowsBetween(metric, from, to)' <=> e \in RowsBetween(metric, from, to)
             /\ e \in RowsBetween(metric, from, to) => ledger'[e] = ledger[e]
  <2>1. /\ e \in Committed' /\ ledger'[e].at < end <=> e \in Committed /\ ledger[e].at < end
        /\ e \in Committed /\ ledger[e].at < end => ledger'[e] = ledger[e]
    BY DEF SameRows
  <2>2. e \in RowsBetween(metric, from, to) => e \in Committed /\ ledger[e].at < end
    BY DEF RowsBetween
  <2>3. e \in RowsBetween(metric, from, to)' => e \in Committed' /\ ledger'[e].at < end
    BY DEF RowsBetween
  <2>4. ASSUME ledger'[e] = ledger[e], e \in Committed' <=> e \in Committed
        PROVE  e \in RowsBetween(metric, from, to)' <=> e \in RowsBetween(metric, from, to)
    BY <2>4 DEF RowsBetween
  <2> QED
    BY <2>1, <2>2, <2>3, <2>4
<1>2. /\ RowsBetween(metric, from, to) \subseteq Event
      /\ RowsBetween(metric, from, to)' \subseteq Event
  BY DEF RowsBetween, Committed
<1> DEFINE rows == RowsBetween(metric, from, to)
<1>3. rows' = rows /\ \A e \in rows : ledger'[e] = ledger[e]
  BY <1>1, <1>2
<1>4. Total(rows)' = Total(rows)
  <2>1. Total(rows) = SumFunction([e \in rows |-> ledger[e].value])
    BY DEF Total
  <2>2. Total(rows)' = SumFunction([e \in rows' |-> ledger'[e].value])
    BY DEF Total
  <2> HIDE DEF rows
  <2> QED
    BY <1>3, <2>1, <2>2, TotalStep
<1> QED
  BY <1>3, <1>4

\* The queries about a period whose rows stay, and those before it, return what they did.
LEMMA QueriesStep ==
    ASSUME NEW from \in Nat, NEW asOf \in Nat, from =< asOf, SameRows(asOf)
    PROVE  /\ PushOf(from, asOf)' = PushOf(from, asOf)
           /\ OpeningOf(from)' = OpeningOf(from)
           /\ EndOf(from, asOf)' = EndOf(from, asOf)
<1>0. 0 \in Nat /\ asOf =< asOf
  OBVIOUS
<1>1. PushOf(from, asOf)' = PushOf(from, asOf)
  <2>1. Total(RowsBetween("push-op-count", from, asOf))'
          = Total(RowsBetween("push-op-count", from, asOf))
    BY <1>0, RowsStep
  <2> QED
    BY <2>1 DEF PushOf, SumUsageMetricBetween
<1>2. OpeningOf(from)' = OpeningOf(from)
  <2>1. Total(RowsBetween("storage-bytes", 0, from))' = Total(RowsBetween("storage-bytes", 0, from))
    BY <1>0, RowsStep
  <2> QED
    BY <2>1 DEF OpeningOf, SumUsageMetricBefore
<1>3. DeltasOf(from, asOf)' = DeltasOf(from, asOf)
  <2> DEFINE rows == RowsBetween("storage-bytes", from, asOf)
             instants == InOrder({ledger[e].at : e \in rows})
             At(t) == {e \in rows : ledger[e].at = t}
  <2>1. rows' = rows /\ \A e \in rows : ledger'[e] = ledger[e]
    BY <1>0, RowsStep
  <2>2. instants' = instants
    <3>1. {ledger'[e].at : e \in rows'} = {ledger[e].at : e \in rows}
      BY <2>1
    <3> QED
      BY <3>1
  <2>3. ASSUME NEW t
        PROVE  Total(At(t))' = Total(At(t))
    <3>1. At(t)' = At(t) /\ \A e \in At(t) : ledger'[e] = ledger[e]
      BY <2>1
    <3>2. Total(At(t)) = SumFunction([e \in At(t) |-> ledger[e].value])
      BY DEF Total
    <3>3. Total(At(t))' = SumFunction([e \in At(t)' |-> ledger'[e].value])
      BY DEF Total
    <3> HIDE DEF At
    <3> QED
      BY <3>1, <3>2, <3>3, TotalStep
  <2>4. DeltasOf(from, asOf)
          = [i \in DOMAIN instants |-> [at |-> instants[i], value |-> Total(At(instants[i]))]]
    BY DEF DeltasOf, ListUsageMetricDeltas
  <2>5. DeltasOf(from, asOf)'
          = [i \in DOMAIN instants' |-> [at |-> instants'[i], value |-> Total(At(instants[i]))']]
    BY DEF DeltasOf, ListUsageMetricDeltas
  <2> HIDE DEF instants, At
  <2> QED
    BY <2>2, <2>3, <2>4, <2>5
<1>4. EndOf(from, asOf)' = EndOf(from, asOf)
  BY <1>2, <1>3 DEF EndOf
<1> QED
  BY <1>1, <1>2, <1>4

-----------------------------------------------------------------------------
(* The request's steps *)

\* The as-of of a period lies in it, and is its end once it is over.
LEMMA AsOfOfPeriod ==
    ASSUME LedgerOK, NEW m \in Months
    PROVE  /\ UsageSummaryAsOf(m, m + MonthLength) \in Nat
           /\ m =< UsageSummaryAsOf(m, m + MonthLength)
           /\ UsageSummaryAsOf(m, m + MonthLength) =< m + MonthLength
           /\ Settled(m) => UsageSummaryAsOf(m, m + MonthLength) = m + MonthLength
<1>1. now \in Nat
  BY UsageAssumption DEF LedgerOK
<1> QED
  BY <1>1, MonthsAreInstants DEF UsageSummaryAsOf, Settled

\* A request is no idle one.
LEMMA RequestNotIdle ==
    ASSUME RequestOK, request # Idle
    PROVE  /\ request \in Request /\ Within(request) /\ request.from =< request.asOf
           /\ PeriodValid(request.from, request.from + MonthLength, request.asOf)
<1>1. request \in Request /\ Within(request)
  BY DEF RequestOK
<1>2. request.from \in Nat /\ request.asOf \in Nat
  BY <1>1, MonthsAreInstants DEF Request
<1> QED
  BY <1>1, <1>2, UsageAssumption DEF Within, PeriodValid

\* A request keeps its type: the queries return numbers, and the walk computes them.
LEMMA RequestStep ==
    ASSUME LedgerOK, RequestOK, [Next]_vars
    PROVE  RequestOK'
<1>1. ASSUME NEW m \in Months, AskSummary(m) PROVE RequestOK'
  <2>1. Settled(m) \in BOOLEAN
    BY DEF Settled
  <2>2. NewRequest(m).settled = Settled(m)
    BY DEF NewRequest, Settled
  <2>3. NewRequest(m) \in Request
    BY <2>1, <2>2, AsOfOfPeriod DEF NewRequest, Request, Settled
  <2>4. Within(NewRequest(m))
    BY AsOfOfPeriod DEF NewRequest, Within
  <2>5. Request' = Request
    BY DEF Request, Months
  <2> QED
    BY <1>1, <2>3, <2>4, <2>5 DEF AskSummary, RequestOK
<1>2. Request' = Request /\ Idle' = Idle
  BY DEF Request, Months, Idle
<1>3. CASE ReadOpCount
  <2>1. request \in Request /\ Within(request)
    BY <1>3 DEF ReadOpCount, RequestOK, Idle
  <2>2. SumUsageMetricBetween("push-op-count", request.from, request.asOf) \in Int
    BY QueryTypes DEF PushOf
  <2>3. request' \in Request /\ Within(request)'
    BY <1>3, <2>1, <2>2 DEF ReadOpCount, Request, Within
  <2> QED
    BY <1>2, <2>3 DEF RequestOK
<1>4. CASE ReadOpening
  <2>1. request \in Request /\ Within(request)
    BY <1>4 DEF ReadOpening, RequestOK, Idle
  <2>2. SumUsageMetricBefore("storage-bytes", request.from) \in Int
    BY QueryTypes DEF OpeningOf
  <2>3. request' \in Request /\ Within(request)'
    BY <1>4, <2>1, <2>2 DEF ReadOpening, Request, Within
  <2> QED
    BY <1>2, <2>3 DEF RequestOK
<1>5. CASE ReadDeltasAndCalculate
  <2> DEFINE end == Accrual(request.from, request.asOf, request.opening,
                            DeltasOf(request.from, request.asOf))
             valid == PeriodValid(request.from, request.from + MonthLength, request.asOf)
  <2>1. request \in Request /\ Within(request)
    BY <1>5 DEF ReadDeltasAndCalculate, RequestOK, Idle
  <2>2. request.from \in Nat /\ request.asOf \in Nat /\ request.opening \in Int
    BY <2>1, MonthsAreInstants DEF Request
  <2>3. end.running \in Int /\ StorageByteTime(end, request.asOf) \in Int
    BY <2>1, <2>2, WalkType DEF Within
  <2>4. request' = IF valid /\ end.ok
                   THEN [request EXCEPT !.step = "ok", !.closing = end.running,
                                        !.area = StorageByteTime(end, request.asOf)]
                   ELSE [request EXCEPT !.step = "failed"]
    BY <1>5 DEF ReadDeltasAndCalculate, DeltasOf
  <2> HIDE DEF end, valid
  <2>5. request' \in Request /\ Within(request)'
    BY <2>1, <2>3, <2>4 DEF Request, Within
  <2> QED
    BY <1>2, <2>5 DEF RequestOK
<1>6. CASE Respond
  BY <1>2, <1>6 DEF Respond, RequestOK
<1>7. ASSUME NEW e \in Event, CommitInsert(e) PROVE RequestOK'
  <2>1. CASE request = Idle
    BY <1>2, <1>7, <2>1 DEF CommitInsert, RequestOK
  <2>2. CASE request # Idle
    <3>1. request \in Request /\ Within(request)
      BY <2>2, RequestNotIdle
    <3>2. request' = request \/ request' = [request EXCEPT !.late = TRUE]
      BY <1>7 DEF CommitInsert
    <3>3. request' \in Request /\ Within(request)'
      BY <3>1, <3>2 DEF Request, Within
    <3> QED
      BY <1>2, <3>3 DEF RequestOK
  <2> QED
    BY <2>1, <2>2
<1>8. CASE UNCHANGED request
  BY <1>2, <1>8 DEF RequestOK
<1> QED
  BY <1>1, <1>3, <1>4, <1>5, <1>6, <1>7, <1>8
  DEF Next, vars, Tick, InsertUsageEvents, RollbackInsert

\* A request that goes on keeps its period, and is late once an older row commits.
LEMMA RunningRequest ==
    ASSUME LedgerOK, RequestOK, [Next]_vars, request # Idle, request' # Idle
    PROVE  /\ request'.from = request.from /\ request'.asOf = request.asOf
           /\ request'.settled = request.settled
           /\ request'.late <=> \/ request.late
                                \/ \E e \in Event : CommitInsert(e) /\ ledger[e].at < request.asOf
<1>0. request \in Request
  BY RequestNotIdle
<1>1. ASSUME NEW e \in Event, CommitInsert(e) PROVE ledger' # ledger
  <2>1. ledger[e] \in Row /\ ~ledger[e].committed
    BY <1>1 DEF CommitInsert, Open, LedgerOK
  <2>2. ledger'[e] = [ledger[e] EXCEPT !.committed = TRUE]
    BY <1>1 DEF CommitInsert, LedgerOK
  <2>3. ledger'[e].committed
    BY <2>1, <2>2 DEF Row
  <2> QED
    BY <2>1, <2>3
<1>2. CASE ReadOpCount \/ ReadOpening
  <2>1. \A e \in Event : ~CommitInsert(e)
    BY <1>1, <1>2 DEF ReadOpCount, ReadOpening
  <2> QED
    BY <1>0, <1>2, <2>1 DEF ReadOpCount, ReadOpening, Request
<1>3. CASE ReadDeltasAndCalculate
  <2>1. \A e \in Event : ~CommitInsert(e)
    BY <1>1, <1>3 DEF ReadDeltasAndCalculate
  <2>2. \/ request' = [request EXCEPT !.step = "failed"]
        \/ \E c, a : request' = [request EXCEPT !.step = "ok", !.closing = c, !.area = a]
    BY <1>3 DEF ReadDeltasAndCalculate
  <2> QED
    BY <1>0, <2>1, <2>2 DEF Request
<1>4. CASE \E e \in Event : CommitInsert(e)
  <2>1. PICK e \in Event : CommitInsert(e)
    BY <1>4
  <2>2. \A d \in Event : CommitInsert(d) => d = e
    <3> SUFFICES ASSUME NEW d \in Event, CommitInsert(d), d # e PROVE FALSE
      OBVIOUS
    <3>1. ledger'[d] = ledger[d] /\ ~ledger[d].committed
      BY <2>1 DEF CommitInsert, Open, LedgerOK
    <3>2. ledger'[d] = [ledger[d] EXCEPT !.committed = TRUE] /\ ledger[d] \in Row
      BY DEF CommitInsert, Open, LedgerOK
    <3>3. ledger'[d].committed
      BY <3>2 DEF Row
    <3> QED
      BY <3>1, <3>3
  <2>3. CASE ledger[e].at < request.asOf
    BY <1>0, <2>1, <2>2, <2>3 DEF CommitInsert, Request
  <2>4. CASE ~(ledger[e].at < request.asOf)
    BY <1>0, <2>1, <2>2, <2>4 DEF CommitInsert, Request
  <2> QED
    BY <2>3, <2>4
<1>5. CASE UNCHANGED request /\ ~\E e \in Event : CommitInsert(e)
  BY <1>5
<1>6. ~Respond /\ ~\E m \in Months : AskSummary(m)
  BY DEF Respond, AskSummary
<1>7. UNCHANGED request \/ ReadOpCount \/ ReadOpening \/ ReadDeltasAndCalculate
         \/ \E e \in Event : CommitInsert(e)
  BY <1>6 DEF Next, vars, Tick, InsertUsageEvents, RollbackInsert
<1> QED
  BY <1>2, <1>3, <1>4, <1>5, <1>7

\* A request appears only by being asked for.
LEMMA RequestAppears ==
    ASSUME [Next]_vars, request = Idle, request' # Idle
    PROVE  \E m \in Months : AskSummary(m)
BY DEF Next, vars, Tick, InsertUsageEvents, CommitInsert, RollbackInsert, AskSummary, Idle,
   ReadOpCount, ReadOpening, ReadDeltasAndCalculate, Respond

\* What a request has read stays what its queries would return, until it is late.
LEMMA RequestCurrentStep ==
    ASSUME LedgerOK, RequestOK, RequestCurrent, [Next]_vars
    PROVE  RequestCurrent'
<1> SUFFICES ASSUME NEW from \in Months, NEW asOf \in Nat,
                    request' # Idle, ~request'.late, request'.from = from, request'.asOf = asOf
             PROVE  ReadsNow(from, asOf)'
  BY DEF RequestCurrent, Months
<1>1. CASE request = Idle
  <2>1. PICK m \in Months : AskSummary(m)
    BY <1>1, RequestAppears
  <2>2. request'.step = "push"
    BY <2>1 DEF AskSummary, NewRequest
  <2> QED
    BY <2>2 DEF ReadsNow
<1>2. CASE request # Idle
  <2>1. /\ request \in Request /\ request.from =< request.asOf
        /\ PeriodValid(request.from, request.from + MonthLength, request.asOf)
        /\ request.from = from /\ request.asOf = asOf /\ ~request.late
        /\ \A e \in Event : CommitInsert(e) => ~(ledger[e].at < asOf)
    BY <1>2, RunningRequest, RequestNotIdle
  <2>2. from \in Nat /\ from =< asOf
    BY <2>1, MonthsAreInstants
  <2>3. SameRows(asOf)
    BY <2>1, RowsKept
  <2>4. /\ PushOf(from, asOf)' = PushOf(from, asOf) /\ OpeningOf(from)' = OpeningOf(from)
        /\ EndOf(from, asOf)' = EndOf(from, asOf)
    BY <2>2, <2>3, QueriesStep
  <2>5. ReadsNow(from, asOf)
    BY <1>2, <2>1 DEF RequestCurrent
  <2>6. StorageByteTime(EndOf(from, asOf), asOf)' = StorageByteTime(EndOf(from, asOf), asOf)
    BY <2>4 DEF StorageByteTime
  <2> DEFINE end == EndOf(from, asOf)
             area == StorageByteTime(EndOf(from, asOf), asOf)
  <2>7. CASE ReadOpCount
    <3>1. request'.step = "opening" /\ request'.push = PushOf(from, asOf)
      BY <2>1, <2>7 DEF ReadOpCount, PushOf, Request
    <3> QED
      BY <2>4, <3>1 DEF ReadsNow
  <2>8. CASE ReadOpening
    <3>1. /\ request'.step = "deltas" /\ request'.push = request.push
          /\ request'.opening = OpeningOf(from) /\ request.step = "opening"
      BY <2>1, <2>8 DEF ReadOpening, OpeningOf, Request
    <3> QED
      BY <2>4, <2>5, <3>1 DEF ReadsNow
  <2>9. CASE ReadDeltasAndCalculate
    <3>1. /\ request.step = "deltas" /\ request.opening = OpeningOf(from)
          /\ request.push = PushOf(from, asOf)
      BY <2>5, <2>9 DEF ReadDeltasAndCalculate, ReadsNow
    <3>2. Accrual(request.from, request.asOf, request.opening,
                  ListUsageMetricDeltas("storage-bytes", request.from, request.asOf)) = end
      BY <2>1, <3>1 DEF EndOf, DeltasOf
    <3>3. request' = IF end.ok
                     THEN [request EXCEPT !.step = "ok", !.closing = end.running, !.area = area]
                     ELSE [request EXCEPT !.step = "failed"]
      BY <2>1, <2>9, <3>2 DEF ReadDeltasAndCalculate
    <3> HIDE DEF end, area
    <3>4. /\ request'.push = request.push /\ request'.opening = request.opening
          /\ \/ /\ request'.step = "ok" /\ end.ok
                /\ request'.closing = end.running /\ request'.area = area
             \/ request'.step = "failed" /\ ~end.ok
      BY <2>1, <3>3 DEF Request
    <3> QED
      BY <2>4, <2>6, <3>1, <3>4 DEF ReadsNow, end, area
  <2>10. CASE /\ request'.step = request.step /\ request'.push = request.push
              /\ request'.opening = request.opening /\ request'.closing = request.closing
              /\ request'.area = request.area
    BY <2>4, <2>5, <2>6, <2>10 DEF ReadsNow
  <2>11. ASSUME NEW e \in Event, CommitInsert(e) PROVE ReadsNow(from, asOf)'
    BY <2>1, <2>10, <2>11 DEF CommitInsert, Request
  <2>12. ~Respond /\ ~\E m \in Months : AskSummary(m)
    BY <1>2 DEF Respond, AskSummary
  <2> QED
    BY <2>7, <2>8, <2>9, <2>10, <2>11, <2>12
    DEF Next, vars, Tick, InsertUsageEvents, RollbackInsert
<1> QED
  BY <1>1, <1>2

\* A request about a settled month stays one, and no row can make it late.
LEMMA RequestSettledStep ==
    ASSUME LedgerOK, RequestOK, RequestSettled, [Next]_vars
    PROVE  RequestSettled'
<1> SUFFICES ASSUME NEW m \in Months, request' # Idle, request'.settled, request'.from = m
             PROVE  Settled(m)' /\ request'.asOf = m + MonthLength /\ ~request'.late
  BY DEF RequestSettled, Months
<1>1. CASE request = Idle
  <2>1. PICK n \in Months : AskSummary(n)
    BY <1>1, RequestAppears
  <2>2. /\ request'.from = n /\ request'.asOf = UsageSummaryAsOf(n, n + MonthLength)
        /\ ~request'.late /\ request'.settled = Settled(n)
    BY <2>1 DEF AskSummary, NewRequest, Settled
  <2>3. n = m /\ Settled(m)
    BY <2>2
  <2> QED
    BY <2>2, <2>3, SettledStep, AsOfOfPeriod
<1>2. CASE request # Idle
  <2>1. request.settled /\ request.from = m
    BY <1>2, RunningRequest
  <2>2. Settled(m) /\ request.asOf = m + MonthLength /\ ~request.late
    BY <1>2, <2>1 DEF RequestSettled
  <2>3. \A e \in Event : CommitInsert(e) => ~(ledger[e].at < m + MonthLength)
    <3>1. \A e \in Open : ledger[e].at \in Nat /\ ledger[e].at >= m + MonthLength
      BY <2>2 DEF Settled, Open, LedgerOK, Row
    <3> QED
      BY <3>1, MonthsAreInstants DEF CommitInsert
  <2>4. request'.asOf = m + MonthLength /\ ~request'.late
    BY <1>2, <2>2, <2>3, RunningRequest
  <2> QED
    BY <2>2, <2>4, SettledStep
<1> QED
  BY <1>1, <1>2

\* Reports stay what their months report, and a new one is.
LEMMA ReportsStep ==
    ASSUME LedgerOK, RequestOK, RequestCurrent, RequestSettled, ReportsCurrent, [Next]_vars
    PROVE  ReportsCurrent'
<1>1. ASSUME NEW r \in reports'
      PROVE  \E m \in Months : Settled(m) /\ r = ReportOf(m)
  <2>1. CASE r \in reports
    BY <2>1 DEF ReportsCurrent
  <2>2. CASE r \notin reports
    <3>1. /\ request.step = "ok" /\ request.settled
          /\ r = [from |-> request.from, push |-> request.push, opening |-> request.opening,
                  closing |-> request.closing, area |-> request.area]
      BY <1>1, <2>2 DEF Next, vars, Tick, InsertUsageEvents, CommitInsert, RollbackInsert,
         AskSummary, ReadOpCount, ReadOpening, ReadDeltasAndCalculate, Respond
    <3>2. request # Idle /\ request.from \in Months
      BY <3>1, RequestNotIdle DEF Idle, Request
    <3> DEFINE m == request.from
    <3>3. Settled(m) /\ request.asOf = m + MonthLength /\ ~request.late
      BY <3>1, <3>2 DEF RequestSettled
    <3>4. ReadsNow(m, m + MonthLength)
      BY <3>2, <3>3, MonthsAreInstants DEF RequestCurrent
    <3> QED
      BY <3>1, <3>2, <3>3, <3>4 DEF ReadsNow, ReportOf
  <2> QED
    BY <2>1, <2>2
<1>2. ASSUME NEW m \in Months, Settled(m)
      PROVE  Settled(m)' /\ ReportOf(m)' = ReportOf(m)
  <2>1. Settled(m)' /\ SameRows(m + MonthLength)
    BY <1>2, SettledStep
  <2> DEFINE asOf == m + MonthLength
  <2>2. m \in Nat /\ asOf \in Nat /\ m =< asOf
    BY MonthsAreInstants
  <2> HIDE DEF asOf
  <2>3. /\ PushOf(m, asOf)' = PushOf(m, asOf) /\ OpeningOf(m)' = OpeningOf(m)
        /\ EndOf(m, asOf)' = EndOf(m, asOf)
    BY <2>1, <2>2, QueriesStep DEF asOf
  <2> QED
    BY <2>1, <2>3 DEF ReportOf, StorageByteTime, asOf
<1> QED
  BY <1>1, <1>2 DEF ReportsCurrent, Months

-----------------------------------------------------------------------------
(* The theorems *)

\* The invariant that the theorems rest on.
LEMMA UsageInvariant == Spec => []UsageInv
<1>1. Init => UsageInv
  <2> SUFFICES ASSUME Init PROVE UsageInv
    OBVIOUS
  <2>1. {e \in Event : ledger[e] # NoEvent} = {}
    BY DEF Init
  <2>2. LedgerOK
    BY <2>1, FS_EmptySet, UsageAssumption DEF Init, LedgerOK
  <2> QED
    BY <2>2 DEF Init, UsageInv, RequestOK, RequestCurrent, RequestSettled, ReportsCurrent
<1>2. UsageInv /\ [Next]_vars => UsageInv'
  BY LedgerStep, RequestStep, RequestCurrentStep, RequestSettledStep, ReportsStep DEF UsageInv
<1> QED
  BY <1>1, <1>2, PTL DEF Spec

\* Once a month is over and every insert begun in it has ended, its summary is the same
\* whenever it is asked for: for any events, values, lengths of months and interleaving of
\* inserts with the summary's queries.
THEOREM ReportsFinal == Spec => []ReportsAreFinal
<1>1. UsageInv => ReportsAreFinal
  BY DEF UsageInv, ReportsCurrent, ReportOf, ReportsAreFinal
<1> QED
  BY <1>1, UsageInvariant, PTL

\* The rows, the clock and the running summary keep to their types, and the summary of a
\* settled month is not late.
THEOREM Typed == Spec => []TypeOK
<1>1. UsageInv => TypeOK
  <2> SUFFICES ASSUME UsageInv PROVE TypeOK
    OBVIOUS
  <2>1. now \in 0..MaxNow /\ now \in Nat
    BY UsageAssumption DEF UsageInv, LedgerOK
  <2>2. ASSUME NEW e \in Event, ledger[e] # NoEvent
        PROVE  ledger[e].at \in 0..now /\ <<ledger[e].metric, ledger[e].value>> \in Usage
    BY <2>1, <2>2 DEF UsageInv, LedgerOK, Row
  <2>3. ASSUME request # Idle
        PROVE  /\ request.step \in {"push", "opening", "deltas", "ok", "failed"}
               /\ request.from \in Months /\ request.asOf \in Nat
               /\ {request.push, request.opening, request.closing, request.area} \subseteq Int
               /\ request.settled => ~request.late
    <3>1. request \in Request
      BY <2>3, RequestNotIdle DEF UsageInv
    <3>2. request.settled => ~request.late
      BY <2>3, <3>1 DEF UsageInv, RequestSettled, Request
    <3> QED
      BY <3>1, <3>2 DEF Request
  <2> QED
    BY <2>1, <2>2, <2>3 DEF TypeOK
<1> QED
  BY <1>1, UsageInvariant, PTL

\* What a summary bills for is the sum of the bytes held at each instant of its period, unless
\* a row older than its as-of became visible in between: for any rows, in any order and any
\* number at an instant, and any period.
THEOREM Integral == Spec => []SummaryIsIntegral
<1>1. UsageInv => SummaryIsIntegral
  <2> SUFFICES ASSUME UsageInv, request # Idle, request.step = "ok", ~request.late
               PROVE  /\ request.area
                           = SumFunction([t \in request.from..(request.asOf - 1) |-> BytesAt(t)])
                      /\ request.closing = BytesAt(request.asOf - 1)
    BY DEF SummaryIsIntegral
  <2>1. /\ request.from \in Months /\ request.from \in Nat /\ request.asOf \in Nat
        /\ request.from =< request.asOf
    BY RequestNotIdle, MonthsAreInstants DEF UsageInv, Request
  <2>2. ReadsNow(request.from, request.asOf)
    BY <2>1 DEF UsageInv, RequestCurrent
  <2>3. LedgerOK
    BY DEF UsageInv
  <2>4. /\ EndOf(request.from, request.asOf).running = BytesAt(request.asOf - 1)
        /\ StorageByteTime(EndOf(request.from, request.asOf), request.asOf)
             = SumFunction([t \in request.from..(request.asOf - 1) |-> BytesAt(t)])
    BY <2>1, <2>3, SummaryIs
  <2> QED
    BY <2>2, <2>4 DEF ReadsNow
<1> QED
  BY <1>1, UsageInvariant, PTL

\* A summary is refused exactly when the balance was negative at some instant, and never
\* because of the order in which rows of one instant come.
THEOREM RefusedRightly == Spec => []RefusedOnlyIfNegative
<1>1. UsageInv => RefusedOnlyIfNegative
  <2> SUFFICES ASSUME UsageInv, request # Idle, request.step \in {"ok", "failed"}, ~request.late
               PROVE  request.step = "failed"
                        <=> \E t \in (request.from - 1)..(request.asOf - 1) : BytesAt(t) < 0
    BY DEF RefusedOnlyIfNegative
  <2>1. /\ request.from \in Months /\ request.from \in Nat /\ request.asOf \in Nat
        /\ request.from =< request.asOf
    BY RequestNotIdle, MonthsAreInstants DEF UsageInv, Request
  <2>2. ReadsNow(request.from, request.asOf)
    BY <2>1 DEF UsageInv, RequestCurrent
  <2>3. LedgerOK
    BY DEF UsageInv
  <2>4. EndOf(request.from, request.asOf).ok
          <=> \A t \in (request.from - 1)..(request.asOf - 1) : BytesAt(t) >= 0
    BY <2>1, <2>3, SummaryIs
  <2>5. \A t : BytesAt(t) < 0 <=> ~(BytesAt(t) >= 0)
    <3>1. \A t : BytesAt(t) \in Int
      BY <2>3, QueryTypes
    <3> QED
      BY <3>1
  <2>6. request.step = "failed" <=> ~EndOf(request.from, request.asOf).ok
    BY <2>2 DEF ReadsNow
  <2> QED
    BY <2>4, <2>5, <2>6
<1> QED
  BY <1>1, UsageInvariant, PTL

\* What a settled month closes with is what the next one opens with.
THEOREM CarriesOver == Spec => []BalanceCarriesOver
<1>1. UsageInv => BalanceCarriesOver
  <2> SUFFICES ASSUME UsageInv, NEW a \in reports, NEW b \in reports, a.from + MonthLength = b.from
               PROVE  a.closing = b.opening
    BY DEF BalanceCarriesOver
  <2>1. PICK m \in Months : a = ReportOf(m)
    BY DEF UsageInv, ReportsCurrent
  <2>2. PICK n \in Months : b = ReportOf(n)
    BY DEF UsageInv, ReportsCurrent
  <2> DEFINE end == m + MonthLength
  <2>3. n = end /\ a.closing = EndOf(m, end).running /\ b.opening = OpeningOf(n)
    BY <2>1, <2>2 DEF ReportOf
  <2>4. m \in Nat /\ end \in Nat /\ m =< end
    BY MonthsAreInstants
  <2>5. LedgerOK
    BY DEF UsageInv
  <2> HIDE DEF end
  <2>6. EndOf(m, end).running = BytesAt(end - 1)
    BY <2>4, <2>5, SummaryIs
  <2>7. OpeningOf(end) = BytesAt(end - 1)
    BY <2>4, <2>5, OpeningIs
  <2> QED
    BY <2>3, <2>6, <2>7
<1> QED
  BY <1>1, UsageInvariant, PTL

=============================================================================
