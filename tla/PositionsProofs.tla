---------------------------- MODULE PositionsProofs ----------------------------
(***************************************************************************)
(* What proofs may use of Positions: enumerations in order exist, are      *)
(* unique and add up; pages are closed downwards.  Induction comes from    *)
(* the least element of a set of numbers, which the strict subset order    *)
(* of an interval gives.                                                   *)
(***************************************************************************)
EXTENDS Positions, FiniteSetTheorems, SequenceTheorems, WellFoundedInduction, TLAPS

\* A set of natural numbers has a least member.
LEMMA LeastMember ==
    ASSUME NEW T \in SUBSET Nat, NEW t \in T
    PROVE  \E x \in T : \A y \in T : x <= y
<1> DEFINE Below == {0..x : x \in T \cap 0..t}
           R == StrictSubsetOrdering(0..t)
<1>1. IsFiniteSet(0..t)
  BY FS_Interval
<1>2. IsWellFoundedOn(R, SUBSET (0..t))
  BY <1>1, FS_StrictSubsetOrderingWellFounded, FS_FiniteSubsetsOfFinite
<1>3. Below \in SUBSET SUBSET (0..t) /\ Below # {}
  OBVIOUS
<1>4. PICK u \in Below : \A v \in Below : ~(<<v, u>> \in R)
  <2> HIDE DEF Below, R
  <2> QED BY <1>2, <1>3, WFMin
<1>5. PICK x \in T \cap 0..t : u = 0..x
  BY <1>4
<1>6. ASSUME NEW y \in T, y < x PROVE FALSE
  <2>1. 0..y \in Below
    BY <1>5, <1>6
  <2>2. 0..y \subseteq 0..x /\ 0..y # 0..x /\ 0..x \subseteq 0..t /\ 0..y \subseteq 0..t
    BY <1>5, <1>6
  <2>3. <<0..y, 0..x>> \in R
    BY <2>2 DEF StrictSubsetOrdering
  <2>4. QED
    BY <1>4, <1>5, <2>1, <2>3
<1>7. QED
  BY <1>6

\* Induction over the natural numbers, for a set of them.
LEMMA SetInduction ==
    ASSUME NEW T \in SUBSET Nat, 0 \in T, \A n \in T : n + 1 \in T
    PROVE  T = Nat
<1>1. SUFFICES ASSUME NEW t \in Nat \ T PROVE FALSE
  OBVIOUS
<1>2. PICK x \in Nat \ T : \A y \in Nat \ T : x <= y
  BY LeastMember
<1>3. x # 0 /\ x - 1 \in Nat
  OBVIOUS
<1>4. x - 1 \in T
  BY <1>2, <1>3
<1>5. QED
  BY <1>4

-----------------------------------------------------------------------------
Ascending(s) == \A i, j \in DOMAIN s : i < j => s[i] < s[j]

Enumerates(s, S) == s \in [1..Cardinality(S) -> S] /\ Ascending(s)

\* The sets that positions form.
FiniteNats == {S \in SUBSET Nat : IsFiniteSet(S)}

\* Every finite set of numbers can be put in order.
LEMMA Enumerable == \A S \in FiniteNats : \E s : Enumerates(s, S)
<1> DEFINE T == {n \in Nat : \A S \in FiniteNats :
                     Cardinality(S) = n => \E s \in [1..n -> S] : Ascending(s)}
<1>1. 0 \in T
  <2>1. SUFFICES ASSUME NEW S \in FiniteNats, Cardinality(S) = 0
                 PROVE  \E s \in [1..0 -> S] : Ascending(s)
    OBVIOUS
  <2>2. <<>> \in [1..0 -> S] /\ Ascending(<<>>)
    BY DEF Ascending
  <2>3. QED
    BY <2>2
<1>2. ASSUME NEW n \in T PROVE n + 1 \in T
  <2>1. SUFFICES ASSUME NEW S \in FiniteNats, Cardinality(S) = n + 1
                 PROVE  \E s \in [1..n + 1 -> S] : Ascending(s)
    OBVIOUS
  <2>2. S # {}
    BY <2>1, FS_EmptySet DEF FiniteNats
  <2>3. PICK m \in S : \A y \in S : m <= y
    BY <2>2, LeastMember DEF FiniteNats
  <2>4. S \ {m} \in FiniteNats /\ Cardinality(S \ {m}) = n
    BY <2>1, FS_RemoveElement DEF FiniteNats
  <2>5. PICK s \in [1..n -> S \ {m}] : Ascending(s)
    BY <1>2, <2>4
  <2> DEFINE t == [i \in 1..n + 1 |-> IF i = 1 THEN m ELSE s[i - 1]]
  <2>6. \A i \in 1..n + 1 : i # 1 => i - 1 \in 1..n /\ s[i - 1] \in S /\ m < s[i - 1]
    <3>1. n \in Nat /\ S \subseteq Nat
      BY <1>2 DEF FiniteNats
    <3>2. SUFFICES ASSUME NEW i \in 1..n + 1, i # 1
                   PROVE  i - 1 \in 1..n /\ s[i - 1] \in S /\ m < s[i - 1]
      OBVIOUS
    <3>3. i - 1 \in 1..n
      BY <3>1, <3>2
    <3>4. s[i - 1] \in S /\ s[i - 1] # m
      BY <2>5, <3>3
    <3>5. m <= s[i - 1] /\ m \in Nat /\ s[i - 1] \in Nat
      BY <2>3, <3>1, <3>4
    <3>6. QED
      BY <3>3, <3>4, <3>5
  <2>7. t \in [1..n + 1 -> S]
    BY <2>6
  <2>8. Ascending(t)
    <3>1. SUFFICES ASSUME NEW i \in 1..n + 1, NEW j \in 1..n + 1, i < j PROVE t[i] < t[j]
      BY DEF Ascending
    <3>2. j # 1 /\ t[j] = s[j - 1]
      BY <3>1
    <3>3. i # 1 => t[i] = s[i - 1] /\ i - 1 < j - 1 /\ i - 1 \in 1..n /\ j - 1 \in 1..n
      BY <3>1
    <3>4. QED
      BY <2>5, <2>6, <3>2, <3>3 DEF Ascending
  <2>9. QED
    BY <2>7, <2>8
<1>3. T = Nat
  <2> HIDE DEF T
  <2> QED BY <1>1, <1>2, SetInduction DEF T
<1>4. ASSUME NEW S \in FiniteNats PROVE \E s : Enumerates(s, S)
  <2>1. Cardinality(S) \in Nat
    BY FS_CardinalityType DEF FiniteNats
  <2>2. QED
    BY <1>3, <2>1 DEF Enumerates
<1>5. QED
  BY <1>4

\* So InOrder is one.
LEMMA InOrderEnumerates == ASSUME NEW S \in FiniteNats PROVE Enumerates(InOrder(S), S)
  BY Enumerable DEF InOrder, Enumerates, Ascending

\* An enumeration meets every member.
LEMMA Onto ==
    ASSUME NEW S \in FiniteNats, NEW s, Enumerates(s, S), NEW x \in S
    PROVE  \E i \in 1..Cardinality(S) : s[i] = x
<1> DEFINE n == Cardinality(S)
<1>1. n \in Nat /\ IsFiniteSet(S) /\ IsFiniteSet(1..n) /\ Cardinality(1..n) = n
  BY FS_CardinalityType, FS_Interval DEF FiniteNats
<1>2. \A i, j \in 1..n : s[i] = s[j] => i = j
  <2>1. SUFFICES ASSUME NEW i \in 1..n, NEW j \in 1..n, i < j PROVE s[i] # s[j]
    OBVIOUS
  <2>2. s[i] < s[j] /\ s[i] \in Nat /\ s[j] \in Nat
    BY <2>1 DEF Enumerates, Ascending, FiniteNats
  <2>3. QED
    BY <2>2
<1>3. s \in Injection(1..n, S)
  BY <1>2 DEF Enumerates, Injection, IsInjective
<1>4. s \in Surjection(1..n, S)
  <2> HIDE DEF n
  <2> QED BY <1>1, <1>3, FS_Injection DEF n
<1>5. QED
  BY <1>4 DEF Surjection

\* There is only one way to enumerate a set in order.
LEMMA Unique ==
    ASSUME NEW S \in FiniteNats, NEW s, NEW t, Enumerates(s, S), Enumerates(t, S)
    PROVE  s = t
<1> DEFINE n == Cardinality(S)
           D == {i \in 1..n : s[i] # t[i]}
<1>1. n \in Nat /\ S \subseteq Nat
  BY FS_CardinalityType DEF FiniteNats
<1>2. ASSUME NEW u, NEW v, Enumerates(u, S), Enumerates(v, S), NEW i \in 1..n,
             \A k \in 1..n : k < i => u[k] = v[k], u[i] < v[i]
      PROVE  FALSE
  <2>1. u[i] \in S /\ v[i] \in S
    BY <1>2 DEF Enumerates
  <2>2. PICK j \in 1..n : v[j] = u[i]
    BY <1>2, <2>1, Onto
  <2>3. /\ \A k, l \in 1..n : k < l => u[k] < u[l] /\ v[k] < v[l]
        /\ \A k \in 1..n : u[k] \in Nat /\ v[k] \in Nat
    BY <1>1, <1>2 DEF Enumerates, Ascending
  <2>4. CASE j < i
    <3>1. u[j] = u[i]
      BY <1>2, <2>2, <2>4
    <3>2. u[j] < u[i] /\ u[i] \in Nat
      BY <2>3, <2>4
    <3>3. QED
      BY <3>1, <3>2
  <2>5. CASE i <= j
    <3>1. v[i] < v[j] \/ v[i] = v[j]
      BY <1>1, <2>3, <2>5
    <3>2. QED
      BY <1>2, <2>2, <2>3, <3>1
  <2>6. QED
    BY <1>1, <2>4, <2>5
<1>3. D = {}
  <2>1. SUFFICES ASSUME NEW d \in D PROVE FALSE
    OBVIOUS
  <2>2. PICK i \in D : \A k \in D : i <= k
    <3>1. D \in SUBSET Nat
      BY <1>1
    <3> HIDE DEF D
    <3> QED BY <3>1, LeastMember
  <2>3. \A k \in 1..n : k < i => s[k] = t[k]
    BY <1>1, <2>2
  <2>4. s[i] \in Nat /\ t[i] \in Nat /\ s[i] # t[i]
    BY <1>1, <2>2 DEF Enumerates
  <2>5. s[i] < t[i] \/ t[i] < s[i]
    BY <2>4
  <2>6. QED
    BY <1>2, <2>2, <2>3, <2>5
<1>4. s \in [1..n -> S] /\ t \in [1..n -> S] /\ \A i \in 1..n : s[i] = t[i]
  BY <1>3 DEF Enumerates
<1>5. s = [i \in 1..n |-> s[i]] /\ t = [i \in 1..n |-> t[i]]
  BY <1>4
<1>6. [i \in 1..n |-> s[i]] = [i \in 1..n |-> t[i]]
  BY <1>4
<1>7. QED
  BY <1>5, <1>6

-----------------------------------------------------------------------------
\* What InOrder returns: a sequence of the members, ascending, with every one.
LEMMA InOrderFacts ==
    ASSUME NEW S \in FiniteNats
    PROVE  /\ Cardinality(S) \in Nat
           /\ InOrder(S) \in Seq(S) /\ Len(InOrder(S)) = Cardinality(S)
           /\ DOMAIN InOrder(S) = 1..Cardinality(S)
           /\ InOrder(S) \in [1..Cardinality(S) -> S]
           /\ Ascending(InOrder(S))
           /\ \A x \in S : \E i \in 1..Cardinality(S) : InOrder(S)[i] = x
<1>1. Cardinality(S) \in Nat
  BY FS_CardinalityType DEF FiniteNats
<1>2. InOrder(S) \in [1..Cardinality(S) -> S] /\ Ascending(InOrder(S))
  BY InOrderEnumerates DEF Enumerates
<1>3. \A x \in S : \E i \in 1..Cardinality(S) : InOrder(S)[i] = x
  BY InOrderEnumerates, Onto
<1>4. InOrder(S) \in Seq(S) /\ Len(InOrder(S)) = Cardinality(S)
  BY <1>1, <1>2
<1>5. QED
  BY <1>1, <1>2, <1>3, <1>4

\* A set whose members come first is listed first.
LEMMA InOrderConcat ==
    ASSUME NEW A \in FiniteNats, NEW B \in FiniteNats, \A a \in A, b \in B : a < b
    PROVE  /\ A \cup B \in FiniteNats
           /\ InOrder(A \cup B) = InOrder(A) \o InOrder(B)
<1> DEFINE m == Cardinality(A)
           n == Cardinality(B)
           s == InOrder(A) \o InOrder(B)
<1>1. A \cap B = {}
  BY DEF FiniteNats
<1>2. /\ A \cup B \in FiniteNats
      /\ Cardinality(A \cup B) = m + n
  <2>1. IsFiniteSet(A) /\ IsFiniteSet(B) /\ A \cup B \subseteq Nat
    BY DEF FiniteNats
  <2>2. /\ IsFiniteSet(A \cup B)
        /\ Cardinality(A \cup B) = m + n - Cardinality(A \cap B)
    BY <2>1, FS_Union
  <2>3. Cardinality(A \cap B) = 0
    BY <1>1, FS_EmptySet
  <2>4. m \in Nat /\ n \in Nat
    BY <2>1, FS_CardinalityType
  <2>5. Cardinality(A \cup B) = m + n
    <3> HIDE DEF m, n
    <3> QED BY <2>2, <2>3, <2>4
  <2>6. QED
    BY <2>1, <2>2, <2>5 DEF FiniteNats
<1>3. /\ m \in Nat /\ n \in Nat
      /\ InOrder(A) \in Seq(A) /\ Len(InOrder(A)) = m
      /\ InOrder(B) \in Seq(B) /\ Len(InOrder(B)) = n
      /\ InOrder(A) \in [1..m -> A] /\ InOrder(B) \in [1..n -> B]
  BY InOrderFacts
<1>4. /\ s \in Seq(A \cup B) /\ Len(s) = m + n
      /\ \A i \in 1..m + n : s[i] = IF i <= m THEN InOrder(A)[i] ELSE InOrder(B)[i - m]
  <2>1. InOrder(A) \in Seq(A \cup B) /\ InOrder(B) \in Seq(A \cup B)
    BY <1>3, SeqMonotonic
  <2> HIDE DEF m, n
  <2>2. QED
    <3>1. /\ s \in Seq(A \cup B) /\ Len(s) = Len(InOrder(A)) + Len(InOrder(B))
          /\ \A i \in 1..Len(InOrder(A)) + Len(InOrder(B)) :
               s[i] = IF i <= Len(InOrder(A)) THEN InOrder(A)[i]
                      ELSE InOrder(B)[i - Len(InOrder(A))]
      BY <2>1, ConcatProperties
    <3>2. QED
      BY <1>3, <3>1
<1>5. s \in [1..m + n -> A \cup B]
  <2> HIDE DEF m, n, s
  <2> QED BY <1>3, <1>4, LenProperties
<1>6. Ascending(s)
  <2>1. SUFFICES ASSUME NEW i \in 1..m + n, NEW j \in 1..m + n, i < j PROVE s[i] < s[j]
    BY <1>5 DEF Ascending
  <2>2. /\ \A k, l \in 1..m : k < l => InOrder(A)[k] < InOrder(A)[l]
        /\ \A k, l \in 1..n : k < l => InOrder(B)[k] < InOrder(B)[l]
    BY InOrderFacts DEF Ascending
  <2> HIDE DEF s, m, n
  <2>3. CASE j <= m
    BY <1>3, <1>4, <2>1, <2>2, <2>3
  <2>4. CASE m < i
    <3>1. i - m \in 1..n /\ j - m \in 1..n /\ i - m < j - m
      BY <1>3, <2>1, <2>4
    <3>2. s[i] = InOrder(B)[i - m] /\ s[j] = InOrder(B)[j - m]
      BY <1>3, <1>4, <2>1, <2>4
    <3>3. QED
      BY <2>2, <3>1, <3>2
  <2>5. CASE i <= m /\ m < j
    <3>1. j - m \in 1..n /\ i \in 1..m
      BY <1>3, <2>1, <2>5
    <3>2. s[i] = InOrder(A)[i] /\ s[j] = InOrder(B)[j - m]
      BY <1>3, <1>4, <2>1, <2>5
    <3>3. QED
      BY <1>3, <3>1, <3>2
  <2>6. QED
    BY <1>3, <2>3, <2>4, <2>5
<1>7. Enumerates(s, A \cup B)
  BY <1>2, <1>5, <1>6 DEF Enumerates
<1>8. QED
  BY <1>2, <1>7, InOrderEnumerates, Unique

\* A finite set of numbers has a greatest member.
LEMMA GreatestMember ==
    ASSUME NEW S \in FiniteNats, S # {}
    PROVE  \E m \in S : \A k \in S : k <= m
<1> DEFINE n == Cardinality(S)
           o == InOrder(S)
<1>1. n \in Nat /\ n # 0
  BY FS_CardinalityType, FS_EmptySet DEF FiniteNats
<1>2. o \in [1..n -> S] /\ Ascending(o)
  BY InOrderFacts
<1>3. n \in 1..n /\ o[n] \in S /\ S \subseteq Nat
  <2>1. n \in 1..n
    <3> HIDE DEF n
    <3> QED BY <1>1
  <2>2. QED
    BY <1>2, <2>1 DEF FiniteNats
<1>4. ASSUME NEW k \in S PROVE k <= o[n]
  <2>1. PICK i \in 1..n : o[i] = k
    BY InOrderFacts
  <2> HIDE DEF o, n
  <2>2. i = n \/ o[i] < o[n]
    BY <1>1, <1>2, <1>3 DEF Ascending
  <2>3. k \in Nat /\ o[n] \in Nat
    BY <1>3
  <2>4. QED
    BY <2>1, <2>2, <2>3
<1>5. QED
  BY <1>3, <1>4

\* A subset of a finite set of numbers is one.
LEMMA SubsetFinite ==
    ASSUME NEW S \in FiniteNats, NEW T \in SUBSET S
    PROVE  T \in FiniteNats /\ Cardinality(T) <= Cardinality(S)
  BY FS_Subset DEF FiniteNats

\* The first members of a set are closed downwards, and are all if there are few.
LEMMA FirstOfFacts ==
    ASSUME NEW S \in FiniteNats, NEW n \in Nat \ {0}
    PROVE  /\ FirstOf(S, n) \in FiniteNats /\ FirstOf(S, n) \subseteq S
           /\ \A k \in FirstOf(S, n), j \in S : j < k => j \in FirstOf(S, n)
           /\ Cardinality(FirstOf(S, n)) # n => FirstOf(S, n) = S
           /\ S # {} => FirstOf(S, n) # {}
<1> DEFINE P == FirstOf(S, n)
           Before(k) == {j \in S : j < k}
<1>0. S \subseteq Nat /\ \A k : Before(k) \in FiniteNats /\ Cardinality(Before(k)) \in Nat
  BY SubsetFinite, FS_CardinalityType DEF FiniteNats
<1>1. P \in FiniteNats /\ P \subseteq S
  BY SubsetFinite DEF FirstOf
<1>2. ASSUME NEW k \in P, NEW j \in S, j < k PROVE j \in P
  <2>1. Cardinality(Before(k)) < n
    BY DEF FirstOf
  <2>2. Before(j) \subseteq Before(k)
    <3>1. SUFFICES ASSUME NEW l \in S, l < j PROVE l < k
      OBVIOUS
    <3>2. l \in Nat /\ j \in Nat /\ k \in Nat
      BY <1>0, <1>1, <1>2
    <3>3. QED
      BY <1>2, <3>1, <3>2
  <2>3. Cardinality(Before(j)) <= Cardinality(Before(k))
    BY <1>0, <2>2, SubsetFinite
  <2>4. Cardinality(Before(j)) < n
    <3> HIDE DEF Before
    <3> QED BY <1>0, <2>1, <2>3
  <2>5. QED
    BY <2>4 DEF FirstOf
<1>3. ASSUME P # S PROVE Cardinality(P) >= n
  <2>1. PICK k \in S \ P : TRUE
    BY <1>1, <1>3
  <2>2. PICK l \in S \ P : \A j \in S \ P : l <= j
    <3>1. S \ P \in SUBSET Nat
      BY <1>0
    <3>2. QED
      BY <2>1, <3>1, LeastMember
  <2>3. Before(l) \subseteq P
    <3>1. SUFFICES ASSUME NEW j \in Before(l), j \notin P PROVE FALSE
      OBVIOUS
    <3>2. j \in S \ P /\ j < l /\ j \in Nat /\ l \in Nat
      BY <1>0, <3>1
    <3>3. QED
      BY <2>2, <3>2
  <2>4. ~(Cardinality(Before(l)) < n)
    BY DEF FirstOf
  <2>5. Cardinality(Before(l)) <= Cardinality(P)
    BY <1>1, <2>3, SubsetFinite
  <2>6. Cardinality(P) \in Nat
    BY <1>1, FS_CardinalityType DEF FiniteNats
  <2>7. QED
    <3> HIDE DEF P, Before
    <3> QED BY <1>0, <2>4, <2>5, <2>6
<1>4. Cardinality(P) <= n
  <2>1. CASE P = {}
    BY <2>1, FS_EmptySet
  <2>2. CASE P # {}
    <3>1. PICK m \in P : \A k \in P : k <= m
      BY <1>1, <2>2, GreatestMember
    <3>2. P \ {m} \subseteq Before(m)
      <4>1. SUFFICES ASSUME NEW k \in P, k # m PROVE k < m
        BY <1>1
      <4>2. k \in Nat /\ m \in Nat /\ k <= m
        BY <1>0, <1>1, <3>1
      <4>3. QED
        BY <4>1, <4>2
    <3>3. Cardinality(P \ {m}) <= Cardinality(Before(m))
      BY <1>0, <3>2, SubsetFinite
    <3>4. Cardinality(P \ {m}) = Cardinality(P) - 1 /\ Cardinality(P) \in Nat
      BY <1>1, FS_RemoveElement, FS_CardinalityType DEF FiniteNats
    <3>5. Cardinality(Before(m)) < n
      BY DEF FirstOf
    <3> HIDE DEF P, Before
    <3>6. QED
      BY <1>0, <3>3, <3>4, <3>5
  <2>3. QED
    BY <2>1, <2>2
<1>5. Cardinality(P) # n => P = S
  <2>1. Cardinality(P) \in Nat
    BY <1>1, FS_CardinalityType DEF FiniteNats
  <2> HIDE DEF P
  <2>2. QED
    BY <1>3, <1>4, <2>1
<1>6. ASSUME S # {} PROVE P # {}
  <2>1. CASE P = S
    BY <1>6, <2>1
  <2>2. CASE P # S
    <3>1. Cardinality(P) # 0
      <4> HIDE DEF P
      <4> QED BY <1>3, <2>2
    <3>2. QED
      BY <3>1, FS_EmptySet
  <2>3. QED
    BY <2>1, <2>2
<1>7. QED
  BY <1>1, <1>2, <1>5, <1>6

-----------------------------------------------------------------------------
(* Pick.                                                                   *)

LEMMA ConcatAt ==
    ASSUME NEW S, NEW s \in Seq(S), NEW t \in Seq(S), NEW m, NEW n, Len(s) = m, Len(t) = n
    PROVE  /\ m \in Nat /\ n \in Nat
           /\ s \o t \in Seq(S) /\ Len(s \o t) = m + n /\ DOMAIN (s \o t) = 1..m + n
           /\ \A i \in 1..m : (s \o t)[i] = s[i]
           /\ \A i \in m + 1..m + n : (s \o t)[i] = t[i - m]
<1>1. m \in Nat /\ n \in Nat /\ s \o t \in Seq(S) /\ Len(s \o t) = m + n
  BY ConcatProperties, LenProperties
<1>2. DOMAIN (s \o t) = 1..m + n
  BY <1>1, LenProperties
<1>3. QED
  BY <1>1, <1>2, ConcatProperties

LEMMA PickFacts ==
    ASSUME NEW S \in FiniteNats, NEW list, NEW V, \A k \in S : list[k] \in V
    PROVE  /\ Pick(list, S) \in Seq(V)
           /\ Len(Pick(list, S)) = Cardinality(S)
           /\ DOMAIN Pick(list, S) = 1..Cardinality(S)
           /\ \A i \in 1..Cardinality(S) :
                InOrder(S)[i] \in S /\ Pick(list, S)[i] = list[InOrder(S)[i]]
<1> DEFINE n == Cardinality(S)
<1>1. n \in Nat /\ DOMAIN InOrder(S) = 1..n /\ \A i \in 1..n : InOrder(S)[i] \in S
  BY InOrderFacts
<1> HIDE DEF n
<1>2. Pick(list, S) = [i \in 1..n |-> list[InOrder(S)[i]]]
  BY <1>1 DEF Pick
<1>3. Pick(list, S) \in [1..n -> V]
  BY <1>1, <1>2
<1>4. QED
  BY <1>1, <1>2, <1>3 DEF n

LEMMA PickEmpty == ASSUME NEW list PROVE Pick(list, {}) = <<>>
<1>1. {} \in FiniteNats /\ Cardinality({}) = 0
  BY FS_EmptySet DEF FiniteNats
<1>2. Len(Pick(list, {})) = 0 /\ Pick(list, {}) \in Seq({})
  BY <1>1, PickFacts
<1>3. QED
  BY <1>2, EmptySeq

\* What is picked from a page and from what comes after it, is picked from both.
LEMMA PickConcat ==
    ASSUME NEW A \in FiniteNats, NEW B \in FiniteNats, \A a \in A, b \in B : a < b, NEW list
    PROVE  Pick(list, A \cup B) = Pick(list, A) \o Pick(list, B)
<1> DEFINE m == Cardinality(A)
           n == Cardinality(B)
           C == A \cup B
           V == {list[k] : k \in C}
           s == InOrder(A)
           t == InOrder(B)
           first == Pick(list, A)
           rest == Pick(list, B)
<1>1. InOrder(C) = s \o t
  BY InOrderConcat
<1>2. s \in Seq(A) /\ Len(s) = m /\ t \in Seq(B) /\ Len(t) = n
  BY InOrderFacts
<1>3. s \in Seq(C) /\ Len(s) = m /\ t \in Seq(C) /\ Len(t) = n
  BY <1>2, SeqMonotonic
<1>4. /\ first \in Seq(V) /\ Len(first) = m
      /\ \A i \in 1..m : first[i] = list[s[i]]
  <2>1. \A k \in A : list[k] \in V
    OBVIOUS
  <2> HIDE DEF V
  <2>2. QED
    BY <2>1, PickFacts
<1>5. /\ rest \in Seq(V) /\ Len(rest) = n
      /\ \A i \in 1..n : rest[i] = list[t[i]]
  <2>1. \A k \in B : list[k] \in V
    OBVIOUS
  <2> HIDE DEF V
  <2>2. QED
    BY <2>1, PickFacts
<1>6. Pick(list, C) = [i \in DOMAIN (s \o t) |-> list[(s \o t)[i]]]
  BY <1>1 DEF Pick
<1> HIDE DEF m, n, C, V, s, t, first, rest
<1>7. /\ m \in Nat /\ n \in Nat /\ DOMAIN (s \o t) = 1..m + n
      /\ \A i \in 1..m : (s \o t)[i] = s[i]
      /\ \A i \in m + 1..m + n : (s \o t)[i] = t[i - m]
  BY <1>3, ConcatAt
<1>8. /\ first \o rest \in Seq(V) /\ DOMAIN (first \o rest) = 1..m + n
      /\ \A i \in 1..m : (first \o rest)[i] = first[i]
      /\ \A i \in m + 1..m + n : (first \o rest)[i] = rest[i - m]
  BY <1>4, <1>5, ConcatAt
<1>9. \A i \in 1..m + n : (first \o rest)[i] = list[(s \o t)[i]]
  <2>1. SUFFICES ASSUME NEW i \in 1..m + n
                 PROVE  (first \o rest)[i] = list[(s \o t)[i]]
    OBVIOUS
  <2>2. CASE i <= m
    <3>1. i \in 1..m
      BY <1>7, <2>2
    <3>2. QED
      BY <1>4, <1>7, <1>8, <3>1
  <2>3. CASE ~(i <= m)
    <3>1. i - m \in 1..n /\ i \in m + 1..m + n
      BY <1>7, <2>3
    <3>2. (first \o rest)[i] = rest[i - m] /\ (s \o t)[i] = t[i - m]
      BY <1>7, <1>8, <3>1
    <3>3. rest[i - m] = list[t[i - m]]
      BY <1>5, <3>1
    <3>4. QED
      BY <3>2, <3>3
  <2>4. QED
    BY <2>2, <2>3
<1>10. first \o rest = [i \in 1..m + n |-> (first \o rest)[i]]
  BY <1>8, LenProperties
<1>11. [i \in 1..m + n |-> (first \o rest)[i]] = [i \in 1..m + n |-> list[(s \o t)[i]]]
  BY <1>9
<1>12. QED
  BY <1>6, <1>7, <1>10, <1>11 DEF first, rest, C
================================================================================
