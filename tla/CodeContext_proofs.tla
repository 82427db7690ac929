-------------------------- MODULE CodeContext_proofs --------------------------
(***************************************************************************)
(* What the writer of the code is given to work on, for any paths, index,  *)
(* plan and settings, and whatever the index answers: type correctness,    *)
(* that better hits rank first and the plan before them, that the scope is *)
(* kept, that no file is written as a new one when the repository has it,  *)
(* what a prompt shows, and that every target is sent.  Most of the module *)
(* is about lists: a selection of a list by positions, the order of a      *)
(* sort, a fold as a row of turns, and the sums and lists that folds make. *)
(***************************************************************************)
EXTENDS CodeContext, SequenceTheorems, FiniteSetTheorems, WellFoundedInduction, TLAPS

-----------------------------------------------------------------------------
(* Numbers.                                                                *)

\* Induction over the naturals, for sets.
LEMMA LeastNatural ==
  ASSUME NEW T \in SUBSET Nat, T # {}
  PROVE  \E x \in T : \A y \in T : x <= y
<1>1. \E x \in T : \A y \in T : ~(<<y, x>> \in OpToRel(<, Nat))
  BY NatLessThanWellFounded, WFMin
<1>2. PICK x \in T : \A y \in T : ~(<<y, x>> \in OpToRel(<, Nat))
  BY <1>1
<1>3. \A y \in T : ~(y < x)
  BY <1>2 DEF OpToRel
<1> QED BY <1>3

LEMMA GreatestNatural ==
  ASSUME NEW n \in Nat, NEW T \in SUBSET (0..n), T # {}
  PROVE  \E x \in T : \A y \in T : y <= x
<1> DEFINE U == {n - x : x \in T}
<1>1. \A x \in T : n - x \in Nat
  OBVIOUS
<1>0. U \subseteq Nat /\ U # {}
  BY <1>1
<1>2. PICK u \in U : \A v \in U : u <= v
  BY <1>0, LeastNatural
<1>3. PICK x \in T : u = n - x
  OBVIOUS
<1>4. ASSUME NEW y \in T PROVE y <= x
  <2>1. n - x <= n - y
    BY <1>2, <1>3
  <2> QED BY <2>1
<1> QED BY <1>4

LEMMA DivFacts ==
  ASSUME NEW L \in Nat, NEW B \in Nat \ {0}
  PROVE  LET K == (L + B - 1) \div B
         IN  /\ K \in Nat /\ K * B >= L
             /\ \A i \in 1..K : (i - 1) * B < L /\ (i - 1) * B \in Nat
<1> DEFINE a == L + B - 1
           K == a \div B
<1>1. a \in Nat /\ B \in Nat /\ B > 0
  OBVIOUS
<1> HIDE DEF a
<1>2. K \in Nat /\ B * K <= a /\ a < B * K + B
  <2>1. a = B * (a \div B) + (a % B) /\ a % B \in 0..(B - 1) /\ a \div B \in Int
    BY <1>1
  <2>2. K \in Int /\ a = B * K + (a % B)
    BY <2>1
  <2> HIDE DEF K
  <2>3. K >= 0
    <3> SUFFICES ASSUME K < 0 PROVE FALSE
      BY <2>2
    <3>1. PICK d \in Nat : K = -1 - d
      <4>1. -1 - K \in Nat /\ K = -1 - (-1 - K)
        BY <2>2
      <4> QED BY <4>1
    <3>2. B * K = -B - B * d /\ B * d \in Nat
      BY <1>1, <3>1
    <3> QED BY <1>1, <2>1, <2>2, <3>2
  <2> QED BY <1>1, <2>1, <2>2, <2>3
<1> HIDE DEF K
<1>3. K * B >= L
  BY <1>1, <1>2 DEF a
<1>4. ASSUME NEW i \in 1..K PROVE (i - 1) * B < L /\ (i - 1) * B \in Nat
  <2>1. i - 1 \in Nat /\ K - i \in Nat
    BY <1>2
  <2>2. (K - i) * B \in Nat /\ (i - 1) * B \in Nat
    BY <1>1, <2>1
  <2>3. K * B = (K - i) * B + (i - 1) * B + B
    BY <1>1, <1>2
  <2> QED BY <1>1, <1>2, <2>2, <2>3 DEF a
<1> QED BY <1>2, <1>3, <1>4 DEF K, a

-----------------------------------------------------------------------------
(* Positions.                                                              *)

\* R puts the positions of S in a row.
InARow(S, R) ==
  /\ \A i \in S : <<i, i>> \notin R
  /\ \A i, j, k \in S : <<i, j>> \in R /\ <<j, k>> \in R => <<i, k>> \in R
  /\ \A i, j \in S : i # j => <<i, j>> \in R \/ <<j, i>> \in R

Below(S, R, i) == {j \in S : <<j, i>> \in R}

LEMMA Ranks ==
  ASSUME NEW S, IsFiniteSet(S), NEW R, InARow(S, R)
  PROVE  /\ \A i \in S : Cardinality(Below(S, R, i)) \in 0..(Cardinality(S) - 1)
         /\ \A i, j \in S : <<j, i>> \in R <=>
              Cardinality(Below(S, R, j)) < Cardinality(Below(S, R, i))
         /\ \A k \in 1..Cardinality(S) : \E i \in S : Cardinality(Below(S, R, i)) = k - 1
<1>0. Cardinality(S) \in Nat
  BY FS_CardinalityType
<1>1. \A i \in S : IsFiniteSet(Below(S, R, i)) /\ Cardinality(Below(S, R, i)) \in Nat
  BY FS_Subset, FS_CardinalityType DEF Below
<1>2. ASSUME NEW i \in S PROVE Cardinality(Below(S, R, i)) \in 0..(Cardinality(S) - 1)
  <2>1. Below(S, R, i) \in SUBSET S /\ Below(S, R, i) # S
    BY DEF Below, InARow
  <2>2. Cardinality(Below(S, R, i)) <= Cardinality(S) /\ Cardinality(Below(S, R, i)) # Cardinality(S)
    BY <2>1, FS_Subset
  <2> QED BY <1>0, <1>1, <2>2
<1>3. ASSUME NEW i \in S, NEW j \in S, <<j, i>> \in R
      PROVE  Cardinality(Below(S, R, j)) < Cardinality(Below(S, R, i))
  <2>1. Below(S, R, j) \in SUBSET Below(S, R, i)
    BY <1>3 DEF Below, InARow
  <2>2. j \in Below(S, R, i) /\ j \notin Below(S, R, j)
    BY <1>3 DEF Below, InARow
  <2>3. /\ Cardinality(Below(S, R, j)) <= Cardinality(Below(S, R, i))
        /\ Cardinality(Below(S, R, j)) # Cardinality(Below(S, R, i))
    BY <1>1, <2>1, <2>2, FS_Subset
  <2> QED BY <1>1, <2>3
<1>4. ASSUME NEW i \in S, NEW j \in S, Cardinality(Below(S, R, j)) < Cardinality(Below(S, R, i))
      PROVE  <<j, i>> \in R
  <2>1. i # j
    BY <1>1, <1>4
  <2>2. CASE <<i, j>> \in R
    <3>1. Cardinality(Below(S, R, i)) < Cardinality(Below(S, R, j))
      BY <1>3, <2>2
    <3> QED BY <1>1, <1>4, <3>1
  <2> QED BY <2>1, <2>2 DEF InARow
<1>5. \A k \in 1..Cardinality(S) : \E i \in S : Cardinality(Below(S, R, i)) = k - 1
  <2> DEFINE N == 1..Cardinality(S)
             f == [i \in S |-> Cardinality(Below(S, R, i)) + 1]
  <2>1. IsFiniteSet(N) /\ Cardinality(N) = Cardinality(S)
    BY <1>0, FS_Interval
  <2>2. f \in [S -> N]
    BY <1>0, <1>2
  <2>3. \A i, j \in S : f[i] = f[j] => i = j
    <3> SUFFICES ASSUME NEW i \in S, NEW j \in S, f[i] = f[j], i # j PROVE FALSE
      OBVIOUS
    <3>1. Cardinality(Below(S, R, i)) = Cardinality(Below(S, R, j))
      BY <1>1
    <3>2. <<i, j>> \in R \/ <<j, i>> \in R
      BY DEF InARow
    <3> QED BY <1>1, <1>3, <3>1, <3>2
  <2>4. f \in Injection(S, N)
    BY <2>2, <2>3 DEF Injection, IsInjective
  <2> HIDE DEF f, N
  <2>5. f \in Surjection(S, N)
    BY <2>1, <2>4, FS_Injection
  <2>6. \A k \in N : \E i \in S : f[i] = k
    BY <2>5 DEF Surjection
  <2>7. ASSUME NEW k \in 1..Cardinality(S)
        PROVE  \E i \in S : Cardinality(Below(S, R, i)) = k - 1
    <3>1. PICK i \in S : f[i] = k
      BY <2>6 DEF N
    <3>2. Cardinality(Below(S, R, i)) + 1 = k
      BY <3>1 DEF f
    <3> QED BY <1>1, <3>2
  <2> QED BY <2>7
<1> QED BY <1>2, <1>3, <1>4, <1>5

\* What Ordered gives: a list of the elements at S, one position after another.
Places(list, S, R, pos) ==
  /\ pos \in [1..Cardinality(S) -> S]
  /\ Len(Ordered(list, S, R)) = Cardinality(S)
  /\ \A k \in 1..Cardinality(S) : Ordered(list, S, R)[k] = list[pos[k]]
  /\ \A k, l \in 1..Cardinality(S) : k < l <=> <<pos[k], pos[l]>> \in R
  /\ \A i \in S : \E k \in 1..Cardinality(S) : pos[k] = i

LEMMA OrderedFacts ==
  ASSUME NEW A, NEW list \in Seq(A), NEW S \in SUBSET DOMAIN list, NEW R, InARow(S, R)
  PROVE  /\ Cardinality(S) \in 0..Len(list)
         /\ Ordered(list, S, R) \in Seq(A)
         /\ \E pos : Places(list, S, R, pos)
<1>1. /\ IsFiniteSet(S) /\ Cardinality(S) \in Nat /\ Cardinality(S) <= Len(list)
      /\ Len(list) \in Nat /\ DOMAIN list = 1..Len(list)
  <2>1. Len(list) \in Nat /\ DOMAIN list = 1..Len(list)
    BY LenProperties
  <2>2. IsFiniteSet(1..Len(list)) /\ Cardinality(1..Len(list)) = Len(list)
    <3>1. /\ IsFiniteSet(1..Len(list))
          /\ Cardinality(1..Len(list)) = IF 1 > Len(list) THEN 0 ELSE Len(list) - 1 + 1
      BY <2>1, FS_Interval
    <3> QED BY <2>1, <3>1
  <2>3. S \in SUBSET (1..Len(list))
    BY <2>1
  <2>4. IsFiniteSet(S) /\ Cardinality(S) <= Len(list)
    BY <2>2, <2>3, FS_Subset
  <2>5. Cardinality(S) \in Nat
    BY <2>4, FS_CardinalityType
  <2> QED BY <2>1, <2>4, <2>5
<1> DEFINE n == Cardinality(S)
           rank(i) == Cardinality(Below(S, R, i))
           pos == [k \in 1..n |-> CHOOSE i \in S : rank(i) = k - 1]
<1>2. \A k \in 1..n : pos[k] \in S /\ rank(pos[k]) = k - 1
  <2> SUFFICES ASSUME NEW k \in 1..n PROVE pos[k] \in S /\ rank(pos[k]) = k - 1
    OBVIOUS
  <2>1. \E i \in S : rank(i) = k - 1
    BY <1>1, Ranks
  <2>2. pos[k] = CHOOSE i \in S : rank(i) = k - 1
    OBVIOUS
  <2> HIDE DEF rank, pos
  <2> QED BY <2>1, <2>2
<1>3. Ordered(list, S, R) = [k \in 1..n |-> list[pos[k]]]
  BY DEF Ordered, Below
<1>4. \A i \in S : rank(i) \in 0..(n - 1) /\ \A j \in S : <<j, i>> \in R <=> rank(j) < rank(i)
  BY <1>1, Ranks
<1>6. \A i, j \in S : rank(i) = rank(j) => i = j
  BY <1>4 DEF InARow
<1> DEFINE o == Ordered(list, S, R)
<1> HIDE DEF rank, pos, o
<1>7. pos \in [1..n -> S]
  BY <1>2 DEF pos
<1>8. \A k, l \in 1..n : k < l <=> <<pos[k], pos[l]>> \in R
  BY <1>1, <1>2, <1>4
<1>9. \A i \in S : \E k \in 1..n : pos[k] = i
  <2> SUFFICES ASSUME NEW i \in S PROVE \E k \in 1..n : pos[k] = i
    OBVIOUS
  <2>1. rank(i) + 1 \in 1..n
    BY <1>1, <1>4
  <2>2. rank(pos[rank(i) + 1]) = rank(i)
    BY <1>1, <1>2, <1>4, <2>1
  <2> QED BY <1>2, <1>6, <2>1, <2>2
<1>10. \A k \in 1..n : list[pos[k]] \in A
  BY <1>1, <1>2, ElementOfSeq
<1>11. /\ o \in Seq(A) /\ Len(o) = n
       /\ \A k \in 1..n : o[k] = list[pos[k]]
  BY <1>1, <1>3, <1>10 DEF o
<1>12. Places(list, S, R, pos)
  BY <1>7, <1>8, <1>9, <1>11 DEF Places, o
<1> QED BY <1>1, <1>11, <1>12 DEF o

-----------------------------------------------------------------------------
(* Lists.                                                                  *)

\* The elements at some positions, in the order of the list.
Among(list, S, pos) ==
  /\ pos \in [1..Cardinality(S) -> S]
  /\ Len(At(list, S)) = Cardinality(S)
  /\ \A k \in 1..Cardinality(S) : At(list, S)[k] = list[pos[k]]
  /\ \A k, l \in 1..Cardinality(S) : k < l <=> pos[k] < pos[l]
  /\ \A i \in S : \E k \in 1..Cardinality(S) : pos[k] = i

LEMMA AtFacts ==
  ASSUME NEW A, NEW list \in Seq(A), NEW S \in SUBSET DOMAIN list
  PROVE  /\ Cardinality(S) \in 0..Len(list)
         /\ At(list, S) \in Seq(A)
         /\ Len(At(list, S)) <= Len(list)
         /\ \E pos : Among(list, S, pos)
         /\ ToSet(At(list, S)) = {list[i] : i \in S}
<1> DEFINE R == {e \in S \X S : e[1] < e[2]}
<1>1. Len(list) \in Nat /\ DOMAIN list = 1..Len(list) /\ S \subseteq Nat
  BY LenProperties
<1>2. \A i, j \in S : <<i, j>> \in R <=> i < j
  OBVIOUS
<1>3. InARow(S, R)
  BY <1>1, <1>2 DEF InARow
<1> HIDE DEF R
<1>4. At(list, S) = Ordered(list, S, R)
  BY DEF At, R
<1>5. /\ Cardinality(S) \in 0..Len(list) /\ At(list, S) \in Seq(A)
      /\ \E pos : Places(list, S, R, pos)
  BY <1>3, <1>4, OrderedFacts
<1>6. PICK pos : Places(list, S, R, pos)
  BY <1>5
<1>7. /\ pos \in [1..Cardinality(S) -> S]
      /\ Len(At(list, S)) = Cardinality(S)
      /\ \A k \in 1..Cardinality(S) : At(list, S)[k] = list[pos[k]]
      /\ \A k, l \in 1..Cardinality(S) : k < l <=> <<pos[k], pos[l]>> \in R
      /\ \A i \in S : \E k \in 1..Cardinality(S) : pos[k] = i
  BY <1>4, <1>6 DEF Places
<1>8. \A k, l \in 1..Cardinality(S) : k < l <=> pos[k] < pos[l]
  BY <1>2, <1>7
<1>9. Among(list, S, pos)
  BY <1>7, <1>8 DEF Among
<1>10. DOMAIN At(list, S) = 1..Cardinality(S)
  BY <1>5, <1>7, LenProperties
<1>11. ToSet(At(list, S)) = {list[i] : i \in S}
  BY <1>7, <1>10 DEF ToSet
<1> QED BY <1>5, <1>7, <1>9, <1>11

LEMMA TakeFacts ==
  ASSUME NEW A, NEW list \in Seq(A), NEW n \in Nat
  PROVE  /\ Take(list, n) \in Seq(A)
         /\ Len(Take(list, n)) <= n /\ Len(Take(list, n)) <= Len(list)
         /\ \A i \in 1..Len(Take(list, n)) : Take(list, n)[i] = list[i]
         /\ ToSet(Take(list, n)) \subseteq ToSet(list)
         /\ Len(list) <= n => Take(list, n) = list
         /\ Len(list) > n => Len(Take(list, n)) = n
<1> DEFINE t == Take(list, n)
<1>0. \A i \in 1..Len(list) : list[i] \in A
  BY ElementOfSeq
<1>1. Len(list) \in Nat /\ DOMAIN list = 1..Len(list) /\ \A i \in 1..Len(list) : list[i] \in A
  BY <1>0, LenProperties
<1>2. CASE Len(list) <= n
  <2>1. t = list
    BY <1>2 DEF Take
  <2>2. ~(Len(list) > n)
    BY <1>1, <1>2
  <2> HIDE DEF t
  <2>3. /\ t \in Seq(A) /\ Len(t) <= n /\ Len(t) <= Len(list)
        /\ \A i \in 1..Len(t) : t[i] = list[i]
    BY <1>1, <1>2, <2>1
  <2>4. ToSet(t) \subseteq ToSet(list)
    BY <2>1
  <2> QED BY <2>1, <2>2, <2>3, <2>4 DEF t
<1>3. CASE Len(list) > n
  <2>1. t = SubSeq(list, 1, n)
    BY <1>1, <1>3 DEF Take
  <2>2. t \in Seq(A) /\ Len(t) = n /\ \A i \in 1..n : t[i] = list[i]
    BY <1>1, <1>3, <2>1, SubSeqProperties
  <2>3. DOMAIN t = 1..n
    BY <2>2, LenProperties
  <2>4. ToSet(t) \subseteq ToSet(list)
    BY <1>1, <1>3, <2>2, <2>3 DEF ToSet
  <2> QED BY <1>1, <1>3, <2>2, <2>4
<1> QED BY <1>1, <1>2, <1>3

\* Of equal elements there is a first.
LEMMA FirstPlace ==
  ASSUME NEW A, NEW list \in Seq(A), NEW i \in DOMAIN list
  PROVE  \E j \in {j \in DOMAIN list : \A k \in 1..(j - 1) : list[k] # list[j]} :
           list[j] = list[i] /\ j <= i
<1> DEFINE T == {j \in 1..i : list[j] = list[i]}
<1>1. Len(list) \in Nat /\ DOMAIN list = 1..Len(list)
  BY LenProperties
<1>2. T \in SUBSET Nat /\ i \in T
  BY <1>1
<1>3. PICK j \in T : \A k \in T : j <= k
  BY <1>2, LeastNatural
<1>4. j \in DOMAIN list /\ list[j] = list[i] /\ j <= i
  BY <1>1
<1>5. \A k \in 1..(j - 1) : list[k] # list[j]
  BY <1>1, <1>3, <1>4
<1> QED BY <1>4, <1>5

\* Each element stays at its first place, once.
LEMMA UniqueFacts ==
  ASSUME NEW A, NEW list \in Seq(A)
  PROVE  /\ Unique(list) \in Seq(A)
         /\ Len(Unique(list)) <= Len(list)
         /\ ToSet(Unique(list)) = ToSet(list)
<1> DEFINE S == {i \in DOMAIN list : \A j \in 1..(i - 1) : list[j] # list[i]}
<1>1. \A i \in DOMAIN list : \E j \in S : list[j] = list[i]
  BY FirstPlace
<1>2. S \subseteq DOMAIN list
  OBVIOUS
<1> HIDE DEF S
<1>3. {list[i] : i \in S} = {list[i] : i \in DOMAIN list}
  <2>1. ASSUME NEW i \in DOMAIN list
        PROVE  list[i] \in {list[j] : j \in S}
    <3>1. PICK j \in S : list[j] = list[i]
      BY <1>1
    <3> QED BY <3>1
  <2> QED BY <1>2, <2>1
<1>4. {list[i] : i \in S} = ToSet(list)
  BY <1>3 DEF ToSet
<1>5. S \in SUBSET DOMAIN list /\ Unique(list) = At(list, S)
  BY DEF S, Unique
<1> QED BY <1>4, <1>5, AtFacts

-----------------------------------------------------------------------------
(* Folds.                                                                  *)

LEMMA MaxFacts ==
  ASSUME NEW n \in Nat, NEW s \in SUBSET (1..n), s # {}
  PROVE  Max(s) \in s /\ \A y \in s : y <= Max(s)
<1>1. s \in SUBSET (0..n)
  OBVIOUS
<1>2. \E x \in s : \A y \in s : y <= x
  BY <1>1, GreatestNatural
<1>3. \E x \in s : \A y \in s : x >= y
  BY <1>2
<1>4. Max(s) \in s /\ \A y \in s : Max(s) >= y
  BY <1>3 DEF Max
<1> QED BY <1>4

\* g folds h with F over each set of positions, the last position last.
Folds(g, F, base, n, h) ==
  \A s \in SUBSET (1..n) :
    g[s] = IF s = {} THEN base ELSE F[<<g[s \ {Max(s)}], h[Max(s)]>>]

LEMMA FoldExists ==
  ASSUME NEW V, NEW H, NEW F \in [V \X H -> V], NEW base \in V, NEW n \in Nat,
         NEW h \in [1..n -> H]
  PROVE  \E g \in [SUBSET (1..n) -> V] : Folds(g, F, base, n, h)
<1> DEFINE Good(m, g) == \A s \in SUBSET (1..m) :
             g[s] = IF s = {} THEN base ELSE F[<<g[s \ {Max(s)}], h[Max(s)]>>]
           Has(m) == \E g \in [SUBSET (1..m) -> V] : Good(m, g)
           T == {m \in 0..n : ~Has(m)}
<1>0. \A m \in T : m \in Nat
  <2> HIDE DEF Has
  <2> QED OBVIOUS
<1>a. ASSUME T # {} PROVE FALSE
  <2>1. T \in SUBSET Nat
    <3> HIDE DEF T
    <3> QED BY <1>0
  <2>2. PICK m \in T : \A k \in T : m <= k
    <3> HIDE DEF T
    <3> QED BY <1>a, <2>1, LeastNatural
  <2>3. CASE m = 0
    <3> DEFINE g == [s \in SUBSET (1..0) |-> base]
    <3>1. g \in [SUBSET (1..0) -> V] /\ \A s \in SUBSET (1..0) : s = {}
      OBVIOUS
    <3>2. Good(0, g)
      BY <3>1
    <3> QED BY <2>2, <2>3, <3>1, <3>2
  <2>4. CASE m # 0
    <3>1. m \in 1..n /\ m \in Nat /\ m - 1 \in 0..n /\ Has(m - 1)
      <4> HIDE DEF Has
      <4>1. m \in 1..n /\ m \in Nat /\ m - 1 \in 0..n
        BY <2>4
      <4>2. m - 1 \notin T
        BY <2>2, <4>1
      <4> QED BY <4>1, <4>2
    <3>2. PICK g \in [SUBSET (1..(m - 1)) -> V] : Good(m - 1, g)
      BY <3>1
    <3> DEFINE f == [s \in SUBSET (1..m) |-> IF m \in s THEN F[<<g[s \ {m}], h[m]>>] ELSE g[s]]
    <3>3. ASSUME NEW s \in SUBSET (1..m), m \in s
          PROVE  s \ {m} \in SUBSET (1..(m - 1)) /\ s \ {m} \in SUBSET (1..m) /\ Max(s) = m
      <4>1. Max(s) \in s /\ \A y \in s : y <= Max(s)
        <5>1. s # {}
          BY <3>3
        <5> QED BY <3>1, <5>1, MaxFacts
      <4>2. \A y \in s : y <= m
        BY <3>1
      <4>3. Max(s) = m
        <5>1. Max(s) \in 1..m /\ m <= Max(s)
          BY <3>3, <4>1
        <5> QED BY <3>1, <5>1
      <4> QED BY <3>1, <4>3
    <3>4. ASSUME NEW s \in SUBSET (1..m), m \notin s
          PROVE  s \in SUBSET (1..(m - 1))
      BY <3>1, <3>4
    <3>5. f \in [SUBSET (1..m) -> V]
      <4>1. ASSUME NEW s \in SUBSET (1..m), m \in s PROVE F[<<g[s \ {m}], h[m]>>] \in V
        <5>1. g[s \ {m}] \in V /\ h[m] \in H
          BY <3>1, <3>2, <3>3, <4>1
        <5> QED BY <5>1
      <4>2. ASSUME NEW s \in SUBSET (1..m), m \notin s PROVE g[s] \in V
        BY <3>2, <3>4, <4>2
      <4> QED BY <4>1, <4>2
    <3>6. Good(m, f)
      <4> SUFFICES ASSUME NEW s \in SUBSET (1..m)
                   PROVE  f[s] = IF s = {} THEN base ELSE F[<<f[s \ {Max(s)}], h[Max(s)]>>]
        OBVIOUS
      <4>1. CASE m \in s
        <5>1. f[s] = F[<<g[s \ {m}], h[m]>>] /\ f[s \ {m}] = g[s \ {m}]
          BY <3>3, <4>1
        <5> QED BY <3>3, <4>1, <5>1
      <4>2. CASE m \notin s
        <5>1. s \in SUBSET (1..(m - 1)) /\ f[s] = g[s]
          BY <3>4, <4>2
        <5>2. f[s \ {Max(s)}] = g[s \ {Max(s)}]
          BY <4>2
        <5>3. g[s] = IF s = {} THEN base ELSE F[<<g[s \ {Max(s)}], h[Max(s)]>>]
          BY <3>2, <5>1
        <5> QED BY <5>1, <5>2, <5>3
      <4> QED BY <4>1, <4>2
    <3> HIDE DEF f, Good
    <3> QED BY <2>2, <3>5, <3>6
  <2> QED BY <2>3, <2>4
<1>b. Has(n)
  <2> HIDE DEF Has
  <2> QED BY <1>a
<1> QED BY <1>b DEF Folds

\* a has the lists after each hit of an answer.
Turns(a, list, answer) ==
  /\ a[0] = list
  /\ \A i \in 1..Len(answer) : a[i] = Merge(a[i - 1], answer[i])
  /\ FoldLeft(Merge, list, answer) = a[Len(answer)]

LEMMA MergeTurns ==
  ASSUME NEW V, NEW H, \A list \in V, hit \in H : Merge(list, hit) \in V,
         NEW list \in V, NEW answer \in Seq(H)
  PROVE  \E a \in [0..Len(answer) -> V] : Turns(a, list, answer)
<1> DEFINE n == Len(answer)
           F == [e \in V \X H |-> Merge(e[1], e[2])]
           iter[s \in SUBSET (DOMAIN answer)] ==
             IF s = {} THEN list ELSE LET x == Max(s) IN Merge(iter[s \ {x}], answer[x])
<1>1. n \in Nat /\ DOMAIN answer = 1..n /\ answer \in [1..n -> H]
  BY LenProperties
<1>2. FoldLeft(Merge, list, answer) = iter[DOMAIN answer]
  BY DEF FoldLeft, MapThenFoldSet
<1>3. F \in [V \X H -> V]
  OBVIOUS
<1>4. PICK g \in [SUBSET (1..n) -> V] : Folds(g, F, list, n, answer)
  <2> HIDE DEF F, iter, n
  <2>1. list \in V /\ n \in Nat /\ answer \in [1..n -> H] /\ F \in [V \X H -> V]
    BY <1>1, <1>3
  <2> QED BY <2>1, FoldExists
<1>4a. \A s \in SUBSET (1..n) :
        g[s] = IF s = {} THEN list ELSE F[<<g[s \ {Max(s)}], answer[Max(s)]>>]
  BY <1>4 DEF Folds
<1>5. \A s \in SUBSET (1..n) :
        g[s] = IF s = {} THEN list ELSE Merge(g[s \ {Max(s)}], answer[Max(s)])
  <2> SUFFICES ASSUME NEW s \in SUBSET (1..n), s # {}
               PROVE  g[s] = Merge(g[s \ {Max(s)}], answer[Max(s)])
    BY <1>4a
  <2>1. Max(s) \in 1..n
    BY <1>1, MaxFacts
  <2>2. g[s \ {Max(s)}] \in V /\ answer[Max(s)] \in H
    BY <1>1, <2>1
  <2> QED BY <1>4a, <2>2
<1>6. g = [s \in SUBSET (DOMAIN answer) |->
             IF s = {} THEN list ELSE LET x == Max(s) IN Merge(g[s \ {x}], answer[x])]
  BY <1>1, <1>5
<1>7. iter = [s \in SUBSET (DOMAIN answer) |->
                IF s = {} THEN list ELSE LET x == Max(s) IN Merge(iter[s \ {x}], answer[x])]
  BY <1>6
<1> HIDE DEF iter
<1>8. \A s \in SUBSET (1..n) :
        iter[s] = IF s = {} THEN list ELSE Merge(iter[s \ {Max(s)}], answer[Max(s)])
  BY <1>1, <1>7
<1> DEFINE a == [i \in 0..n |-> iter[1..i]]
<1>9. a[0] = list
  <2>1. 1..0 = {} /\ 0 \in 0..n
    BY <1>1
  <2> QED BY <1>8, <2>1
<1>10. ASSUME NEW i \in 1..n PROVE a[i] = Merge(a[i - 1], answer[i])
  <2>1. /\ 1..i \in SUBSET (1..n) /\ i \in 1..i /\ i \in 0..n /\ i - 1 \in 0..n
        /\ (1..i) \ {i} = 1..(i - 1)
    BY <1>1
  <2>2. Max(1..i) = i
    <3>1. Max(1..i) \in 1..i /\ i <= Max(1..i)
      BY <1>1, <2>1, MaxFacts
    <3> QED BY <1>1, <3>1
  <2> QED BY <1>8, <2>1, <2>2
<1>11. a \in [0..n -> V]
  <2> DEFINE T == {i \in 0..n : a[i] \notin V}
  <2> HIDE DEF a
  <2>1. ASSUME T # {} PROVE FALSE
    <3>0. T \in SUBSET Nat
      <4>1. \A i \in T : i \in Nat
        BY <1>1
      <4> HIDE DEF T
      <4> QED BY <4>1
    <3>1. PICK i \in T : \A k \in T : i <= k
      <4> HIDE DEF T
      <4> QED BY <2>1, <3>0, LeastNatural
    <3>2. i # 0
      BY <1>9, <3>1
    <3>3. i \in 1..n /\ i - 1 \in 0..n /\ i - 1 \notin T
      BY <1>1, <3>1, <3>2
    <3>4. a[i - 1] \in V /\ answer[i] \in H
      BY <1>1, <3>3
    <3> QED BY <1>10, <3>3, <3>4
  <2> QED BY <2>1 DEF a
<1>12. FoldLeft(Merge, list, answer) = a[n]
  BY <1>1, <1>2
<1> HIDE DEF a
<1> QED BY <1>9, <1>10, <1>11, <1>12 DEF Turns

-----------------------------------------------------------------------------
(* Elements of lists.                                                      *)

LEMMA SetFacts ==
  ASSUME NEW A, NEW list \in Seq(A)
  PROVE  /\ ToSet(list) = {list[i] : i \in 1..Len(list)}
         /\ ToSet(list) \subseteq A
         /\ \A e : Contains(list, e) <=> e \in ToSet(list)
         /\ list = <<>> <=> ToSet(list) = {}
         /\ list = <<>> <=> Len(list) = 0
<1>1. Len(list) \in Nat /\ DOMAIN list = 1..Len(list) /\ \A i \in 1..Len(list) : list[i] \in A
  BY LenProperties, ElementOfSeq
<1>2. ToSet(list) = {list[i] : i \in 1..Len(list)}
  BY <1>1 DEF ToSet
<1>3. ToSet(list) \subseteq A
  BY <1>1, <1>2
<1>4. \A e : Contains(list, e) <=> e \in ToSet(list)
  BY <1>2 DEF Contains
<1>5. list = <<>> <=> Len(list) = 0
  BY EmptySeq
<1>6. Len(list) # 0 => 1 \in 1..Len(list)
  BY <1>1
<1>7. Len(list) = 0 => 1..Len(list) = {}
  BY <1>1
<1>8. list = <<>> <=> ToSet(list) = {}
  BY <1>2, <1>5, <1>6, <1>7
<1> QED BY <1>2, <1>3, <1>4, <1>5, <1>8

LEMMA ConcatFacts ==
  ASSUME NEW A, NEW s \in Seq(A), NEW t \in Seq(A)
  PROVE  /\ s \o t \in Seq(A)
         /\ Len(s \o t) = Len(s) + Len(t)
         /\ ToSet(s \o t) = ToSet(s) \cup ToSet(t)
<1>1. /\ s \o t \in Seq(A)
      /\ Len(s \o t) = Len(s) + Len(t)
      /\ \A i \in 1..(Len(s) + Len(t)) :
           (s \o t)[i] = IF i <= Len(s) THEN s[i] ELSE t[i - Len(s)]
  BY ConcatProperties
<1>2. Len(s) \in Nat /\ Len(t) \in Nat
  BY LenProperties
<1>3. /\ ToSet(s) = {s[i] : i \in 1..Len(s)} /\ ToSet(t) = {t[i] : i \in 1..Len(t)}
      /\ ToSet(s \o t) = {(s \o t)[i] : i \in 1..(Len(s) + Len(t))}
  <2>1. ToSet(s) = {s[i] : i \in 1..Len(s)}
    BY SetFacts
  <2>2. ToSet(t) = {t[i] : i \in 1..Len(t)}
    BY SetFacts
  <2>3. ToSet(s \o t) = {(s \o t)[i] : i \in 1..Len(s \o t)}
    BY <1>1, SetFacts
  <2> QED BY <1>1, <2>1, <2>2, <2>3
<1>4. ASSUME NEW i \in 1..(Len(s) + Len(t)) PROVE (s \o t)[i] \in ToSet(s) \cup ToSet(t)
  <2>1. CASE i <= Len(s)
    BY <1>1, <1>2, <1>3, <2>1
  <2>2. CASE i > Len(s)
    <3>1. i - Len(s) \in 1..Len(t) /\ (s \o t)[i] = t[i - Len(s)]
      BY <1>1, <1>2, <2>2
    <3> QED BY <1>3, <3>1
  <2> QED BY <1>2, <2>1, <2>2
<1>5. ASSUME NEW i \in 1..Len(s) PROVE s[i] \in ToSet(s \o t)
  <2>1. i \in 1..(Len(s) + Len(t)) /\ (s \o t)[i] = s[i]
    BY <1>1, <1>2
  <2> QED BY <1>3, <2>1
<1>6. ASSUME NEW i \in 1..Len(t) PROVE t[i] \in ToSet(s \o t)
  <2>1. i + Len(s) \in 1..(Len(s) + Len(t)) /\ (s \o t)[i + Len(s)] = t[i]
    BY <1>1, <1>2
  <2> QED BY <1>3, <2>1
<1>7. ToSet(s \o t) \subseteq ToSet(s) \cup ToSet(t)
  BY <1>3, <1>4
<1>8. ToSet(s) \subseteq ToSet(s \o t)
  BY <1>3, <1>5
<1>9. ToSet(t) \subseteq ToSet(s \o t)
  BY <1>3, <1>6
<1> QED BY <1>1, <1>7, <1>8, <1>9

\* A list made of one value for each position of another.
LEMMA ListFacts ==
  ASSUME NEW A, NEW n \in Nat, NEW f \in [1..n -> A]
  PROVE  f \in Seq(A) /\ Len(f) = n
<1>1. f \in Seq(A)
  BY SeqDef
<1>2. DOMAIN f = 1..Len(f) /\ Len(f) \in Nat /\ DOMAIN f = 1..n
  BY <1>1, LenProperties
<1> QED BY <1>1, <1>2

-----------------------------------------------------------------------------
(* The paths of the plan and of the hits.                                  *)

LEMMA InScopeFacts ==
  ASSUME NEW list \in Seq(Paths)
  PROVE  /\ InScope(list) \in Seq(Paths)
         /\ Len(InScope(list)) <= Len(list)
         /\ ToSet(InScope(list)) = {p \in ToSet(list) : Allowed(p)}
<1> DEFINE S == {i \in DOMAIN list : Allowed(list[i])}
<1>1. {list[i] : i \in S} = {p \in ToSet(list) : Allowed(p)}
  BY DEF ToSet
<1> HIDE DEF S
<1>2. S \in SUBSET DOMAIN list /\ InScope(list) = At(list, S)
  BY DEF S, InScope
<1> QED BY <1>1, <1>2, AtFacts

LEMMA CollectedFacts ==
  ASSUME named \in Seq(Paths)
  PROVE  /\ Collected \in Seq(Paths)
         /\ PlannerPaths \in Seq(Paths)
         /\ ToSet(PlannerPaths) \subseteq ToSet(Collected)
         /\ \A p \in ToSet(Collected) : Allowed(p) => p \in ToSet(PlannerPaths)
<1>1. Len(named) \in Nat /\ DOMAIN named = 1..Len(named) /\ \A i \in 1..Len(named) : named[i] \in Paths
  BY LenProperties, ElementOfSeq
<1>2. Cleaned(named) \in [1..Len(named) -> Paths]
  BY <1>1, PathsAssumption DEF Cleaned
<1>3. Cleaned(named) \in Seq(Paths)
  BY <1>1, <1>2, ListFacts
<1>4. Collected \in Seq(Paths)
  BY <1>3, UniqueFacts DEF Collected
<1>5. /\ InScope(Collected) \in Seq(Paths)
      /\ ToSet(InScope(Collected)) = {p \in ToSet(Collected) : Allowed(p)}
  BY <1>4, InScopeFacts
<1> QED BY <1>4, <1>5 DEF PlannerPaths

LEMMA VectorFacts ==
  ASSUME hits \in Seq(Hits)
  PROVE  VectorPaths \in Seq(Paths) /\ Len(VectorPaths) <= VectorTop
<1> DEFINE v == [i \in DOMAIN hits |-> Clean[hits[i].path]]
<1>1. Len(hits) \in Nat /\ DOMAIN hits = 1..Len(hits) /\ \A i \in 1..Len(hits) : hits[i] \in Hits
  BY LenProperties, ElementOfSeq
<1>2. \A i \in 1..Len(hits) : hits[i].path \in Paths
  BY <1>1, PathsAssumption DEF Hits
<1>3. v \in [1..Len(hits) -> Paths]
  BY <1>1, <1>2, PathsAssumption
<1> HIDE DEF v
<1>4. v \in Seq(Paths)
  BY <1>1, <1>3, ListFacts
<1>5. Unique(InScope(v)) \in Seq(Paths)
  BY <1>4, InScopeFacts, UniqueFacts
<1>6. VectorTop \in Nat
  BY SettingsAssumption
<1>7. VectorPaths = Take(Unique(InScope(v)), VectorTop)
  BY DEF VectorPaths, v
<1> QED BY <1>5, <1>6, <1>7, TakeFacts

LEMMA TargetFacts ==
  ASSUME named \in Seq(Paths), hits \in Seq(Hits)
  PROVE  /\ TargetPaths \in Seq(Paths)
         /\ Len(TargetPaths) <= MaxTargets
         /\ Unique(Kept(TargetPaths \o VectorPaths)) \in Seq(Paths)
         /\ Len(Unique(Kept(TargetPaths \o VectorPaths))) <= MaxTargets + VectorTop
         /\ ToSet(TargetPaths) \subseteq ToSet(Unique(Kept(TargetPaths \o VectorPaths)))
<1>1. /\ PlannerPaths \in Seq(Paths) /\ VectorPaths \in Seq(Paths)
      /\ Len(VectorPaths) <= VectorTop /\ Len(VectorPaths) \in Nat
      /\ MaxTargets \in Nat /\ VectorTop \in Nat
  BY CollectedFacts, VectorFacts, SettingsAssumption, LenProperties
<1> DEFINE both == PlannerPaths \o VectorPaths
           kept == Unique(Kept(both))
<1>2. both \in Seq(Paths)
  BY <1>1, ConcatFacts
<1> HIDE DEF both
<1>3. /\ Kept(both) \in Seq(Paths)
      /\ ToSet(Kept(both)) = {p \in ToSet(both) : Allowed(p)}
  BY <1>2, InScopeFacts DEF Kept
<1>4. kept \in Seq(Paths) /\ ToSet(kept) = {p \in ToSet(both) : Allowed(p)}
  BY <1>3, UniqueFacts
<1> HIDE DEF kept
<1>5. TargetPaths = Take(kept, MaxTargets)
  BY DEF TargetPaths, kept, both
<1>6. /\ TargetPaths \in Seq(Paths) /\ Len(TargetPaths) <= MaxTargets
      /\ ToSet(TargetPaths) \subseteq ToSet(kept)
  BY <1>1, <1>4, <1>5, TakeFacts
<1>7. \A p \in ToSet(TargetPaths) : Allowed(p)
  BY <1>4, <1>6
<1> DEFINE more == TargetPaths \o VectorPaths
<1>8. /\ more \in Seq(Paths)
      /\ Len(more) = Len(TargetPaths) + Len(VectorPaths)
      /\ ToSet(more) = ToSet(TargetPaths) \cup ToSet(VectorPaths)
  BY <1>1, <1>6, ConcatFacts
<1> HIDE DEF more
<1>9. /\ Kept(more) \in Seq(Paths) /\ Len(Kept(more)) <= Len(more)
      /\ ToSet(Kept(more)) = {p \in ToSet(more) : Allowed(p)}
  BY <1>8, InScopeFacts DEF Kept
<1>10. /\ Unique(Kept(more)) \in Seq(Paths) /\ Len(Unique(Kept(more))) <= Len(Kept(more))
       /\ ToSet(Unique(Kept(more))) = ToSet(Kept(more))
  BY <1>9, UniqueFacts
<1>11. Len(Unique(Kept(more))) <= MaxTargets + VectorTop
  <2>1. /\ Len(TargetPaths) \in Nat /\ Len(Kept(more)) \in Nat
        /\ Len(Unique(Kept(more))) \in Nat /\ Len(more) \in Nat
    BY <1>6, <1>8, <1>9, <1>10, LenProperties
  <2> QED BY <1>1, <1>6, <1>8, <1>9, <1>10, <2>1
<1>12. ToSet(TargetPaths) \subseteq ToSet(Unique(Kept(more)))
  BY <1>7, <1>8, <1>9, <1>10
<1> QED BY <1>6, <1>10, <1>11, <1>12 DEF more

-----------------------------------------------------------------------------
(* The hits.                                                               *)

Finds == [path : Indexed, chunk : Chunks, score : 0..TopScore]

LEMMA MergeFacts ==
  ASSUME NEW list \in Seq(Finds), NEW hit \in Finds
  PROVE  /\ Merge(list, hit) \in Seq(Finds)
         /\ Len(Merge(list, hit)) <= Len(list) + 1
         /\ ToSet(Merge(list, hit)) \subseteq ToSet(list) \cup {hit}
         /\ \A h \in ToSet(list) \cup {hit} : \E g \in ToSet(Merge(list, hit)) :
              g.path = h.path /\ g.score >= h.score
<1> DEFINE old == {i \in DOMAIN list : list[i].path = hit.path /\ list[i].chunk = hit.chunk}
           new == Merge(list, hit)
<1>1. /\ Len(list) \in Nat /\ DOMAIN list = 1..Len(list)
      /\ \A i \in 1..Len(list) : list[i] \in Finds
  BY LenProperties, ElementOfSeq
<1>2. \A h \in Finds : h.score \in Int
  BY SettingsAssumption DEF Finds
<1>3. ToSet(list) = {list[i] : i \in 1..Len(list)} /\ ToSet(list) \subseteq Finds
  BY SetFacts
<1>4. CASE old = {}
  <2>1. new = Append(list, hit)
    BY <1>4 DEF Merge
  <2> HIDE DEF new
  <2>2. /\ new \in Seq(Finds) /\ Len(new) = Len(list) + 1
        /\ \A i \in 1..Len(list) : new[i] = list[i]
        /\ new[Len(list) + 1] = hit
    BY <2>1, AppendProperties
  <2>3. ToSet(new) = {new[i] : i \in 1..(Len(list) + 1)}
    BY <2>2, SetFacts
  <2>4. ToSet(new) = ToSet(list) \cup {hit}
    <3>1. \A i \in 1..(Len(list) + 1) : i \in 1..Len(list) \/ i = Len(list) + 1
      BY <1>1
    <3>2. Len(list) + 1 \in 1..(Len(list) + 1) /\ 1..Len(list) \subseteq 1..(Len(list) + 1)
      BY <1>1
    <3> QED BY <1>3, <2>2, <2>3, <3>1, <3>2
  <2>5. ASSUME NEW h \in ToSet(list) \cup {hit} PROVE h.score >= h.score
    BY <1>2, <1>3
  <2> QED BY <1>1, <2>2, <2>4, <2>5 DEF new
<1>5. CASE old # {}
  <2>1. new = [i \in DOMAIN list |->
                 IF i \in old /\ list[i].score < hit.score THEN hit ELSE list[i]]
    BY <1>5 DEF Merge
  <2> HIDE DEF new
  <2>2. new \in [1..Len(list) -> Finds]
    BY <1>1, <2>1
  <2>3. new \in Seq(Finds) /\ Len(new) = Len(list)
    BY <1>1, <2>2, ListFacts
  <2>4. ToSet(new) = {new[i] : i \in 1..Len(list)}
    BY <2>3, SetFacts
  <2>5. \A i \in 1..Len(list) :
          new[i] = IF i \in old /\ list[i].score < hit.score THEN hit ELSE list[i]
    BY <1>1, <2>1
  <2>6. ToSet(new) \subseteq ToSet(list) \cup {hit}
    BY <1>3, <2>4, <2>5
  <2>7. ASSUME NEW i \in 1..Len(list)
        PROVE  new[i].path = list[i].path /\ new[i].score >= list[i].score
    <3>1. list[i].score \in Int /\ hit.score \in Int
      BY <1>1, <1>2
    <3>2. CASE i \in old /\ list[i].score < hit.score
      BY <2>5, <3>1, <3>2
    <3>3. CASE ~(i \in old /\ list[i].score < hit.score)
      BY <2>5, <3>1, <3>3
    <3> QED BY <3>2, <3>3
  <2>8. ASSUME NEW h \in ToSet(list)
        PROVE  \E g \in ToSet(new) : g.path = h.path /\ g.score >= h.score
    BY <1>3, <2>4, <2>7
  <2>9. \E g \in ToSet(new) : g.path = hit.path /\ g.score >= hit.score
    <3>1. PICK i \in old : TRUE
      BY <1>5
    <3>2. i \in 1..Len(list) /\ list[i].path = hit.path
      BY <1>1
    <3>3. list[i].score \in Int /\ hit.score \in Int
      BY <1>1, <1>2, <3>2
    <3>4. new[i].path = hit.path /\ new[i].score >= hit.score
      <4>1. CASE list[i].score < hit.score
        BY <2>5, <3>2, <3>3, <4>1
      <4>2. CASE ~(list[i].score < hit.score)
        BY <2>5, <3>2, <3>3, <4>2
      <4> QED BY <4>1, <4>2
    <3> QED BY <2>4, <3>2, <3>4
  <2> QED BY <1>1, <2>3, <2>6, <2>8, <2>9 DEF new
<1> QED BY <1>4, <1>5

\* After an answer: every hit has a better or equal one of its path in the list,
\* and nothing else is there.
LEMMA AnswerFacts ==
  ASSUME NEW list \in Seq(Finds), NEW answer \in Seq(Finds)
  PROVE  /\ FoldLeft(Merge, list, answer) \in Seq(Finds)
         /\ Len(FoldLeft(Merge, list, answer)) <= Len(list) + Len(answer)
         /\ ToSet(FoldLeft(Merge, list, answer)) \subseteq ToSet(list) \cup ToSet(answer)
         /\ \A h \in ToSet(list) \cup ToSet(answer) :
              \E g \in ToSet(FoldLeft(Merge, list, answer)) :
                g.path = h.path /\ g.score >= h.score
<1> DEFINE n == Len(answer)
           Given(i) == ToSet(list) \cup {answer[k] : k \in 1..i}
           Good(a, i) == /\ Len(a[i]) <= Len(list) + i
                         /\ ToSet(a[i]) \subseteq Given(i)
                         /\ \A h \in Given(i) : \E g \in ToSet(a[i]) :
                              g.path = h.path /\ g.score >= h.score
<1>1. n \in Nat /\ Len(list) \in Nat /\ \A i \in 1..n : answer[i] \in Finds
  BY LenProperties, ElementOfSeq
<1>0. PICK a \in [0..n -> Seq(Finds)] : Turns(a, list, answer)
  <2>1. \A l \in Seq(Finds), hit \in Finds : Merge(l, hit) \in Seq(Finds)
    BY MergeFacts
  <2> QED BY <2>1, MergeTurns
<1>2. /\ a[0] = list
      /\ \A i \in 1..n : a[i] = Merge(a[i - 1], answer[i])
      /\ FoldLeft(Merge, list, answer) = a[n]
  BY <1>0 DEF Turns
<1>3. \A i \in 0..n : a[i] \in Seq(Finds) /\ Len(a[i]) \in Nat
  BY <1>0, LenProperties
<1>4. \A h \in Finds : h.score \in Int
  BY SettingsAssumption DEF Finds
<1>5. Good(a, 0)
  <2>1. Given(0) = ToSet(list) /\ ToSet(list) \subseteq Finds
    BY SetFacts
  <2>2. \A h \in ToSet(list) : h.score >= h.score
    BY <1>4, <2>1
  <2> QED BY <1>1, <1>2, <2>1, <2>2
<1>6. ASSUME NEW i \in 1..n, Good(a, i - 1) PROVE Good(a, i)
  <2> DEFINE l == a[i - 1]
             m == a[i]
  <2>1. /\ i \in 0..n /\ i - 1 \in 0..n /\ l \in Seq(Finds) /\ m \in Seq(Finds)
        /\ Len(l) \in Nat /\ Len(m) \in Nat /\ answer[i] \in Finds
        /\ m = Merge(l, answer[i])
    BY <1>1, <1>2, <1>3
  <2>2. Given(i) = Given(i - 1) \cup {answer[i]}
    <3>1. 1..i = (1..(i - 1)) \cup {i}
      BY <1>1
    <3> QED BY <3>1
  <2>3. /\ Len(l) <= Len(list) + (i - 1) /\ ToSet(l) \subseteq Given(i - 1)
        /\ \A h \in Given(i - 1) : \E g \in ToSet(l) : g.path = h.path /\ g.score >= h.score
    BY <1>6
  <2> HIDE DEF l, m, Given
  <2>4. /\ Len(m) <= Len(l) + 1 /\ ToSet(m) \subseteq ToSet(l) \cup {answer[i]}
        /\ \A h \in ToSet(l) \cup {answer[i]} : \E g \in ToSet(m) :
             g.path = h.path /\ g.score >= h.score
    BY <2>1, MergeFacts
  <2>5. Len(m) <= Len(list) + i
    BY <1>1, <2>1, <2>3, <2>4
  <2>6. ToSet(m) \subseteq Given(i)
    BY <2>2, <2>3, <2>4
  <2>7. Given(i - 1) \subseteq Finds /\ ToSet(l) \subseteq Finds /\ ToSet(m) \subseteq Finds
    <3>1. ToSet(list) \subseteq Finds /\ ToSet(l) \subseteq Finds /\ ToSet(m) \subseteq Finds
      BY <2>1, SetFacts
    <3>2. \A k \in 1..(i - 1) : answer[k] \in Finds
      BY <1>1
    <3> QED BY <3>1, <3>2 DEF Given
  <2>8. ASSUME NEW h \in Given(i)
        PROVE  \E g \in ToSet(m) : g.path = h.path /\ g.score >= h.score
    <3>1. CASE h = answer[i]
      BY <2>4, <3>1
    <3>2. CASE h \in Given(i - 1)
      <4>1. PICK f \in ToSet(l) : f.path = h.path /\ f.score >= h.score
        BY <2>3, <3>2
      <4>2. PICK g \in ToSet(m) : g.path = f.path /\ g.score >= f.score
        BY <2>4
      <4>3. h.score \in Int /\ f.score \in Int /\ g.score \in Int
        BY <1>4, <2>7, <3>2
      <4> QED BY <4>1, <4>2, <4>3
    <3> QED BY <2>2, <3>1, <3>2
  <2> QED BY <2>5, <2>6, <2>8 DEF m
<1> HIDE DEF n
<1>7. Good(a, n)
  <2> DEFINE T == {i \in 0..n : ~Good(a, i)}
  <2> HIDE DEF Good
  <2>1. ASSUME T # {} PROVE FALSE
    <3>1. T \in SUBSET Nat
      <4>1. \A i \in T : i \in Nat
        BY <1>1
      <4> HIDE DEF T
      <4> QED BY <4>1
    <3>2. PICK i \in T : \A k \in T : i <= k
      <4> HIDE DEF T
      <4> QED BY <2>1, <3>1, LeastNatural
    <3>3. i # 0
      BY <1>5, <3>2
    <3>4. i \in 1..n /\ i - 1 \in 0..n /\ i - 1 \notin T
      BY <1>1, <3>2, <3>3
    <3> QED BY <1>6, <3>2, <3>4
  <2>2. n \in 0..n
    BY <1>1
  <2> QED BY <2>1, <2>2
<1>8. Given(n) = ToSet(list) \cup ToSet(answer)
  BY SetFacts DEF n
<1>9. n \in 0..n
  BY <1>1
<1> HIDE DEF Given
<1>10. a[n] \in Seq(Finds) /\ FoldLeft(Merge, list, answer) = a[n]
  BY <1>2, <1>3, <1>9
<1> QED BY <1>7, <1>8, <1>10 DEF n

-----------------------------------------------------------------------------
(* The ranking.                                                            *)

LEMMA ScoreMax ==
  ASSUME NEW n \in Nat, NEW s \in SUBSET (-1..n), s # {}
  PROVE  Max(s) \in s /\ \A y \in s : y <= Max(s)
<1> DEFINE t == {x + 1 : x \in s}
<1>1. \A x \in s : x \in Int /\ x + 1 \in 0..(n + 1)
  OBVIOUS
<1>2. t \in SUBSET (0..(n + 1)) /\ t # {} /\ n + 1 \in Nat
  <2>1. \A y \in t : y \in 0..(n + 1)
    BY <1>1
  <2>2. t # {} /\ n + 1 \in Nat
    <3>1. n + 1 \in Nat
      OBVIOUS
    <3>2. PICK x \in s : TRUE
      OBVIOUS
    <3>3. x + 1 \in t
      OBVIOUS
    <3> QED BY <3>1, <3>3
  <2> HIDE DEF t
  <2> QED BY <2>1, <2>2
<1>3. \E x \in t : \A y \in t : y <= x
  <2> HIDE DEF t
  <2> QED BY <1>2, GreatestNatural
<1>4. \E x \in s : \A y \in s : x >= y
  <2>1. PICK u \in t : \A y \in t : y <= u
    BY <1>3
  <2>2. PICK x \in s : u = x + 1
    BY <2>1
  <2>3. ASSUME NEW y \in s PROVE x >= y
    <3>1. y + 1 <= x + 1
      BY <2>1, <2>2
    <3> QED BY <1>1, <3>1
  <2> QED BY <2>3
<1>5. Max(s) \in s /\ \A y \in s : Max(s) >= y
  BY <1>4 DEF Max
<1>6. ASSUME NEW y \in s PROVE y <= Max(s)
  BY <1>1, <1>5
<1> QED BY <1>5, <1>6

\* Nothing is lost, and what has a better score comes first.
LEMMA ByScoreFacts ==
  ASSUME NEW list \in Seq(Hits)
  PROVE  /\ ByScore(list) \in Seq(Hits)
         /\ Len(ByScore(list)) <= Len(list)
         /\ ToSet(ByScore(list)) = ToSet(list)
         /\ \A h \in ToSet(list) : \A i \in 1..Len(ByScore(list)) :
              h.score > ByScore(list)[i].score => \E k \in 1..(i - 1) : ByScore(list)[k] = h
<1> DEFINE S == DOMAIN list
           R == {e \in S \X S :
                   \/ list[e[1]].score > list[e[2]].score
                   \/ list[e[1]].score = list[e[2]].score /\ e[1] < e[2]}
           o == ByScore(list)
<1>1. /\ Len(list) \in Nat /\ S = 1..Len(list) /\ \A i \in S : list[i] \in Hits
  BY LenProperties, ElementOfSeq
<1>2. \A h \in Hits : h.score \in Int
  BY SettingsAssumption DEF Hits
<1>3. \A i \in S : list[i].score \in Int
  BY <1>1, <1>2
<1>4. \A i, j \in S : <<i, j>> \in R <=>
        list[i].score > list[j].score \/ (list[i].score = list[j].score /\ i < j)
  OBVIOUS
<1>5. o = Ordered(list, S, R)
  BY DEF ByScore
<1>6. IsFiniteSet(S) /\ Cardinality(S) = Len(list)
  <2>1. IsFiniteSet(1..Len(list)) /\ Cardinality(1..Len(list)) = IF 1 > Len(list) THEN 0 ELSE Len(list) - 1 + 1
    BY <1>1, FS_Interval
  <2> QED BY <1>1, <2>1
<1> HIDE DEF R, o
<1>7. InARow(S, R)
  <2>1. \A i \in S : <<i, i>> \notin R
    BY <1>1, <1>3, <1>4
  <2>2. ASSUME NEW i \in S, NEW j \in S, NEW k \in S, <<i, j>> \in R, <<j, k>> \in R
        PROVE  <<i, k>> \in R
    <3>1. /\ list[i].score \in Int /\ list[j].score \in Int /\ list[k].score \in Int
          /\ i \in Int /\ j \in Int /\ k \in Int
      BY <1>1, <1>3
    <3>2. /\ list[i].score > list[j].score \/ (list[i].score = list[j].score /\ i < j)
          /\ list[j].score > list[k].score \/ (list[j].score = list[k].score /\ j < k)
      BY <1>4, <2>2
    <3>3. list[i].score > list[k].score \/ (list[i].score = list[k].score /\ i < k)
      BY <3>1, <3>2
    <3> QED BY <1>4, <3>3
  <2>3. ASSUME NEW i \in S, NEW j \in S, i # j PROVE <<i, j>> \in R \/ <<j, i>> \in R
    <3>1. list[i].score \in Int /\ list[j].score \in Int /\ i \in Int /\ j \in Int
      BY <1>1, <1>3
    <3> QED BY <1>4, <2>3, <3>1
  <2> QED BY <2>1, <2>2, <2>3 DEF InARow
<1>8. o \in Seq(Hits) /\ \E pos : Places(list, S, R, pos)
  BY <1>5, <1>7, OrderedFacts
<1>9. PICK pos : Places(list, S, R, pos)
  BY <1>8
<1>10. /\ pos \in [S -> S] /\ Len(o) = Len(list)
       /\ \A k \in S : o[k] = list[pos[k]]
       /\ \A k, l \in S : k < l <=> <<pos[k], pos[l]>> \in R
       /\ \A i \in S : \E k \in S : pos[k] = i
  BY <1>1, <1>5, <1>6, <1>9 DEF Places
<1>11. ToSet(o) = {o[i] : i \in S} /\ ToSet(list) = {list[i] : i \in S}
  <2>1. ToSet(o) = {o[i] : i \in 1..Len(o)}
    BY <1>8, SetFacts
  <2>2. ToSet(list) = {list[i] : i \in 1..Len(list)}
    BY SetFacts
  <2> QED BY <1>1, <1>10, <2>1, <2>2
<1>12. ToSet(o) = ToSet(list)
  BY <1>10, <1>11
<1>13. ASSUME NEW h \in ToSet(list), NEW i \in 1..Len(o), h.score > o[i].score
       PROVE  \E k \in 1..(i - 1) : o[k] = h
  <2>1. i \in S
    BY <1>1, <1>10
  <2>2. PICK k \in S : o[k] = h
    BY <1>11, <1>12
  <2>3. pos[k] \in S /\ pos[i] \in S /\ list[pos[k]].score > list[pos[i]].score
    BY <1>10, <1>13, <2>1, <2>2
  <2>4. <<pos[k], pos[i]>> \in R
    BY <1>4, <2>3
  <2>5. k < i
    BY <1>10, <2>1, <2>2, <2>4
  <2>6. k \in 1..(i - 1)
    BY <1>1, <2>1, <2>2, <2>5
  <2> QED BY <2>2, <2>6
<1> QED BY <1>1, <1>8, <1>10, <1>12, <1>13 DEF o

\* Entry points are added with a fixed score, and whatever else is there was found.
LEMMA InjectedFacts ==
  ASSUME NEW entries \in Seq(Indexed), NEW list \in Seq(Finds)
  PROVE  LET new == Boosted(Injected(entries, list))
         IN  /\ new \in Seq(Hits)
             /\ Len(new) <= Len(entries) + Len(list)
             /\ \A h \in ToSet(new) : h.chunk # "none" => \E g \in ToSet(list) :
                  h.path = g.path /\ h.score = g.score + (IF g.path \in Entry THEN Boost ELSE 0)
             /\ \A g \in ToSet(list) : \E h \in ToSet(new) :
                  h.path = g.path /\ h.score = g.score + (IF g.path \in Entry THEN Boost ELSE 0)
<1> DEFINE paths == [i \in DOMAIN list |-> list[i].path]
           kept == {i \in DOMAIN entries : ~Contains(paths, entries[i])}
           absent == Without(entries, paths)
           Raw == [path : Indexed, chunk : Chunks \cup {"none"}, score : 0..(TopScore + Boost)]
           added == [i \in DOMAIN absent |->
                       [path |-> absent[i], chunk |-> "none", score |-> TopScore + Boost]]
           all == added \o list
           new == Boosted(all)
<1>0. /\ TopScore \in Nat /\ Boost \in Nat /\ "none" \notin Chunks
  BY SettingsAssumption
<1>1. absent = At(entries, kept) /\ kept \in SUBSET DOMAIN entries
  BY DEF Without
<1> HIDE DEF kept, absent
<1>2. absent \in Seq(Indexed) /\ Len(absent) <= Len(entries)
  BY <1>1, AtFacts
<1>3. /\ Len(absent) \in Nat /\ DOMAIN absent = 1..Len(absent)
      /\ \A i \in 1..Len(absent) : absent[i] \in Indexed
      /\ Len(list) \in Nat /\ DOMAIN list = 1..Len(list)
      /\ Len(entries) \in Nat
  BY <1>2, LenProperties, ElementOfSeq
<1>4. added \in [1..Len(absent) -> Raw]
  BY <1>0, <1>3
<1>4a. \A i \in 1..Len(absent) : added[i].chunk = "none"
  BY <1>3
<1> HIDE DEF added
<1>5. added \in Seq(Raw) /\ Len(added) = Len(absent)
  BY <1>3, <1>4, ListFacts
<1>6. list \in Seq(Raw)
  <2>1. Finds \subseteq Raw
    BY <1>0 DEF Finds
  <2> HIDE DEF Raw
  <2> QED BY <2>1, SeqMonotonic
<1>7. /\ all \in Seq(Raw) /\ Len(all) = Len(absent) + Len(list)
      /\ ToSet(all) = ToSet(added) \cup ToSet(list)
  <2> HIDE DEF Raw
  <2> QED BY <1>5, <1>6, ConcatFacts
<1>8. \A h \in ToSet(added) : h.chunk = "none"
  <2> HIDE DEF Raw
  <2>1. ToSet(added) = {added[i] : i \in 1..Len(added)}
    BY <1>5, SetFacts
  <2> QED BY <1>4a, <1>5, <2>1
<1> HIDE DEF all
<1>9. /\ Len(all) \in Nat /\ DOMAIN all = 1..Len(all)
      /\ \A i \in 1..Len(all) : all[i] \in Raw
  <2> HIDE DEF Raw
  <2> QED BY <1>7, LenProperties, ElementOfSeq
<1>10. \A i \in 1..Len(all) :
         /\ new[i].path = all[i].path /\ new[i].chunk = all[i].chunk
         /\ new[i].score = all[i].score + (IF all[i].path \in Entry THEN Boost ELSE 0)
  <2> SUFFICES ASSUME NEW i \in 1..Len(all)
               PROVE  /\ new[i].path = all[i].path /\ new[i].chunk = all[i].chunk
                      /\ new[i].score = all[i].score + (IF all[i].path \in Entry THEN Boost ELSE 0)
    OBVIOUS
  <2>1. all[i] \in Raw
    BY <1>9
  <2>2. new[i] = IF all[i].path \in Entry
                 THEN [all[i] EXCEPT !.score = @ + Boost] ELSE all[i]
    BY <1>9 DEF Boosted
  <2>3. CASE all[i].path \in Entry
    <3>1. new[i] = [all[i] EXCEPT !.score = all[i].score + Boost]
      BY <2>2, <2>3
    <3> HIDE DEF new
    <3> QED BY <2>1, <2>3, <3>1
  <2>4. CASE all[i].path \notin Entry
    <3>1. new[i] = all[i] /\ all[i].score + 0 = all[i].score
      BY <1>0, <2>1, <2>2, <2>4
    <3> HIDE DEF new
    <3> QED BY <2>4, <3>1
  <2> QED BY <2>3, <2>4
<1>11. new \in [1..Len(all) -> Hits]
  <2>1. ASSUME NEW i \in 1..Len(all) PROVE new[i] \in Hits
    <3>1. all[i] \in Raw
      BY <1>9
    <3>2. new[i] = IF all[i].path \in Entry
                   THEN [all[i] EXCEPT !.score = @ + Boost] ELSE all[i]
      BY <1>9 DEF Boosted
    <3> HIDE DEF new
    <3>3. CASE all[i].path \in Entry
      <4>1. new[i] = [all[i] EXCEPT !.score = all[i].score + Boost]
        BY <3>2, <3>3
      <4>2. all[i].score + Boost \in 0..(TopScore + 2 * Boost)
        BY <1>0, <3>1
      <4> QED BY <3>1, <4>1, <4>2 DEF Hits
    <3>4. CASE all[i].path \notin Entry
      <4>1. all[i].score \in 0..(TopScore + 2 * Boost) /\ new[i] = all[i]
        BY <1>0, <3>1, <3>2, <3>4
      <4> QED BY <3>1, <4>1 DEF Hits
    <3> QED BY <3>3, <3>4
  <2>2. new = [i \in 1..Len(all) |-> new[i]]
    BY <1>9 DEF Boosted
  <2> HIDE DEF new
  <2> QED BY <2>1, <2>2
<1> HIDE DEF new
<1>12. new \in Seq(Hits) /\ Len(new) = Len(all)
  BY <1>9, <1>11, ListFacts
<1>13. ToSet(new) = {new[i] : i \in 1..Len(all)} /\ ToSet(all) = {all[i] : i \in 1..Len(all)}
  <2> HIDE DEF Raw
  <2>1. ToSet(all) = {all[i] : i \in 1..Len(all)}
    BY <1>7, SetFacts
  <2>2. ToSet(new) = {new[i] : i \in 1..Len(new)}
    BY <1>12, SetFacts
  <2> QED BY <1>12, <2>1, <2>2
<1>14. ASSUME NEW h \in ToSet(new), h.chunk # "none"
       PROVE  \E g \in ToSet(list) :
                h.path = g.path /\ h.score = g.score + (IF g.path \in Entry THEN Boost ELSE 0)
  <2>1. PICK i \in 1..Len(all) : h = new[i]
    BY <1>13
  <2>2. all[i] \in ToSet(all) /\ all[i].chunk # "none"
    BY <1>10, <1>13, <1>14, <2>1
  <2>3. all[i] \in ToSet(list)
    BY <1>7, <1>8, <2>2
  <2> QED BY <1>10, <2>1, <2>3
<1>15. ASSUME NEW g \in ToSet(list)
       PROVE  \E h \in ToSet(new) :
                h.path = g.path /\ h.score = g.score + (IF g.path \in Entry THEN Boost ELSE 0)
  <2>1. PICK i \in 1..Len(all) : g = all[i]
    BY <1>7, <1>13
  <2> QED BY <1>10, <1>13, <2>1
<1>16. Len(new) <= Len(entries) + Len(list)
  BY <1>2, <1>3, <1>7, <1>12
<1>17. Boosted(Injected(entries, list)) = new
  BY DEF Injected, new, all, added, absent
<1> QED BY <1>12, <1>14, <1>15, <1>16, <1>17

-----------------------------------------------------------------------------
(* What the search is about, and what it found.                            *)

Given ==
  /\ pc \in {"search", "assign", "fetch", "write", "done", "raised"}
  /\ repo \subseteq Paths
  /\ scope \in {"frontend", "backend", "fullstack"}
  /\ named \in BoundedSeq(Paths, MaxNamed) /\ named \in Seq(Paths)

\* While it searches: best has the similarity of some hit of the path, and no
\* hit of the path has a greater one.
Rated ==
  /\ \A h \in ToSet(hits) : h.score <= best[h.path]
  /\ \A p \in Indexed : best[p] >= 0 => \E h \in ToSet(hits) : h.path = p /\ h.score >= best[p]

Found ==
  /\ queries \in 0..MaxQueries
  /\ best \in [Indexed -> -1..TopScore]
  /\ hits \in Seq(Hits) /\ Len(hits) <= MaxQueries * PerQuery + MaxInject
  /\ pc = "search" => hits \in Seq(Finds) /\ Len(hits) <= queries * PerQuery /\ Rated

LEMMA BoundedFacts ==
  ASSUME NEW A, NEW n \in Nat, NEW list \in BoundedSeq(A, n)
  PROVE  list \in Seq(A) /\ Len(list) <= n
<1>1. PICK m \in 0..n : list \in [1..m -> A]
  BY DEF BoundedSeq, SeqOf
<1>2. list \in Seq(A) /\ Len(list) = m
  BY <1>1, ListFacts
<1> QED BY <1>1, <1>2

LEMMA FoundInit == Init => Given /\ Found
<1> SUFFICES ASSUME Init PROVE Given /\ Found
  OBVIOUS
<1>0. /\ MaxNamed \in Nat /\ MaxQueries \in Nat /\ PerQuery \in Nat /\ MaxInject \in Nat
      /\ TopScore \in Nat
  BY SettingsAssumption
<1>1. Given
  <2>1. named \in BoundedSeq(Paths, MaxNamed)
    BY DEF Init
  <2>2. named \in Seq(Paths)
    BY <1>0, <2>1, BoundedFacts
  <2> QED BY <2>1, <2>2 DEF Init, Given
<1>2. /\ hits \in Seq(Hits) /\ hits \in Seq(Finds) /\ Len(hits) = 0 /\ ToSet(hits) = {}
  <2>1. hits = <<>>
    BY DEF Init
  <2>2. /\ hits \in Seq(Hits) /\ hits \in Seq(Finds) /\ Len(hits) = 0
    BY <2>1, EmptySeq
  <2>3. ToSet(hits) = {}
    BY <2>1, <2>2, SetFacts
  <2> QED BY <2>2, <2>3
<1>3. Rated
  <2>1. best = [p \in Indexed |-> -1]
    BY DEF Init
  <2> QED BY <1>2, <2>1 DEF Rated
<1>4. best \in [Indexed -> -1..TopScore]
  <2>1. best = [p \in Indexed |-> -1]
    BY DEF Init
  <2> QED BY <1>0, <2>1
<1>5. queries = 0 /\ 0 \in 0..MaxQueries /\ 0 <= queries * PerQuery
  BY <1>0 DEF Init
<1>6. Len(hits) <= MaxQueries * PerQuery + MaxInject
  <2>1. MaxQueries * PerQuery \in Nat
    BY <1>0
  <2> QED BY <1>0, <1>2, <2>1
<1>7. Found
  BY <1>2, <1>3, <1>4, <1>5, <1>6 DEF Found
<1> QED BY <1>1, <1>7

LEMMA SearchStep ==
  ASSUME Given, Found,
         NEW answer \in BoundedSeq([path : Indexed, chunk : Chunks, score : 0..TopScore], PerQuery),
         Search(answer)
  PROVE  Found'
<1>0. /\ MaxQueries \in Nat /\ PerQuery \in Nat /\ MaxInject \in Nat /\ TopScore \in Nat
      /\ Boost \in Nat /\ queries \in Nat /\ queries < MaxQueries
  BY SettingsAssumption DEF Found, Search
<1>1. answer \in Seq(Finds) /\ Len(answer) <= PerQuery /\ Len(answer) \in Nat
  <2>1. answer \in Seq(Finds) /\ Len(answer) <= PerQuery
    BY <1>0, BoundedFacts DEF Finds
  <2> QED BY <2>1, LenProperties
<1>2. /\ pc = "search" /\ hits \in Seq(Finds) /\ Len(hits) <= queries * PerQuery /\ Rated
      /\ best \in [Indexed -> -1..TopScore]
  BY DEF Found, Search
<1>3. hits' = FoldLeft(Merge, hits, answer) /\ queries' = queries + 1
  BY DEF Search
<1>4. /\ hits' \in Seq(Finds) /\ Len(hits') <= Len(hits) + Len(answer)
      /\ ToSet(hits') \subseteq ToSet(hits) \cup ToSet(answer)
      /\ \A h \in ToSet(hits) \cup ToSet(answer) :
           \E g \in ToSet(hits') : g.path = h.path /\ g.score >= h.score
  BY <1>1, <1>2, <1>3, AnswerFacts
<1>5. Len(hits') <= queries' * PerQuery /\ Len(hits') <= MaxQueries * PerQuery + MaxInject
  <2>1. Len(hits) \in Nat /\ Len(hits') \in Nat
    BY <1>2, <1>4, LenProperties
  <2>2. Len(hits') <= queries * PerQuery + PerQuery
    <3>1. queries * PerQuery \in Nat
      BY <1>0
    <3> QED BY <1>0, <1>1, <1>2, <1>4, <2>1, <3>1
  <2>3. (queries + 1) * PerQuery = queries * PerQuery + PerQuery
    BY <1>0
  <2>4. (queries + 1) * PerQuery <= MaxQueries * PerQuery
    <3>1. PICK d \in Nat : MaxQueries = queries + 1 + d
      <4>1. MaxQueries - (queries + 1) \in Nat /\ MaxQueries = queries + 1 + (MaxQueries - (queries + 1))
        BY <1>0
      <4> QED BY <4>1
    <3>2. MaxQueries * PerQuery = (queries + 1) * PerQuery + d * PerQuery
      BY <1>0, <3>1
    <3>3. d * PerQuery \in Nat /\ (queries + 1) * PerQuery \in Nat
      BY <1>0
    <3> QED BY <3>2, <3>3
  <2>5. queries * PerQuery \in Nat /\ MaxQueries * PerQuery \in Nat
    BY <1>0
  <2> QED BY <1>0, <1>3, <2>1, <2>2, <2>3, <2>4, <2>5
<1>6. hits' \in Seq(Hits)
  <2>1. Finds \subseteq Hits
    BY <1>0 DEF Finds, Hits
  <2> QED BY <1>4, <2>1, SeqMonotonic
<1> DEFINE scores(p) == {best[p]} \cup {h.score : h \in {a \in ToSet(answer) : a.path = p}}
<1>7. ToSet(answer) \subseteq Finds /\ ToSet(hits) \subseteq Finds /\ ToSet(hits') \subseteq Finds
  BY <1>1, <1>2, <1>4, SetFacts
<1>8. ASSUME NEW p \in Indexed
      PROVE  /\ best'[p] = Max(scores(p)) /\ best'[p] \in -1..TopScore /\ best'[p] \in scores(p)
             /\ \A y \in scores(p) : y <= best'[p]
  <2>1. best'[p] = Max(scores(p))
    BY DEF Search
  <2>2. scores(p) \in SUBSET (-1..TopScore) /\ scores(p) # {}
    <3>1. best[p] \in -1..TopScore
      BY <1>2
    <3>2. \A h \in ToSet(answer) : h.score \in -1..TopScore
      BY <1>0, <1>7 DEF Finds
    <3> QED BY <3>1, <3>2
  <2> HIDE DEF scores
  <2>3. Max(scores(p)) \in scores(p) /\ \A y \in scores(p) : y <= Max(scores(p))
    BY <1>0, <2>2, ScoreMax
  <2> QED BY <2>1, <2>2, <2>3
<1>a. ASSUME NEW p \in Indexed
      PROVE  best'[p] \in Int /\ best[p] \in Int /\ best[p] <= best'[p]
  <2>1. best[p] \in scores(p) /\ best[p] \in -1..TopScore
    BY <1>2
  <2> HIDE DEF scores
  <2>2. best'[p] \in -1..TopScore /\ best[p] <= best'[p]
    BY <1>8, <2>1
  <2> QED BY <2>1, <2>2
<1>9. best' \in [Indexed -> -1..TopScore]
  <2>1. best' = [p \in Indexed |-> Max(scores(p))]
    BY DEF Search
  <2> HIDE DEF scores
  <2> QED BY <1>8, <2>1
<1>10. \A h \in Finds : h.score \in Int /\ h.path \in Indexed
  BY <1>0 DEF Finds
<1>11. ASSUME NEW h \in ToSet(hits') PROVE h.score <= best'[h.path]
  <2>1. h.path \in Indexed /\ h.score \in Int
    BY <1>7, <1>10
  <2>2. CASE h \in ToSet(answer)
    <3>1. h.score \in scores(h.path)
      BY <2>2
    <3> QED BY <1>8, <2>1, <3>1
  <2>3. CASE h \in ToSet(hits)
    <3>1. h.score <= best[h.path]
      BY <1>2, <2>3 DEF Rated
    <3>2. best[h.path] <= best'[h.path]
      BY <1>a, <2>1
    <3>3. best[h.path] \in Int /\ best'[h.path] \in Int
      BY <1>a, <2>1
    <3> QED BY <2>1, <3>1, <3>2, <3>3
  <2> QED BY <1>4, <2>2, <2>3
<1>12. ASSUME NEW p \in Indexed, best'[p] >= 0
       PROVE  \E h \in ToSet(hits') : h.path = p /\ h.score >= best'[p]
  <2>1. PICK h \in ToSet(hits) \cup ToSet(answer) : h.path = p /\ h.score >= best'[p]
    <3>1. CASE best'[p] = best[p]
      <4>1. \E h \in ToSet(hits) : h.path = p /\ h.score >= best[p]
        BY <1>2, <1>12, <3>1 DEF Rated
      <4> QED BY <3>1, <4>1
    <3>2. CASE best'[p] # best[p]
      <4>1. PICK h \in ToSet(answer) : h.path = p /\ h.score = best'[p]
        BY <1>8, <3>2
      <4>2. h.score >= best'[p]
        BY <1>7, <1>10, <4>1
      <4> QED BY <4>1, <4>2
    <3> QED BY <3>1, <3>2
  <2>2. PICK g \in ToSet(hits') : g.path = h.path /\ g.score >= h.score
    BY <1>4
  <2>3. g.score \in Int /\ h.score \in Int /\ best'[p] \in Int
    <3>1. best'[p] \in Int
      BY <1>a
    <3>2. g \in Finds /\ h \in Finds
      BY <1>7
    <3> QED BY <1>10, <3>1, <3>2
  <2> QED BY <2>1, <2>2, <2>3
<1>13. queries' \in 0..MaxQueries
  BY <1>0, <1>3
<1>14. Rated'
  BY <1>11, <1>12 DEF Rated
<1> QED BY <1>4, <1>5, <1>6, <1>9, <1>13, <1>14 DEF Found
LEMMA RankStep ==
  ASSUME Given, Found, NEW listed \in SUBSET (repo \cap Indexed),
         NEW order \in SetToSeqs(EntryPoints(listed)), Rank(listed, order)
  PROVE  Found' /\ BestFirst'
<1>0. /\ MaxQueries \in Nat /\ PerQuery \in Nat /\ MaxInject \in Nat /\ TopScore \in Nat
      /\ Boost \in Nat /\ TopK \in Nat /\ queries \in 0..MaxQueries
  BY SettingsAssumption DEF Found
<1>1. /\ hits \in Seq(Finds) /\ Len(hits) <= queries * PerQuery /\ Rated
      /\ best \in [Indexed -> -1..TopScore]
      /\ pc' = "assign" /\ queries' = queries /\ best' = best /\ scope' = scope
  BY DEF Found, Rank, given
<1>2. order \in Seq(Indexed)
  <2>1. EntryPoints(listed) \subseteq Indexed /\ EntryPoints(listed) \in SUBSET Paths
    BY PathsAssumption DEF EntryPoints
  <2>2. Cardinality(EntryPoints(listed)) \in Nat
    BY <2>1, PathsAssumption, FS_Subset, FS_CardinalityType
  <2>3. order \in [1..Cardinality(EntryPoints(listed)) -> Indexed]
    BY <2>1 DEF SetToSeqs
  <2> QED BY <2>2, <2>3, ListFacts
<1> DEFINE S == {i \in DOMAIN hits : Allowed(hits[i].path)}
           kept == At(hits, S)
           entries == Take(order, MaxInject)
           all == Boosted(Injected(entries, kept))
           sorted == ByScore(all)
           boost(p) == IF p \in Entry THEN Boost ELSE 0
<1>3. S \in SUBSET DOMAIN hits /\ ToSet(hits) = {hits[i] : i \in DOMAIN hits}
  BY DEF ToSet
<1>4. /\ kept \in Seq(Finds) /\ Len(kept) <= Len(hits) /\ ToSet(kept) = {hits[i] : i \in S}
  <2> HIDE DEF S
  <2> QED BY <1>1, <1>3, AtFacts
<1>5. \A h : h \in ToSet(kept) <=> h \in ToSet(hits) /\ Allowed(h.path)
  BY <1>3, <1>4
<1>6. entries \in Seq(Indexed) /\ Len(entries) <= MaxInject
  BY <1>0, <1>2, TakeFacts
<1>7. hits' = Take(sorted, TopK)
  BY DEF Rank
<1> HIDE DEF S, kept, entries
<1>8. /\ all \in Seq(Hits) /\ Len(all) <= Len(entries) + Len(kept)
      /\ \A h \in ToSet(all) : h.chunk # "none" => \E g \in ToSet(kept) :
           h.path = g.path /\ h.score = g.score + boost(g.path)
      /\ \A g \in ToSet(kept) : \E h \in ToSet(all) :
           h.path = g.path /\ h.score = g.score + boost(g.path)
  BY <1>4, <1>6, InjectedFacts
<1> HIDE DEF all
<1>9. /\ sorted \in Seq(Hits) /\ Len(sorted) <= Len(all) /\ ToSet(sorted) = ToSet(all)
      /\ \A h \in ToSet(all) : \A i \in 1..Len(sorted) :
           h.score > sorted[i].score => \E k \in 1..(i - 1) : sorted[k] = h
  BY <1>8, ByScoreFacts
<1> HIDE DEF sorted
<1>10. /\ hits' \in Seq(Hits) /\ Len(hits') <= Len(sorted)
       /\ \A i \in 1..Len(hits') : hits'[i] = sorted[i]
       /\ ToSet(hits') \subseteq ToSet(sorted)
  BY <1>0, <1>7, <1>9, TakeFacts
<1>11. /\ Len(hits') \in Nat /\ Len(sorted) \in Nat /\ Len(all) \in Nat /\ Len(entries) \in Nat
       /\ Len(kept) \in Nat /\ Len(hits) \in Nat /\ DOMAIN hits' = 1..Len(hits')
  BY <1>1, <1>4, <1>6, <1>8, <1>9, <1>10, LenProperties
<1>12. Len(hits') <= MaxQueries * PerQuery + MaxInject
  <2>1. queries * PerQuery <= MaxQueries * PerQuery
    <3>1. PICK d \in Nat : MaxQueries = queries + d
      <4>1. MaxQueries - queries \in Nat /\ MaxQueries = queries + (MaxQueries - queries)
        BY <1>0
      <4> QED BY <4>1
    <3>2. MaxQueries * PerQuery = queries * PerQuery + d * PerQuery
      BY <1>0, <3>1
    <3>3. d * PerQuery \in Nat /\ queries * PerQuery \in Nat
      BY <1>0
    <3> QED BY <3>2, <3>3
  <2>2. queries * PerQuery \in Nat /\ MaxQueries * PerQuery \in Nat
    BY <1>0
  <2>3. Len(hits') <= Len(all) /\ Len(all) <= Len(entries) + Len(kept)
    BY <1>8, <1>9, <1>10, <1>11
  <2>4. Len(entries) + Len(kept) <= MaxInject + Len(hits)
    BY <1>0, <1>4, <1>6, <1>11
  <2>5. Len(hits) <= queries * PerQuery
    BY <1>1
  <2> QED BY <1>0, <1>11, <2>1, <2>2, <2>3, <2>4, <2>5
<1>13. Found'
  BY <1>0, <1>1, <1>10, <1>12 DEF Found
<1>14. ToSet(hits) \subseteq Finds
  BY <1>1, SetFacts
<1>15. ASSUME NEW i \in DOMAIN hits', NEW p \in Indexed, best[p] >= 0, Allowed(p),
              hits'[i].chunk # "none", Rating(p) > Rating(hits'[i].path)
       PROVE  \E k \in 1..(i - 1) : hits'[k].path = p
  <2>1. i \in 1..Len(hits') /\ hits'[i] = sorted[i] /\ i \in 1..Len(sorted) /\ hits'[i] \in ToSet(all)
    <3>1. i \in 1..Len(hits') /\ hits'[i] = sorted[i] /\ i \in 1..Len(sorted)
      BY <1>10, <1>11
    <3>2. hits'[i] \in ToSet(hits')
      BY DEF ToSet
    <3> QED BY <1>9, <1>10, <3>1, <3>2
  <2>2. PICK g \in ToSet(kept) : hits'[i].path = g.path /\ hits'[i].score = g.score + boost(g.path)
    BY <1>8, <1>15, <2>1
  <2>3. PICK f \in ToSet(hits) : f.path = p /\ f.score >= best[p]
    BY <1>1, <1>15 DEF Rated
  <2>4. PICK h \in ToSet(all) : h.path = p /\ h.score = f.score + boost(p)
    BY <1>5, <1>8, <1>15, <2>3
  <2>5. g \in ToSet(hits) /\ g.score <= best[g.path]
    BY <1>1, <1>5, <2>2 DEF Rated
  <2>6. /\ g.score \in Int /\ f.score \in Int /\ g.path \in Indexed
    BY <1>0, <1>14, <2>3, <2>5 DEF Finds
  <2>7. best[p] \in Int /\ best[g.path] \in Int /\ boost(p) \in Int /\ boost(g.path) \in Int
    BY <1>0, <1>1, <2>6
  <2>8. best[p] + boost(p) > best[g.path] + boost(g.path)
    BY <1>15, <2>2 DEF Rating
  <2> HIDE DEF boost
  <2>9. h.score > hits'[i].score
    BY <2>2, <2>3, <2>4, <2>5, <2>6, <2>7, <2>8
  <2>10. PICK k \in 1..(i - 1) : sorted[k] = h
    BY <1>9, <2>1, <2>9
  <2>11. k \in 1..Len(hits')
    BY <1>11, <2>1
  <2>12. hits'[k] = h
    BY <1>10, <2>10, <2>11
  <2> QED BY <2>4, <2>12
<1>16. BestFirst'
  <2>1. \A p : Allowed(p)' <=> Allowed(p)
    BY <1>1 DEF Allowed
  <2>2. \A p : Rating(p)' = Rating(p)
    BY <1>1 DEF Rating
  <2> QED BY <1>1, <1>15, <2>1, <2>2 DEF BestFirst
<1> QED BY <1>13, <1>16
LEMMA GivenStep == Given /\ [Next]_vars => Given'
<1> SUFFICES ASSUME Given, [Next]_vars PROVE Given'
  OBVIOUS
<1>1. given' = given
  BY DEF Next, vars, Search, Rank, AssignTargets, ReadFiles, WriteBatch, Truncated
<1>2. repo' = repo /\ scope' = scope /\ named' = named
  BY <1>1 DEF given
<1>3. pc' \in {"search", "assign", "fetch", "write", "done", "raised"}
  <2>1. pc \in {"search", "assign", "fetch", "write", "done", "raised"}
    BY DEF Given
  <2> QED BY <2>1 DEF Next, vars, Search, Rank, AssignTargets, ReadFiles, WriteBatch, Truncated
<1> QED BY <1>2, <1>3 DEF Given

\* After the ranking the hits stay as they are until the files are read, and no
\* other search begins.
LEMMA SearchIsOver ==
  ASSUME Found, [Next]_vars,
         ~(\E answer \in BoundedSeq([path : Indexed, chunk : Chunks, score : 0..TopScore], PerQuery) :
             Search(answer)),
         ~(\E listed \in SUBSET (repo \cap Indexed) :
             \E order \in SetToSeqs(EntryPoints(listed)) : Rank(listed, order))
  PROVE  /\ pc' = "search" \/ pc' = "assign" => pc' = pc /\ UNCHANGED found
         /\ queries' = queries
         /\ \/ UNCHANGED found
            \/ pc' = "write" /\ hits' = <<>> /\ best' = [p \in Indexed |-> -1]
<1>1. CASE AssignTargets
  BY <1>1 DEF AssignTargets, found
<1>2. CASE \E fetched \in SUBSET Paths : ReadFiles(fetched)
  BY <1>2 DEF ReadFiles, found
<1>3. CASE \E imported \in SetToSeqs(Dependencies(Head(queue))) :
             WriteBatch(imported) \/ Truncated(imported)
  <2>1. PICK imported \in SetToSeqs(Dependencies(Head(queue))) :
          WriteBatch(imported) \/ Truncated(imported)
    BY <1>3
  <2>2. CASE WriteBatch(imported)
    BY <2>2 DEF WriteBatch, Call, found
  <2>3. CASE Truncated(imported)
    BY <2>3 DEF Truncated, Call, found
  <2> QED BY <2>1, <2>2, <2>3
<1>4. CASE UNCHANGED vars
  BY <1>4 DEF vars, found
<1> QED BY <1>1, <1>2, <1>3, <1>4 DEF Next

LEMMA FoundStep == Given /\ Found /\ [Next]_vars => Found'
<1> SUFFICES ASSUME Given, Found, [Next]_vars PROVE Found'
  OBVIOUS
<1>1. CASE \E answer \in BoundedSeq([path : Indexed, chunk : Chunks, score : 0..TopScore], PerQuery) :
             Search(answer)
  BY <1>1, SearchStep
<1>2. CASE \E listed \in SUBSET (repo \cap Indexed) :
             \E order \in SetToSeqs(EntryPoints(listed)) : Rank(listed, order)
  BY <1>2, RankStep
<1>3. CASE /\ ~(\E answer \in BoundedSeq([path : Indexed, chunk : Chunks, score : 0..TopScore], PerQuery) :
                  Search(answer))
           /\ ~(\E listed \in SUBSET (repo \cap Indexed) :
                  \E order \in SetToSeqs(EntryPoints(listed)) : Rank(listed, order))
  <2>1. /\ pc' = "search" \/ pc' = "assign" => pc' = pc /\ UNCHANGED found
        /\ queries' = queries
        /\ \/ UNCHANGED found
           \/ pc' = "write" /\ hits' = <<>> /\ best' = [p \in Indexed |-> -1]
    BY <1>3, SearchIsOver
  <2>2. CASE UNCHANGED found
    <3>1. queries' = queries /\ hits' = hits /\ best' = best
      BY <2>2 DEF found
    <3>2. Rated' <=> Rated
      BY <3>1 DEF Rated
    <3> QED BY <2>1, <3>1, <3>2 DEF Found
  <2>3. CASE pc' = "write" /\ hits' = <<>> /\ best' = [p \in Indexed |-> -1]
    <3>1. hits' \in Seq(Hits) /\ Len(hits') = 0
      BY <2>3, EmptySeq
    <3>2. best' \in [Indexed -> -1..TopScore]
      BY <2>3, SettingsAssumption
    <3>3. 0 <= MaxQueries * PerQuery + MaxInject
      BY SettingsAssumption
    <3> QED BY <2>1, <2>3, <3>1, <3>2, <3>3 DEF Found
  <2> QED BY <2>1, <2>2, <2>3
<1> QED BY <1>1, <1>2, <1>3

LEMMA BestFirstStep == Given /\ Found /\ BestFirst /\ [Next]_vars => BestFirst'
<1> SUFFICES ASSUME Given, Found, BestFirst, [Next]_vars PROVE BestFirst'
  OBVIOUS
<1>1. CASE \E answer \in BoundedSeq([path : Indexed, chunk : Chunks, score : 0..TopScore], PerQuery) :
             Search(answer)
  BY <1>1 DEF Search, BestFirst
<1>2. CASE \E listed \in SUBSET (repo \cap Indexed) :
             \E order \in SetToSeqs(EntryPoints(listed)) : Rank(listed, order)
  BY <1>2, RankStep
<1>3. CASE /\ ~(\E answer \in BoundedSeq([path : Indexed, chunk : Chunks, score : 0..TopScore], PerQuery) :
                  Search(answer))
           /\ ~(\E listed \in SUBSET (repo \cap Indexed) :
                  \E order \in SetToSeqs(EntryPoints(listed)) : Rank(listed, order))
  <2>1. pc' = "assign" => pc = "assign" /\ UNCHANGED found
    BY <1>3, SearchIsOver
  <2>2. given' = given
    BY DEF Next, vars, Search, Rank, AssignTargets, ReadFiles, WriteBatch, Truncated
  <2>3. CASE pc' = "assign"
    <3>1. pc = "assign" /\ hits' = hits /\ best' = best /\ scope' = scope
      BY <2>1, <2>2, <2>3 DEF found, given
    <3>2. \A p : Allowed(p)' <=> Allowed(p)
      BY <3>1 DEF Allowed
    <3>3. \A p : Rating(p)' = Rating(p)
      BY <3>1 DEF Rating
    <3> QED BY <3>1, <3>2, <3>3 DEF BestFirst
  <2>4. CASE pc' # "assign"
    BY <2>4 DEF BestFirst
  <2> QED BY <2>3, <2>4
<1> QED BY <1>1, <1>2, <1>3

\* A path that was found with a better similarity is not cut off or ranked behind
\* one found with a worse, whatever the order of the queries and their answers.
THEOREM BestComeFirst == Spec => []BestFirst
<1>1. Init => BestFirst
  BY DEF Init, BestFirst
<1>2. Given /\ Found /\ BestFirst /\ [Next]_vars => Given' /\ Found' /\ BestFirst'
  BY GivenStep, FoundStep, BestFirstStep
<1> QED BY <1>1, <1>2, FoundInit, PTL DEF Spec

-----------------------------------------------------------------------------
(* The files to modify and to fetch.                                       *)

Chosen ==
  /\ targets \in Seq(Paths) /\ Len(targets) <= MaxTargets
  /\ fetch \in Seq(Paths) /\ Len(fetch) <= MaxTargets + VectorTop
  /\ ToSet(targets) \subseteq ToSet(fetch)
  /\ pc \in {"search", "assign"} => targets = <<>> /\ fetch = <<>>

LEMMA ChosenInit == Init => Chosen
<1> SUFFICES ASSUME Init PROVE Chosen
  OBVIOUS
<1>1. targets = <<>> /\ fetch = <<>>
  BY DEF Init
<1>2. targets \in Seq(Paths) /\ fetch \in Seq(Paths) /\ Len(targets) = 0 /\ Len(fetch) = 0
  BY <1>1, EmptySeq
<1>3. ToSet(targets) = {} /\ ToSet(fetch) = {}
  BY <1>1, <1>2, SetFacts
<1>4. 0 <= MaxTargets /\ 0 <= MaxTargets + VectorTop
  BY SettingsAssumption
<1> QED BY <1>1, <1>2, <1>3, <1>4 DEF Chosen

\* The other steps leave the choice alone.
LEMMA ChoiceStays ==
  ASSUME [Next]_vars, ~(AssignTargets /\ pc' = "fetch")
  PROVE  /\ targets' = targets /\ fetch' = fetch /\ scope' = scope /\ named' = named
         /\ pc' \in {"search", "assign"} => pc \in {"search", "assign"}
<1>1. chosen' = chosen /\ given' = given
  BY DEF Next, vars, Search, Rank, AssignTargets, ReadFiles, WriteBatch, Truncated
<1>2. pc' \in {"search", "assign"} => pc \in {"search", "assign"}
  BY DEF Next, vars, Search, Rank, AssignTargets, ReadFiles, WriteBatch, Truncated, Call
<1> QED BY <1>1, <1>2 DEF chosen, given

LEMMA ChosenStep == Given /\ Found /\ Chosen /\ [Next]_vars => Chosen'
<1> SUFFICES ASSUME Given, Found, Chosen, [Next]_vars PROVE Chosen'
  OBVIOUS
<1>1. CASE AssignTargets /\ pc' = "fetch"
  <2>1. targets' = TargetPaths /\ fetch' = Unique(Kept(TargetPaths \o VectorPaths))
    BY <1>1 DEF AssignTargets
  <2>2. named \in Seq(Paths) /\ hits \in Seq(Hits)
    BY DEF Given, Found
  <2>3. /\ targets' \in Seq(Paths) /\ Len(targets') <= MaxTargets
        /\ fetch' \in Seq(Paths) /\ Len(fetch') <= MaxTargets + VectorTop
        /\ ToSet(targets') \subseteq ToSet(fetch')
    BY <2>1, <2>2, TargetFacts
  <2> QED BY <1>1, <2>3 DEF Chosen
<1>2. CASE ~(AssignTargets /\ pc' = "fetch")
  <2>1. /\ targets' = targets /\ fetch' = fetch
        /\ pc' \in {"search", "assign"} => pc \in {"search", "assign"}
    BY <1>2, ChoiceStays
  <2> QED BY <2>1 DEF Chosen
<1> QED BY <1>1, <1>2

LEMMA ChosenInvariant == Spec => [](Given /\ Found /\ Chosen)
<1>1. Given /\ Found /\ Chosen /\ [Next]_vars => Given' /\ Found' /\ Chosen'
  BY GivenStep, FoundStep, ChosenStep
<1> QED BY <1>1, FoundInit, ChosenInit, PTL DEF Spec

-----------------------------------------------------------------------------
(* The order of the targets.                                               *)

\* What a hit brought is a target only if every path of the plan in scope is one.
LEMMA TargetOrder ==
  ASSUME named \in Seq(Paths), hits \in Seq(Hits),
         NEW i \in 1..Len(TargetPaths), TargetPaths[i] \notin ToSet(Collected),
         NEW p \in ToSet(Collected), Allowed(p)
  PROVE  p \in ToSet(TargetPaths)
<1> DEFINE both == PlannerPaths \o VectorPaths
           S == {j \in DOMAIN both : Allowed(both[j])}
           kept == At(both, S)
           F == {j \in DOMAIN kept : \A k \in 1..(j - 1) : kept[k] # kept[j]}
           once == At(kept, F)
           m == Len(PlannerPaths)
<1>1. /\ PlannerPaths \in Seq(Paths) /\ VectorPaths \in Seq(Paths)
      /\ ToSet(PlannerPaths) \subseteq ToSet(Collected) /\ p \in ToSet(PlannerPaths)
      /\ MaxTargets \in Nat
  BY CollectedFacts, VectorFacts, SettingsAssumption
<1>2. /\ both \in Seq(Paths) /\ m \in Nat
      /\ \A j \in 1..m : j \in DOMAIN both /\ both[j] = PlannerPaths[j]
  <2>1. /\ both \in Seq(Paths) /\ Len(both) = m + Len(VectorPaths)
        /\ \A j \in 1..(m + Len(VectorPaths)) :
             both[j] = IF j <= m THEN PlannerPaths[j] ELSE VectorPaths[j - m]
    BY <1>1, ConcatProperties
  <2>2. m \in Nat /\ Len(VectorPaths) \in Nat
    BY <1>1, LenProperties
  <2>3. DOMAIN both = 1..(m + Len(VectorPaths))
    BY <2>1, LenProperties
  <2> QED BY <2>1, <2>2, <2>3
<1>3. PICK a \in 1..m : PlannerPaths[a] = p
  <2>1. ToSet(PlannerPaths) = {PlannerPaths[j] : j \in 1..m}
    BY <1>1, SetFacts
  <2> QED BY <1>1, <2>1
<1>4. a \in S /\ both[a] = p
  BY <1>2, <1>3
<1> HIDE DEF both
<1>5. S \in SUBSET DOMAIN both /\ S \subseteq Nat
  BY <1>2, LenProperties
<1> HIDE DEF S
<1>6. kept \in Seq(Paths) /\ \E pos : Among(both, S, pos)
  BY <1>2, <1>5, AtFacts
<1>7. PICK pos : Among(both, S, pos)
  BY <1>6
<1>8. /\ pos \in [1..Cardinality(S) -> S] /\ Len(kept) = Cardinality(S)
      /\ \A k \in 1..Cardinality(S) : kept[k] = both[pos[k]]
      /\ \A k, l \in 1..Cardinality(S) : k < l <=> pos[k] < pos[l]
      /\ \A j \in S : \E k \in 1..Cardinality(S) : pos[k] = j
  BY <1>7 DEF Among
<1> HIDE DEF kept
<1>9. /\ Len(kept) \in Nat /\ DOMAIN kept = 1..Len(kept)
      /\ pos \in [1..Len(kept) -> S]
      /\ \A k \in 1..Len(kept) : kept[k] = both[pos[k]]
      /\ \A k, l \in 1..Len(kept) : k < l <=> pos[k] < pos[l]
  BY <1>6, <1>8, LenProperties
<1>10. PICK b \in 1..Len(kept) : pos[b] = a
  BY <1>4, <1>8
<1>11. PICK f \in F : kept[f] = p /\ f <= b
  <2>1. \E f \in F : kept[f] = kept[b] /\ f <= b
    BY <1>6, <1>9, FirstPlace
  <2> QED BY <1>4, <1>9, <1>10, <2>1
<1>12. F \in SUBSET DOMAIN kept
  OBVIOUS
<1> HIDE DEF F
<1>13. f \in 1..Len(kept) /\ pos[f] <= a
  <2>1. f \in 1..Len(kept)
    BY <1>9, <1>11, <1>12
  <2>2. f < b \/ f = b
    BY <1>9, <1>11, <2>1
  <2>3. pos[f] \in Nat /\ pos[b] \in Nat
    BY <1>5, <1>9, <2>1
  <2> QED BY <1>9, <1>10, <2>1, <2>2, <2>3
<1>14. once \in Seq(Paths) /\ \E spot : Among(kept, F, spot)
  BY <1>6, <1>12, AtFacts
<1>15. PICK spot : Among(kept, F, spot)
  BY <1>14
<1>16. /\ spot \in [1..Cardinality(F) -> F] /\ Len(once) = Cardinality(F)
       /\ \A k \in 1..Cardinality(F) : once[k] = kept[spot[k]]
       /\ \A k, l \in 1..Cardinality(F) : k < l <=> spot[k] < spot[l]
       /\ \A j \in F : \E k \in 1..Cardinality(F) : spot[k] = j
  BY <1>15 DEF Among
<1>17. TargetPaths = Take(once, MaxTargets)
  BY DEF TargetPaths, Kept, InScope, Unique, once, F, kept, S, both
<1> HIDE DEF once
<1>18. PICK c \in 1..Len(once) : spot[c] = f
  BY <1>11, <1>16
<1>19. /\ TargetPaths \in Seq(Paths) /\ Len(TargetPaths) <= Len(once)
       /\ \A k \in 1..Len(TargetPaths) : TargetPaths[k] = once[k]
  <2>1. LET t == Take(once, MaxTargets)
        IN  /\ t \in Seq(Paths) /\ Len(t) <= Len(once)
            /\ \A k \in 1..Len(t) : t[k] = once[k]
    BY <1>1, <1>14, TakeFacts
  <2> QED BY <1>17, <2>1
<1>20. Len(once) \in Nat /\ Len(TargetPaths) \in Nat
  BY <1>14, <1>19, LenProperties
<1>21. i \in 1..Len(once) /\ TargetPaths[i] = once[i]
  BY <1>19, <1>20
<1>22. c < i
  <2> SUFFICES ASSUME ~(c < i) PROVE FALSE
    OBVIOUS
  <2>1. spot[i] \in 1..Len(kept) /\ spot[i] <= f /\ once[i] = kept[spot[i]]
    <3>1. spot[i] \in F /\ spot[i] \in 1..Len(kept) /\ once[i] = kept[spot[i]]
      BY <1>9, <1>12, <1>16, <1>21
    <3>2. i < c \/ i = c
      BY <1>20, <1>21
    <3>3. i < c => spot[i] < f
      BY <1>16, <1>18, <1>21
    <3> QED BY <1>13, <1>18, <3>1, <3>2, <3>3
  <2>2. pos[spot[i]] <= a /\ pos[spot[i]] \in S /\ once[i] = both[pos[spot[i]]]
    <3>1. pos[spot[i]] \in S /\ once[i] = both[pos[spot[i]]]
      BY <1>9, <2>1
    <3>2. pos[spot[i]] \in Nat /\ pos[f] \in Nat /\ a \in Nat
      <4>1. pos[f] \in S
        BY <1>9, <1>13
      <4> QED BY <1>3, <1>5, <3>1, <4>1
    <3>3. spot[i] < f \/ spot[i] = f
      BY <1>9, <1>13, <2>1
    <3>4. spot[i] < f => pos[spot[i]] < pos[f]
      BY <1>9, <1>13, <2>1
    <3> QED BY <1>13, <3>1, <3>2, <3>3, <3>4
  <2>3. pos[spot[i]] \in 1..m
    <3>1. DOMAIN both = 1..Len(both) /\ Len(both) \in Nat
      BY <1>2, LenProperties
    <3>2. pos[spot[i]] \in 1..Len(both)
      BY <1>5, <2>2, <3>1
    <3>3. m \in Nat /\ pos[spot[i]] <= a /\ a \in 1..m
      BY <1>2, <1>3, <2>2
    <3> HIDE DEF m
    <3> QED BY <3>1, <3>2, <3>3
  <2>4. once[i] \in ToSet(PlannerPaths)
    <3>1. once[i] = PlannerPaths[pos[spot[i]]]
      BY <1>2, <2>2, <2>3
    <3>2. ToSet(PlannerPaths) = {PlannerPaths[j] : j \in 1..m}
      BY <1>1, SetFacts
    <3> QED BY <2>3, <3>1, <3>2
  <2> QED BY <1>1, <1>21, <2>4
<1>23. c \in 1..Len(TargetPaths)
  BY <1>20, <1>21, <1>22
<1>24. TargetPaths[c] = p
  BY <1>11, <1>16, <1>18, <1>19, <1>23
<1> QED BY <1>19, <1>23, <1>24, SetFacts

LEMMA PlannerFirstStep == Given /\ Found /\ Chosen /\ PlannerFirst /\ [Next]_vars => PlannerFirst'
<1> SUFFICES ASSUME Given, Found, Chosen, PlannerFirst, [Next]_vars PROVE PlannerFirst'
  OBVIOUS
<1>1. CASE AssignTargets /\ pc' = "fetch"
  <2>1. targets' = TargetPaths /\ scope' = scope /\ named' = named
    BY <1>1 DEF AssignTargets, given
  <2>2. named \in Seq(Paths) /\ hits \in Seq(Hits)
    BY DEF Given, Found
  <2>3. /\ Collected \in Seq(Paths) /\ TargetPaths \in Seq(Paths)
        /\ InScope(Collected) \in Seq(Paths)
        /\ ToSet(InScope(Collected)) = {p \in ToSet(Collected) : Allowed(p)}
    BY <2>2, CollectedFacts, TargetFacts, InScopeFacts
  <2>4. Collected' = Collected /\ InScope(Collected)' = InScope(Collected)
    BY <2>1 DEF Collected, InScope, Allowed, Cleaned
  <2>5. ASSUME NEW i \in DOMAIN TargetPaths, ~Contains(Collected, TargetPaths[i]),
               NEW p \in ToSet(InScope(Collected))
        PROVE  Contains(TargetPaths, p)
    <3>1. i \in 1..Len(TargetPaths)
      BY <2>3, LenProperties
    <3>2. TargetPaths[i] \notin ToSet(Collected)
      BY <2>3, <2>5, SetFacts
    <3>3. p \in ToSet(Collected) /\ Allowed(p)
      BY <2>3
    <3>4. p \in ToSet(TargetPaths)
      BY <2>2, <3>1, <3>2, <3>3, TargetOrder
    <3> QED BY <2>3, <3>4, SetFacts
  <2> QED BY <2>1, <2>4, <2>5 DEF PlannerFirst
<1>2. CASE ~(AssignTargets /\ pc' = "fetch")
  <2>1. targets' = targets /\ scope' = scope /\ named' = named
    BY <1>2, ChoiceStays
  <2>2. Collected' = Collected /\ InScope(Collected)' = InScope(Collected)
    BY <2>1 DEF Collected, InScope, Allowed, Cleaned
  <2> QED BY <2>1, <2>2 DEF PlannerFirst
<1> QED BY <1>1, <1>2

\* A hit becomes a file to modify only when every path of the plan that the scope
\* allows is one.
THEOREM PlanComesFirst == Spec => []PlannerFirst
<1>1. Init => PlannerFirst
  BY DEF Init, PlannerFirst
<1>2. Given /\ Found /\ Chosen /\ PlannerFirst /\ [Next]_vars => PlannerFirst'
  BY PlannerFirstStep
<1> QED BY <1>1, <1>2, ChosenInvariant, PTL DEF Spec

-----------------------------------------------------------------------------
(* The files that are read.                                                *)

Reading ==
  /\ read \subseteq repo /\ missed \subseteq repo \ read
  /\ pc \in {"search", "assign", "fetch"} => missed = {}
  /\ CreatesOnlyAbsent

LEMMA ReadingStep == Chosen /\ Reading /\ [Next]_vars => Reading'
<1> SUFFICES ASSUME Chosen, Reading, [Next]_vars PROVE Reading'
  OBVIOUS
<1>1. CASE \E fetched \in SUBSET Paths : ReadFiles(fetched)
  <2>1. PICK fetched \in SUBSET Paths : ReadFiles(fetched)
    BY <1>1
  <2>2. /\ fetched \subseteq ToFetch \cap repo
        /\ read' = read \cup fetched
        /\ missed' = (ToFetch \cap repo) \ fetched
        /\ targets' = targets /\ repo' = repo /\ pc' = "write"
    BY <2>1 DEF ReadFiles, given, chosen
  <2>3. read' \subseteq repo' /\ missed' \subseteq repo' \ read'
    BY <2>2 DEF ToFetch, Reading
  <2>4. ASSUME NEW p \in ToSet(targets) \cap repo PROVE p \in read' \cup missed'
    <3>1. p \in ToSet(fetch)
      BY DEF Chosen
    <3> QED BY <2>2, <3>1 DEF ToFetch
  <2> QED BY <2>2, <2>3, <2>4 DEF Reading, CreatesOnlyAbsent
<1>2. CASE \E listed \in SUBSET (repo \cap Indexed) :
             \E order \in SetToSeqs(EntryPoints(listed)) : Rank(listed, order)
  <2>1. PICK listed \in SUBSET (repo \cap Indexed) :
          \E order \in SetToSeqs(EntryPoints(listed)) : Rank(listed, order)
    BY <1>2
  <2>2. PICK order \in SetToSeqs(EntryPoints(listed)) : Rank(listed, order)
    BY <2>1
  <2>3. /\ pc = "search" /\ pc' = "assign" /\ read' = listed /\ missed' = missed /\ repo' = repo
    BY <2>2 DEF Rank, given
  <2> QED BY <2>3 DEF Reading, CreatesOnlyAbsent
<1>3. CASE /\ ~(\E fetched \in SUBSET Paths : ReadFiles(fetched))
           /\ ~(\E listed \in SUBSET (repo \cap Indexed) :
                  \E order \in SetToSeqs(EntryPoints(listed)) : Rank(listed, order))
  <2>1. read' = read /\ missed' = missed /\ repo' = repo
    BY <1>3 DEF Next, vars, given, Search, AssignTargets, WriteBatch, Truncated
  <2>2. /\ pc' \in {"write", "done"} => pc \in {"write", "done"} /\ targets' = targets
        /\ pc' \in {"search", "assign", "fetch"} => pc \in {"search", "assign", "fetch"}
    <3>1. CASE AssignTargets
      BY <3>1 DEF AssignTargets
    <3>2. CASE ~AssignTargets
      <4>1. chosen' = chosen
        BY <1>3, <3>2 DEF Next, vars, Search, WriteBatch, Truncated
      <4>2. /\ pc' \in {"write", "done"} => pc \in {"write", "done"}
            /\ pc' \in {"search", "assign", "fetch"} => pc \in {"search", "assign", "fetch"}
        BY <1>3, <3>2 DEF Next, vars, Search, WriteBatch, Truncated, Call
      <4> QED BY <4>1, <4>2 DEF chosen
    <3> QED BY <3>1, <3>2
  <2> QED BY <2>1, <2>2 DEF Reading, CreatesOnlyAbsent
<1> QED BY <1>1, <1>2, <1>3

LEMMA ReadingInvariant == Spec => []Reading
<1>1. Init => Reading
  BY DEF Init, Reading, CreatesOnlyAbsent
<1> QED BY <1>1, ReadingStep, ChosenInvariant, PTL DEF Spec

\* A target is new to the writer only when the repository has no file at its path,
\* unless GitHub did not hand it out.
THEOREM NothingIsOverwritten == Spec => []CreatesOnlyAbsent
<1>1. Reading => CreatesOnlyAbsent
  BY DEF Reading
<1> QED BY <1>1, ReadingInvariant, PTL

-----------------------------------------------------------------------------
(* Sums: the weight of a list, and the list a list of lists makes.         *)

\* a runs through v from e on, with F.
Running(a, F, e, n, v) ==
  a[0] = e /\ \A i \in 1..n : a[i] = F[<<a[i - 1], v[i]>>]

LEMMA RunningTyped ==
  ASSUME NEW V, NEW H, NEW F \in [V \X H -> V], NEW e \in V, NEW n \in Nat,
         NEW v \in [1..n -> H], NEW a, Running(a, F, e, n, v)
  PROVE  \A i \in 0..n : a[i] \in V
<1> DEFINE T == {i \in 0..n : a[i] \notin V}
<1>1. ASSUME T # {} PROVE FALSE
  <2>1. T \in SUBSET Nat
    OBVIOUS
  <2>2. PICK i \in T : \A k \in T : i <= k
    <3> HIDE DEF T
    <3> QED BY <1>1, <2>1, LeastNatural
  <2>3. i # 0
    BY <2>2 DEF Running
  <2>4. i \in 1..n /\ i - 1 \in 0..n /\ i - 1 \notin T
    BY <2>2, <2>3
  <2>5. a[i - 1] \in V /\ v[i] \in H
    BY <2>4
  <2>6. a[i] = F[<<a[i - 1], v[i]>>]
    BY <2>4 DEF Running
  <2> QED BY <2>2, <2>5, <2>6
<1> QED BY <1>1

\* F adds values of V, and e is nothing.
Adds(F, V, e) ==
  /\ F \in [V \X V -> V] /\ e \in V
  /\ \A x, y, z \in V : F[<<F[<<x, y>>], z>>] = F[<<x, F[<<y, z>>]>>]
  /\ \A x \in V : F[<<x, e>>] = x

\* w has the values of u and then those of v.
Joins(w, V, m, u, n, v) ==
  /\ u \in [1..m -> V] /\ v \in [1..n -> V] /\ w \in [1..(m + n) -> V]
  /\ \A i \in 1..m : w[i] = u[i]
  /\ \A i \in 1..n : w[m + i] = v[i]

\* What two lists make one after the other.
LEMMA RunningConcat ==
  ASSUME NEW V, NEW F, NEW e, Adds(F, V, e),
         NEW m \in Nat, NEW n \in Nat, NEW u, NEW v, NEW w, Joins(w, V, m, u, n, v),
         NEW a, Running(a, F, e, m, u), NEW b, Running(b, F, e, n, v),
         NEW c, Running(c, F, e, m + n, w)
  PROVE  c[m + n] = F[<<a[m], b[n]>>]
<1>a. /\ F \in [V \X V -> V] /\ e \in V
      /\ \A x, y, z \in V : F[<<F[<<x, y>>], z>>] = F[<<x, F[<<y, z>>]>>]
      /\ \A x \in V : F[<<x, e>>] = x
  BY DEF Adds
<1>b. /\ u \in [1..m -> V] /\ v \in [1..n -> V] /\ w \in [1..(m + n) -> V]
      /\ \A i \in 1..m : w[i] = u[i]
      /\ \A i \in 1..n : w[m + i] = v[i]
  BY DEF Joins
<1>1. /\ \A i \in 0..m : a[i] \in V
      /\ \A i \in 0..n : b[i] \in V
  BY <1>a, <1>b, RunningTyped
<1>2. \A i \in 0..m : c[i] = a[i]
  <2> DEFINE T == {i \in 0..m : c[i] # a[i]}
  <2>1. ASSUME T # {} PROVE FALSE
    <3>1. T \in SUBSET Nat
      OBVIOUS
    <3>2. PICK i \in T : \A k \in T : i <= k
      <4> HIDE DEF T
      <4> QED BY <2>1, <3>1, LeastNatural
    <3>3. i # 0
      BY <3>2 DEF Running
    <3>4. i \in 1..m /\ i \in 1..(m + n) /\ i - 1 \in 0..m /\ i - 1 \notin T
      BY <3>2, <3>3
    <3>5. c[i - 1] = a[i - 1] /\ w[i] = u[i]
      BY <1>b, <3>4
    <3>6. c[i] = F[<<c[i - 1], w[i]>>] /\ a[i] = F[<<a[i - 1], u[i]>>]
      BY <3>4 DEF Running
    <3> QED BY <3>2, <3>5, <3>6
  <2> QED BY <2>1
<1>3. \A i \in 0..n : c[m + i] = F[<<a[m], b[i]>>]
  <2> DEFINE T == {i \in 0..n : c[m + i] # F[<<a[m], b[i]>>]}
  <2>1. ASSUME T # {} PROVE FALSE
    <3>1. T \in SUBSET Nat
      OBVIOUS
    <3>2. PICK i \in T : \A k \in T : i <= k
      <4> HIDE DEF T
      <4> QED BY <2>1, <3>1, LeastNatural
    <3>3. i # 0
      <4>1. c[m + 0] = a[m] /\ a[m] \in V /\ b[0] = e
        BY <1>1, <1>2 DEF Running
      <4>2. c[m + 0] = F[<<a[m], b[0]>>]
        BY <1>a, <4>1
      <4> QED BY <3>2, <4>2
    <3>4. /\ i \in 1..n /\ m + i \in 1..(m + n) /\ i - 1 \in 0..n /\ i - 1 \notin T
          /\ m + i - 1 = m + (i - 1)
      <4>1. i \in 0..n /\ \A k \in T : i <= k
        BY <3>2
      <4> HIDE DEF T
      <4>2. i \in 1..n /\ m + i \in 1..(m + n) /\ i - 1 \in 0..n /\ m + i - 1 = m + (i - 1)
        BY <3>3, <4>1
      <4>3. i - 1 \notin T
        BY <4>1, <4>2
      <4> QED BY <4>2, <4>3
    <3>5. c[m + (i - 1)] = F[<<a[m], b[i - 1]>>] /\ w[m + i] = v[i] /\ v[i] \in V
      BY <1>b, <3>4
    <3>6. c[m + i] = F[<<c[m + i - 1], w[m + i]>>] /\ b[i] = F[<<b[i - 1], v[i]>>]
      BY <3>4 DEF Running
    <3>7. a[m] \in V /\ b[i - 1] \in V
      BY <1>1, <3>4
    <3>8. c[m + i] = F[<<F[<<a[m], b[i - 1]>>], v[i]>>]
      BY <3>4, <3>5, <3>6
    <3>9. c[m + i] = F[<<a[m], F[<<b[i - 1], v[i]>>]>>]
      BY <1>a, <3>5, <3>7, <3>8
    <3> QED BY <3>2, <3>6, <3>9
  <2> QED BY <2>1
<1> QED BY <1>3

LEMMA RunningExists ==
  ASSUME NEW V, NEW H, NEW F \in [V \X H -> V], NEW e \in V, NEW n \in Nat,
         NEW v \in [1..n -> H]
  PROVE  \E a : Running(a, F, e, n, v)
<1>1. PICK g \in [SUBSET (1..n) -> V] : Folds(g, F, e, n, v)
  BY FoldExists
<1> DEFINE a == [i \in 0..n |-> g[1..i]]
<1>2. a[0] = e
  <2>1. 1..0 = {} /\ 0 \in 0..n
    OBVIOUS
  <2> QED BY <1>1, <2>1 DEF Folds
<1>3. ASSUME NEW i \in 1..n PROVE a[i] = F[<<a[i - 1], v[i]>>]
  <2>1. /\ 1..i \in SUBSET (1..n) /\ i \in 1..i /\ i \in 0..n /\ i - 1 \in 0..n
        /\ (1..i) \ {i} = 1..(i - 1)
    OBVIOUS
  <2>2. Max(1..i) = i
    <3>1. Max(1..i) \in 1..i /\ i <= Max(1..i)
      BY <2>1, MaxFacts
    <3> QED BY <3>1
  <2>3. g[1..i] = F[<<g[(1..i) \ {Max(1..i)}], v[Max(1..i)]>>]
    BY <1>1, <2>1 DEF Folds
  <2> QED BY <2>1, <2>2, <2>3
<1> HIDE DEF a
<1> QED BY <1>2, <1>3 DEF Running

-----------------------------------------------------------------------------
(* Weights.                                                                *)

Plus == [e \in Nat \X Nat |-> e[1] + e[2]]
Loads(list) == [i \in 1..Len(list) |-> Tokens[list[i]]]

LEMMA WeightTurns ==
  ASSUME NEW list \in Seq(Paths)
  PROVE  \E a : Running(a, Plus, 0, Len(list), Loads(list)) /\ Weight(list) = a[Len(list)]
<1> DEFINE n == Len(list)
           v == Loads(list)
           iter[s \in SUBSET (DOMAIN list)] ==
             IF s = {} THEN 0 ELSE LET x == Max(s) IN iter[s \ {x}] + Tokens[list[x]]
<1>1. /\ n \in Nat /\ DOMAIN list = 1..n /\ v \in [1..n -> Nat]
      /\ \A i \in 1..n : v[i] = Tokens[list[i]]
  <2>1. n \in Nat /\ DOMAIN list = 1..n /\ \A i \in 1..n : list[i] \in Paths
    BY LenProperties, ElementOfSeq
  <2>2. \A i \in 1..n : Tokens[list[i]] \in Nat
    BY <2>1, PathsAssumption
  <2> QED BY <2>1, <2>2 DEF Loads
<1>2. Weight(list) = iter[DOMAIN list]
  BY DEF Weight, FoldLeft, MapThenFoldSet
<1>3. Plus \in [Nat \X Nat -> Nat] /\ \A x, y \in Nat : Plus[<<x, y>>] = x + y
  BY DEF Plus
<1> HIDE DEF v
<1>4. PICK g \in [SUBSET (1..n) -> Nat] : Folds(g, Plus, 0, n, v)
  <2> HIDE DEF iter, n
  <2> QED BY <1>1, <1>3, FoldExists
<1>5. \A s \in SUBSET (1..n) :
        g[s] = IF s = {} THEN 0 ELSE g[s \ {Max(s)}] + Tokens[list[Max(s)]]
  <2> SUFFICES ASSUME NEW s \in SUBSET (1..n), s # {}
               PROVE  g[s] = g[s \ {Max(s)}] + Tokens[list[Max(s)]]
    BY <1>4 DEF Folds
  <2>1. Max(s) \in 1..n
    BY <1>1, MaxFacts
  <2>2. g[s \ {Max(s)}] \in Nat /\ v[Max(s)] \in Nat /\ v[Max(s)] = Tokens[list[Max(s)]]
    BY <1>1, <2>1
  <2>3. g[s] = Plus[<<g[s \ {Max(s)}], v[Max(s)]>>]
    BY <1>4 DEF Folds
  <2> QED BY <1>3, <2>2, <2>3
<1>6. g = [s \in SUBSET (DOMAIN list) |->
             IF s = {} THEN 0 ELSE LET x == Max(s) IN g[s \ {x}] + Tokens[list[x]]]
  BY <1>1, <1>5
<1>7. iter = [s \in SUBSET (DOMAIN list) |->
                IF s = {} THEN 0 ELSE LET x == Max(s) IN iter[s \ {x}] + Tokens[list[x]]]
  BY <1>6
<1> HIDE DEF iter
<1>8. \A s \in SUBSET (1..n) :
        iter[s] = IF s = {} THEN 0 ELSE iter[s \ {Max(s)}] + Tokens[list[Max(s)]]
  BY <1>1, <1>7
<1> DEFINE a == [i \in 0..n |-> iter[1..i]]
<1>9. a[0] = 0
  <2>1. 1..0 = {} /\ 0 \in 0..n
    BY <1>1
  <2> QED BY <1>8, <2>1
<1>10. ASSUME NEW i \in 1..n PROVE a[i] = a[i - 1] + v[i]
  <2>1. /\ 1..i \in SUBSET (1..n) /\ i \in 1..i /\ i \in 0..n /\ i - 1 \in 0..n
        /\ (1..i) \ {i} = 1..(i - 1)
    BY <1>1
  <2>2. Max(1..i) = i
    <3>1. Max(1..i) \in 1..i /\ i <= Max(1..i)
      BY <1>1, <2>1, MaxFacts
    <3> QED BY <1>1, <3>1
  <2>3. iter[1..i] = iter[1..(i - 1)] + Tokens[list[i]]
    BY <1>8, <2>1, <2>2
  <2> QED BY <1>1, <2>1, <2>3
<1>11. \A i \in 0..n : a[i] \in Nat
  <2> DEFINE T == {i \in 0..n : a[i] \notin Nat}
  <2> HIDE DEF a
  <2>1. ASSUME T # {} PROVE FALSE
    <3>0. T \in SUBSET Nat
      <4>1. \A i \in T : i \in Nat
        BY <1>1
      <4> HIDE DEF T
      <4> QED BY <4>1
    <3>1. PICK i \in T : \A k \in T : i <= k
      <4> HIDE DEF T
      <4> QED BY <2>1, <3>0, LeastNatural
    <3>2. i # 0
      BY <1>9, <3>1
    <3>3. i \in 1..n /\ i - 1 \in 0..n /\ i - 1 \notin T
      BY <1>1, <3>1, <3>2
    <3>4. a[i - 1] \in Nat /\ v[i] \in Nat
      BY <1>1, <3>3
    <3> QED BY <1>10, <3>1, <3>3, <3>4
  <2> QED BY <2>1
<1>12. Weight(list) = a[n]
  BY <1>1, <1>2
<1>13. Running(a, Plus, 0, n, v)
  <2> SUFFICES ASSUME NEW i \in 1..n PROVE a[i] = Plus[<<a[i - 1], v[i]>>]
    BY <1>9 DEF Running
  <2>1. i - 1 \in 0..n
    BY <1>1
  <2> HIDE DEF a
  <2>2. a[i - 1] \in Nat /\ v[i] \in Nat
    BY <1>1, <1>11, <2>1
  <2> QED BY <1>3, <1>10, <2>2
<1> HIDE DEF a
<1> QED BY <1>12, <1>13 DEF v

LEMMA WeightFacts ==
  ASSUME NEW s \in Seq(Paths), NEW t \in Seq(Paths)
  PROVE  /\ Weight(s) \in Nat
         /\ Weight(s \o t) = Weight(s) + Weight(t)
<1> DEFINE m == Len(s)
           n == Len(t)
           u == Loads(s)
           v == Loads(t)
           w == Loads(s \o t)
<1>1. /\ s \o t \in Seq(Paths) /\ Len(s \o t) = m + n /\ m \in Nat /\ n \in Nat
      /\ \A i \in 1..(m + n) : (s \o t)[i] = IF i <= m THEN s[i] ELSE t[i - m]
  BY ConcatProperties, LenProperties
<1>2. /\ u \in [1..m -> Nat] /\ v \in [1..n -> Nat] /\ w \in [1..(m + n) -> Nat]
  <2>1. ASSUME NEW l \in Seq(Paths) PROVE Loads(l) \in [1..Len(l) -> Nat]
    <3>1. \A i \in 1..Len(l) : l[i] \in Paths
      BY ElementOfSeq
    <3>2. \A i \in 1..Len(l) : Tokens[l[i]] \in Nat
      BY <3>1, PathsAssumption
    <3> QED BY <3>2 DEF Loads
  <2> QED BY <1>1, <2>1
<1>3. \A i \in 1..m : w[i] = u[i]
  BY <1>1 DEF Loads
<1>4. \A i \in 1..n : w[m + i] = v[i]
  <2> SUFFICES ASSUME NEW i \in 1..n PROVE w[m + i] = v[i]
    OBVIOUS
  <2>1. m + i \in 1..(m + n) /\ ~(m + i <= m) /\ m + i - m = i
    BY <1>1
  <2>2. (s \o t)[m + i] = t[i]
    BY <1>1, <2>1
  <2> QED BY <1>1, <2>1, <2>2 DEF Loads
<1>5. PICK a : Running(a, Plus, 0, m, u) /\ Weight(s) = a[m]
  BY WeightTurns
<1>6. PICK b : Running(b, Plus, 0, n, v) /\ Weight(t) = b[n]
  BY WeightTurns
<1>7. PICK c : Running(c, Plus, 0, m + n, w) /\ Weight(s \o t) = c[m + n]
  BY <1>1, WeightTurns
<1>8. /\ Plus \in [Nat \X Nat -> Nat] /\ \A x, y \in Nat : Plus[<<x, y>>] = x + y
      /\ 0 \in Nat
  BY DEF Plus
<1>9. Adds(Plus, Nat, 0)
  <2>1. ASSUME NEW x \in Nat, NEW y \in Nat, NEW z \in Nat
        PROVE  Plus[<<Plus[<<x, y>>], z>>] = Plus[<<x, Plus[<<y, z>>]>>]
    <3>1. x + y \in Nat /\ y + z \in Nat /\ (x + y) + z = x + (y + z)
      OBVIOUS
    <3>2. Plus[<<x, y>>] = x + y /\ Plus[<<y, z>>] = y + z
      BY <1>8
    <3>3. Plus[<<x + y, z>>] = (x + y) + z /\ Plus[<<x, y + z>>] = x + (y + z)
      BY <1>8, <3>1
    <3> QED BY <3>1, <3>2, <3>3
  <2>2. ASSUME NEW x \in Nat PROVE Plus[<<x, 0>>] = x
    BY <1>8
  <2> QED BY <1>8, <2>1, <2>2 DEF Adds
<1> HIDE DEF m, n, u, v, w
<1>b. Joins(w, Nat, m, u, n, v)
  BY <1>2, <1>3, <1>4 DEF Joins
<1>10. c[m + n] = Plus[<<a[m], b[n]>>]
  BY <1>1, <1>5, <1>6, <1>7, <1>9, <1>b, RunningConcat
<1>11. a[m] \in Nat /\ b[n] \in Nat
  <2>1. (\A i \in 0..m : a[i] \in Nat) /\ (\A i \in 0..n : b[i] \in Nat)
    BY <1>1, <1>2, <1>5, <1>6, <1>8, RunningTyped
  <2> QED BY <1>1, <2>1
<1> QED BY <1>5, <1>6, <1>7, <1>8, <1>10, <1>11

-----------------------------------------------------------------------------
(* The batches.                                                            *)

Concat == [e \in Seq(Paths) \X Seq(Paths) |-> e[1] \o e[2]]

LEMMA ConcatAdds ==
  /\ Adds(Concat, Seq(Paths), <<>>)
  /\ Concat \in [Seq(Paths) \X Seq(Paths) -> Seq(Paths)] /\ <<>> \in Seq(Paths)
  /\ \A s, t \in Seq(Paths) : Concat[<<s, t>>] = s \o t /\ s \o t \in Seq(Paths)
  /\ \A s \in Seq(Paths) : <<>> \o s = s /\ s \o <<>> = s
<1>1. \A s, t \in Seq(Paths) : s \o t \in Seq(Paths)
  BY ConcatProperties
<1>2. Concat \in [Seq(Paths) \X Seq(Paths) -> Seq(Paths)] /\ <<>> \in Seq(Paths)
  BY <1>1, EmptySeq DEF Concat
<1>3. \A s, t \in Seq(Paths) : Concat[<<s, t>>] = s \o t
  BY DEF Concat
<1>4. \A s \in Seq(Paths) : <<>> \o s = s /\ s \o <<>> = s
  BY ConcatEmptySeq
<1>5. ASSUME NEW x \in Seq(Paths), NEW y \in Seq(Paths), NEW z \in Seq(Paths)
      PROVE  Concat[<<Concat[<<x, y>>], z>>] = Concat[<<x, Concat[<<y, z>>]>>]
  <2>1. (x \o y) \o z = x \o (y \o z)
    BY ConcatAssociative
  <2>2. x \o y \in Seq(Paths) /\ y \o z \in Seq(Paths)
    BY <1>1
  <2>3. Concat[<<x, y>>] = x \o y /\ Concat[<<y, z>>] = y \o z
    BY <1>3
  <2>4. Concat[<<x \o y, z>>] = (x \o y) \o z /\ Concat[<<x, y \o z>>] = x \o (y \o z)
    BY <1>3, <2>2
  <2> QED BY <2>1, <2>3, <2>4
<1>6. ASSUME NEW x \in Seq(Paths) PROVE Concat[<<x, <<>>>>] = x
  BY <1>2, <1>3, <1>4
<1> QED BY <1>1, <1>2, <1>3, <1>4, <1>5, <1>6 DEF Adds

LEMMA FlattenTurns ==
  ASSUME NEW lists \in Seq(Seq(Paths))
  PROVE  \E a : Running(a, Concat, <<>>, Len(lists), lists) /\ FlattenSeq(lists) = a[Len(lists)]
<1> DEFINE n == Len(lists)
<1>1. n \in Nat /\ lists \in [1..n -> Seq(Paths)] /\ \A i \in 1..n : lists[i] \in Seq(Paths)
  BY LenProperties, ElementOfSeq
<1>2. PICK a : Running(a, Concat, <<>>, n, lists)
  <2> HIDE DEF n
  <2> QED BY <1>1, ConcatAdds, RunningExists
<1>3. a[0] = <<>> /\ \A i \in 1..n : a[i] = Concat[<<a[i - 1], lists[i]>>]
  BY <1>2 DEF Running
<1>4. \A i \in 0..n : a[i] \in Seq(Paths)
  <2> HIDE DEF n
  <2> QED BY <1>1, <1>2, ConcatAdds, RunningTyped
<1>5. CASE n = 0
  <2>1. lists = <<>>
    BY <1>5, EmptySeq
  <2>2. FlattenSeq(lists) = lists
    BY <1>5 DEF FlattenSeq
  <2> QED BY <1>2, <1>3, <1>5, <2>1, <2>2
<1>6. CASE n # 0
  <2> DEFINE flatten[i \in 1..Len(lists)] ==
               IF i = 1 THEN lists[i] ELSE flatten[i - 1] \o lists[i]
             r == [i \in 1..n |-> a[i]]
  <2>1. FlattenSeq(lists) = flatten[n]
    BY <1>6 DEF FlattenSeq
  <2>2. ASSUME NEW i \in 1..n PROVE r[i] = IF i = 1 THEN lists[i] ELSE r[i - 1] \o lists[i]
    <3>1. i - 1 \in 0..n /\ (i # 1 => i - 1 \in 1..n)
      BY <1>1
    <3>2. a[i - 1] \in Seq(Paths) /\ lists[i] \in Seq(Paths)
      BY <1>1, <1>4, <3>1
    <3>3. a[i] = a[i - 1] \o lists[i]
      BY <1>3, <3>2, ConcatAdds
    <3>4. i = 1 => a[i] = lists[i]
      <4>1. i = 1 => a[i - 1] = <<>>
        BY <1>3
      <4>2. <<>> \o lists[i] = lists[i]
        BY <3>2, ConcatAdds
      <4> QED BY <3>3, <4>1, <4>2
    <3> QED BY <3>1, <3>3, <3>4
  <2>3. r = [i \in 1..Len(lists) |-> IF i = 1 THEN lists[i] ELSE r[i - 1] \o lists[i]]
    BY <2>2
  <2> HIDE DEF r
  <2>4. flatten = [i \in 1..Len(lists) |-> IF i = 1 THEN lists[i] ELSE flatten[i - 1] \o lists[i]]
    BY <2>3
  <2> HIDE DEF flatten
  <2>5. \A i \in 1..n : flatten[i] = IF i = 1 THEN lists[i] ELSE flatten[i - 1] \o lists[i]
    BY <2>4
  <2> DEFINE T == {i \in 1..n : flatten[i] # r[i]}
  <2>6. ASSUME T # {} PROVE FALSE
    <3>0. T \in SUBSET Nat
      <4>1. \A i \in T : i \in Nat
        BY <1>1
      <4> HIDE DEF T
      <4> QED BY <4>1
    <3>1. PICK i \in T : \A k \in T : i <= k
      <4> HIDE DEF T
      <4> QED BY <2>6, <3>0, LeastNatural
    <3>2. i # 1
      BY <2>2, <2>5, <3>1
    <3>3. i \in 1..n /\ i - 1 \in 1..n /\ i - 1 \notin T
      <4>1. i \in 1..n /\ \A k \in T : i <= k
        BY <3>1
      <4> HIDE DEF T
      <4>2. i - 1 \in 1..n
        BY <1>1, <3>2, <4>1
      <4>3. i - 1 \notin T
        BY <1>1, <4>1, <4>2
      <4> QED BY <4>1, <4>2, <4>3
    <3>4. flatten[i - 1] = r[i - 1]
      BY <3>3
    <3> QED BY <2>2, <2>5, <3>1, <3>2, <3>3, <3>4
  <2>7. n \in 1..n
    BY <1>1, <1>6
  <2>8. flatten[n] = a[n]
    BY <2>6, <2>7 DEF r
  <2> QED BY <1>2, <2>1, <2>8
<1> QED BY <1>5, <1>6

LEMMA FlattenFacts ==
  /\ \A x \in Seq(Paths) : FlattenSeq(<<x>>) = x /\ <<x>> \in Seq(Seq(Paths))
  /\ FlattenSeq(<<>>) = <<>>
  /\ \A s, t \in Seq(Seq(Paths)) :
       /\ FlattenSeq(s) \in Seq(Paths)
       /\ FlattenSeq(s \o t) = FlattenSeq(s) \o FlattenSeq(t)
<1>1. ASSUME NEW x \in Seq(Paths) PROVE FlattenSeq(<<x>>) = x /\ <<x>> \in Seq(Seq(Paths))
  <2>1. <<x>> \in Seq(Seq(Paths)) /\ Len(<<x>>) = 1 /\ <<x>>[1] = x
    OBVIOUS
  <2>2. PICK a : Running(a, Concat, <<>>, 1, <<x>>) /\ FlattenSeq(<<x>>) = a[1]
    BY <2>1, FlattenTurns
  <2>3. a[0] = <<>> /\ a[1] = Concat[<<a[1 - 1], <<x>>[1]>>]
    BY <2>2 DEF Running
  <2>4. a[1] = Concat[<<<<>>, x>>]
    BY <2>1, <2>3
  <2>5. a[1] = <<>> \o x
    BY <2>4, ConcatAdds
  <2> QED BY <2>1, <2>2, <2>5, ConcatAdds
<1>2. FlattenSeq(<<>>) = <<>>
  BY DEF FlattenSeq
<1>3. ASSUME NEW s \in Seq(Seq(Paths)), NEW t \in Seq(Seq(Paths))
      PROVE  /\ FlattenSeq(s) \in Seq(Paths)
             /\ FlattenSeq(s \o t) = FlattenSeq(s) \o FlattenSeq(t)
  <2> DEFINE m == Len(s)
             n == Len(t)
             w == s \o t
             V == Seq(Paths)
  <2>1. /\ w \in Seq(V) /\ Len(w) = m + n /\ m \in Nat /\ n \in Nat
        /\ \A i \in 1..(m + n) : w[i] = IF i <= m THEN s[i] ELSE t[i - m]
        /\ s \in [1..m -> V] /\ t \in [1..n -> V] /\ w \in [1..Len(w) -> V]
    <3>1. /\ w \in Seq(V) /\ Len(w) = m + n
          /\ \A i \in 1..(m + n) : w[i] = IF i <= m THEN s[i] ELSE t[i - m]
      BY ConcatProperties
    <3>2. /\ m \in Nat /\ n \in Nat
          /\ s \in [1..m -> V] /\ t \in [1..n -> V] /\ w \in [1..Len(w) -> V]
      BY <3>1, LenProperties
    <3> QED BY <3>1, <3>2
  <2>2. PICK a : Running(a, Concat, <<>>, m, s) /\ FlattenSeq(s) = a[m]
    BY FlattenTurns
  <2>3. PICK b : Running(b, Concat, <<>>, n, t) /\ FlattenSeq(t) = b[n]
    BY FlattenTurns
  <2>4. PICK c : Running(c, Concat, <<>>, m + n, w) /\ FlattenSeq(w) = c[m + n]
    BY <2>1, FlattenTurns
  <2> HIDE DEF m, n, w
  <2>5. Joins(w, V, m, s, n, t)
    <3>1. \A i \in 1..m : w[i] = s[i]
      BY <2>1
    <3>2. ASSUME NEW i \in 1..n PROVE w[m + i] = t[i]
      <4>1. m + i \in 1..(m + n) /\ ~(m + i <= m) /\ m + i - m = i
        BY <2>1
      <4> QED BY <2>1, <4>1
    <3> QED BY <2>1, <3>1, <3>2 DEF Joins
  <2> HIDE DEF V
  <2>6. c[m + n] = Concat[<<a[m], b[n]>>]
    BY <2>1, <2>2, <2>3, <2>4, <2>5, ConcatAdds, RunningConcat DEF V
  <2>7. a[m] \in V /\ b[n] \in V
    <3>1. (\A i \in 0..m : a[i] \in V) /\ (\A i \in 0..n : b[i] \in V)
      BY <2>1, <2>2, <2>3, ConcatAdds, RunningTyped DEF V
    <3> QED BY <2>1, <3>1
  <2>8. Concat[<<a[m], b[n]>>] = a[m] \o b[n] /\ a[m] \in Seq(Paths)
    BY <2>7, ConcatAdds DEF V
  <2> QED BY <2>2, <2>3, <2>4, <2>6, <2>8 DEF w
<1> QED BY <1>1, <1>2, <1>3

\* cut has the positions after which a list is cut into lists.
Cuts(lists, list, cut) ==
  /\ cut \in [0..Len(lists) -> 0..Len(list)]
  /\ cut[0] = 0 /\ cut[Len(lists)] = Len(list)
  /\ \A i \in 1..Len(lists) :
       cut[i - 1] <= cut[i] /\ lists[i] = SubSeq(list, cut[i - 1] + 1, cut[i])

LEMMA CutsFacts ==
  ASSUME NEW list \in Seq(Paths), NEW lists \in Seq(Seq(Paths)), NEW cut, Cuts(lists, list, cut)
  PROVE  FlattenSeq(lists) = list
<1> DEFINE n == Len(lists)
           L == Len(list)
<1>1. n \in Nat /\ L \in Nat /\ \A i \in 1..n : lists[i] \in Seq(Paths)
  BY LenProperties, ElementOfSeq
<1>2. PICK a : Running(a, Concat, <<>>, n, lists) /\ FlattenSeq(lists) = a[n]
  BY FlattenTurns
<1>3. /\ cut \in [0..n -> 0..L] /\ cut[0] = 0 /\ cut[n] = L
      /\ \A i \in 1..n : cut[i - 1] <= cut[i] /\ lists[i] = SubSeq(list, cut[i - 1] + 1, cut[i])
  BY DEF Cuts
<1>4. a[0] = <<>> /\ \A i \in 1..n : a[i] = Concat[<<a[i - 1], lists[i]>>]
  BY <1>2 DEF Running
<1>5. \A k \in 0..L : SubSeq(list, 1, k) \in Seq(Paths)
  <2>1. \A i \in 1..L : list[i] \in Paths
    BY ElementOfSeq
  <2> QED BY <1>1, <2>1, SubSeqProperties
<1> DEFINE T == {i \in 0..n : a[i] # SubSeq(list, 1, cut[i])}
<1> HIDE DEF n, L
<1>6. ASSUME T # {} PROVE FALSE
  <2>0. T \in SUBSET Nat
    <3>1. \A i \in T : i \in Nat
      BY <1>1
    <3> HIDE DEF T
    <3> QED BY <3>1
  <2>1. PICK i \in T : \A k \in T : i <= k
    <3> HIDE DEF T
    <3> QED BY <1>6, <2>0, LeastNatural
  <2>2. i # 0
    <3>1. SubSeq(list, 1, 0) = <<>>
      BY SubSeqEmpty
    <3> QED BY <1>3, <1>4, <2>1, <3>1
  <2>3. i \in 1..n /\ i \in 0..n /\ i - 1 \in 0..n /\ i - 1 \notin T
    <3>1. i \in 0..n /\ \A k \in T : i <= k
      BY <2>1
    <3> HIDE DEF T
    <3>2. i \in 1..n /\ i - 1 \in 0..n
      BY <1>1, <2>2, <3>1
    <3>3. i - 1 \notin T
      BY <1>1, <3>1, <3>2
    <3> QED BY <3>1, <3>2, <3>3
  <2>4. a[i - 1] = SubSeq(list, 1, cut[i - 1])
    BY <2>3
  <2>5. cut[i - 1] \in 0..L /\ cut[i] \in 0..L /\ cut[i - 1] <= cut[i]
    BY <1>3, <2>3
  <2>6. SubSeq(list, 1, cut[i - 1]) \o SubSeq(list, cut[i - 1] + 1, cut[i]) = SubSeq(list, 1, cut[i])
    <3>1. 1 \in 1..(L + 1) /\ cut[i - 1] \in (1 - 1)..L /\ cut[i] \in cut[i - 1]..L
      BY <1>1, <2>5
    <3> HIDE DEF T
    <3> QED BY <3>1, ConcatAdjacentSubSeq DEF L
  <2>7. a[i] = a[i - 1] \o lists[i]
    BY <1>1, <1>4, <1>5, <2>3, <2>4, <2>5, ConcatAdds
  <2>8. a[i] = SubSeq(list, 1, cut[i])
    BY <1>3, <2>3, <2>4, <2>6, <2>7
  <2> QED BY <2>1, <2>8
<1>7. a[n] = SubSeq(list, 1, L)
  <2>1. n \in 0..n /\ n \notin T
    BY <1>1, <1>6
  <2> QED BY <1>3, <2>1
<1>8. SubSeq(list, 1, L) = list
  BY SubSeqFull DEF L
<1> QED BY <1>2, <1>7, <1>8
LEMMA BatchesFacts ==
  ASSUME NEW list \in Seq(Paths), NEW B \in Nat \ {0}
  PROVE  LET lists == [n \in 1..((Len(list) + B - 1) \div B) |->
                         Take(SubSeq(list, (n - 1) * B + 1, Len(list)), B)]
         IN  /\ lists \in Seq(Seq(Paths))
             /\ \A i \in DOMAIN lists : lists[i] # <<>> /\ Len(lists[i]) <= B
             /\ FlattenSeq(lists) = list
<1> DEFINE L == Len(list)
           K == (L + B - 1) \div B
           lists == [n \in 1..K |-> Take(SubSeq(list, (n - 1) * B + 1, L), B)]
           cut == [i \in 0..K |-> IF i * B <= L THEN i * B ELSE L]
<1>1. L \in Nat /\ \A i \in 1..L : list[i] \in Paths
  BY LenProperties, ElementOfSeq
<1>2. K \in Nat /\ K * B >= L /\ \A i \in 1..K : (i - 1) * B < L /\ (i - 1) * B \in Nat
  BY <1>1, DivFacts
<1> HIDE DEF K, L
<1>3. ASSUME NEW i \in 1..K
      PROVE  /\ lists[i] \in Seq(Paths) /\ lists[i] # <<>> /\ Len(lists[i]) <= B
             /\ cut[i - 1] <= cut[i] /\ lists[i] = SubSeq(list, cut[i - 1] + 1, cut[i])
  <2> DEFINE k == (i - 1) * B
             rest == SubSeq(list, k + 1, L)
  <2>1. k \in Nat /\ k < L /\ i * B = k + B /\ B \in Nat /\ B > 0
    <3>1. k \in Nat /\ k < L
      BY <1>2
    <3>2. i * B = (i - 1) * B + B
      BY <1>2
    <3> QED BY <3>1, <3>2
  <2>2. i - 1 \in 0..K /\ i \in 0..K
    BY <1>2
  <2>3. cut[i - 1] = k
    <3>1. cut[i - 1] = IF k <= L THEN k ELSE L
      BY <2>2
    <3> HIDE DEF k, cut
    <3> QED BY <1>1, <2>1, <3>1
  <2>4. cut[i] = IF k + B <= L THEN k + B ELSE L
    BY <2>1, <2>2
  <2>5. lists[i] = Take(rest, B)
    OBVIOUS
  <2> HIDE DEF k, cut, lists
  <2>6. rest \in Seq(Paths) /\ Len(rest) = L - k
    <3>1. \A j \in (k + 1)..L : list[j] \in Paths
      BY <1>1, <2>1
    <3>2. rest \in Seq(Paths) /\ Len(rest) = IF k + 1 <= L THEN L - (k + 1) + 1 ELSE 0
      BY <1>1, <2>1, <3>1, SubSeqProperties
    <3> QED BY <1>1, <2>1, <3>2
  <2> HIDE DEF rest
  <2>7. CASE L - k <= B
    <3>1. cut[i] = L
      BY <1>1, <2>1, <2>4, <2>7
    <3>2. lists[i] = rest
      BY <2>5, <2>6, <2>7 DEF Take
    <3>3. rest # <<>>
      <4>1. Len(rest) # 0
        BY <1>1, <2>1, <2>6
      <4> QED BY <2>6, <4>1, SetFacts
    <3>4. Len(rest) <= B
      BY <2>6, <2>7
    <3>5. cut[i - 1] <= cut[i]
      BY <1>1, <2>1, <2>3, <3>1
    <3>6. lists[i] = SubSeq(list, cut[i - 1] + 1, cut[i])
      BY <2>3, <3>1, <3>2 DEF rest
    <3> QED BY <2>6, <3>2, <3>3, <3>4, <3>5, <3>6
  <2>8. CASE L - k > B
    <3>1. cut[i] = k + B
      BY <1>1, <2>1, <2>4, <2>8
    <3>2. lists[i] = SubSeq(rest, 1, B)
      <4>1. ~(Len(rest) <= B)
        BY <1>1, <2>1, <2>6, <2>8
      <4> QED BY <2>5, <4>1 DEF Take
    <3>3. lists[i] = SubSeq(list, k + 1, k + B)
      <4> DEFINE next == k + 1
      <4>1. /\ next \in 1..Len(list) /\ L \in 1..Len(list)
            /\ 1 \in 1..(L - next + 1) /\ B \in 1..(L - next + 1)
        BY <1>1, <2>1, <2>8 DEF L
      <4>2. next + 1 - 1 = k + 1 /\ next + B - 1 = k + B
        BY <2>1
      <4>3. rest = SubSeq(list, next, L)
        BY DEF rest
      <4> HIDE DEF next
      <4>4. SubSeq(SubSeq(list, next, L), 1, B) = SubSeq(list, next + 1 - 1, next + B - 1)
        BY <4>1, SubSeqOfSubSeq
      <4> QED BY <3>2, <4>2, <4>3, <4>4
    <3>4. lists[i] \in Seq(Paths) /\ Len(lists[i]) = B
      <4>1. \A j \in 1..B : rest[j] \in Paths
        <5>1. \A j \in 1..Len(rest) : rest[j] \in Paths
          BY <2>6, ElementOfSeq
        <5>2. 1..B \subseteq 1..Len(rest)
          BY <1>1, <2>1, <2>6, <2>8
        <5> QED BY <5>1, <5>2
      <4>2. /\ SubSeq(rest, 1, B) \in Seq(Paths)
            /\ Len(SubSeq(rest, 1, B)) = IF 1 <= B THEN B - 1 + 1 ELSE 0
        <5>1. 1 \in Int /\ B \in Int
          BY <2>1
        <5> QED BY <4>1, <5>1, SubSeqProperties
      <4>3. 1 <= B /\ B - 1 + 1 = B
        BY <2>1
      <4> QED BY <3>2, <4>2, <4>3
    <3>5. lists[i] # <<>>
      BY <2>1, <3>4, SetFacts
    <3>6. cut[i - 1] <= cut[i] /\ Len(lists[i]) <= B
      BY <2>1, <2>3, <3>1, <3>4
    <3>7. lists[i] = SubSeq(list, cut[i - 1] + 1, cut[i])
      BY <2>3, <3>1, <3>3
    <3> QED BY <3>4, <3>5, <3>6, <3>7
  <2> QED BY <1>1, <2>1, <2>7, <2>8
<1>4. lists \in Seq(Seq(Paths)) /\ Len(lists) = K /\ DOMAIN lists = 1..K
  <2>1. lists \in [1..K -> Seq(Paths)]
    BY <1>3
  <2> HIDE DEF lists
  <2> QED BY <1>2, <2>1, ListFacts
<1>5. Cuts(lists, list, cut)
  <2>1. cut \in [0..K -> 0..L]
    <3>1. ASSUME NEW i \in 0..K PROVE cut[i] \in 0..L
      <4>1. i * B \in Nat
        BY <1>2
      <4> QED BY <1>1, <4>1
    <3> QED BY <3>1
  <2>2. cut[0] = 0
    <3>1. 0 \in 0..K /\ 0 * B = 0 /\ 0 <= L
      BY <1>1, <1>2
    <3> QED BY <3>1
  <2>3. cut[K] = L
    <3>1. cut[K] = IF K * B <= L THEN K * B ELSE L
      BY <1>2
    <3>2. K * B \in Nat
      BY <1>2
    <3> HIDE DEF cut
    <3> QED BY <1>1, <1>2, <3>1, <3>2
  <2> HIDE DEF cut, lists
  <2> QED BY <1>3, <1>4, <2>1, <2>2, <2>3 DEF Cuts, L
<1> HIDE DEF cut, lists
<1>6. FlattenSeq(lists) = list
  BY <1>4, <1>5, CutsFacts
<1> QED BY <1>3, <1>4, <1>6 DEF lists, K, L

\* A batch that is split into its files.
LEMMA SinglesFacts ==
  ASSUME NEW list \in Seq(Paths)
  PROVE  LET lists == [i \in DOMAIN list |-> <<list[i]>>]
         IN  /\ lists \in Seq(Seq(Paths)) /\ Len(lists) = Len(list)
             /\ \A i \in DOMAIN lists : lists[i] # <<>> /\ Len(lists[i]) = 1
             /\ FlattenSeq(lists) = list
<1> DEFINE L == Len(list)
           lists == [i \in DOMAIN list |-> <<list[i]>>]
           cut == [i \in 0..L |-> i]
<1>1. L \in Nat /\ DOMAIN list = 1..L /\ \A i \in 1..L : list[i] \in Paths
  BY LenProperties, ElementOfSeq
<1>2. \A i \in 1..L : lists[i] = <<list[i]>> /\ <<list[i]>> \in Seq(Paths)
  BY <1>1
<1>3. lists \in Seq(Seq(Paths)) /\ Len(lists) = L /\ DOMAIN lists = 1..L
  <2>1. lists \in [1..L -> Seq(Paths)]
    BY <1>1, <1>2
  <2> HIDE DEF lists
  <2> QED BY <1>1, <2>1, ListFacts
<1>4. ASSUME NEW i \in 1..L PROVE SubSeq(list, i, i) = <<list[i]>>
  <2>1. SubSeq(list, i, i) = <<list[i]>> \o SubSeq(list, i + 1, i)
    BY <1>1, SubSeqRecursiveFirst
  <2>2. SubSeq(list, i + 1, i) = <<>>
    BY <1>1, SubSeqEmpty
  <2>3. <<list[i]>> \o <<>> = <<list[i]>>
    BY <1>2, ConcatAdds
  <2> QED BY <2>1, <2>2, <2>3
<1>5. Cuts(lists, list, cut)
  <2>1. cut \in [0..L -> 0..L] /\ cut[0] = 0 /\ cut[L] = L
    BY <1>1
  <2>2. ASSUME NEW i \in 1..L
        PROVE  cut[i - 1] <= cut[i] /\ lists[i] = SubSeq(list, cut[i - 1] + 1, cut[i])
    <3>1. cut[i - 1] = i - 1 /\ cut[i] = i /\ i - 1 <= i /\ i - 1 + 1 = i
      BY <1>1
    <3> HIDE DEF cut
    <3> QED BY <1>2, <1>4, <3>1
  <2> HIDE DEF cut, lists
  <2> QED BY <1>3, <2>1, <2>2 DEF Cuts
<1> HIDE DEF cut
<1>6. FlattenSeq(lists) = list
  <2> HIDE DEF lists
  <2> QED BY <1>3, <1>5, CutsFacts
<1>7. \A i \in DOMAIN lists : lists[i] # <<>> /\ Len(lists[i]) = 1
  BY <1>1, <1>2
<1> QED BY <1>3, <1>6, <1>7

-----------------------------------------------------------------------------
(* The calls of the writer.                                                *)

Early == {"search", "assign", "fetch"}

Batches(lists) ==
  /\ lists \in Seq(Seq(Paths))
  /\ \A i \in DOMAIN lists : lists[i] # <<>> /\ Len(lists[i]) <= BatchSize

Writing ==
  /\ Batches(queue)
  /\ sent \in Seq(Paths)
  /\ pc \in Early => queue = <<>> /\ sent = <<>> /\ prompt = NoPrompt
  /\ pc \notin Early => sent \o FlattenSeq(queue) = targets
  /\ prompt.batch \in Seq(Paths) /\ ToSet(prompt.batch) \subseteq ToSet(targets)

LEMMA QueueFacts ==
  ASSUME Writing, Chosen, queue # <<>>
  PROVE  /\ Head(queue) \in Seq(Paths) /\ Head(queue) # <<>> /\ Len(Head(queue)) <= BatchSize
         /\ Batches(Tail(queue)) /\ Batches(Split) /\ pc \notin Early
         /\ FlattenSeq(queue) = Head(queue) \o FlattenSeq(Tail(queue))
         /\ FlattenSeq(Split) = FlattenSeq(queue)
         /\ ToSet(Head(queue)) \subseteq ToSet(targets)
<1> DEFINE h == Head(queue)
           t == Tail(queue)
           singles == [i \in DOMAIN h |-> <<h[i]>>]
<1>1. /\ queue \in Seq(Seq(Paths)) /\ BatchSize \in Nat /\ BatchSize >= 1
      /\ \A i \in DOMAIN queue : queue[i] # <<>> /\ Len(queue[i]) <= BatchSize
      /\ pc \notin Early
      /\ sent \in Seq(Paths) /\ sent \o FlattenSeq(queue) = targets
  <2>1. BatchSize \in Nat /\ BatchSize >= 1
    BY SettingsAssumption
  <2>2. /\ queue \in Seq(Seq(Paths)) /\ sent \in Seq(Paths)
        /\ \A i \in DOMAIN queue : queue[i] # <<>> /\ Len(queue[i]) <= BatchSize
    BY DEF Writing, Batches
  <2>3. pc \notin Early /\ sent \o FlattenSeq(queue) = targets
    BY DEF Writing
  <2> QED BY <2>1, <2>2, <2>3
<1>2. /\ DOMAIN queue = 1..Len(queue) /\ Len(queue) \in Nat /\ Len(queue) # 0 /\ h = queue[1]
      /\ t \in Seq(Seq(Paths)) /\ Len(t) = Len(queue) - 1 /\ DOMAIN t = 1..Len(t)
      /\ \A i \in 1..Len(t) : t[i] = queue[i + 1]
  <2>1. DOMAIN queue = 1..Len(queue) /\ Len(queue) \in Nat /\ Len(queue) # 0
    BY <1>1, LenProperties, EmptySeq
  <2>2. /\ t \in Seq(Seq(Paths)) /\ Len(t) = Len(queue) - 1
        /\ \A i \in 1..Len(t) : t[i] = queue[i + 1]
    BY <1>1, HeadTailProperties
  <2>3. h = queue[1]
    BY <1>1
  <2>4. DOMAIN t = 1..Len(t)
    BY <2>2, LenProperties
  <2> QED BY <2>1, <2>2, <2>3, <2>4
<1>3. h \in Seq(Paths) /\ h # <<>> /\ Len(h) <= BatchSize
  <2>1. 1 \in 1..Len(queue)
    BY <1>2
  <2> QED BY <1>1, <1>2, <2>1, ElementOfSeq
<1>4. queue = <<h>> \o t
  <2>1. SubSeq(queue, 1, Len(queue)) = queue /\ Tail(queue) = SubSeq(queue, 2, Len(queue))
    BY <1>1, SubSeqFull, TailIsSubSeq
  <2>2. SubSeq(queue, 1, Len(queue)) = <<queue[1]>> \o SubSeq(queue, 1 + 1, Len(queue))
    <3>1. 1 \in 1..Len(queue) /\ Len(queue) \in 1..Len(queue)
      BY <1>2
    <3> QED BY <1>1, <3>1, SubSeqRecursiveFirst
  <2> QED BY <1>2, <2>1, <2>2
<1> HIDE DEF h, t
<1>5. FlattenSeq(queue) = h \o FlattenSeq(t) /\ FlattenSeq(t) \in Seq(Paths)
  <2>1. <<h>> \in Seq(Seq(Paths)) /\ FlattenSeq(<<h>>) = h
    BY <1>3, FlattenFacts
  <2>2. FlattenSeq(<<h>> \o t) = FlattenSeq(<<h>>) \o FlattenSeq(t) /\ FlattenSeq(t) \in Seq(Paths)
    BY <1>2, <2>1, FlattenFacts
  <2> QED BY <1>4, <2>1, <2>2
<1>6. Batches(t)
  <2>1. ASSUME NEW i \in DOMAIN t PROVE t[i] # <<>> /\ Len(t[i]) <= BatchSize
    <3>1. i + 1 \in DOMAIN queue /\ t[i] = queue[i + 1]
      BY <1>2
    <3> QED BY <1>1, <3>1
  <2> QED BY <1>2, <2>1 DEF Batches
<1>7. /\ singles \in Seq(Seq(Paths)) /\ FlattenSeq(singles) = h
      /\ \A i \in DOMAIN singles : singles[i] # <<>> /\ Len(singles[i]) = 1
  BY <1>3, SinglesFacts
<1>8. Split = singles \o t
  BY DEF Split, h, t
<1> HIDE DEF singles
<1>9. FlattenSeq(Split) = FlattenSeq(queue)
  <2>1. FlattenSeq(singles \o t) = FlattenSeq(singles) \o FlattenSeq(t)
    BY <1>2, <1>7, FlattenFacts
  <2> QED BY <1>5, <1>7, <1>8, <2>1
<1>10. Batches(Split)
  <2>1. /\ Split \in Seq(Seq(Paths)) /\ Len(Split) = Len(singles) + Len(t)
        /\ \A i \in 1..(Len(singles) + Len(t)) :
             Split[i] = IF i <= Len(singles) THEN singles[i] ELSE t[i - Len(singles)]
    BY <1>2, <1>7, <1>8, ConcatProperties
  <2>2. /\ DOMAIN Split = 1..Len(Split) /\ DOMAIN singles = 1..Len(singles)
        /\ Len(singles) \in Nat /\ Len(t) \in Nat
    BY <1>2, <1>7, <2>1, LenProperties
  <2>3. ASSUME NEW i \in DOMAIN Split PROVE Split[i] # <<>> /\ Len(Split[i]) <= BatchSize
    <3>1. CASE i <= Len(singles)
      <4>1. i \in DOMAIN singles /\ Split[i] = singles[i]
        BY <2>1, <2>2, <3>1
      <4>2. Split[i] # <<>> /\ Len(Split[i]) = 1
        BY <1>7, <4>1
      <4> QED BY <1>1, <4>2
    <3>2. CASE i > Len(singles)
      <4>0. i \in 1..(Len(singles) + Len(t)) /\ ~(i <= Len(singles))
        BY <2>1, <2>2, <3>2
      <4>1. i - Len(singles) \in DOMAIN t /\ Split[i] = t[i - Len(singles)]
        <5>1. i - Len(singles) \in 1..Len(t)
          BY <2>2, <4>0
        <5>2. Split[i] = t[i - Len(singles)]
          BY <2>1, <4>0
        <5> QED BY <1>2, <5>1, <5>2
      <4> QED BY <1>6, <4>1 DEF Batches
    <3> QED BY <2>2, <3>1, <3>2
  <2> QED BY <2>1, <2>3 DEF Batches
<1>11. ToSet(h) \subseteq ToSet(targets)
  <2>1. ToSet(FlattenSeq(queue)) = ToSet(h) \cup ToSet(FlattenSeq(t)) /\ FlattenSeq(queue) \in Seq(Paths)
    <3>1. /\ h \o FlattenSeq(t) \in Seq(Paths)
          /\ ToSet(h \o FlattenSeq(t)) = ToSet(h) \cup ToSet(FlattenSeq(t))
      BY <1>3, <1>5, ConcatFacts
    <3> QED BY <1>5, <3>1
  <2>2. ToSet(targets) = ToSet(sent) \cup ToSet(FlattenSeq(queue))
    <3> DEFINE f == FlattenSeq(queue)
    <3>1. sent \in Seq(Paths) /\ f \in Seq(Paths) /\ targets = sent \o f
      BY <1>1, <2>1
    <3> HIDE DEF f
    <3>2. ToSet(sent \o f) = ToSet(sent) \cup ToSet(f)
      BY <3>1, ConcatFacts
    <3> QED BY <3>1, <3>2 DEF f
  <2> QED BY <2>1, <2>2
<1> QED BY <1>1, <1>3, <1>5, <1>6, <1>9, <1>10, <1>11 DEF h, t

LEMMA NoBatches == Batches(<<>>) /\ FlattenSeq(<<>>) = <<>> /\ ToSet(<<>>) = {}
<1>1. <<>> \in Seq(Seq(Paths)) /\ <<>> \in Seq(Paths) /\ DOMAIN <<>> = {}
  BY EmptySeq
<1>2. ToSet(<<>>) = {}
  BY <1>1 DEF ToSet
<1> QED BY <1>1, <1>2, FlattenFacts DEF Batches

LEMMA WritingInit == Init => Writing
<1> SUFFICES ASSUME Init PROVE Writing
  OBVIOUS
<1>1. queue = <<>> /\ sent = <<>> /\ prompt = NoPrompt /\ pc = "search"
  BY DEF Init
<1>2. prompt.batch = <<>> /\ <<>> \in Seq(Paths)
  BY <1>1, EmptySeq DEF NoPrompt
<1> QED BY <1>1, <1>2, NoBatches DEF Writing, Early

LEMMA WritingStep == Chosen /\ Writing /\ [Next]_vars => Writing'
<1> SUFFICES ASSUME Chosen, Writing, [Next]_vars PROVE Writing'
  OBVIOUS
<1>1. CASE AssignTargets
  <2>1. /\ pc = "assign" /\ queue' = queue /\ sent' = sent /\ prompt' = prompt
        /\ pc' \in {"raised", "fetch"} /\ (pc' = "raised" => targets' = targets)
    BY <1>1 DEF AssignTargets, chosen
  <2>2. queue = <<>> /\ sent = <<>> /\ prompt = NoPrompt /\ targets = <<>>
    BY <2>1 DEF Writing, Chosen, Early
  <2>3. <<>> \o FlattenSeq(<<>>) = <<>>
    BY NoBatches, ConcatAdds
  <2>4. prompt.batch = <<>> /\ <<>> \in Seq(Paths)
    BY <2>2, EmptySeq DEF NoPrompt
  <2>5. pc' \notin Early => sent' \o FlattenSeq(queue') = targets'
    BY <2>1, <2>2, <2>3 DEF Early
  <2> QED BY <2>1, <2>2, <2>4, <2>5, NoBatches DEF Writing
<1>2. CASE \E fetched \in SUBSET Paths : ReadFiles(fetched)
  <2>1. PICK fetched \in SUBSET Paths : ReadFiles(fetched)
    BY <1>2
  <2>2. /\ pc = "fetch" /\ pc' = "write" /\ sent' = sent /\ prompt' = prompt /\ targets' = targets
        /\ queue' = [n \in 1..((Len(targets) + BatchSize - 1) \div BatchSize) |->
                       Take(SubSeq(targets, (n - 1) * BatchSize + 1, Len(targets)), BatchSize)]
    BY <2>1 DEF ReadFiles, chosen
  <2>3. targets \in Seq(Paths) /\ BatchSize \in Nat \ {0}
    BY SettingsAssumption DEF Chosen
  <2>4. Batches(queue') /\ FlattenSeq(queue') = targets
    BY <2>2, <2>3, BatchesFacts DEF Batches
  <2>5. sent = <<>> /\ prompt.batch \in Seq(Paths) /\ ToSet(prompt.batch) \subseteq ToSet(targets)
    BY <2>2 DEF Writing, Early
  <2>6. sent' \o FlattenSeq(queue') = targets' /\ sent' \in Seq(Paths)
    BY <2>2, <2>3, <2>4, <2>5, ConcatAdds
  <2> QED BY <2>2, <2>4, <2>5, <2>6 DEF Writing, Early
<1>3. CASE queue # <<>> /\ \E imported \in SetToSeqs(Dependencies(Head(queue))) :
             WriteBatch(imported) \/ Truncated(imported)
  <2>1. PICK imported \in SetToSeqs(Dependencies(Head(queue))) :
          WriteBatch(imported) \/ Truncated(imported)
    BY <1>3
  <2>2. /\ Head(queue) \in Seq(Paths) /\ Batches(Tail(queue)) /\ Batches(Split) /\ pc \notin Early
        /\ FlattenSeq(queue) = Head(queue) \o FlattenSeq(Tail(queue))
        /\ FlattenSeq(Split) = FlattenSeq(queue)
        /\ ToSet(Head(queue)) \subseteq ToSet(targets)
    BY <1>3, QueueFacts
  <2>3. /\ Batches(queue) /\ sent \in Seq(Paths) /\ sent \o FlattenSeq(queue) = targets
    BY <2>2 DEF Writing
  <2>4. prompt'.batch = Head(queue) /\ targets' = targets
    BY <2>1 DEF WriteBatch, Truncated, Call, chosen
  <2>5. CASE WriteBatch(imported)
    <3>1. queue' = Tail(queue) /\ sent' = sent \o Head(queue) /\ pc' \in {"done", "write"}
      BY <2>5 DEF WriteBatch
    <3>2. sent' \in Seq(Paths) /\ FlattenSeq(Tail(queue)) \in Seq(Paths)
      <4>1. sent \o Head(queue) \in Seq(Paths)
        BY <2>2, <2>3, ConcatAdds
      <4>2. Tail(queue) \in Seq(Seq(Paths))
        BY <2>2 DEF Batches
      <4>3. FlattenSeq(Tail(queue)) \in Seq(Paths)
        BY <4>2, FlattenFacts
      <4> QED BY <3>1, <4>1, <4>3
    <3>3. sent' \o FlattenSeq(queue') = targets'
      <4> DEFINE h == Head(queue)
                 f == FlattenSeq(Tail(queue))
      <4>1. sent \in Seq(Paths) /\ h \in Seq(Paths) /\ f \in Seq(Paths)
        BY <2>2, <2>3, <3>2
      <4>2. sent \o (h \o f) = targets /\ sent' \o FlattenSeq(queue') = (sent \o h) \o f
        BY <2>2, <2>3, <3>1
      <4> HIDE DEF h, f
      <4>3. (sent \o h) \o f = sent \o (h \o f)
        BY <4>1, ConcatAssociative
      <4> QED BY <2>4, <4>2, <4>3
    <3> QED BY <2>2, <2>4, <3>1, <3>2, <3>3 DEF Writing, Early
  <2>6. CASE Truncated(imported)
    <3>1. /\ sent' = sent /\ queue' \in {queue, Split} /\ (pc' = "raised" \/ pc' = pc)
      BY <2>6 DEF Truncated
    <3>2. sent' \o FlattenSeq(queue') = targets' /\ Batches(queue')
      BY <2>2, <2>3, <2>4, <3>1
    <3>3. pc' \notin Early
      BY <2>2, <3>1 DEF Early
    <3> QED BY <2>2, <2>3, <2>4, <3>1, <3>2, <3>3 DEF Writing
  <2> QED BY <2>1, <2>5, <2>6
<1>4. CASE UNCHANGED vars \/ \/ \E answer \in BoundedSeq([path : Indexed, chunk : Chunks, score : 0..TopScore], PerQuery) :
                                  Search(answer)
                             \/ \E listed \in SUBSET (repo \cap Indexed) :
                                  \E order \in SetToSeqs(EntryPoints(listed)) : Rank(listed, order)
  <2>1. queue' = queue /\ sent' = sent /\ prompt' = prompt /\ targets' = targets
    BY <1>4 DEF vars, chosen, Search, Rank
  <2>2. pc' = pc \/ (pc \in Early /\ pc' \in Early)
    BY <1>4 DEF vars, Search, Rank, Early
  <2> QED BY <2>1, <2>2 DEF Writing, Batches
<1> QED BY <1>1, <1>2, <1>3, <1>4 DEF Next

LEMMA WritingInvariant == Spec => []Writing
  BY WritingInit, WritingStep, ChosenInvariant, PTL DEF Spec

\* Every target is answered in one call, once and in the order of the plan, also
\* when answers are cut off.
THEOREM EveryTargetIsSent == Spec => []NothingLeftOut
<1>1. Writing => NothingLeftOut
  BY DEF Writing, NothingLeftOut, Early
<1> QED BY <1>1, WritingInvariant, PTL

-----------------------------------------------------------------------------
(* The context of a call.                                                 *)

\* What is added to the files of the batch stays within the budget.
LEMMA CapFacts ==
  ASSUME NEW list \in Seq(Paths), NEW batch \in Seq(Paths)
  PROVE  \E more \in Seq(Paths) :
           /\ CapContext(list, batch) = batch \o more
           /\ more = <<>> \/ Weight(batch \o more) <= MaxTokens
<1> DEFINE S == {i \in DOMAIN list : ~Contains(batch, list[i])}
           rest == Without(list, batch)
           fits == {k \in 0..Len(rest) :
                      k = 0 \/ Weight(batch) + Weight(Take(rest, k)) <= MaxTokens}
           most == CHOOSE k \in fits : \A n \in fits : n <= k
<1>1. rest \in Seq(Paths)
  <2>1. S \in SUBSET DOMAIN list /\ rest = At(list, S)
    BY DEF Without
  <2> HIDE DEF S, rest
  <2> QED BY <2>1, AtFacts
<1> HIDE DEF rest
<1>2. Len(rest) \in Nat
  BY <1>1, LenProperties
<1>3. fits \in SUBSET (0..Len(rest)) /\ 0 \in fits
  BY <1>2
<1>4. CapContext(list, batch) = batch \o Take(rest, most)
  BY DEF CapContext, rest
<1>5. most \in fits
  <2> HIDE DEF fits
  <2>1. \E k \in fits : \A n \in fits : n <= k
    BY <1>2, <1>3, GreatestNatural
  <2> QED BY <2>1
<1>6. most \in Nat /\ (most = 0 \/ Weight(batch) + Weight(Take(rest, most)) <= MaxTokens)
  <2> HIDE DEF most
  <2> QED BY <1>2, <1>5
<1> HIDE DEF most
<1>7. Take(rest, most) \in Seq(Paths) /\ Len(Take(rest, most)) <= most
  BY <1>1, <1>6, TakeFacts
<1>8. CASE most = 0
  <2>1. Len(Take(rest, most)) = 0
    BY <1>7, <1>8, LenProperties
  <2>2. Take(rest, most) = <<>>
    BY <1>7, <2>1, SetFacts
  <2> QED BY <1>4, <1>7, <2>2
<1>9. CASE most # 0
  <2>1. Weight(batch \o Take(rest, most)) = Weight(batch) + Weight(Take(rest, most))
    BY <1>7, WeightFacts
  <2> QED BY <1>4, <1>6, <1>7, <1>9, <2>1
<1> QED BY <1>8, <1>9

LEMMA PromptFacts ==
  ASSUME Given, Chosen, Reading, NEW batch \in Seq(Paths), batch # <<>>,
         NEW imported \in SetToSeqs(Dependencies(batch))
  PROVE  /\ IsPrefix(batch, BuildContext(batch, imported))
         /\ \/ BuildContext(batch, imported) = batch
            \/ Weight(BuildContext(batch, imported)) <= MaxTokens
<1>1. imported \in Seq(Paths)
  <2>1. \A T : Imported(T) \subseteq Paths
    <3>1. read \subseteq Paths
      BY DEF Given, Reading
    <3>2. \A p \in read : Imports[p] \subseteq Paths
      BY <3>1, PathsAssumption
    <3> QED BY <3>2 DEF Imported
  <2>2. Dependencies(batch) \in SUBSET Paths
    BY <2>1 DEF Dependencies
  <2>3. Cardinality(Dependencies(batch)) \in Nat
    BY <2>2, PathsAssumption, FS_Subset, FS_CardinalityType
  <2>4. imported \in [1..Cardinality(Dependencies(batch)) -> Paths]
    BY <2>2 DEF SetToSeqs
  <2> QED BY <2>3, <2>4, ListFacts
<1> DEFINE list == imported \o fetch
           S == {i \in DOMAIN list : list[i] \in read /\ Tokens[list[i]] > 0}
           all == Unique(batch \o At(list, S))
<1>2. list \in Seq(Paths)
  BY <1>1, ConcatAdds DEF Chosen
<1>3. S \in SUBSET DOMAIN list
  OBVIOUS
<1>4. BuildContext(batch, imported) = CapContext(all, batch)
  BY DEF BuildContext
<1> HIDE DEF list, S
<1>5. all \in Seq(Paths)
  <2>1. At(list, S) \in Seq(Paths)
    BY <1>2, <1>3, AtFacts
  <2>2. batch \o At(list, S) \in Seq(Paths)
    BY <2>1, ConcatAdds
  <2> QED BY <2>2, UniqueFacts
<1> HIDE DEF all
<1>6. PICK more \in Seq(Paths) :
        /\ BuildContext(batch, imported) = batch \o more
        /\ more = <<>> \/ Weight(batch \o more) <= MaxTokens
  BY <1>4, <1>5, CapFacts
<1>7. batch \o <<>> = batch
  BY ConcatAdds
<1>8. IsPrefix(batch, batch \o more)
  <2>1. Len(batch) \in Nat /\ Len(more) \in Nat /\ Len(batch) # 0
    BY LenProperties, SetFacts
  <2>2. Len(batch \o more) = Len(batch) + Len(more)
    BY ConcatProperties
  <2>3. SubSeq(batch \o more, 1, Len(batch)) = SubSeq(batch, 1, Len(batch))
    <3>1. 1 \in 1..Len(batch) /\ Len(batch) \in 1..Len(batch)
      BY <2>1
    <3> QED BY <3>1, SubSeqOfConcat1
  <2> QED BY <2>1, <2>2, <2>3 DEF IsPrefix
<1> QED BY <1>6, <1>7, <1>8

LEMMA PromptStep == Given /\ Chosen /\ Reading /\ Writing /\ PromptHolds /\ [Next]_vars => PromptHolds'
<1> SUFFICES ASSUME Given, Chosen, Reading, Writing, PromptHolds, [Next]_vars PROVE PromptHolds'
  OBVIOUS
<1>1. CASE queue # <<>> /\ \E imported \in SetToSeqs(Dependencies(Head(queue))) :
             WriteBatch(imported) \/ Truncated(imported)
  <2>1. PICK imported \in SetToSeqs(Dependencies(Head(queue))) :
          WriteBatch(imported) \/ Truncated(imported)
    BY <1>1
  <2>2. /\ prompt'.batch = Head(queue)
        /\ prompt'.shown = BuildContext(Head(queue), imported)
    BY <2>1 DEF WriteBatch, Truncated, Call
  <2>3. Head(queue) \in Seq(Paths) /\ Head(queue) # <<>>
    BY <1>1, QueueFacts
  <2> DEFINE h == Head(queue)
             shown == BuildContext(h, imported)
  <2>4. h \in Seq(Paths) /\ h # <<>> /\ imported \in SetToSeqs(Dependencies(h))
    BY <2>3
  <2> HIDE DEF h
  <2>5. IsPrefix(h, shown) /\ (shown = h \/ Weight(shown) <= MaxTokens)
    BY <2>4, PromptFacts
  <2>6. prompt'.batch = h /\ prompt'.shown = shown
    BY <2>2 DEF h
  <2> HIDE DEF shown
  <2> QED BY <2>5, <2>6 DEF PromptHolds
<1>2. CASE ~(queue # <<>> /\ \E imported \in SetToSeqs(Dependencies(Head(queue))) :
               WriteBatch(imported) \/ Truncated(imported))
  <2>1. prompt' = prompt
    BY <1>2 DEF Next, vars, Search, Rank, AssignTargets, ReadFiles
  <2> QED BY <2>1 DEF PromptHolds
<1> QED BY <1>1, <1>2

\* The files of a call are shown in full and before all others, and others only
\* while everything stays within the budget.
THEOREM PromptsFit == Spec => []PromptHolds
<1>1. Init => PromptHolds
  BY DEF Init, PromptHolds, NoPrompt, IsPrefix
<1> QED BY <1>1, PromptStep, ChosenInvariant, ReadingInvariant, WritingInvariant, PTL DEF Spec

-----------------------------------------------------------------------------

\* Every variable keeps its type and every list its bound.
THEOREM TypeCorrect == Spec => []TypeOK
<1>1. Given /\ Found /\ Chosen /\ Reading /\ Writing => TypeOK
  <2> SUFFICES ASSUME Given, Found, Chosen, Reading, Writing PROVE TypeOK
    OBVIOUS
  <2>1. ToSet(sent) \subseteq ToSet(targets)
    <3>1. CASE pc \in Early
      BY <3>1, NoBatches DEF Writing
    <3>2. CASE pc \notin Early
      <4> DEFINE f == FlattenSeq(queue)
      <4>1. sent \in Seq(Paths) /\ f \in Seq(Paths) /\ targets = sent \o f
        <5>1. queue \in Seq(Seq(Paths)) /\ sent \in Seq(Paths) /\ targets = sent \o f
          BY <3>2 DEF Writing, Batches
        <5> QED BY <5>1, FlattenFacts
      <4> HIDE DEF f
      <4> QED BY <4>1, ConcatFacts
    <3> QED BY <3>1, <3>2
  <2>2. /\ \A i \in DOMAIN queue : queue[i] # <<>> /\ Len(queue[i]) <= BatchSize
        /\ ToSet(prompt.batch) \subseteq ToSet(targets)
    BY DEF Writing, Batches
  <2> QED BY <2>1, <2>2 DEF Given, Found, Chosen, Reading, TypeOK
<1> QED BY <1>1, ChosenInvariant, ReadingInvariant, WritingInvariant, PTL
=============================================================================
