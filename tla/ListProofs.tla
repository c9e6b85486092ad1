----------------------------- MODULE ListProofs -----------------------------
(* Facts about Lists, for every set and list.                              *)
EXTENDS Lists, FiniteSetTheorems, WellFoundedInduction, TLAPS

-----------------------------------------------------------------------------
(* Sets and the sequences that list them.                                  *)

Ascending(s) == \A i, j \in DOMAIN s : i < j => s[i] < s[j]

LEMMA LeastNumber ==
  ASSUME NEW T \in SUBSET Nat, T # {}
  PROVE  \E x \in T : \A y \in T : x <= y
<1>1. PICK x \in T : \A y \in T : ~(<<y, x>> \in OpToRel(<, Nat))
  BY NatLessThanWellFounded, WFMin
<1>2. ASSUME NEW y \in T PROVE x <= y
  <2>1. x \in Nat /\ y \in Nat /\ ~(<<y, x>> \in OpToRel(<, Nat))
    BY <1>1
  <2> QED
    BY <2>1 DEF OpToRel
<1> QED
  BY <1>2

(* A list of a finite set has each of its elements at one place.           *)
LEMMA ListOf ==
  ASSUME NEW S, IsFiniteSet(S), NEW s \in SetToSeqs(S)
  PROVE  /\ Cardinality(S) \in Nat /\ s \in [1..Cardinality(S) -> S]
         /\ s \in Seq(S) /\ DOMAIN s = 1..Cardinality(S)
         /\ Len(s) = Cardinality(S)
         /\ \A i, j \in DOMAIN s : s[i] = s[j] => i = j
         /\ ToSet(s) = S
<1> DEFINE n == Cardinality(S)
<1>1. n \in Nat
  BY FS_CardinalityType
<1>2. s \in [1..n -> S] /\ \A i, j \in 1..n : i # j => s[i] # s[j]
  BY DEF SetToSeqs
<1> HIDE DEF n
<1>3. s \in Seq(S) /\ DOMAIN s = 1..n /\ Len(s) = n
  BY <1>1, <1>2
<1>4. s \in Injection(1..n, S)
  BY <1>2 DEF Injection, IsInjective
<1>5. Cardinality(1..n) = n
  <2>1. Cardinality(1..n) = IF 1 > n THEN 0 ELSE n - 1 + 1
    BY <1>1, FS_Interval
  <2> QED
    BY <1>1, <2>1
<1>6. s \in Surjection(1..n, S)
  BY <1>4, <1>5, FS_Injection DEF n
<1>7. \A x \in S : \E i \in 1..n : s[i] = x
  BY <1>6 DEF Surjection
<1>8. ToSet(s) = S
  BY <1>2, <1>3, <1>7 DEF ToSet
<1> QED
  BY <1>1, <1>2, <1>3, <1>8 DEF n

LEMMA SomeAscending ==
  ASSUME NEW S \in SUBSET Nat, IsFiniteSet(S)
  PROVE  \E s \in SetToSeqs(S) : Ascending(s)
<1> DEFINE Listed(T) == \E s \in SetToSeqs(T) : Ascending(s)
           Bad == {n \in Nat : \E T \in SUBSET Nat :
                      IsFiniteSet(T) /\ Cardinality(T) = n /\ ~Listed(T)}
<1>1. ASSUME Bad # {} PROVE FALSE
  <2>1. Bad \in SUBSET Nat
    OBVIOUS
  <2>2. PICK n \in Bad : \A k \in Bad : n <= k
    <3> HIDE DEF Bad
    <3> QED
      BY <1>1, <2>1, LeastNumber
  <2>3. PICK T \in SUBSET Nat :
           IsFiniteSet(T) /\ Cardinality(T) = n /\ ~Listed(T)
    BY <2>2
  <2>4. CASE T = {}
    <3>1. n = 0
      BY <2>3, <2>4, FS_EmptySet
    <3> DEFINE s == [i \in 1..0 |-> 0]
    <3>2. s \in SetToSeqs(T) /\ Ascending(s)
      BY <2>3, <2>4, <3>1 DEF SetToSeqs, Ascending
    <3> QED
      BY <2>3, <3>2
  <2>5. CASE T # {}
    <3>1. PICK m \in T : \A x \in T : m <= x
      BY <2>5, LeastNumber
    <3> DEFINE U == T \ {m}
    <3>2. n \in Nat /\ n # 0
      BY <2>1, <2>2, <2>3, <2>5, FS_EmptySet
    <3>3. IsFiniteSet(U) /\ Cardinality(U) = n - 1 /\ U \in SUBSET Nat
      BY <2>3, <3>1, FS_RemoveElement
    <3>4. Listed(U)
      <4>1. n - 1 \in Nat /\ ~(n <= n - 1)
        BY <3>2
      <4>2. n - 1 \notin Bad
        BY <2>2, <4>1
      <4> QED
        BY <3>3, <4>1, <4>2
    <3>5. PICK s \in SetToSeqs(U) : Ascending(s)
      BY <3>4
    <3>6. /\ s \in [1..(n - 1) -> U]
          /\ \A i, j \in 1..(n - 1) : i # j => s[i] # s[j]
          /\ \A i, j \in 1..(n - 1) : i < j => s[i] < s[j]
      BY <3>3, <3>5 DEF SetToSeqs, Ascending
    <3> DEFINE t == [i \in 1..n |-> IF i = 1 THEN m ELSE s[i - 1]]
    <3>7. \A i \in 1..n : i # 1 => i - 1 \in 1..(n - 1)
      BY <3>2
    <3>8. t \in [1..n -> T]
      BY <3>1, <3>6, <3>7
    <3>9. \A i \in 1..n : i # 1 => s[i - 1] \in U /\ m < s[i - 1]
      <4>1. \A x \in U : m < x
        <5>1. \A x \in U : m <= x /\ m # x /\ m \in Nat /\ x \in Nat
          BY <3>1, <2>3
        <5> QED
          BY <5>1
      <4> QED
        BY <3>6, <3>7, <4>1
    <3>10. ASSUME NEW i \in 1..n, NEW j \in 1..n, i < j PROVE t[i] < t[j]
      <4>1. j # 1 /\ t[j] = s[j - 1]
        BY <3>2, <3>10
      <4>2. CASE i = 1
        BY <3>9, <4>1, <4>2
      <4>3. CASE i # 1
        <5>1. t[i] = s[i - 1] /\ i - 1 < j - 1
          BY <3>10, <4>3
        <5> QED
          BY <3>6, <3>7, <4>1, <4>3, <5>1
      <4> QED
        BY <4>2, <4>3
    <3> HIDE DEF t
    <3>11. ASSUME NEW i \in 1..n, NEW j \in 1..n, i # j PROVE t[i] # t[j]
      <4>1. i < j \/ j < i
        BY <3>2, <3>11
      <4>2. t[i] \in Nat /\ t[j] \in Nat /\ (t[i] < t[j] \/ t[j] < t[i])
        BY <2>3, <3>8, <3>10, <4>1
      <4> QED
        BY <4>2
    <3>12. t \in SetToSeqs(T)
      BY <2>3, <3>8, <3>11 DEF SetToSeqs
    <3>13. Ascending(t)
      BY <3>8, <3>10 DEF Ascending
    <3> QED
      BY <2>3, <3>12, <3>13
  <2> QED
    BY <2>4, <2>5
<1>2. Cardinality(S) \in Nat
  BY FS_CardinalityType
<1>3. Cardinality(S) \notin Bad
  <2> HIDE DEF Bad
  <2> QED
    BY <1>1
<1> QED
  BY <1>2, <1>3

(* Numbers are sorted into a list of the same numbers.                     *)
LEMMA SortedLists ==
  ASSUME NEW S \in SUBSET Nat, IsFiniteSet(S)
  PROVE  Sorted(S) \in SetToSeqs(S) /\ ToSet(Sorted(S)) = S
<1>1. \E s \in SetToSeqs(S) : \A i, j \in DOMAIN s : i < j => s[i] < s[j]
  BY SomeAscending DEF Ascending
<1>2. Sorted(S) \in SetToSeqs(S)
  BY <1>1 DEF Sorted
<1> QED
  BY <1>2, ListOf

(* The elements of a sequence are finitely many.                           *)
LEMMA FewElements ==
  ASSUME NEW S, NEW s \in Seq(S)
  PROVE  ToSet(s) \in SUBSET S /\ IsFiniteSet(ToSet(s))
<1>1. Len(s) \in Nat /\ DOMAIN s = 1..Len(s)
  OBVIOUS
<1>2. s \in Surjection(DOMAIN s, ToSet(s))
  BY <1>1 DEF Surjection, ToSet
<1>3. IsFiniteSet(DOMAIN s)
  BY <1>1, FS_Interval
<1> QED
  BY <1>1, <1>2, <1>3, FS_Surjection DEF ToSet

(* A sublist has what the list has at the places picked, each place once.  *)
LEMMA SublistOf ==
  ASSUME NEW s, NEW I \in SUBSET Nat, IsFiniteSet(I)
  PROVE  LET t == Sublist(s, I)
             order == Sorted(I)
         IN  /\ Cardinality(I) \in Nat /\ DOMAIN t = 1..Cardinality(I)
             /\ \A k \in DOMAIN t : order[k] \in I /\ t[k] = s[order[k]]
             /\ \A k, l \in DOMAIN t : order[k] = order[l] => k = l
             /\ \A i \in I : \E k \in DOMAIN t : t[k] = s[i]
<1> DEFINE order == Sorted(I)
           t == Sublist(s, I)
<1>1. order \in SetToSeqs(I) /\ ToSet(order) = I
  BY SortedLists
<1> HIDE DEF order
<1>2. /\ Cardinality(I) \in Nat /\ order \in [1..Cardinality(I) -> I]
      /\ DOMAIN order = 1..Cardinality(I)
      /\ \A k, l \in DOMAIN order : order[k] = order[l] => k = l
  BY <1>1, ListOf
<1>3. t = [k \in DOMAIN order |-> s[order[k]]]
  BY DEF Sublist, order
<1> HIDE DEF t
<1>4. \A i \in I : \E k \in DOMAIN order : order[k] = i
  BY <1>1 DEF ToSet
<1>5. DOMAIN t = DOMAIN order /\ \A k \in DOMAIN order : t[k] = s[order[k]]
  BY <1>3
<1>6. \A k \in DOMAIN t : order[k] \in I
  BY <1>2, <1>5
<1>7. \A i \in I : \E k \in DOMAIN t : t[k] = s[i]
  BY <1>4, <1>5
<1> QED
  BY <1>2, <1>5, <1>6, <1>7 DEF t, order

(* Where the places picked have different elements, so has the sublist.    *)
LEMMA SublistApart ==
  ASSUME NEW s, NEW I \in SUBSET Nat, IsFiniteSet(I),
         \A i, j \in I : s[i] = s[j] => i = j
  PROVE  \A k, l \in DOMAIN Sublist(s, I) :
            Sublist(s, I)[k] = Sublist(s, I)[l] => k = l
<1> DEFINE t == Sublist(s, I)
           order == Sorted(I)
<1>1. /\ \A k \in DOMAIN t : order[k] \in I /\ t[k] = s[order[k]]
      /\ \A k, l \in DOMAIN t : order[k] = order[l] => k = l
  BY SublistOf
<1> HIDE DEF t, order
<1>2. ASSUME NEW k \in DOMAIN t, NEW l \in DOMAIN t, t[k] = t[l]
      PROVE  k = l
  <2>1. order[k] \in I /\ order[l] \in I /\ s[order[k]] = s[order[l]]
    BY <1>1, <1>2
  <2>2. order[k] = order[l]
    BY <2>1
  <2> QED
    BY <1>1, <2>2
<1> QED
  BY <1>2 DEF t
=============================================================================
