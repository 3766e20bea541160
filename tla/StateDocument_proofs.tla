------------------------- MODULE StateDocument_proofs -------------------------
(***************************************************************************)
(* Theorems about the life of a project's document: through the repairs of *)
(* any documents of earlier releases, any transactions and whatever the    *)
(* budget leaves out, a human's trust and the references between decisions *)
(* belong to the decisions they were meant for.                            *)
(***************************************************************************)
EXTENDS StateDocument, FiniteSetTheorems, FunctionTheorems, SequenceTheorems,
        TLAPS

-----------------------------------------------------------------------------
(* Places.  A sequence is filtered and sorted by counting.                 *)

\* A part of a finite set has fewer elements unless it is all of it.
LEMMA PartIsSmaller ==
    ASSUME NEW S, IsFiniteSet(S), NEW T, T \subseteq S
    PROVE  /\ IsFiniteSet(T) /\ Cardinality(T) \in Nat /\ Cardinality(S) \in Nat
           /\ Cardinality(T) <= Cardinality(S)
           /\ T # S => Cardinality(T) < Cardinality(S)
<1>1. T \in SUBSET S
  OBVIOUS
<1>2. IsFiniteSet(T) /\ Cardinality(T) <= Cardinality(S)
      /\ (Cardinality(S) = Cardinality(T) => S = T)
  BY <1>1, FS_Subset
<1>3. Cardinality(T) \in Nat /\ Cardinality(S) \in Nat
  BY <1>2, FS_CardinalityType
<1> QED
  BY <1>2, <1>3

\* B is a strict total order of S.
Orders(B, S) ==
    /\ \A i \in S : <<i, i>> \notin B
    /\ \A i, j, k \in S : <<i, j>> \in B /\ <<j, k>> \in B => <<i, k>> \in B
    /\ \A i, j \in S : i # j => <<i, j>> \in B \/ <<j, i>> \in B

\* The place of each element of S in the order B.
PlaceIn(S, B) == [i \in S |-> Cardinality({j \in S : <<j, i>> \in B}) + 1]

\* Of a finite set in a strict total order, every number up to its size is the
\* place of one element.
LEMMA Places ==
    ASSUME NEW S, IsFiniteSet(S), NEW B, Orders(B, S)
    PROVE  /\ Cardinality(S) \in Nat
           /\ \A i \in S : PlaceIn(S, B)[i] \in 1 .. Cardinality(S)
           /\ \A i, k \in S : PlaceIn(S, B)[i] = PlaceIn(S, B)[k] => i = k
           /\ \A n \in 1 .. Cardinality(S) : \E i \in S : PlaceIn(S, B)[i] = n
<1> DEFINE below(i) == {j \in S : <<j, i>> \in B}
<1>0. PlaceIn(S, B) = [i \in S |-> Cardinality(below(i)) + 1]
  BY DEF PlaceIn
<1> USE DEF Orders
<1>1. Cardinality(S) \in Nat
  BY FS_CardinalityType
<1>2. ASSUME NEW i \in S
      PROVE  /\ IsFiniteSet(below(i)) /\ Cardinality(below(i)) \in Nat
             /\ Cardinality(below(i)) < Cardinality(S)
  <2>1. below(i) \subseteq S /\ below(i) # S
    OBVIOUS
  <2> HIDE DEF below
  <2> QED
    BY <2>1, PartIsSmaller
<1>3. ASSUME NEW i \in S, NEW k \in S, <<i, k>> \in B
      PROVE  Cardinality(below(i)) < Cardinality(below(k))
  <2>1. below(i) \subseteq below(k) /\ below(i) # below(k)
    BY <1>3
  <2>2. IsFiniteSet(below(k))
    BY <1>2
  <2> HIDE DEF below
  <2> QED
    BY <2>1, <2>2, PartIsSmaller
<1>4. \A i, k \in S : i # k => <<i, k>> \in B \/ <<k, i>> \in B
  OBVIOUS
<1>5. PlaceIn(S, B) \in [S -> 1 .. Cardinality(S)]
  <2> HIDE DEF below
  <2> QED
    BY <1>0, <1>1, <1>2
<1>6. \A i, k \in S : PlaceIn(S, B)[i] = PlaceIn(S, B)[k] => i = k
  <2>1. \A i, k \in S : <<i, k>> \in B => PlaceIn(S, B)[i] < PlaceIn(S, B)[k]
    <3> SUFFICES ASSUME NEW i \in S, NEW k \in S, <<i, k>> \in B
                  PROVE  PlaceIn(S, B)[i] < PlaceIn(S, B)[k]
      OBVIOUS
    <3>1. Cardinality(below(i)) < Cardinality(below(k))
      BY <1>3
    <3>2. Cardinality(below(i)) \in Nat /\ Cardinality(below(k)) \in Nat
      BY <1>2
    <3> HIDE DEF below
    <3>3. /\ PlaceIn(S, B)[i] = Cardinality(below(i)) + 1
          /\ PlaceIn(S, B)[k] = Cardinality(below(k)) + 1
      BY <1>0
    <3> QED
      BY <3>1, <3>2, <3>3
  <2> SUFFICES ASSUME NEW i \in S, NEW k \in S, i # k PROVE PlaceIn(S, B)[i] # PlaceIn(S, B)[k]
    OBVIOUS
  <2>2. PlaceIn(S, B)[i] \in Nat /\ PlaceIn(S, B)[k] \in Nat
    BY <1>1, <1>5
  <2>3. <<i, k>> \in B \/ <<k, i>> \in B
    BY <1>4
  <2>4. PlaceIn(S, B)[i] < PlaceIn(S, B)[k] \/ PlaceIn(S, B)[k] < PlaceIn(S, B)[i]
    BY <2>1, <2>3
  <2> QED
    BY <2>2, <2>4
<1>7. PlaceIn(S, B) \in Injection(S, 1 .. Cardinality(S))
  BY <1>5, <1>6, Fun_IsInj
<1>8. IsFiniteSet(1 .. Cardinality(S)) /\ Cardinality(1 .. Cardinality(S)) = Cardinality(S)
  <2>1. Cardinality(S) \in Int
    BY <1>1
  <2>2. IsFiniteSet(1 .. Cardinality(S))
        /\ Cardinality(1 .. Cardinality(S))
             = IF 1 > Cardinality(S) THEN 0 ELSE Cardinality(S) - 1 + 1
    BY <2>1, FS_Interval
  <2> QED
    BY <1>1, <2>2
<1>9. PlaceIn(S, B) \in Surjection(S, 1 .. Cardinality(S))
  BY <1>7, <1>8, FS_Injection
<1>10. \A n \in 1 .. Cardinality(S) : \E i \in S : PlaceIn(S, B)[i] = n
  BY <1>9 DEF Surjection
<1>11. \A i \in S : PlaceIn(S, B)[i] \in 1 .. Cardinality(S)
  BY <1>5
<1> QED
  BY <1>1, <1>6, <1>10, <1>11, Zenon

\* There is an element at every place.
LEMMA EveryPlace ==
    ASSUME NEW S, IsFiniteSet(S), NEW B, Orders(B, S), NEW n \in 1 .. Cardinality(S)
    PROVE  \E x \in S : PlaceIn(S, B)[x] = n
BY Places

\* What has the first place has nothing before it.
LEMMA FirstPlace ==
    ASSUME NEW S, IsFiniteSet(S), NEW B, NEW x \in S, PlaceIn(S, B)[x] = 1
    PROVE  \A y \in S : <<y, x>> \notin B
<1> DEFINE below == {y \in S : <<y, x>> \in B}
<1>1. IsFiniteSet(below) /\ Cardinality(below) \in Nat
  <2>1. below \subseteq S
    OBVIOUS
  <2> HIDE DEF below
  <2> QED
    BY <2>1, PartIsSmaller
<1>2. Cardinality(below) + 1 = 1
  BY DEF PlaceIn
<1>3. below = {}
  <2> HIDE DEF below
  <2> QED
    BY <1>1, <1>2, FS_EmptySet
<1> QED
  BY <1>3

\* In a strict total order of a finite set something comes first.
LEMMA SomethingFirst ==
    ASSUME NEW S, IsFiniteSet(S), S # {}, NEW B, Orders(B, S)
    PROVE  \E x \in S : \A y \in S : <<y, x>> \notin B
<1>1. Cardinality(S) \in Nat /\ Cardinality(S) # 0
  BY FS_EmptySet, FS_CardinalityType
<1>2. \A k \in 1 .. Cardinality(S) : \E x \in S : PlaceIn(S, B)[x] = k
  BY EveryPlace
<1>3. PICK x \in S : PlaceIn(S, B)[x] = 1
  BY <1>1, <1>2
<1> QED
  BY <1>3, FirstPlace

\* Of a set of numbers up to a bound one is the largest.
LEMMA Largest ==
    \A n \in Nat : \A T \in SUBSET (0 .. n) :
        T # {} => \E x \in T : \A y \in T : y <= x
<1> SUFFICES ASSUME NEW n, NEW T PROVE
        n \in Nat /\ T \subseteq 0 .. n /\ T # {} => \E x \in T : \A y \in T : y <= x
  OBVIOUS
<1>1. HAVE n \in Nat /\ T \subseteq 0 .. n /\ T # {}
<1> DEFINE after == {p \in T \X T : p[1] > p[2]}
<1>2. IsFiniteSet(T)
  <2>1. IsFiniteSet(0 .. n)
    BY <1>1, FS_Interval
  <2> QED
    BY <1>1, <2>1, PartIsSmaller
<1>3. \A x, y \in T : <<x, y>> \in after <=> x > y
  OBVIOUS
<1>4. \A x \in T : x \in Nat
  BY <1>1
<1> HIDE DEF after
<1>5. Orders(after, T)
  <2>1. \A i \in T : <<i, i>> \notin after
    BY <1>3, <1>4
  <2>2. \A i, j, k \in T : <<i, j>> \in after /\ <<j, k>> \in after => <<i, k>> \in after
    <3> SUFFICES ASSUME NEW i \in T, NEW j \in T, NEW k \in T, i > j, j > k PROVE i > k
      BY <1>3
    <3> QED
      BY <1>4
  <2>3. \A i, j \in T : i # j => <<i, j>> \in after \/ <<j, i>> \in after
    BY <1>3, <1>4
  <2> QED
    BY <2>1, <2>2, <2>3 DEF Orders
<1>6. T # {}
  BY <1>1
<1>7. PICK x \in T : \A y \in T : <<y, x>> \notin after
  BY <1>2, <1>5, <1>6, SomethingFirst
<1>8. \A y \in T : y <= x
  <2> SUFFICES ASSUME NEW y \in T PROVE y <= x
    OBVIOUS
  <2>1. ~(y > x)
    BY <1>3, <1>7
  <2> QED
    BY <1>4, <2>1
<1> QED
  BY <1>8

\* What Most chooses.
LEMMA MostIs ==
    ASSUME NEW n \in Nat, NEW S \in SUBSET (0 .. n), S # {}
    PROVE  Most(S) \in S /\ \A k \in S : k <= Most(S)
<1>1. \E x \in S : \A k \in S : k <= x
  BY Largest
<1> QED
  BY <1>1 DEF Most

-----------------------------------------------------------------------------
(* Lists: what a filter, a sort and a cut make of one                      *)

\* A list of which every entry is an entry of s.
LEMMA ListOf ==
    ASSUME NEW D, NEW s \in Seq(D), NEW n \in Nat, NEW t,
           t \in [1 .. n -> Range(s)]
    PROVE  /\ t \in Seq(D) /\ Len(t) = n /\ DOMAIN t = 1 .. n
           /\ Range(t) = {t[i] : i \in 1 .. n} /\ Range(t) \subseteq Range(s)
<1>1. Range(s) \subseteq D
  BY RangeOfSeq
<1>2. t \in Seq(Range(s))
  BY SeqDef
<1>3. t \in Seq(D)
  BY <1>1, <1>2, SeqMonotonic
<1>4. DOMAIN t = 1 .. n
  OBVIOUS
<1>5. Len(t) = n
  BY <1>2, <1>4, LenProperties
<1> QED
  BY <1>3, <1>4, <1>5 DEF Range

\* A filter (Within) gives the entries that are in the set, and no others.
LEMMA WithinKeeps ==
    ASSUME NEW D, NEW s \in Seq(D), NEW S
    PROVE  Within(s, S) \in Seq(D) /\ Range(Within(s, S)) = Range(s) \cap S
<1> DEFINE at == {i \in DOMAIN s : s[i] \in S}
           place == [i \in at |-> Cardinality({j \in at : j <= i})]
           less == {p \in at \X at : p[1] < p[2]}
           w == [k \in 1 .. Cardinality(at) |-> s[CHOOSE i \in at : place[i] = k]]
<1>1. w = Within(s, S)
  BY DEF Within, At
<1>2. Len(s) \in Nat /\ DOMAIN s = 1 .. Len(s)
  BY LenProperties
<1>3. IsFiniteSet(at)
  <2>1. IsFiniteSet(1 .. Len(s))
    BY <1>2, FS_Interval
  <2>2. at \subseteq 1 .. Len(s)
    BY <1>2
  <2> HIDE DEF at
  <2> QED
    BY <2>1, <2>2, PartIsSmaller
<1>4. \A i, j \in at : <<i, j>> \in less <=> i < j
  OBVIOUS
<1>5. \A i \in at : i \in Nat
  BY <1>2
<1>6. Orders(less, at)
  <2> HIDE DEF at, less
  <2>1. \A i \in at : <<i, i>> \notin less
    BY <1>4, <1>5
  <2>2. \A i, j, k \in at : <<i, j>> \in less /\ <<j, k>> \in less => <<i, k>> \in less
    <3> SUFFICES ASSUME NEW i \in at, NEW j \in at, NEW k \in at, i < j, j < k PROVE i < k
      BY <1>4
    <3> QED
      BY <1>5
  <2>3. \A i, j \in at : i # j => <<i, j>> \in less \/ <<j, i>> \in less
    BY <1>4, <1>5
  <2> QED
    BY <2>1, <2>2, <2>3 DEF Orders
<1>7. ASSUME NEW i \in at PROVE place[i] = PlaceIn(at, less)[i]
  <2> DEFINE below == {j \in at : <<j, i>> \in less}
  <2>1. {j \in at : j <= i} = below \cup {i} /\ i \notin below
    BY <1>4, <1>5
  <2>2. IsFiniteSet(below) /\ Cardinality(below) \in Nat
    <3>1. below \subseteq at
      OBVIOUS
    <3> HIDE DEF below
    <3> QED
      BY <1>3, <3>1, PartIsSmaller
  <2>3. PlaceIn(at, less)[i] = Cardinality(below) + 1
    BY DEF PlaceIn
  <2>4. Cardinality(below \cup {i}) = Cardinality(below) + 1
    <3> HIDE DEF below
    <3> QED
      BY <2>1, <2>2, FS_AddElement
  <2> QED
    BY <2>1, <2>3, <2>4
<1>8. /\ Cardinality(at) \in Nat
      /\ \A i \in at : place[i] \in 1 .. Cardinality(at)
      /\ \A i, k \in at : place[i] = place[k] => i = k
      /\ \A n \in 1 .. Cardinality(at) : \E i \in at : place[i] = n
  <2> HIDE DEF at, place, less
  <2>1. /\ Cardinality(at) \in Nat
        /\ \A i \in at : PlaceIn(at, less)[i] \in 1 .. Cardinality(at)
        /\ \A i, k \in at : PlaceIn(at, less)[i] = PlaceIn(at, less)[k] => i = k
        /\ \A n \in 1 .. Cardinality(at) : \E i \in at : PlaceIn(at, less)[i] = n
    BY <1>3, <1>6, Places
  <2> QED
    BY <1>7, <2>1
<1>9. ASSUME NEW k \in 1 .. Cardinality(at)
      PROVE  (CHOOSE i \in at : place[i] = k) \in at
  BY <1>8
<1>10. \A i \in at : s[i] \in Range(s) /\ s[i] \in S
  BY DEF Range
<1>11. w \in [1 .. Cardinality(at) -> Range(s)]
  <2> HIDE DEF at, place
  <2> QED
    BY <1>9, <1>10
<1>12. /\ w \in Seq(D) /\ Range(w) = {w[k] : k \in 1 .. Cardinality(at)}
       /\ Range(w) \subseteq Range(s)
  <2> HIDE DEF at, place, w
  <2> QED
    BY <1>8, <1>11, ListOf
<1>13. Range(w) \subseteq S
  <2> SUFFICES ASSUME NEW k \in 1 .. Cardinality(at) PROVE w[k] \in S
    BY <1>12
  <2>1. w[k] = s[CHOOSE i \in at : place[i] = k]
    OBVIOUS
  <2> HIDE DEF at, place, w
  <2> QED
    BY <1>9, <1>10, <2>1
<1>14. ASSUME NEW x \in Range(s) \cap S PROVE x \in Range(w)
  <2>1. PICK i \in at : s[i] = x
    BY DEF Range
  <2>2. place[i] \in 1 .. Cardinality(at)
    BY <1>8
  <2>3. (CHOOSE j \in at : place[j] = place[i]) = i
    <3> HIDE DEF at, place
    <3> QED
      BY <1>8
  <2>4. w[place[i]] = x
    <3> HIDE DEF at, place
    <3> QED
      BY <2>1, <2>2, <2>3
  <2> HIDE DEF at, place, w
  <2> QED
    BY <1>12, <2>2, <2>4
<1> QED
  BY <1>1, <1>12, <1>13, <1>14
\* Sorting rows by their use and time keeps all of them.
LEMMA SortedKeeps ==
    ASSUME NEW s \in Seq(Decision)
    PROVE  /\ Sorted(s, MoreUsed) \in Seq(Decision)
           /\ Range(Sorted(s, MoreUsed)) = Range(s)
<1> DEFINE D == DOMAIN s
           before(j, i) == MoreUsed(s[j], s[i]) \/ (~MoreUsed(s[i], s[j]) /\ j < i)
           rank == [i \in D |-> Cardinality({j \in D : before(j, i)}) + 1]
           B == {p \in D \X D : before(p[1], p[2])}
           w == [k \in D |-> s[CHOOSE i \in D : rank[i] = k]]
<1>1. w = Sorted(s, MoreUsed)
  BY DEF Sorted
<1>2. Len(s) \in Nat /\ D = 1 .. Len(s)
  BY LenProperties
<1>3. IsFiniteSet(D) /\ Cardinality(D) = Len(s)
  <2>1. Len(s) \in Int
    BY <1>2
  <2>2. IsFiniteSet(1 .. Len(s))
        /\ Cardinality(1 .. Len(s)) = IF 1 > Len(s) THEN 0 ELSE Len(s) - 1 + 1
    BY <2>1, FS_Interval
  <2> QED
    BY <1>2, <2>2
<1>4. \A i \in D : i \in Nat /\ s[i].used \in Nat /\ s[i].stamp \in Nat
  <2> SUFFICES ASSUME NEW i \in D PROVE i \in Nat /\ s[i] \in Decision
    BY DEF Decision
  <2> QED
    BY <1>2, ElementOfSeq
<1>5. \A i, j \in D : <<i, j>> \in B <=> before(i, j)
  OBVIOUS
<1>6. Orders(B, D)
  <2> HIDE DEF B, D
  <2>1. \A i \in D : <<i, i>> \notin B
    BY <1>4, <1>5 DEF MoreUsed
  <2>2. \A i, j, k \in D : <<i, j>> \in B /\ <<j, k>> \in B => <<i, k>> \in B
    <3> SUFFICES ASSUME NEW i \in D, NEW j \in D, NEW k \in D, before(i, j), before(j, k)
                 PROVE  before(i, k)
      BY <1>5
    <3>1. /\ i \in Nat /\ j \in Nat /\ k \in Nat
          /\ s[i].used \in Nat /\ s[j].used \in Nat /\ s[k].used \in Nat
          /\ s[i].stamp \in Nat /\ s[j].stamp \in Nat /\ s[k].stamp \in Nat
      BY <1>4
    <3>2. /\ \/ s[i].used > s[j].used
             \/ s[i].used = s[j].used /\ s[i].stamp > s[j].stamp
             \/ s[i].used = s[j].used /\ s[i].stamp = s[j].stamp /\ i < j
          /\ \/ s[j].used > s[k].used
             \/ s[j].used = s[k].used /\ s[j].stamp > s[k].stamp
             \/ s[j].used = s[k].used /\ s[j].stamp = s[k].stamp /\ j < k
      BY <3>1 DEF MoreUsed
    <3>3. \/ s[i].used > s[k].used
          \/ s[i].used = s[k].used /\ s[i].stamp > s[k].stamp
          \/ s[i].used = s[k].used /\ s[i].stamp = s[k].stamp /\ i < k
      BY <3>1, <3>2
    <3> QED
      BY <3>1, <3>3 DEF MoreUsed
  <2>3. \A i, j \in D : i # j => <<i, j>> \in B \/ <<j, i>> \in B
    BY <1>4, <1>5 DEF MoreUsed
  <2> QED
    BY <2>1, <2>2, <2>3 DEF Orders
<1>7. \A i \in D : rank[i] = PlaceIn(D, B)[i]
  <2> SUFFICES ASSUME NEW i \in D PROVE rank[i] = PlaceIn(D, B)[i]
    OBVIOUS
  <2>1. {j \in D : before(j, i)} = {j \in D : <<j, i>> \in B}
    BY <1>5
  <2> HIDE DEF D, B, before
  <2> QED
    BY <2>1 DEF PlaceIn
<1>8. /\ \A i \in D : rank[i] \in D
      /\ \A i, k \in D : rank[i] = rank[k] => i = k
      /\ \A n \in D : \E i \in D : rank[i] = n
  <2> HIDE DEF D, B, rank, before
  <2>1. /\ \A i \in D : PlaceIn(D, B)[i] \in 1 .. Cardinality(D)
        /\ \A i, k \in D : PlaceIn(D, B)[i] = PlaceIn(D, B)[k] => i = k
        /\ \A n \in 1 .. Cardinality(D) : \E i \in D : PlaceIn(D, B)[i] = n
    BY <1>3, <1>6, Places
  <2>2. D = 1 .. Cardinality(D)
    BY <1>2, <1>3
  <2> QED
    BY <1>7, <2>1, <2>2
<1> HIDE DEF D, before, rank, B
<1>9. \A k \in D : (CHOOSE i \in D : rank[i] = k) \in D
  BY <1>8
<1>10. \A i \in D : s[i] \in Range(s)
  BY DEF Range, D
<1>11. w \in [1 .. Len(s) -> Range(s)]
  BY <1>2, <1>9, <1>10
<1> HIDE DEF w
<1>12. /\ w \in Seq(Decision) /\ Range(w) = {w[k] : k \in 1 .. Len(s)}
       /\ Range(w) \subseteq Range(s)
  BY <1>2, <1>11, ListOf
<1>13. ASSUME NEW x \in Range(s) PROVE x \in Range(w)
  <2>1. PICK i \in D : s[i] = x
    BY DEF Range, D
  <2>2. (CHOOSE j \in D : rank[j] = rank[i]) = i
    BY <1>8
  <2>3. rank[i] \in D
    BY <1>8
  <2>4. w[rank[i]] = x
    BY <2>1, <2>2, <2>3 DEF w
  <2> QED
    BY <1>2, <1>12, <2>3, <2>4
<1> QED
  BY <1>1, <1>12, <1>13

\* What is cut from a list's front is a list of its entries.
LEMMA FirstOfKeeps ==
    ASSUME NEW D, NEW s \in Seq(D), NEW n \in Nat
    PROVE  /\ FirstOf(s, n) \in Seq(D) /\ Range(FirstOf(s, n)) \subseteq Range(s)
           /\ \A i \in DOMAIN s : i <= n => s[i] \in Range(FirstOf(s, n))
<1> DEFINE m == IF Len(s) > n THEN n ELSE Len(s)
           t == SubSeq(s, 1, m)
<1>1. Len(s) \in Nat /\ DOMAIN s = 1 .. Len(s)
  BY LenProperties
<1>2. m \in Nat /\ m <= Len(s)
  BY <1>1
<1>3. \A i \in DOMAIN s : i <= n => i \in 1 .. m
  BY <1>1
<1> HIDE DEF m
<1>4. \A i \in 1 .. m : i \in 1 .. Len(s) /\ s[i] \in D /\ s[i] \in Range(s)
  <2> SUFFICES ASSUME NEW i \in 1 .. m
               PROVE  i \in 1 .. Len(s) /\ s[i] \in D /\ s[i] \in Range(s)
    OBVIOUS
  <2>1. i \in 1 .. Len(s)
    BY <1>1, <1>2
  <2> QED
    BY <1>1, <2>1, ElementOfSeq DEF Range
<1>5. /\ t \in Seq(D) /\ Len(t) = IF 1 <= m THEN m - 1 + 1 ELSE 0
      /\ \A i \in 1 .. m - 1 + 1 : t[i] = s[1 + i - 1]
  BY <1>2, <1>4, SubSeqProperties
<1>6. Len(t) = m
  BY <1>2, <1>5
<1>7. \A i \in 1 .. m : t[i] = s[i]
  <2> SUFFICES ASSUME NEW i \in 1 .. m PROVE t[i] = s[i]
    OBVIOUS
  <2>1. i \in 1 .. m - 1 + 1 /\ 1 + i - 1 = i
    BY <1>2
  <2> QED
    BY <1>5, <2>1
<1>8. DOMAIN t = 1 .. m
  BY <1>5, <1>6, LenProperties
<1>9. Range(t) = {t[i] : i \in 1 .. m}
  BY <1>8 DEF Range
<1>10. t = FirstOf(s, n)
  BY DEF FirstOf, m
<1>11. \A i \in 1 .. m : t[i] \in Range(s) /\ t[i] \in Range(t) /\ t[i] = s[i]
  BY <1>4, <1>7, <1>9
<1>12. Range(t) \subseteq Range(s)
  BY <1>9, <1>11
<1>13. \A i \in DOMAIN s : i <= n => s[i] \in Range(t)
  BY <1>3, <1>11
<1> QED
  BY <1>5, <1>10, <1>12, <1>13
-----------------------------------------------------------------------------
(* What the budget leaves of the rows                                      *)

\* A document with rows.
HasRows(m) == "decisions" \in DOMAIN m /\ m.decisions \in Seq(Decision)

\* A document with the rows of another.
SameRows(y, x) == "decisions" \in DOMAIN y /\ y.decisions = x.decisions

\* A row is another but for the detail of its text.
IsRow(r, q) ==
    /\ r.id = q.id /\ r.key = q.key /\ r.by = q.by /\ r.flags = q.flags
    /\ r.stamp = q.stamp /\ r.used = q.used /\ r.lineage = q.lineage

\* Every row of y is one of x.
Descends(y, x) == \A r \in RowsOf(y) : \E q \in RowsOf(x) : IsRow(r, q)

\* The rows that a protection is about, of whatever document.
ProtectedRow(r, p) ==
    Has(r, "foundational") \/ Has(r, "human_conflict_quarantined") \/ r.id \in p.rows

\* No protected row of x is missing from y.
Protects(y, x, p) ==
    \A q \in RowsOf(x) : ProtectedRow(q, p) => \E r \in RowsOf(y) : IsRow(r, q)

\* y is x without some rows that nobody protected.
Reduced(y, x, p) == HasRows(y) /\ Descends(y, x) /\ Protects(y, x, p)

\* The stages that shed bookkeeping, caches, files and the like leave the rows
\* alone (fitMemoryToBudget, stages 0 to 4, 6 and 10).
LEMMA OtherStages ==
    ASSUME NEW m, HasRows(m), NEW now, NEW p
    PROVE  /\ SameRows(ExpireAudits(m, now), m) /\ SameRows(ShedAudits(m), m)
           /\ SameRows(ShedCache(m), m) /\ SameRows(ShedHealth(m), m)
           /\ SameRows(ShedBookkeeping(m, p), m) /\ SameRows(ShedFiles(m), m)
           /\ SameRows(ShedOldFiles(m), m) /\ SameRows(ShedBlockers(m), m)
           /\ SameRows(ShedSteps(m), m) /\ SameRows(ShedTask(m), m)
<1> USE DEF SameRows, HasRows
<1>1. SameRows(ExpireAudits(m, now), m)
  BY DEF ExpireAudits, Mapped
<1>2. SameRows(ShedAudits(m), m)
  BY DEF ShedAudits, NewestThatFit
<1>3. SameRows(ShedCache(m), m)
  BY DEF ShedCache, NewestThatFit
<1>4. SameRows(ShedHealth(m), m)
  BY DEF ShedHealth, NewestThatFit
<1>5. SameRows(ShedBookkeeping(m, p), m)
  BY DEF ShedBookkeeping, NewestThatFit
<1>6. SameRows(ShedFiles(m), m)
  BY DEF ShedFiles, FirstThatFit, Sorted
<1>7. SameRows(ShedOldFiles(m), m)
  BY DEF ShedOldFiles, NewestThatFit, Sorted
<1>8. SameRows(ShedBlockers(m), m)
  BY DEF ShedBlockers, NewestThatFit
<1>9. SameRows(ShedSteps(m), m)
  BY DEF ShedSteps, NewestThatFit
<1>10. SameRows(ShedTask(m), m)
  BY DEF ShedTask
<1> HIDE DEF SameRows, HasRows
<1> QED
  BY <1>1, <1>2, <1>3, <1>4, <1>5, <1>6, <1>7, <1>8, <1>9, <1>10

\* The same rows are rows still, and none is missing.
LEMMA SameIsReduced ==
    ASSUME NEW x, HasRows(x), NEW y, SameRows(y, x)
    PROVE  HasRows(y) /\ \A p : Reduced(y, x, p)
BY DEF Reduced, Descends, Protects, SameRows, HasRows, RowsOf, IsRow

\* Stage after stage: what is left of what was left.
LEMMA ReducedTwice ==
    ASSUME NEW p, NEW x, NEW y, NEW z, Reduced(y, x, p), Reduced(z, y, p)
    PROVE  Reduced(z, x, p)
<1>1. HasRows(z)
  BY DEF Reduced
<1>2. Descends(z, x)
  <2> SUFFICES ASSUME NEW r \in RowsOf(z) PROVE \E q \in RowsOf(x) : IsRow(r, q)
    BY DEF Descends
  <2>1. PICK s \in RowsOf(y) : IsRow(r, s)
    BY DEF Reduced, Descends
  <2>2. PICK q \in RowsOf(x) : IsRow(s, q)
    BY DEF Reduced, Descends
  <2> QED
    BY <2>1, <2>2 DEF IsRow
<1>3. Protects(z, x, p)
  <2> SUFFICES ASSUME NEW q \in RowsOf(x), ProtectedRow(q, p)
               PROVE  \E r \in RowsOf(z) : IsRow(r, q)
    BY DEF Protects
  <2>1. PICK s \in RowsOf(y) : IsRow(s, q)
    BY DEF Reduced, Protects
  <2>2. ProtectedRow(s, p)
    BY <2>1 DEF ProtectedRow, IsRow, Has
  <2>3. PICK r \in RowsOf(z) : IsRow(r, s)
    BY <2>2 DEF Reduced, Protects
  <2> QED
    BY <2>1, <2>3 DEF IsRow
<1> QED
  BY <1>1, <1>2, <1>3 DEF Reduced

\* Every row that the protection is about has a protected id.
LEMMA ProtectedHasId ==
    ASSUME NEW m, NEW p, NEW r \in RowsOf(m), ProtectedRow(r, p)
    PROVE  r.id \in ProtectedIds(m, p)
BY DEF ProtectedRow, ProtectedIds, RowsOf

\* Stages 5 and 7 leave out rows whose ids nothing protects.
LEMMA KeepRowsReduces ==
    ASSUME NEW m, HasRows(m), NEW p, NEW S,
           \A r \in RowsOf(m) : r.id \in ProtectedIds(m, p) => r \in S
    PROVE  /\ Reduced(KeepRows(m, S), m, p)
           /\ RowsOf(KeepRows(m, S)) = RowsOf(m) \cap S
<1> DEFINE y == KeepRows(m, S)
<1>1. "decisions" \in DOMAIN y /\ y.decisions = Within(m.decisions, S)
  BY DEF KeepRows, HasRows
<1>2. Within(m.decisions, S) \in Seq(Decision)
      /\ Range(Within(m.decisions, S)) = Range(m.decisions) \cap S
  BY WithinKeeps DEF HasRows
<1>3. HasRows(y) /\ RowsOf(y) = RowsOf(m) \cap S
  BY <1>1, <1>2 DEF HasRows, RowsOf
<1> HIDE DEF y
<1>4. Descends(y, m)
  BY <1>3 DEF Descends, IsRow
<1>5. Protects(y, m, p)
  <2> SUFFICES ASSUME NEW q \in RowsOf(m), ProtectedRow(q, p)
               PROVE  \E r \in RowsOf(y) : IsRow(r, q)
    BY DEF Protects
  <2>1. q \in RowsOf(y)
    BY <1>3, ProtectedHasId
  <2> QED
    BY <2>1 DEF IsRow
<1> QED
  BY <1>3, <1>4, <1>5 DEF Reduced, y

\* Stage 8 shortens texts and nothing else of a row.
LEMMA ShortenReduces ==
    ASSUME NEW m, HasRows(m), NEW p
    PROVE  Reduced(Shorten(m), m, p)
<1> DEFINE y == Shorten(m)
           short(r) == [r EXCEPT !.text = Truncated(@, Cap.detail)]
           t == [i \in DOMAIN m.decisions |-> short(m.decisions[i])]
<1>1. "decisions" \in DOMAIN y /\ y.decisions = t
  BY DEF Shorten, HasRows, Mapped
<1>2. Len(m.decisions) \in Nat /\ DOMAIN m.decisions = 1 .. Len(m.decisions)
  BY LenProperties DEF HasRows
<1>3. Cap.detail \in Nat
  BY DocumentAssumption
<1>4. ASSUME NEW r \in Decision PROVE short(r) \in Decision /\ IsRow(short(r), r)
  BY <1>3 DEF Decision, IsRow, Truncated
<1>5. \A i \in DOMAIN m.decisions : m.decisions[i] \in Decision
  BY <1>2, ElementOfSeq DEF HasRows
<1>6. t \in Seq(Decision)
  <2>1. t \in [1 .. Len(m.decisions) -> Decision]
    <3> HIDE DEF short
    <3> QED
      BY <1>2, <1>4, <1>5
  <2> HIDE DEF t
  <2> QED
    BY <1>2, <2>1, SeqDef
<1>7. HasRows(y)
  BY <1>1, <1>6 DEF HasRows
<1> HIDE DEF short
<1>8. /\ RowsOf(y) = {t[i] : i \in DOMAIN m.decisions}
      /\ RowsOf(m) = {m.decisions[i] : i \in DOMAIN m.decisions}
  BY <1>1 DEF RowsOf, Range
<1>9. \A i \in DOMAIN m.decisions : IsRow(t[i], m.decisions[i])
  BY <1>4, <1>5
<1> HIDE DEF t, y
<1>10. Descends(y, m) /\ Protects(y, m, p)
  BY <1>8, <1>9 DEF Descends, Protects
<1> QED
  BY <1>7, <1>10 DEF Reduced, y
\* Stages 5 and 7, and what they leave of the other rows.
LEMMA DropsReduce ==
    ASSUME NEW m, HasRows(m), NEW now, NEW p
    PROVE  /\ Reduced(DropInvalid(m, p), m, p) /\ Reduced(DropOld(m, now, p), m, p)
           /\ \A r \in RowsOf(DropInvalid(m, p)) :
                  Has(r, "still_valid") \/ r.id \in ProtectedIds(m, p)
           /\ \A r \in RowsOf(DropOld(m, now, p)) :
                  r.id \in ProtectedIds(m, p) \/ (r.stamp # NoTime /\ now <= r.stamp + Horizon)
<1> DEFINE ids == ProtectedIds(m, p)
           valid == {r \in Range(m.decisions) : Has(r, "still_valid") \/ r.id \in ids}
           recent == {r \in Range(m.decisions) :
                         r.id \in ids \/ (r.stamp # NoTime /\ now <= r.stamp + Horizon)}
<1>1. DropInvalid(m, p) = KeepRows(m, valid) /\ DropOld(m, now, p) = KeepRows(m, recent)
  BY DEF DropInvalid, DropOld
<1>2. /\ \A r \in RowsOf(m) : r.id \in ids => r \in valid
      /\ \A r \in RowsOf(m) : r.id \in ids => r \in recent
  BY DEF RowsOf
<1>3. /\ \A r \in valid : Has(r, "still_valid") \/ r.id \in ids
      /\ \A r \in recent : r.id \in ids \/ (r.stamp # NoTime /\ now <= r.stamp + Horizon)
  OBVIOUS
<1> HIDE DEF valid, recent
<1>4. /\ Reduced(KeepRows(m, valid), m, p) /\ RowsOf(KeepRows(m, valid)) \subseteq valid
      /\ Reduced(KeepRows(m, recent), m, p) /\ RowsOf(KeepRows(m, recent)) \subseteq recent
  <2>1. /\ Reduced(KeepRows(m, valid), m, p)
        /\ RowsOf(KeepRows(m, valid)) = RowsOf(m) \cap valid
    BY <1>2, KeepRowsReduces
  <2>2. /\ Reduced(KeepRows(m, recent), m, p)
        /\ RowsOf(KeepRows(m, recent)) = RowsOf(m) \cap recent
    BY <1>2, KeepRowsReduces
  <2> QED
    BY <2>1, <2>2
<1> QED
  BY <1>1, <1>3, <1>4

\* Stage 9 takes rows from the end of a list that begins with the protected ones.
LEMMA ShedRowsReduces ==
    ASSUME NEW m, HasRows(m), NEW p
    PROVE  Reduced(ShedRows(m, p), m, p)
<1> DEFINE protected == {r \in Range(m.decisions) : r.id \in ProtectedIds(m, p)}
           kept == Within(m.decisions, protected)
           free == Within(m.decisions, Range(m.decisions) \ protected)
           others == Sorted(free, MoreUsed)
           all == kept \o others
           With(rows) == [m EXCEPT !.decisions = rows]
           counts == {n \in Len(kept) .. Len(all) :
                         n = Len(kept) \/ ~Over(With(FirstOf(all, n)))}
           cut == Most(counts)
           y == With(FirstOf(all, cut))
<1>1. ShedRows(m, p) = IF others = <<>> THEN m ELSE y
  BY DEF ShedRows, FirstThatFit
<1>2. Reduced(m, m, p)
  BY DEF Reduced, Descends, Protects, IsRow
<1>3. /\ kept \in Seq(Decision) /\ Range(kept) = Range(m.decisions) \cap protected
      /\ others \in Seq(Decision) /\ Range(others) \subseteq Range(m.decisions)
  <2> HIDE DEF protected
  <2>1. kept \in Seq(Decision) /\ Range(kept) = Range(m.decisions) \cap protected
    BY WithinKeeps DEF HasRows
  <2>2. free \in Seq(Decision) /\ Range(free) \subseteq Range(m.decisions)
    BY WithinKeeps DEF HasRows
  <2> HIDE DEF kept, free
  <2>3. others \in Seq(Decision) /\ Range(others) = Range(free)
    BY <2>2, SortedKeeps
  <2> QED
    BY <2>1, <2>2, <2>3
<1>4. \A r \in RowsOf(m) : ProtectedRow(r, p) => r \in Range(kept)
  <2>1. \A r \in RowsOf(m) : ProtectedRow(r, p) => r \in Range(m.decisions) /\ r \in protected
    BY ProtectedHasId DEF RowsOf
  <2> HIDE DEF protected, kept
  <2> QED
    BY <1>3, <2>1
<1> HIDE DEF kept, others, protected, free
<1>5. /\ all \in Seq(Decision) /\ Len(all) = Len(kept) + Len(others)
      /\ \A i \in 1 .. Len(kept) : all[i] = kept[i]
      /\ Range(all) \subseteq Range(m.decisions)
      /\ Len(kept) \in Nat /\ Len(others) \in Nat /\ DOMAIN kept = 1 .. Len(kept)
      /\ DOMAIN all = 1 .. Len(all)
  <2>1. Len(kept) \in Nat /\ Len(others) \in Nat /\ DOMAIN kept = 1 .. Len(kept)
    BY <1>3, LenProperties
  <2>2. /\ all \in Seq(Decision) /\ Len(all) = Len(kept) + Len(others)
        /\ \A i \in 1 .. Len(kept) + Len(others) :
              all[i] = IF i <= Len(kept) THEN kept[i] ELSE others[i - Len(kept)]
    BY <1>3, ConcatProperties
  <2>3. Range(all) = Range(kept) \cup Range(others)
    BY <1>3, RangeConcatenation
  <2>4. \A i \in 1 .. Len(kept) : all[i] = kept[i]
    <3> SUFFICES ASSUME NEW i \in 1 .. Len(kept) PROVE all[i] = kept[i]
      OBVIOUS
    <3>1. i \in 1 .. Len(kept) + Len(others) /\ i <= Len(kept)
      BY <2>1
    <3> QED
      BY <2>2, <3>1
  <2>5. Range(all) \subseteq Range(m.decisions)
    BY <1>3, <2>3
  <2>6. DOMAIN all = 1 .. Len(all)
    BY <2>2, LenProperties
  <2> QED
    BY <2>1, <2>2, <2>4, <2>5, <2>6
<1> HIDE DEF all
<1>6. cut \in Nat /\ cut >= Len(kept)
  <2>1. Len(all) \in Nat /\ Len(kept) \in counts /\ counts \in SUBSET (0 .. Len(all))
    BY <1>5
  <2>2. \A n \in counts : n \in Nat /\ n >= Len(kept)
    BY <1>5
  <2> HIDE DEF counts
  <2>3. cut \in counts
    BY <2>1, MostIs
  <2> HIDE DEF cut
  <2> QED
    BY <2>2, <2>3
<1> HIDE DEF cut
<1>7. /\ FirstOf(all, cut) \in Seq(Decision)
      /\ Range(FirstOf(all, cut)) \subseteq Range(all)
      /\ \A i \in DOMAIN all : i <= cut => all[i] \in Range(FirstOf(all, cut))
  BY <1>5, <1>6, FirstOfKeeps
<1>8. "decisions" \in DOMAIN y /\ y.decisions = FirstOf(all, cut)
  BY DEF HasRows
<1> HIDE DEF y
<1>9. HasRows(y) /\ RowsOf(y) \subseteq RowsOf(m)
  BY <1>5, <1>7, <1>8 DEF HasRows, RowsOf
<1>10. Range(kept) \subseteq RowsOf(y)
  <2> SUFFICES ASSUME NEW i \in 1 .. Len(kept) PROVE kept[i] \in Range(FirstOf(all, cut))
    BY <1>5, <1>8 DEF RowsOf, Range
  <2>1. i \in DOMAIN all /\ i <= cut /\ all[i] = kept[i]
    BY <1>5, <1>6
  <2> QED
    BY <1>7, <2>1
<1>11. Descends(y, m)
  BY <1>9 DEF Descends, IsRow
<1>12. Protects(y, m, p)
  BY <1>4, <1>10 DEF Protects, IsRow
<1>13. Reduced(y, m, p)
  BY <1>9, <1>11, <1>12 DEF Reduced
<1> QED
  BY <1>1, <1>2, <1>13
\* What is left protects no id that was not protected.
LEMMA ReducedIds ==
    ASSUME NEW x, NEW y, NEW p, Reduced(y, x, p)
    PROVE  ProtectedIds(y, p) \subseteq ProtectedIds(x, p)
<1> SUFFICES ASSUME NEW r \in RowsOf(y),
                    Has(r, "foundational") \/ Has(r, "human_conflict_quarantined")
             PROVE  r.id \in ProtectedIds(x, p)
  BY DEF ProtectedIds, RowsOf
<1>1. PICK q \in RowsOf(x) : IsRow(r, q)
  BY DEF Reduced, Descends
<1>2. ProtectedRow(q, p) /\ q.id = r.id
  BY <1>1 DEF IsRow, ProtectedRow, Has
<1> QED
  BY <1>2, ProtectedHasId

\* A row that stages 5 and 7 leave: its id is protected, or it is valid and
\* recent.
Lasting(r, ids, now) ==
    r.id \in ids \/ (Has(r, "still_valid") /\ r.stamp # NoTime /\ now <= r.stamp + Horizon)

\* Stages 0 to 8.
LEMMA TidiedReduces ==
    ASSUME NEW m, HasRows(m), NEW now, NEW p
    PROVE  /\ Reduced(Tidied(m, now, p), m, p)
           /\ \A r \in RowsOf(Tidied(m, now, p)) : Lasting(r, ProtectedIds(m, p), now)
<1> DEFINE a == ExpireAudits(m, now)
           b == ShedAudits(a)
           c == ShedCache(b)
           d == ShedHealth(c)
           e == ShedBookkeeping(d, p)
           f == DropInvalid(e, p)
           g == ShedFiles(f)
           h == DropOld(g, now, p)
           i == Shorten(h)
<1>1. Tidied(m, now, p) = i
  BY DEF Tidied
<1>2. HasRows(a) /\ Reduced(a, m, p)
  BY OtherStages, SameIsReduced
<1> HIDE DEF a
<1>3. HasRows(b) /\ Reduced(b, a, p)
  BY <1>2, OtherStages, SameIsReduced
<1> HIDE DEF b
<1>4. HasRows(c) /\ Reduced(c, b, p)
  BY <1>3, OtherStages, SameIsReduced
<1> HIDE DEF c
<1>5. HasRows(d) /\ Reduced(d, c, p)
  BY <1>4, OtherStages, SameIsReduced
<1> HIDE DEF d
<1>6. HasRows(e) /\ Reduced(e, d, p)
  BY <1>5, OtherStages, SameIsReduced
<1> HIDE DEF e
<1>7. Reduced(e, m, p)
  <2>1. Reduced(b, m, p)
    BY <1>2, <1>3, ReducedTwice
  <2>2. Reduced(c, m, p)
    BY <1>4, <2>1, ReducedTwice
  <2>3. Reduced(d, m, p)
    BY <1>5, <2>2, ReducedTwice
  <2> QED
    BY <1>6, <2>3, ReducedTwice
<1>8. /\ HasRows(f) /\ Reduced(f, e, p)
      /\ \A r \in RowsOf(f) : Has(r, "still_valid") \/ r.id \in ProtectedIds(e, p)
  BY <1>6, DropsReduce DEF Reduced
<1> HIDE DEF f
<1>9. HasRows(g) /\ Reduced(g, f, p)
  BY <1>8, OtherStages, SameIsReduced
<1> HIDE DEF g
<1>10. /\ HasRows(h) /\ Reduced(h, g, p)
       /\ \A r \in RowsOf(h) :
             r.id \in ProtectedIds(g, p) \/ (r.stamp # NoTime /\ now <= r.stamp + Horizon)
  BY <1>9, DropsReduce DEF Reduced
<1> HIDE DEF h
<1>11. Reduced(i, h, p)
  BY <1>10, ShortenReduces
<1> HIDE DEF i
<1>12. Reduced(f, m, p) /\ Reduced(g, m, p) /\ Reduced(i, m, p) /\ Reduced(h, f, p)
  <2>1. Reduced(f, m, p)
    BY <1>7, <1>8, ReducedTwice
  <2>2. Reduced(g, m, p)
    BY <1>9, <2>1, ReducedTwice
  <2>3. Reduced(h, m, p)
    BY <1>10, <2>2, ReducedTwice
  <2>4. Reduced(i, m, p)
    BY <1>11, <2>3, ReducedTwice
  <2>5. Reduced(h, f, p)
    BY <1>9, <1>10, ReducedTwice
  <2> QED
    BY <2>1, <2>2, <2>4, <2>5
<1>13. ASSUME NEW r \in RowsOf(i) PROVE Lasting(r, ProtectedIds(m, p), now)
  <2>1. PICK s \in RowsOf(h) : IsRow(r, s)
    BY <1>11 DEF Reduced, Descends
  <2>2. PICK q \in RowsOf(f) : IsRow(s, q)
    BY <1>12 DEF Reduced, Descends
  <2>3. ProtectedIds(e, p) \subseteq ProtectedIds(m, p)
        /\ ProtectedIds(g, p) \subseteq ProtectedIds(m, p)
    BY <1>7, <1>12, ReducedIds
  <2>4. Has(q, "still_valid") \/ q.id \in ProtectedIds(m, p)
    BY <1>8, <2>3
  <2>5. s.id \in ProtectedIds(m, p) \/ (s.stamp # NoTime /\ now <= s.stamp + Horizon)
    BY <1>10, <2>3
  <2>6. r.id = s.id /\ s.id = q.id /\ r.flags = q.flags /\ r.stamp = s.stamp
    BY <2>1, <2>2 DEF IsRow
  <2> QED
    BY <2>4, <2>5, <2>6 DEF Lasting, Has
<1> QED
  BY <1>1, <1>12, <1>13

\* fitMemoryToBudget, whether or not its result fits.
LEMMA FittedReduces ==
    ASSUME NEW m, HasRows(m), NEW now, NEW p
    PROVE  /\ Reduced(Fitted(m, now, p), m, p)
           /\ \A r \in RowsOf(Fitted(m, now, p)) : Lasting(r, ProtectedIds(m, p), now)
<1> DEFINE t == Tidied(m, now, p)
           fewer == IF Over(t) THEN ShedRows(t, p) ELSE t
           a == ShedOldFiles(fewer)
           b == ShedBlockers(a)
           c == ShedSteps(b)
           d == ShedTask(c)
           y == IF Over(fewer) THEN d ELSE fewer
<1>1. Fitted(m, now, p) = y
  BY DEF Fitted, Pressed, ShedEphemeral
<1>2. /\ HasRows(t) /\ Reduced(t, m, p)
      /\ \A r \in RowsOf(t) : Lasting(r, ProtectedIds(m, p), now)
  BY TidiedReduces DEF Reduced
<1> HIDE DEF t
<1>3. Reduced(t, t, p)
  BY <1>2 DEF Reduced, Descends, Protects, IsRow
<1>4. Reduced(ShedRows(t, p), t, p)
  BY <1>2, ShedRowsReduces
<1>5. HasRows(fewer) /\ Reduced(fewer, t, p)
  BY <1>3, <1>4 DEF Reduced
<1> HIDE DEF fewer
<1>6. HasRows(a) /\ Reduced(a, fewer, p)
  BY <1>5, OtherStages, SameIsReduced
<1> HIDE DEF a
<1>7. HasRows(b) /\ Reduced(b, a, p)
  BY <1>6, OtherStages, SameIsReduced
<1> HIDE DEF b
<1>8. HasRows(c) /\ Reduced(c, b, p)
  BY <1>7, OtherStages, SameIsReduced
<1> HIDE DEF c
<1>9. HasRows(d) /\ Reduced(d, c, p)
  BY <1>8, OtherStages, SameIsReduced
<1> HIDE DEF d
<1>10. Reduced(d, t, p)
  <2>1. Reduced(a, t, p)
    BY <1>5, <1>6, ReducedTwice
  <2>2. Reduced(b, t, p)
    BY <1>7, <2>1, ReducedTwice
  <2>3. Reduced(c, t, p)
    BY <1>8, <2>2, ReducedTwice
  <2> QED
    BY <1>9, <2>3, ReducedTwice
<1>11. Reduced(y, t, p)
  BY <1>5, <1>10
<1> HIDE DEF y
<1>12. Reduced(y, m, p)
  BY <1>2, <1>11, ReducedTwice
<1>13. ASSUME NEW r \in RowsOf(y) PROVE Lasting(r, ProtectedIds(m, p), now)
  <2>1. PICK q \in RowsOf(t) : IsRow(r, q)
    BY <1>11 DEF Reduced, Descends
  <2>2. Lasting(q, ProtectedIds(m, p), now)
    BY <1>2
  <2> QED
    BY <2>1, <2>2 DEF Lasting, IsRow, Has
<1> QED
  BY <1>1, <1>12, <1>13
-----------------------------------------------------------------------------
(* What reading makes of the rows                                          *)

\* Of the repairs only those of the decisions touch the rows.
LEMMA RepairedRows ==
    ASSUME NEW m, "decisions" \in DOMAIN m
    PROVE  "decisions" \in DOMAIN Repaired(m)
           /\ Repaired(m).decisions = RepairDecisions(m.decisions)
<1> DEFINE a == QuarantineStaleCache(m)
           b == [a EXCEPT !.decisions = RepairDecisions(@)]
           c == RepairState(b)
           d == RepairOversized(c)
<1>1. "decisions" \in DOMAIN a /\ a.decisions = m.decisions
  BY DEF QuarantineStaleCache, KeepCache, Counted
<1> HIDE DEF a
<1>2. "decisions" \in DOMAIN b /\ b.decisions = RepairDecisions(m.decisions)
  BY <1>1
<1> HIDE DEF b
<1>3. "decisions" \in DOMAIN c /\ c.decisions = b.decisions
  BY <1>2 DEF RepairState, Mapped
<1> HIDE DEF c
<1>4. "decisions" \in DOMAIN d /\ d.decisions = c.decisions
  BY <1>3 DEF RepairOversized
<1>5. d = Repaired(m)
  BY DEF Repaired, a, b, c
<1> HIDE DEF d
<1> QED
  BY <1>2, <1>3, <1>4, <1>5

\* The rows of a list and their places in it.
LEMMA RowAt ==
    ASSUME NEW rows \in Seq(Decision)
    PROVE  /\ Len(rows) \in Nat /\ DOMAIN rows = 1 .. Len(rows)
           /\ IsFiniteSet(DOMAIN rows)
           /\ rows = [i \in DOMAIN rows |-> rows[i]]
           /\ \A i \in DOMAIN rows : rows[i] \in Decision /\ rows[i] \in Range(rows)
<1>1. Len(rows) \in Nat /\ DOMAIN rows = 1 .. Len(rows)
      /\ rows \in [1 .. Len(rows) -> Decision]
  BY LenProperties
<1>2. IsFiniteSet(1 .. Len(rows))
  BY <1>1, FS_Interval
<1> QED
  BY <1>1, <1>2 DEF Range

\* A row of a unique id has no namesakes.
LEMMA UniqueHasNoNamesakes ==
    ASSUME NEW rows \in Seq(Decision), Unique(rows), NEW i \in DOMAIN rows
    PROVE  Ordinal(rows, i) = 0 /\ ~Ambiguous(rows, i)
<1>1. i \in Nat
  BY RowAt
<1>2. Namesakes(rows, i) = {i}
  BY DEF Namesakes, Unique
<1>3. ~Earlier(rows, i, i)
  BY <1>1 DEF Earlier
<1>4. {j \in Namesakes(rows, i) : Earlier(rows, j, i)} = {}
  BY <1>2, <1>3
<1>5. Ordinal(rows, i) = 0
  BY <1>4, FS_EmptySet DEF Ordinal
<1>6. Cardinality(Namesakes(rows, i)) = 1
  BY <1>2, FS_Singleton
<1> QED
  BY <1>5, <1>6 DEF Ambiguous

\* What is legal needs no repair.
LEMMA LegalStays ==
    ASSUME NEW rows \in Seq(Decision), Unique(rows), \A r \in Range(rows) : LegalRow(r)
    PROVE  RepairDecisions(rows) = rows
<1>1. /\ rows = [i \in DOMAIN rows |-> rows[i]]
      /\ \A i \in DOMAIN rows : rows[i] \in Decision /\ LegalRow(rows[i])
  BY RowAt
<1>2. RepairUnverified(rows) = rows
  <2>1. \A i \in DOMAIN rows : ~(rows[i].by = "human" /\ ~Has(rows[i], "human_review"))
    BY <1>1 DEF LegalRow, ClaimsHuman, ClaimHolds, Has
  <2>2. RepairUnverified(rows) = [i \in DOMAIN rows |-> rows[i]]
    BY <2>1 DEF RepairUnverified, Mapped
  <2> QED
    BY <1>1, <2>2
<1>3. RepairDuplicates(rows) = rows
  <2> DEFINE row(i) == IF Ambiguous(rows, i) THEN Unconfirmed(rows[i]) ELSE rows[i]
             fixed(i) == [row(i) EXCEPT !.id = RepairedId(rows, i),
                                        !.lineage = {RepairedLink(rows, l) : l \in @}]
  <2>1. ASSUME NEW i \in DOMAIN rows PROVE fixed(i) = rows[i]
    <3>1. Ordinal(rows, i) = 0 /\ ~Ambiguous(rows, i)
      BY UniqueHasNoNamesakes
    <3>2. rows[i].id \notin Overlong /\ NamedIn(rows[i]) \cap Overlong = {}
      BY <1>1 DEF LegalRow
    <3>3. RepairedId(rows, i) = rows[i].id
      BY <3>1, <3>2 DEF RepairedId
    <3>4. \A l \in rows[i].lineage : RepairedLink(rows, l) = l
      BY <3>2 DEF RepairedLink, NamedIn
    <3>5. {RepairedLink(rows, l) : l \in rows[i].lineage} = rows[i].lineage
      BY <3>4
    <3>6. fixed(i) = [rows[i] EXCEPT !.id = rows[i].id, !.lineage = rows[i].lineage]
      BY <3>1, <3>3, <3>5
    <3>7. rows[i] \in Decision
      BY <1>1
    <3> HIDE DEF fixed
    <3> QED
      BY <3>6, <3>7 DEF Decision
  <2>2. RepairDuplicates(rows) = [i \in DOMAIN rows |-> fixed(i)]
    BY DEF RepairDuplicates
  <2> HIDE DEF fixed
  <2>3. [i \in DOMAIN rows |-> fixed(i)] = [i \in DOMAIN rows |-> rows[i]]
    BY <2>1
  <2> QED
    BY <1>1, <2>2, <2>3
<1>4. RepairClaims(rows) = rows
  <2>1. \A i \in DOMAIN rows : rows[i].by # "unproven-llm"
    BY <1>1 DEF LegalRow
  <2>2. RepairClaims(rows) = [i \in DOMAIN rows |-> rows[i]]
    BY <2>1 DEF RepairClaims, Mapped
  <2> QED
    BY <1>1, <2>2
<1> QED
  BY <1>2, <1>3, <1>4 DEF RepairDecisions

\* What can be read is legal.
LEMMA ReadableIsLegal ==
    ASSUME NEW m, Load(m) # Unreadable
    PROVE  /\ Upgraded(m).version = CurrentVersion
           /\ Load(m) = Repaired(Upgraded(m)) /\ Legal(Load(m))
BY DEF Load

\* A legal document is read with the rows that it has.
LEMMA LegalIsRead ==
    ASSUME NEW m, HasRows(m), Legal(m), Load(m) # Unreadable
    PROVE  HasRows(Load(m)) /\ RowsOf(Load(m)) = RowsOf(m)
<1>1. Upgraded(m) = m
  BY DEF Upgraded, Legal, CurrentVersion
<1>2. Load(m) = Repaired(m)
  BY <1>1, ReadableIsLegal
<1>3. RepairDecisions(m.decisions) = m.decisions
  BY LegalStays DEF Legal, HasRows
<1>4. "decisions" \in DOMAIN Load(m) /\ Load(m).decisions = m.decisions
  BY <1>2, <1>3, RepairedRows DEF HasRows
<1> QED
  BY <1>4 DEF HasRows, RowsOf
\* y is x with other authors and flags, and with no review that x had not.
Retold(y, x) ==
    /\ y \in Seq(Decision) /\ DOMAIN y = DOMAIN x
    /\ \A i \in DOMAIN x :
          /\ y[i].id = x[i].id /\ y[i].key = x[i].key /\ y[i].stamp = x[i].stamp
          /\ y[i].lineage = x[i].lineage
          /\ Has(y[i], "human_review") => Has(x[i], "human_review")

\* A list made row by row.
LEMMA RowByRow ==
    ASSUME NEW x \in Seq(Decision), NEW y, DOMAIN y = DOMAIN x,
           y = [i \in DOMAIN x |-> y[i]], \A i \in DOMAIN x : y[i] \in Decision
    PROVE  y \in Seq(Decision)
<1>1. Len(x) \in Nat /\ DOMAIN x = 1 .. Len(x)
  BY LenProperties
<1>2. y \in [1 .. Len(x) -> Decision]
  BY <1>1
<1> QED
  BY <1>1, <1>2, SeqDef

\* What a row may no longer claim leaves it a row.
LEMMA ClaimsTaken ==
    ASSUME NEW r \in Decision
    PROVE  /\ AsLegacy(r) \in Decision /\ Unconfirmed(r) \in Decision
           /\ AsLegacy(r).id = r.id /\ AsLegacy(r).key = r.key /\ AsLegacy(r).stamp = r.stamp
           /\ AsLegacy(r).lineage = r.lineage /\ AsLegacy(r).flags = r.flags
           /\ Unconfirmed(r).id = r.id /\ Unconfirmed(r).key = r.key
           /\ Unconfirmed(r).stamp = r.stamp /\ Unconfirmed(r).lineage = r.lineage
           /\ ~Has(Unconfirmed(r), "human_review")
<1>1. AsLegacy(r) \in Decision
  BY DEF Decision, AsLegacy, Authors
<1>2. Unconfirmed(r) \in Decision
  BY DEF Decision, Unconfirmed, Authors, Flags
<1> QED
  BY <1>1, <1>2 DEF Decision, AsLegacy, Unconfirmed, Has

\* The migrations, the repair of unverified claims and that of claims of the
\* LLM tell the rows anew.
LEMMA Retellings ==
    ASSUME NEW x \in Seq(Decision)
    PROVE  /\ Retold(x, x) /\ Retold(Mapped(x, AsLegacy), x)
           /\ Retold(RepairUnverified(x), x) /\ Retold(RepairClaims(x), x)
<1>1. \A i \in DOMAIN x : x[i] \in Decision
  BY RowAt
<1>2. Retold(x, x)
  BY DEF Retold
<1>3. Retold(Mapped(x, AsLegacy), x)
  <2> DEFINE y == [i \in DOMAIN x |-> AsLegacy(x[i])]
  <2>1. Mapped(x, AsLegacy) = y
    BY DEF Mapped
  <2>2. \A i \in DOMAIN x : y[i] = AsLegacy(x[i]) /\ y[i] \in Decision
    BY <1>1, ClaimsTaken
  <2>3. DOMAIN y = DOMAIN x /\ y = [i \in DOMAIN x |-> y[i]]
    OBVIOUS
  <2> HIDE DEF y
  <2>4. y \in Seq(Decision)
    BY <2>2, <2>3, RowByRow
  <2>5. Retold(y, x)
    BY <1>1, <2>2, <2>3, <2>4, ClaimsTaken DEF Retold, Has
  <2> QED
    BY <2>1, <2>5
<1>4. Retold(RepairUnverified(x), x)
  <2> DEFINE y == [i \in DOMAIN x |-> IF x[i].by = "human" /\ ~Has(x[i], "human_review")
                                      THEN Unconfirmed(x[i]) ELSE x[i]]
  <2>1. RepairUnverified(x) = y
    BY DEF RepairUnverified, Mapped
  <2>2. \A i \in DOMAIN x : (y[i] = Unconfirmed(x[i]) \/ y[i] = x[i]) /\ y[i] \in Decision
    BY <1>1, ClaimsTaken
  <2>3. DOMAIN y = DOMAIN x /\ y = [i \in DOMAIN x |-> y[i]]
    OBVIOUS
  <2> HIDE DEF y
  <2>4. y \in Seq(Decision)
    BY <2>2, <2>3, RowByRow
  <2>5. Retold(y, x)
    BY <1>1, <2>2, <2>3, <2>4, ClaimsTaken DEF Retold
  <2> QED
    BY <2>1, <2>5
<1>5. Retold(RepairClaims(x), x)
  <2> DEFINE y == [i \in DOMAIN x |-> IF x[i].by = "unproven-llm" THEN AsLegacy(x[i])
                                      ELSE x[i]]
  <2>1. RepairClaims(x) = y
    BY DEF RepairClaims, Mapped
  <2>2. \A i \in DOMAIN x : (y[i] = AsLegacy(x[i]) \/ y[i] = x[i]) /\ y[i] \in Decision
    BY <1>1, ClaimsTaken
  <2>3. DOMAIN y = DOMAIN x /\ y = [i \in DOMAIN x |-> y[i]]
    OBVIOUS
  <2> HIDE DEF y
  <2>4. y \in Seq(Decision)
    BY <2>2, <2>3, RowByRow
  <2>5. Retold(y, x)
    BY <1>1, <2>2, <2>3, <2>4, ClaimsTaken DEF Retold, Has
  <2> QED
    BY <2>1, <2>5
<1> QED
  BY <1>2, <1>3, <1>4, <1>5

\* Told anew twice.
LEMMA RetoldTwice ==
    ASSUME NEW x, NEW y, NEW z, Retold(y, x), Retold(z, y)
    PROVE  Retold(z, x)
BY DEF Retold

\* What is told anew has the same namesakes in the same order.
LEMMA RetoldNames ==
    ASSUME NEW x, NEW y, Retold(y, x)
    PROVE  /\ \A i \in DOMAIN x : /\ Namesakes(y, i) = Namesakes(x, i)
                                  /\ Ordinal(y, i) = Ordinal(x, i)
                                  /\ RepairedId(y, i) = RepairedId(x, i)
           /\ \A l : RepairedLink(y, l) = RepairedLink(x, l)
<1>1. ASSUME NEW i \in DOMAIN x PROVE Namesakes(y, i) = Namesakes(x, i)
  BY DEF Namesakes, Retold
<1>2. \A i, j \in DOMAIN x : Earlier(y, j, i) <=> Earlier(x, j, i)
  BY DEF Earlier, Retold
<1>3. ASSUME NEW i \in DOMAIN x PROVE Ordinal(y, i) = Ordinal(x, i)
  <2>1. \A j \in Namesakes(x, i) : j \in DOMAIN x
    BY DEF Namesakes
  <2>2. {j \in Namesakes(y, i) : Earlier(y, j, i)} = {j \in Namesakes(x, i) : Earlier(x, j, i)}
    BY <1>1, <1>2, <2>1
  <2> QED
    BY <2>2 DEF Ordinal
<1>4. ASSUME NEW i \in DOMAIN x PROVE RepairedId(y, i) = RepairedId(x, i)
  BY <1>3 DEF RepairedId, Retold
<1>5. ASSUME NEW l PROVE RepairedLink(y, l) = RepairedLink(x, l)
  <2>1. (\E r \in Range(y) : r.id = l.id) <=> (\E r \in Range(x) : r.id = l.id)
    BY DEF Range, Retold
  <2> QED
    BY <2>1 DEF RepairedLink
<1> QED
  BY <1>1, <1>3, <1>4, <1>5
\* A repaired id is an id, and so is a repaired reference's.
LEMMA RepairedIsId ==
    ASSUME NEW x \in Seq(Decision)
    PROVE  /\ \A i \in DOMAIN x : Ordinal(x, i) \in Nat /\ RepairedId(x, i) \in Id
           /\ \A l \in [id : Id, key : Nat] :
                 /\ RepairedLink(x, l) \in [id : Id, key : Nat]
                 /\ RepairedLink(x, l).key = l.key
<1>1. IsFiniteSet(DOMAIN x) /\ \A i \in DOMAIN x : x[i] \in Decision
  BY RowAt
<1>2. ASSUME NEW id \in Id, NEW n \in Nat PROVE DerivedId(id, n) \in Id
  <2>1. n \in Name \cup Nat
    OBVIOUS
  <2> QED
    BY <2>1, AppendProperties DEF Id, DerivedId
<1>3. ASSUME NEW i \in DOMAIN x PROVE Ordinal(x, i) \in Nat
  <2> DEFINE before == {j \in Namesakes(x, i) : Earlier(x, j, i)}
  <2>1. before \subseteq DOMAIN x
    BY DEF Namesakes
  <2>2. Ordinal(x, i) = Cardinality(before)
    BY DEF Ordinal
  <2> HIDE DEF before
  <2> QED
    BY <1>1, <2>1, <2>2, PartIsSmaller
<1>4. ASSUME NEW i \in DOMAIN x PROVE RepairedId(x, i) \in Id
  <2>1. x[i].id \in Id
    BY <1>1 DEF Decision
  <2> QED
    BY <1>2, <1>3, <2>1 DEF RepairedId
<1>5. ASSUME NEW l \in [id : Id, key : Nat]
      PROVE  RepairedLink(x, l) \in [id : Id, key : Nat] /\ RepairedLink(x, l).key = l.key
  <2>1. l.id \in Id /\ DerivedId(l.id, 0) \in Id
    BY <1>2
  <2> QED
    BY <2>1 DEF RepairedLink
<1> QED
  BY <1>3, <1>4, <1>5

\* What the repair of shared ids makes of the rows: a review stays with a row
\* that has no namesake.
LEMMA DuplicatesRepaired ==
    ASSUME NEW x \in Seq(Decision)
    PROVE  LET y == RepairDuplicates(x) IN
           /\ y \in Seq(Decision) /\ DOMAIN y = DOMAIN x
           /\ \A i \in DOMAIN x :
                 /\ y[i].id = RepairedId(x, i) /\ y[i].key = x[i].key
                 /\ y[i].lineage = {RepairedLink(x, l) : l \in x[i].lineage}
                 /\ Has(y[i], "human_review") =>
                       Has(x[i], "human_review") /\ Namesakes(x, i) = {i}
<1> DEFINE row(i) == IF Ambiguous(x, i) THEN Unconfirmed(x[i]) ELSE x[i]
           links(i) == {RepairedLink(x, l) : l \in x[i].lineage}
           fixed(i) == [row(i) EXCEPT !.id = RepairedId(x, i), !.lineage = links(i)]
           y == [i \in DOMAIN x |-> fixed(i)]
<1>1. IsFiniteSet(DOMAIN x) /\ \A i \in DOMAIN x : x[i] \in Decision
  BY RowAt
<1>2. ASSUME NEW i \in DOMAIN x
      PROVE  /\ row(i) \in Decision /\ row(i).key = x[i].key
             /\ row(i).lineage = x[i].lineage
  BY <1>1, ClaimsTaken
<1>3. ASSUME NEW i \in DOMAIN x, Has(row(i), "human_review")
      PROVE  Has(x[i], "human_review") /\ Namesakes(x, i) = {i}
  <2>1. ~Ambiguous(x, i) /\ Has(x[i], "human_review")
    BY <1>1, <1>3, ClaimsTaken
  <2> DEFINE N == Namesakes(x, i)
  <2>2. N \subseteq DOMAIN x /\ i \in N
    BY DEF Namesakes
  <2>3. ~(Cardinality(N) >= 2)
    BY <2>1, <2>2 DEF Ambiguous
  <2> HIDE DEF N
  <2>4. IsFiniteSet(N) /\ Cardinality(N) \in Nat
    BY <1>1, <2>2, PartIsSmaller
  <2>5. IsFiniteSet(N \ {i}) /\ Cardinality(N \ {i}) = Cardinality(N) - 1
    BY <2>2, <2>4, FS_RemoveElement
  <2>6. Cardinality(N \ {i}) \in Nat
    BY <2>5, FS_CardinalityType
  <2>7. Cardinality(N \ {i}) = 0
    BY <2>3, <2>4, <2>5, <2>6
  <2>8. N \ {i} = {}
    BY <2>5, <2>7, FS_EmptySet
  <2> QED
    BY <2>1, <2>2, <2>8 DEF N
<1>4. ASSUME NEW i \in DOMAIN x PROVE links(i) \subseteq [id : Id, key : Nat]
  <2>1. x[i].lineage \subseteq [id : Id, key : Nat]
    BY <1>1 DEF Decision
  <2> QED
    BY <2>1, RepairedIsId
<1>5. RepairDuplicates(x) = y
  <2>1. \A i \in DOMAIN x :
           fixed(i) = [row(i) EXCEPT !.id = RepairedId(x, i),
                                     !.lineage = {RepairedLink(x, l) : l \in @}]
    BY <1>2
  <2> QED
    BY <2>1 DEF RepairDuplicates
<1> HIDE DEF row, links
<1>6. ASSUME NEW i \in DOMAIN x
      PROVE  /\ fixed(i) \in Decision /\ fixed(i).id = RepairedId(x, i)
             /\ fixed(i).key = x[i].key /\ fixed(i).lineage = links(i)
             /\ fixed(i).flags = row(i).flags
  <2>1. RepairedId(x, i) \in Id
    BY RepairedIsId
  <2> QED
    BY <1>2, <1>4, <2>1 DEF Decision
<1>7. \A i \in DOMAIN x : y[i] = fixed(i)
  OBVIOUS
<1>8. DOMAIN y = DOMAIN x /\ y = [i \in DOMAIN x |-> y[i]]
  OBVIOUS
<1> HIDE DEF y, fixed
<1>9. y \in Seq(Decision)
  BY <1>6, <1>7, <1>8, RowByRow
<1>10. ASSUME NEW i \in DOMAIN x, Has(y[i], "human_review") PROVE Has(row(i), "human_review")
  BY <1>6, <1>7, <1>10 DEF Has
<1>11. ASSUME NEW i \in DOMAIN x
       PROVE  /\ y[i].id = RepairedId(x, i) /\ y[i].key = x[i].key
              /\ y[i].lineage = {RepairedLink(x, l) : l \in x[i].lineage}
  BY <1>6, <1>7 DEF links
<1> QED
  BY <1>3, <1>5, <1>8, <1>9, <1>10, <1>11
\* How a document of an earlier release is read: row by row.
LEMMA OldIsRead ==
    ASSUME NEW m \in Document, Load(m) # Unreadable
    PROVE  LET x == m.decisions  y == Load(m).decisions IN
           /\ HasRows(Load(m)) /\ DOMAIN y = DOMAIN x
           /\ \A i \in DOMAIN x :
                 /\ y[i].id = RepairedId(x, i) /\ y[i].key = x[i].key
                 /\ y[i].lineage = {RepairedLink(x, l) : l \in x[i].lineage}
                 /\ Has(y[i], "human_review") =>
                       Has(x[i], "human_review") /\ Namesakes(x, i) = {i}
<1> DEFINE x == m.decisions
           u == Upgraded(m)
           a == u.decisions
           b == RepairUnverified(a)
           c == RepairDuplicates(b)
           d == RepairClaims(c)
<1>1. x \in Seq(Decision) /\ "decisions" \in DOMAIN m
  BY DEF Document
<1>2. "decisions" \in DOMAIN u /\ (a = x \/ a = Mapped(x, AsLegacy))
  <2>1. /\ "decisions" \in DOMAIN MigrateV1ToV2(m) /\ MigrateV1ToV2(m).decisions = x
    BY <1>1 DEF MigrateV1ToV2
  <2>2. ASSUME NEW k, "decisions" \in DOMAIN k
        PROVE  /\ "decisions" \in DOMAIN MigrateV2ToV3(k)
               /\ MigrateV2ToV3(k).decisions = Mapped(k.decisions, AsLegacy)
    BY <2>2 DEF MigrateV2ToV3, KeepCache, Counted, Mapped
  <2> QED
    BY <1>1, <2>1, <2>2 DEF Upgraded
<1>3. Retold(a, x)
  BY <1>1, <1>2, Retellings
<1>4. "decisions" \in DOMAIN Load(m) /\ Load(m).decisions = d
  <2>1. Load(m) = Repaired(u)
    BY ReadableIsLegal
  <2> QED
    BY <1>2, <2>1, RepairedRows DEF RepairDecisions
<1> HIDE DEF u, a
<1>5. Retold(b, a)
  BY <1>3, Retellings DEF Retold
<1>6. Retold(b, x)
  BY <1>3, <1>5, RetoldTwice
<1> HIDE DEF b
<1>7. b \in Seq(Decision) /\ DOMAIN b = DOMAIN x
  BY <1>6 DEF Retold
<1>8. /\ c \in Seq(Decision) /\ DOMAIN c = DOMAIN x
      /\ \A i \in DOMAIN x :
            /\ c[i].id = RepairedId(b, i) /\ c[i].key = b[i].key
            /\ c[i].lineage = {RepairedLink(b, l) : l \in b[i].lineage}
            /\ Has(c[i], "human_review") => Has(b[i], "human_review") /\ Namesakes(b, i) = {i}
  BY <1>7, DuplicatesRepaired
<1> HIDE DEF c
<1>9. Retold(d, c)
  BY <1>8, Retellings
<1> HIDE DEF d
<1>10. HasRows(Load(m)) /\ DOMAIN d = DOMAIN x
  BY <1>4, <1>8, <1>9 DEF HasRows, Retold
<1>11. ASSUME NEW i \in DOMAIN x
       PROVE  /\ d[i].id = RepairedId(x, i) /\ d[i].key = x[i].key
              /\ d[i].lineage = {RepairedLink(x, l) : l \in x[i].lineage}
              /\ Has(d[i], "human_review") =>
                    Has(x[i], "human_review") /\ Namesakes(x, i) = {i}
  <2>1. /\ d[i].id = c[i].id /\ d[i].key = c[i].key /\ d[i].lineage = c[i].lineage
        /\ Has(d[i], "human_review") => Has(c[i], "human_review")
    BY <1>8, <1>9 DEF Retold
  <2>2. /\ b[i].key = x[i].key /\ b[i].lineage = x[i].lineage
        /\ Has(b[i], "human_review") => Has(x[i], "human_review")
    BY <1>6 DEF Retold
  <2>3. Namesakes(b, i) = Namesakes(x, i) /\ RepairedId(b, i) = RepairedId(x, i)
    BY <1>6, RetoldNames
  <2>4. {RepairedLink(b, l) : l \in b[i].lineage} = {RepairedLink(x, l) : l \in x[i].lineage}
    <3>1. \A l : RepairedLink(b, l) = RepairedLink(x, l)
      BY <1>6, RetoldNames
    <3> QED
      BY <2>2, <3>1
  <2>5. /\ c[i].id = RepairedId(b, i) /\ c[i].key = b[i].key
        /\ c[i].lineage = {RepairedLink(b, l) : l \in b[i].lineage}
        /\ Has(c[i], "human_review") => Has(b[i], "human_review") /\ Namesakes(b, i) = {i}
    BY <1>8
  <2> QED
    BY <2>1, <2>2, <2>3, <2>4, <2>5
<1> QED
  BY <1>4, <1>10, <1>11

-----------------------------------------------------------------------------
(* What a document is good for                                             *)

\* Who claims a human's trust is a decision that a human confirmed.
Trusts(rows, human) == \A r \in rows : ClaimsHuman(r) => r.key \in human

\* What the human was shown is what the id leads to.
ShowsRight(rows, s) == s # Nothing => \A r \in rows : r.id = s.id => r.key = s.key

\* No id or key is one that is yet to be issued.
NotYet(x, n) == x.key < FirstKey + n /\ \A k \in Nat : x.id = <<"new", k>> => k < n

Issued(rows, n) == \A r \in rows : NotYet(r, n) /\ \A l \in r.lineage : NotYet(l, n)

\* References lead where they were meant to.
Linked(rows) == \A r, q \in rows : \A l \in r.lineage : q.id = l.id <=> q.key = l.key

Good(m, n, human, s) ==
    /\ HasRows(m)
    /\ Trusts(RowsOf(m), human) /\ ShowsRight(RowsOf(m), s)
    /\ Issued(RowsOf(m), n) /\ Linked(RowsOf(m))

\* The inductive invariant: what is read and what is about to be written are
\* good, and what the budget makes of it is what is left of it.
IInv ==
    /\ turns \in Nat /\ clock \in Nat
    /\ DOMAIN pending = {"memory", "protection", "verdict"}
    /\ shown # Nothing => shown.key \in Nat /\ NotYet(shown, turns)
    /\ Read # Unreadable => Good(Read, turns, confirmed, shown)
    /\ pending # Idle =>
          /\ Good(pending.memory, turns, confirmed, shown)
          /\ pending.verdict.fits =>
                pending.verdict.memory = Fitted(pending.memory, clock, pending.protection)
-----------------------------------------------------------------------------
(* What keeps a document good                                              *)

\* A row with the id, the key and the references of another.
Follows(r, q) == r.id = q.id /\ r.key = q.key /\ r.lineage = q.lineage

\* Rows that follow good ones are good if their claims are.
LEMMA FollowersGood ==
    ASSUME NEW x, NEW y, NEW n, NEW human, NEW s, NEW trusting, Good(x, n, human, s),
           HasRows(y), \A r \in RowsOf(y) : \E q \in RowsOf(x) : Follows(r, q),
           Trusts(RowsOf(y), trusting)
    PROVE  Good(y, n, trusting, s)
<1>1. /\ ShowsRight(RowsOf(x), s) /\ Issued(RowsOf(x), n) /\ Linked(RowsOf(x))
  BY DEF Good
<1>2. ShowsRight(RowsOf(y), s)
  BY <1>1 DEF ShowsRight, Follows
<1>3. Issued(RowsOf(y), n)
  <2> SUFFICES ASSUME NEW r \in RowsOf(y)
               PROVE  NotYet(r, n) /\ \A l \in r.lineage : NotYet(l, n)
    BY DEF Issued
  <2>1. PICK q \in RowsOf(x) : Follows(r, q)
    OBVIOUS
  <2>2. NotYet(q, n) /\ \A l \in q.lineage : NotYet(l, n)
    BY <1>1 DEF Issued
  <2> QED
    BY <2>1, <2>2 DEF Follows, NotYet
<1>4. Linked(RowsOf(y))
  <2> SUFFICES ASSUME NEW r \in RowsOf(y), NEW z \in RowsOf(y), NEW l \in r.lineage
               PROVE  z.id = l.id <=> z.key = l.key
    BY DEF Linked
  <2>1. PICK q \in RowsOf(x) : Follows(r, q)
    OBVIOUS
  <2>2. PICK k \in RowsOf(x) : Follows(z, k)
    OBVIOUS
  <2> QED
    BY <1>1, <2>1, <2>2 DEF Linked, Follows
<1> QED
  BY <1>2, <1>3, <1>4 DEF Good

\* What the budget leaves of a good document is good.
LEMMA ReducedGood ==
    ASSUME NEW x, NEW y, NEW p, NEW n, NEW human, NEW s,
           Good(x, n, human, s), Reduced(y, x, p)
    PROVE  Good(y, n, human, s)
<1>1. HasRows(y)
  BY DEF Reduced
<1>2. \A r \in RowsOf(y) : \E q \in RowsOf(x) :
          Follows(r, q) /\ (ClaimsHuman(r) => ClaimsHuman(q))
  BY DEF Reduced, Descends, IsRow, Follows, ClaimsHuman, Has
<1>3. Trusts(RowsOf(y), human)
  BY <1>2 DEF Good, Trusts, Follows
<1> QED
  BY <1>1, <1>2, <1>3, FollowersGood

\* A document stays good while numbers are issued, humans confirm and look
\* away.
LEMMA GoodLater ==
    ASSUME NEW m, NEW n \in Nat, NEW k \in Nat, k >= n, NEW human, NEW more,
           human \subseteq more, NEW s, NEW t, t = s \/ t = Nothing, Good(m, n, human, s)
    PROVE  Good(m, k, more, t)
<1>1. HasRows(m) /\ Linked(RowsOf(m))
  BY DEF Good
<1>2. Trusts(RowsOf(m), more) /\ ShowsRight(RowsOf(m), t)
  BY DEF Good, Trusts, ShowsRight
<1>3. \A r \in RowsOf(m) : r.key \in Nat /\ \A l \in r.lineage : l.key \in Nat
  <2> SUFFICES ASSUME NEW r \in RowsOf(m) PROVE r \in Decision
    BY DEF Decision
  <2> QED
    BY RangeOfSeq DEF Good, HasRows, RowsOf
<1>4. ASSUME NEW x, x.key \in Nat, NotYet(x, n) PROVE NotYet(x, k)
  <2>1. x.key < FirstKey + k
    BY <1>4 DEF NotYet, FirstKey
  <2>2. ASSUME NEW i \in Nat, x.id = <<"new", i>> PROVE i < k
    <3>1. i < n
      BY <1>4, <2>2 DEF NotYet
    <3> QED
      BY <3>1
  <2> QED
    BY <2>1, <2>2 DEF NotYet
<1>5. Issued(RowsOf(m), k)
  <2> SUFFICES ASSUME NEW r \in RowsOf(m)
               PROVE  NotYet(r, k) /\ \A l \in r.lineage : NotYet(l, k)
    BY DEF Issued
  <2>1. NotYet(r, n) /\ \A l \in r.lineage : NotYet(l, n)
    BY DEF Good, Issued
  <2> QED
    BY <1>3, <1>4, <2>1
<1> QED
  BY <1>1, <1>2, <1>5 DEF Good

\* The reference to the decision with the number n.
NewLink(n) == [id |-> <<"new", n>>, key |-> FirstKey + n]

\* Good, but that references may be to the row that comes next.
AlmostGood(m, n, human, s) ==
    /\ HasRows(m) /\ Trusts(RowsOf(m), human) /\ ShowsRight(RowsOf(m), s)
    /\ \A r \in RowsOf(m) : /\ NotYet(r, n)
                            /\ \A l \in r.lineage : NotYet(l, n) \/ l = NewLink(n)
    /\ Linked(RowsOf(m))

\* A new row, as NewRow makes it.
IsNew(r, n) ==
    r \in Decision /\ r.id = NewLink(n).id /\ r.key = NewLink(n).key
    /\ ~ClaimsHuman(r) /\ r.lineage = {}

\* AddRow makes a good document of such a one (mergeDecisions).
LEMMA AddedGood ==
    ASSUME NEW m, NEW n \in Nat, NEW human, NEW s, AlmostGood(m, n, human, s),
           s # Nothing => NotYet(s, n), NEW q, IsNew(q, n)
    PROVE  Good(AddRow(m, q), n + 1, human, s)
<1> DEFINE y == AddRow(m, q)
<1>1. HasRows(y) /\ RowsOf(y) = RowsOf(m) \cup {q}
  <2> DEFINE a == Append(m.decisions, q)
  <2>1. m.decisions \in Seq(Decision) /\ "decisions" \in DOMAIN m /\ q \in Decision
    BY DEF AlmostGood, HasRows, IsNew
  <2>2. "decisions" \in DOMAIN y /\ y.decisions = a
    BY <2>1 DEF AddRow
  <2>3. a \in Seq(Decision) /\ a = m.decisions \o <<q>>
    BY <2>1, AppendProperties, AppendIsConcat
  <2>4. <<q>> \in Seq(Decision) /\ Range(<<q>>) = {q}
    BY <2>1 DEF Range
  <2> DEFINE one == <<q>>
  <2> HIDE DEF a, y
  <2>5. Range(a) = Range(m.decisions) \cup {q}
    <3>1. one \in Seq(Decision) /\ Range(one) = {q} /\ a = m.decisions \o one
      BY <2>3, <2>4 DEF one
    <3> HIDE DEF one
    <3> QED
      BY <2>1, <3>1, RangeConcatenation
  <2> QED
    BY <2>2, <2>3, <2>5 DEF HasRows, RowsOf
<1> HIDE DEF y
<1>2. \A r \in RowsOf(m) : r.key \in Nat /\ \A l \in r.lineage : l.key \in Nat
  <2> SUFFICES ASSUME NEW r \in RowsOf(m) PROVE r \in Decision
    BY DEF Decision
  <2> QED
    BY RangeOfSeq DEF AlmostGood, HasRows, RowsOf
<1>3. ASSUME NEW x, NotYet(x, n) PROVE x.id # NewLink(n).id /\ x.key # NewLink(n).key
  BY <1>3 DEF NotYet, NewLink, FirstKey
<1>4. ASSUME NEW x, x.key \in Nat, NotYet(x, n) PROVE NotYet(x, n + 1)
  BY <1>4 DEF NotYet, FirstKey
<1>5. ASSUME NEW x, x.id = NewLink(n).id, x.key = NewLink(n).key PROVE NotYet(x, n + 1)
  BY <1>5 DEF NotYet, NewLink, FirstKey
<1>6. q.id = NewLink(n).id /\ q.key = NewLink(n).key /\ ~ClaimsHuman(q) /\ q.lineage = {}
  BY DEF IsNew
<1>7. Trusts(RowsOf(y), human)
  BY <1>1, <1>6 DEF AlmostGood, Trusts
<1>8. ShowsRight(RowsOf(y), s)
  BY <1>1, <1>3, <1>6 DEF AlmostGood, ShowsRight
<1>9. Issued(RowsOf(y), n + 1)
  BY <1>1, <1>2, <1>4, <1>5, <1>6 DEF AlmostGood, Issued
<1>10. Linked(RowsOf(y))
  <2> SUFFICES ASSUME NEW r \in RowsOf(m), NEW z \in RowsOf(y), NEW l \in r.lineage
               PROVE  z.id = l.id <=> z.key = l.key
    BY <1>1, <1>6 DEF Linked
  <2>1. CASE z \in RowsOf(m)
    BY <2>1 DEF AlmostGood, Linked
  <2>2. CASE z = q
    <3>1. NotYet(l, n) \/ l = NewLink(n)
      BY DEF AlmostGood
    <3> QED
      BY <1>3, <1>6, <2>2, <3>1
  <2> QED
    BY <1>1, <2>1, <2>2
<1> QED
  BY <1>1, <1>7, <1>8, <1>9, <1>10 DEF Good, y
\* Row by row one list of decisions is made of another.
MadeOf(t, x) ==
    DOMAIN t = DOMAIN x /\ t = [i \in DOMAIN x |-> t[i]] /\ \A i \in DOMAIN x : t[i] \in Decision

\* A document whose rows are those of another, each changed by itself.
LEMMA ChangedRows ==
    ASSUME NEW m, HasRows(m), NEW y, "decisions" \in DOMAIN y,
           MadeOf(y.decisions, m.decisions)
    PROVE  /\ HasRows(y)
           /\ \A i \in DOMAIN m.decisions : m.decisions[i] \in RowsOf(m)
           /\ \A r \in RowsOf(y) : \E i \in DOMAIN m.decisions : r = y.decisions[i]
<1> USE DEF MadeOf
<1>1. y.decisions \in Seq(Decision)
  BY RowByRow DEF HasRows
<1> QED
  BY <1>1 DEF HasRows, RowsOf, Range

\* GiveWay leaves a document to which the new row can be added.
LEMMA GivenWayGood ==
    ASSUME NEW m, NEW human, NEW s, turns \in Nat, Good(m, turns, human, s), NEW id
    PROVE  AlmostGood(GiveWay(m, id), turns, human, s)
<1> DEFINE y == GiveWay(m, id)
           given(r) == [r EXCEPT !.flags = @ \ {"still_valid"},
                                 !.lineage = @ \cup {NewLink(turns)}]
           t == [i \in DOMAIN m.decisions |->
                    IF m.decisions[i].id # id THEN m.decisions[i] ELSE given(m.decisions[i])]
<1>1. HasRows(m) /\ \A i \in DOMAIN m.decisions : m.decisions[i] \in Decision
  BY RowAt DEF Good, HasRows
<1>2. "decisions" \in DOMAIN y /\ y.decisions = t
  BY <1>1 DEF GiveWay, Mapped, HasRows, NewLink, NewId, NewKey
<1>3. NewLink(turns) \in [id : Id, key : Nat]
  <2>1. "new" \in Name \cup Nat /\ turns \in Name \cup Nat /\ FirstKey + turns \in Nat
    BY StateDocumentAssumption DEF FirstKey
  <2>2. <<"new", turns>> \in Seq(Name \cup Nat)
    BY <2>1
  <2> QED
    BY <2>1, <2>2 DEF NewLink, Id
<1>4. ASSUME NEW r \in Decision
      PROVE  /\ given(r) \in Decision
             /\ given(r).id = r.id /\ given(r).key = r.key
             /\ given(r).lineage = r.lineage \cup {NewLink(turns)}
             /\ ClaimsHuman(given(r)) => ClaimsHuman(r)
  <2>1. given(r) \in Decision
    BY <1>3 DEF Decision, Flags
  <2> QED
    BY <2>1 DEF Decision, ClaimsHuman, Has
<1> HIDE DEF given
<1>5. ASSUME NEW i \in DOMAIN m.decisions
      PROVE  /\ t[i] \in Decision /\ t[i].id = m.decisions[i].id /\ t[i].key = m.decisions[i].key
             /\ t[i].lineage \subseteq m.decisions[i].lineage \cup {NewLink(turns)}
             /\ ClaimsHuman(t[i]) => ClaimsHuman(m.decisions[i])
  BY <1>1, <1>4
<1>6. DOMAIN t = DOMAIN m.decisions /\ t = [i \in DOMAIN m.decisions |-> t[i]]
  OBVIOUS
<1> HIDE DEF y, t
<1>7. /\ HasRows(y)
      /\ \A i \in DOMAIN m.decisions : m.decisions[i] \in RowsOf(m)
      /\ \A r \in RowsOf(y) : \E i \in DOMAIN m.decisions : r = t[i]
  <2>1. MadeOf(y.decisions, m.decisions)
    BY <1>2, <1>5, <1>6 DEF MadeOf
  <2> QED
    BY <1>1, <1>2, <2>1, ChangedRows
<1>8. \A r \in RowsOf(y) : \E q \in RowsOf(m) :
         /\ r.id = q.id /\ r.key = q.key
         /\ r.lineage \subseteq q.lineage \cup {NewLink(turns)}
         /\ ClaimsHuman(r) => ClaimsHuman(q)
  BY <1>5, <1>7
<1>9. Trusts(RowsOf(y), human) /\ ShowsRight(RowsOf(y), s)
  BY <1>8 DEF Good, Trusts, ShowsRight
<1>10. ASSUME NEW r \in RowsOf(y)
       PROVE  NotYet(r, turns) /\ \A l \in r.lineage : NotYet(l, turns) \/ l = NewLink(turns)
  <2>1. PICK q \in RowsOf(m) : /\ r.id = q.id /\ r.key = q.key
                               /\ r.lineage \subseteq q.lineage \cup {NewLink(turns)}
    BY <1>8
  <2>2. NotYet(q, turns) /\ \A l \in q.lineage : NotYet(l, turns)
    BY DEF Good, Issued
  <2> QED
    BY <2>1, <2>2 DEF NotYet
<1>11. Linked(RowsOf(y))
  <2> SUFFICES ASSUME NEW r \in RowsOf(y), NEW z \in RowsOf(y), NEW l \in r.lineage
               PROVE  z.id = l.id <=> z.key = l.key
    BY DEF Linked
  <2>1. PICK q \in RowsOf(m) : r.lineage \subseteq q.lineage \cup {NewLink(turns)}
    BY <1>8
  <2>2. PICK k \in RowsOf(m) : z.id = k.id /\ z.key = k.key
    BY <1>8
  <2>3. CASE l \in q.lineage
    BY <2>2, <2>3 DEF Good, Linked
  <2>4. CASE l = NewLink(turns)
    <3>1. z.id # NewLink(turns).id /\ z.key # NewLink(turns).key
      BY <1>10 DEF NotYet, NewLink, FirstKey
    <3> QED
      BY <2>4, <3>1
  <2> QED
    BY <2>1, <2>3, <2>4
<1> QED
  BY <1>7, <1>9, <1>10, <1>11 DEF AlmostGood, y

\* Recalled changes when a row was used, and nothing else.
LEMMA RecalledGood ==
    ASSUME NEW m, NEW n, NEW human, NEW s, Good(m, n, human, s), NEW id, NEW when \in Nat
    PROVE  Good(Recalled(m, id, when), n, human, s)
<1> DEFINE y == Recalled(m, id, when)
           used(r) == [r EXCEPT !.used = when]
           t == [i \in DOMAIN m.decisions |->
                    IF m.decisions[i].id = id THEN used(m.decisions[i]) ELSE m.decisions[i]]
<1>1. HasRows(m) /\ \A i \in DOMAIN m.decisions : m.decisions[i] \in Decision
  BY RowAt DEF Good, HasRows
<1>2. "decisions" \in DOMAIN y /\ y.decisions = t
  BY <1>1 DEF Recalled, Mapped, HasRows
<1>3. ASSUME NEW r \in Decision
      PROVE  /\ used(r) \in Decision /\ Follows(used(r), r)
             /\ ClaimsHuman(used(r)) => ClaimsHuman(r)
  BY DEF Decision, Follows, ClaimsHuman, Has
<1> HIDE DEF used
<1>4. ASSUME NEW i \in DOMAIN m.decisions
      PROVE  /\ t[i] \in Decision /\ Follows(t[i], m.decisions[i])
             /\ ClaimsHuman(t[i]) => ClaimsHuman(m.decisions[i])
  BY <1>1, <1>3 DEF Follows
<1>5. DOMAIN t = DOMAIN m.decisions /\ t = [i \in DOMAIN m.decisions |-> t[i]]
  OBVIOUS
<1> HIDE DEF y, t
<1>6. /\ HasRows(y)
      /\ \A i \in DOMAIN m.decisions : m.decisions[i] \in RowsOf(m)
      /\ \A r \in RowsOf(y) : \E i \in DOMAIN m.decisions : r = t[i]
  <2>1. MadeOf(y.decisions, m.decisions)
    BY <1>2, <1>4, <1>5 DEF MadeOf
  <2> QED
    BY <1>1, <1>2, <2>1, ChangedRows
<1>7. \A r \in RowsOf(y) : \E q \in RowsOf(m) :
         Follows(r, q) /\ (ClaimsHuman(r) => ClaimsHuman(q))
  BY <1>4, <1>6
<1>8. Trusts(RowsOf(y), human)
  BY <1>7 DEF Good, Trusts, Follows
<1>9. Good(y, n, human, s)
  BY <1>6, <1>7, <1>8, FollowersGood
<1> QED
  BY <1>9 DEF y

\* A request by the recall tool claims nothing.
LEMMA RequestedGood ==
    ASSUME NEW m, NEW n, NEW human, NEW s, Good(m, n, human, s), NEW id
    PROVE  Good(Flagged(m, id, Requested), n, human, s)
<1> DEFINE y == Flagged(m, id, Requested)
           t == [i \in DOMAIN m.decisions |->
                    IF m.decisions[i].id = id THEN Requested(m.decisions[i]) ELSE m.decisions[i]]
<1>1. HasRows(m) /\ \A i \in DOMAIN m.decisions : m.decisions[i] \in Decision
  BY RowAt DEF Good, HasRows
<1>2. "decisions" \in DOMAIN y /\ y.decisions = t
  BY <1>1 DEF Flagged, Mapped, HasRows
<1>3. ASSUME NEW r \in Decision
      PROVE  /\ Requested(r) \in Decision /\ Follows(Requested(r), r)
             /\ ClaimsHuman(Requested(r)) => ClaimsHuman(r)
  BY DEF Decision, Follows, ClaimsHuman, Has, Requested, Flags
<1>4. ASSUME NEW i \in DOMAIN m.decisions
      PROVE  /\ t[i] \in Decision /\ Follows(t[i], m.decisions[i])
             /\ ClaimsHuman(t[i]) => ClaimsHuman(m.decisions[i])
  BY <1>1, <1>3 DEF Follows
<1>5. DOMAIN t = DOMAIN m.decisions /\ t = [i \in DOMAIN m.decisions |-> t[i]]
  OBVIOUS
<1> HIDE DEF y, t
<1>6. /\ HasRows(y)
      /\ \A i \in DOMAIN m.decisions : m.decisions[i] \in RowsOf(m)
      /\ \A r \in RowsOf(y) : \E i \in DOMAIN m.decisions : r = t[i]
  <2>1. MadeOf(y.decisions, m.decisions)
    BY <1>2, <1>4, <1>5 DEF MadeOf
  <2> QED
    BY <1>1, <1>2, <2>1, ChangedRows
<1>7. \A r \in RowsOf(y) : \E q \in RowsOf(m) :
         Follows(r, q) /\ (ClaimsHuman(r) => ClaimsHuman(q))
  BY <1>4, <1>6
<1>8. Trusts(RowsOf(y), human)
  BY <1>7 DEF Good, Trusts, Follows
<1>9. Good(y, n, human, s)
  BY <1>6, <1>7, <1>8, FollowersGood
<1> QED
  BY <1>9 DEF y

\* A confirmation makes the rows of the id that was typed a human's: they are
\* the decision that was shown.
LEMMA ConfirmedGood ==
    ASSUME NEW m, NEW n, NEW human, NEW s, s # Nothing, Good(m, n, human, s)
    PROVE  Good(Flagged(m, s.id, Confirmed), n, human \cup {s.key}, s)
<1> DEFINE y == Flagged(m, s.id, Confirmed)
           t == [i \in DOMAIN m.decisions |->
                    IF m.decisions[i].id = s.id THEN Confirmed(m.decisions[i])
                    ELSE m.decisions[i]]
<1>1. HasRows(m) /\ \A i \in DOMAIN m.decisions : m.decisions[i] \in Decision
  BY RowAt DEF Good, HasRows
<1>2. "decisions" \in DOMAIN y /\ y.decisions = t
  BY <1>1 DEF Flagged, Mapped, HasRows
<1>3. ASSUME NEW r \in Decision PROVE Confirmed(r) \in Decision /\ Follows(Confirmed(r), r)
  BY DEF Decision, Follows, Confirmed, Flags, Authors
<1>4. ASSUME NEW i \in DOMAIN m.decisions
      PROVE  /\ t[i] \in Decision /\ Follows(t[i], m.decisions[i])
             /\ ClaimsHuman(t[i]) => ClaimsHuman(m.decisions[i]) \/ m.decisions[i].id = s.id
  BY <1>1, <1>3 DEF Follows
<1>5. DOMAIN t = DOMAIN m.decisions /\ t = [i \in DOMAIN m.decisions |-> t[i]]
  OBVIOUS
<1> HIDE DEF y, t
<1>6. /\ HasRows(y)
      /\ \A i \in DOMAIN m.decisions : m.decisions[i] \in RowsOf(m)
      /\ \A r \in RowsOf(y) : \E i \in DOMAIN m.decisions : r = t[i]
  <2>1. MadeOf(y.decisions, m.decisions)
    BY <1>2, <1>4, <1>5 DEF MadeOf
  <2> QED
    BY <1>1, <1>2, <2>1, ChangedRows
<1>7. \A r \in RowsOf(y) : \E q \in RowsOf(m) :
         Follows(r, q) /\ (ClaimsHuman(r) => ClaimsHuman(q) \/ q.id = s.id)
  BY <1>4, <1>6
<1>8. Trusts(RowsOf(y), human \cup {s.key})
  BY <1>7 DEF Good, Trusts, Follows, ShowsRight
<1>9. Good(y, n, human \cup {s.key}, s)
  BY <1>6, <1>7, <1>8, FollowersGood
<1> QED
  BY <1>9 DEF y
-----------------------------------------------------------------------------
(* The documents that behaviours start from                                *)

\* What a derived id is made of.
LEMMA DerivedIds ==
    ASSUME NEW id \in Id, NEW n \in Nat
    PROVE  /\ DerivedId(id, n) \in Id /\ Len(DerivedId(id, n)) = Len(id) + 1
           /\ \A i \in 1 .. Len(id) : DerivedId(id, n)[i] = id[i]
<1>1. n \in Name \cup Nat
  OBVIOUS
<1> QED
  BY <1>1, AppendProperties DEF DerivedId, Id

\* An id from before is none that this program makes, and neither is what is
\* derived from it.
LEMMA IdsFromBefore ==
    ASSUME NEW id \in Id, Len(id) = 1, id[1] # "new", NEW n \in Nat
    PROVE  /\ \A k \in Nat : id # <<"new", k>> /\ DerivedId(id, n) # <<"new", k>>
           /\ DerivedId(id, n) \in Id /\ Len(DerivedId(id, n)) = 2
           /\ \A e \in Id, k \in Nat : DerivedId(id, n) = DerivedId(e, k) <=> id = e /\ n = k
<1> DEFINE S == Name \cup Nat
<1>1. id \in Seq(S) /\ n \in S
  BY DEF Id
<1>2. /\ DerivedId(id, n) \in Seq(S) /\ Len(DerivedId(id, n)) = 2
      /\ DerivedId(id, n)[1] = id[1]
  <2>1. /\ DerivedId(id, n) \in Id /\ Len(DerivedId(id, n)) = Len(id) + 1
        /\ \A i \in 1 .. Len(id) : DerivedId(id, n)[i] = id[i]
    BY DerivedIds
  <2>2. 1 \in 1 .. Len(id)
    OBVIOUS
  <2> QED
    BY <2>1, <2>2 DEF Id
<1>3. ASSUME NEW k \in Nat PROVE id # <<"new", k>> /\ DerivedId(id, n) # <<"new", k>>
  <2>1. <<"new", k>>[1] = "new" /\ Len(<<"new", k>>) = 2
    OBVIOUS
  <2> QED
    BY <1>2, <2>1
<1>4. ASSUME NEW e \in Id, NEW k \in Nat
      PROVE  DerivedId(id, n) = DerivedId(e, k) <=> id = e /\ n = k
  <2>1. e \in Seq(S) /\ k \in S
    BY DEF Id
  <2> HIDE DEF S
  <2> QED
    BY <1>1, <2>1, AppendInjective DEF DerivedId
<1> QED
  BY <1>2, <1>3, <1>4 DEF Id

\* The decisions of which the review of a first document says whose they are.
ReviewedAlone(m) == {r.key : r \in {r \in RowsOf(m) :
    Has(r, "human_review") /\ \A q \in RowsOf(m) : q.id = r.id => q = r}}

\* The row that no namesake is earlier than has the ordinal zero.
LEMMA OldestIsFirst ==
    ASSUME NEW rows \in Seq(Decision), NEW i \in DOMAIN rows
    PROVE  Ordinal(rows, i) = 0 <=> \A j \in Namesakes(rows, i) : ~Earlier(rows, j, i)
<1> DEFINE before == {j \in Namesakes(rows, i) : Earlier(rows, j, i)}
<1>1. IsFiniteSet(before)
  <2>1. before \subseteq 1 .. Len(rows) /\ Len(rows) \in Nat
    BY LenProperties DEF Namesakes
  <2>2. IsFiniteSet(1 .. Len(rows))
    BY <2>1, FS_Interval
  <2> QED
    BY <2>1, <2>2, FS_Subset
<1>2. Ordinal(rows, i) = Cardinality(before)
  BY DEF Ordinal
<1>3. Cardinality(before) = 0 <=> before = {}
  BY <1>1, FS_EmptySet
<1>4. before = {} <=> \A j \in Namesakes(rows, i) : ~Earlier(rows, j, i)
  OBVIOUS
<1> QED
  BY <1>2, <1>3, <1>4

\* A document from before is read as a good one.
LEMMA OldIsGood ==
    ASSUME NEW m \in InitialFiles, Load(m) # Unreadable
    PROVE  Good(Load(m), 0, ReviewedAlone(m), Nothing)
<1> DEFINE x == m.decisions
           y == Load(m).decisions
<1>1. m \in Document /\ FromBefore(m) /\ MeansOldest(x)
  BY StateDocumentAssumption
<1>2. /\ HasRows(Load(m)) /\ DOMAIN y = DOMAIN x
      /\ \A i \in DOMAIN x :
            /\ y[i].id = RepairedId(x, i) /\ y[i].key = x[i].key
            /\ y[i].lineage = {RepairedLink(x, l) : l \in x[i].lineage}
            /\ Has(y[i], "human_review") => Has(x[i], "human_review") /\ Namesakes(x, i) = {i}
  BY <1>1, OldIsRead
<1>3. x \in Seq(Decision) /\ \A i \in DOMAIN x : x[i] \in Decision /\ x[i] \in Range(x)
  BY <1>1, RowAt DEF Document
<1>4. RowsOf(m) = {x[i] : i \in DOMAIN x} /\ RowsOf(Load(m)) = {y[i] : i \in DOMAIN x}
  BY <1>2 DEF RowsOf, Range
<1>5. Legal(Load(m))
  BY ReadableIsLegal
<1> HIDE DEF y
<1>6. ASSUME NEW i \in DOMAIN x
      PROVE  /\ x[i].id \in Id /\ Len(x[i].id) = 1 /\ x[i].id[1] # "new"
             /\ x[i].key < FirstKey
  BY <1>1, <1>3, <1>6 DEF FromBefore, Decision
<1>7. ASSUME NEW i \in DOMAIN x, NEW l \in x[i].lineage
      PROVE  /\ l \in [id : Id, key : Nat]
             /\ Len(l.id) = 1 /\ l.id[1] # "new" /\ l.key < FirstKey
             /\ l \in UNION {r.lineage : r \in Range(x)}
  <2>1. l \in UNION {r.lineage : r \in Range(x)}
    BY <1>3
  <2>2. l \in LinksOf(m)
    BY <2>1 DEF LinksOf
  <2>3. l \in [id : Id, key : Nat]
    BY <1>3 DEF Decision
  <2> QED
    BY <1>1, <2>1, <2>2, <2>3 DEF FromBefore
<1>8. ASSUME NEW i \in DOMAIN x PROVE Ordinal(x, i) \in Nat
  BY <1>3, RepairedIsId
<1>9. Trusts(RowsOf(Load(m)), ReviewedAlone(m))
  <2> SUFFICES ASSUME NEW i \in DOMAIN x, ClaimsHuman(y[i]) PROVE y[i].key \in ReviewedAlone(m)
    BY <1>4 DEF Trusts
  <2>1. LegalRow(y[i])
    <3>1. y[i] \in Range(Load(m).decisions)
      BY <1>4 DEF RowsOf
    <3> QED
      BY <1>5, <3>1 DEF Legal
  <2>2. Has(y[i], "human_review")
    BY <2>1 DEF LegalRow, ClaimHolds, Has
  <2>3. Has(x[i], "human_review") /\ Namesakes(x, i) = {i} /\ y[i].key = x[i].key
    BY <1>2, <2>2
  <2>4. \A q \in RowsOf(m) : q.id = x[i].id => q = x[i]
    <3> SUFFICES ASSUME NEW j \in DOMAIN x, x[j].id = x[i].id PROVE j = i
      BY <1>4
    <3>1. j \in Namesakes(x, i)
      BY DEF Namesakes
    <3> QED
      BY <2>3, <3>1
  <2>5. x[i] \in RowsOf(m)
    BY <1>4
  <2> QED
    BY <2>3, <2>4, <2>5 DEF ReviewedAlone
<1>10. Issued(RowsOf(Load(m)), 0)
  <2>1. ASSUME NEW i \in DOMAIN x PROVE NotYet(y[i], 0)
    <3>1. y[i].id = x[i].id \/ y[i].id = DerivedId(x[i].id, Ordinal(x, i))
      BY <1>2 DEF RepairedId
    <3>2. \A k \in Nat : y[i].id # <<"new", k>>
      BY <1>6, <1>8, <3>1, IdsFromBefore
    <3>3. y[i].key < FirstKey + 0
      BY <1>2, <1>6 DEF FirstKey
    <3> QED
      BY <3>2, <3>3 DEF NotYet
  <2>2. ASSUME NEW i \in DOMAIN x, NEW l \in x[i].lineage PROVE NotYet(RepairedLink(x, l), 0)
    <3> DEFINE k == RepairedLink(x, l)
    <3>1. k.key = l.key /\ (k.id = l.id \/ k.id = DerivedId(l.id, 0))
      BY <1>7 DEF RepairedLink
    <3>2. \A j \in Nat : k.id # <<"new", j>>
      BY <1>7, <3>1, IdsFromBefore
    <3>3. k.key < FirstKey + 0
      BY <1>7, <3>1 DEF FirstKey
    <3> QED
      BY <3>2, <3>3 DEF NotYet
  <2>3. ASSUME NEW i \in DOMAIN x, NEW l \in y[i].lineage PROVE NotYet(l, 0)
    BY <1>2, <2>2
  <2> QED
    BY <1>4, <2>1, <2>3 DEF Issued
<1>11. Linked(RowsOf(Load(m)))
  <2> SUFFICES ASSUME NEW i \in DOMAIN x, NEW j \in DOMAIN x, NEW l \in x[i].lineage
               PROVE  y[j].id = RepairedLink(x, l).id <=> y[j].key = RepairedLink(x, l).key
    <3>1. ASSUME NEW i \in DOMAIN x, NEW j \in DOMAIN x, NEW k \in y[i].lineage
          PROVE  y[j].id = k.id <=> y[j].key = k.key
      BY <1>2
    <3> QED
      BY <1>4, <3>1 DEF Linked
  <2> DEFINE k == RepairedLink(x, l)
             n == Ordinal(x, j)
  <2>1. k.key = l.key /\ y[j].key = x[j].key
    BY <1>2, <1>3, <1>7, RepairedIsId
  <2>2. x[j].key = l.key <=> x[j].id = l.id /\ n = 0
    <3>1. n = 0 <=> \A p \in Namesakes(x, j) : ~Earlier(x, p, j)
      BY <1>3, OldestIsFirst
    <3> QED
      BY <1>1, <1>7, <3>1 DEF MeansOldest
  <2>3. y[j].id = IF n = 0 /\ x[j].id \notin Overlong THEN x[j].id ELSE DerivedId(x[j].id, n)
    BY <1>2 DEF RepairedId
  <2>4. /\ x[j].id \in Id /\ Len(x[j].id) = 1 /\ l.id \in Id /\ Len(l.id) = 1 /\ n \in Nat
        /\ x[j].id[1] # "new" /\ l.id[1] # "new"
    BY <1>6, <1>7, <1>8
  <2>5. CASE l.id \in Overlong /\ \E r \in Range(x) : r.id = l.id
    <3>1. k.id = DerivedId(l.id, 0)
      BY <1>7, <2>5 DEF RepairedLink
    <3>2. CASE n = 0 /\ x[j].id \notin Overlong
      <4>1. Len(y[j].id) = 1 /\ Len(k.id) = 2
        BY <2>3, <2>4, <3>1, <3>2, IdsFromBefore
      <4> QED
        BY <2>1, <2>2, <2>5, <3>2, <4>1
    <3>3. CASE ~(n = 0 /\ x[j].id \notin Overlong)
      <4>1. y[j].id = DerivedId(x[j].id, n)
        BY <2>3, <3>3
      <4>2. y[j].id = k.id <=> x[j].id = l.id /\ n = 0
        BY <2>4, <3>1, <4>1, IdsFromBefore
      <4> QED
        BY <2>1, <2>2, <4>2
    <3> QED
      BY <3>2, <3>3
  <2>6. CASE ~(l.id \in Overlong /\ \E r \in Range(x) : r.id = l.id)
    <3>1. k.id = l.id
      BY <2>6 DEF RepairedLink
    <3>2. CASE n = 0 /\ x[j].id \notin Overlong
      BY <2>1, <2>2, <2>3, <3>1, <3>2
    <3>3. CASE ~(n = 0 /\ x[j].id \notin Overlong)
      <4>1. Len(y[j].id) = 2 /\ Len(k.id) = 1
        BY <2>3, <2>4, <3>1, <3>3, IdsFromBefore
      <4>2. x[j].id = l.id /\ n = 0 => FALSE
        BY <1>3, <2>6, <3>3
      <4> QED
        BY <2>1, <2>2, <4>1, <4>2
    <3> QED
      BY <3>2, <3>3
  <2> QED
    BY <2>5, <2>6
<1>12. ShowsRight(RowsOf(Load(m)), Nothing)
  BY DEF ShowsRight
<1> QED
  BY <1>2, <1>9, <1>10, <1>11, <1>12 DEF Good
-----------------------------------------------------------------------------
(* The invariant holds                                                     *)

\* What the transactions make of the rest of a document leaves its rows alone.
LEMMA OtherEdits ==
    ASSUME NEW m, HasRows(m), NEW s, NEW t, NEW k
    PROVE  /\ SameRows(RecordSession(m, s), m) /\ SameRows(Observed(m, s, t), m)
           /\ SameRows(Completed(m, k), m) /\ SameRows(Guarded(m), m)
           /\ SameRows(Settle(m, k), m) /\ SameRows(Reported(m, k), m)
<1> USE DEF SameRows, HasRows
<1>1. SameRows(RecordSession(m, s), m)
  BY DEF RecordSession
<1>2. SameRows(Observed(m, s, t), m)
  BY DEF Observed, RecordSession
<1>3. SameRows(Completed(m, k), m)
  BY DEF Completed
<1>4. SameRows(Guarded(m), m)
  BY DEF Guarded
<1>5. SameRows(Settle(m, k), m)
  BY DEF Settle, Mapped
<1>6. SameRows(Reported(m, k), m)
  BY DEF Reported
<1> HIDE DEF SameRows, HasRows
<1> QED
  BY <1>1, <1>2, <1>3, <1>4, <1>5, <1>6

\* A document of the same rows is as good.
LEMMA SameGood ==
    ASSUME NEW x, NEW y, SameRows(y, x), NEW n, NEW human, NEW s, Good(x, n, human, s)
    PROVE  Good(y, n, human, s)
BY DEF Good, SameRows, HasRows, RowsOf

\* What is good before a new row comes.
LEMMA GoodIsAlmost ==
    ASSUME NEW m, NEW n, NEW human, NEW s, Good(m, n, human, s)
    PROVE  AlmostGood(m, n, human, s)
BY DEF Good, AlmostGood, Issued

\* The rows that NewRow makes are new.
LEMMA NewRowIsNew ==
    ASSUME IInv, NEW by \in {"heuristic", "llm"}, NEW text \in Text
    PROVE  IsNew(NewRow(by, text), turns)
<1>1. turns \in Nat /\ clock \in Nat /\ text \in Nat
  BY StateDocumentAssumption DEF IInv
<1>2. NewLink(turns) \in [id : Id, key : Nat]
  <2>1. "new" \in Name \cup Nat /\ turns \in Name \cup Nat /\ FirstKey + turns \in Nat
    BY <1>1, StateDocumentAssumption DEF FirstKey
  <2>2. <<"new", turns>> \in Seq(Name \cup Nat)
    BY <2>1
  <2> QED
    BY <2>1, <2>2 DEF NewLink, Id
<1>3. NewRow(by, text).id = NewLink(turns).id /\ NewRow(by, text).key = NewLink(turns).key
      /\ NewRow(by, text).lineage = {} /\ ~ClaimsHuman(NewRow(by, text))
  BY DEF NewRow, NewLink, NewId, NewKey, ClaimsHuman, Has
<1>4. NewRow(by, text) \in Decision
  <2>1. NewId \in Id /\ NewKey \in Nat
    BY <1>2 DEF NewLink, NewId, NewKey
  <2> QED
    BY <1>1, <2>1 DEF NewRow, Decision, Authors, Flags
<1> QED
  BY <1>3, <1>4 DEF IsNew

\* A transaction begins: good memory is as good as what was read.
LEMMA BeginKeeps ==
    ASSUME IInv, NEW m, NEW p, Begin(m, p), Good(m, turns + 1, confirmed', shown'),
           confirmed \subseteq confirmed', shown' = shown \/ shown' = Nothing
    PROVE  IInv'
<1>1. turns \in Nat /\ clock \in Nat /\ turns' = turns + 1 /\ clock' = clock /\ file' = file
  BY DEF IInv, Begin
<1>2. /\ pending' = [memory |-> m, protection |-> p, verdict |-> Unjudged]
      /\ DOMAIN pending' = {"memory", "protection", "verdict"}
      /\ pending'.memory = m /\ ~pending'.verdict.fits
  BY DEF Begin, Unjudged
<1>3. Read' = Read
  BY <1>1 DEF Read
<1>4. ASSUME Read # Unreadable PROVE Good(Read, turns', confirmed', shown')
  <2>1. Good(Read, turns, confirmed, shown)
    BY <1>4 DEF IInv
  <2>2. turns + 1 \in Nat /\ turns + 1 >= turns
    BY <1>1
  <2> QED
    BY <1>1, <2>1, <2>2, GoodLater
<1>5. ASSUME shown' # Nothing PROVE shown'.key \in Nat /\ NotYet(shown', turns')
  <2>1. shown' = shown /\ shown.key \in Nat /\ NotYet(shown, turns)
    BY <1>5 DEF IInv
  <2>2. \A k \in Nat : k < turns => k < turns + 1
    BY <1>1
  <2>3. shown.key < FirstKey + (turns + 1)
    BY <1>1, <2>1 DEF NotYet, FirstKey
  <2> QED
    BY <1>1, <2>1, <2>2, <2>3 DEF NotYet
<1>6. turns' \in Nat /\ clock' \in Nat
  BY <1>1
<1>7. Good(pending'.memory, turns', confirmed', shown')
  BY <1>1, <1>2
<1>8. Read' # Unreadable => Good(Read', turns', confirmed', shown')
  BY <1>3, <1>4
<1> QED
  BY <1>2, <1>5, <1>6, <1>7, <1>8 DEF IInv
\* What was read is good, and remains so while a transaction begins.
LEMMA ReadIsGood ==
    ASSUME IInv, Read # Unreadable
    PROVE  /\ HasRows(Read) /\ Good(Read, turns, confirmed, shown) /\ turns \in Nat
           /\ shown # Nothing => NotYet(shown, turns)
BY DEF IInv, Good

\* What is good now is good when the next number was issued.
LEMMA GoodNext ==
    ASSUME turns \in Nat, NEW m, Good(m, turns, confirmed, shown)
    PROVE  Good(m, turns + 1, confirmed, shown)
<1>1. turns + 1 \in Nat /\ turns + 1 >= turns
  OBVIOUS
<1> QED
  BY <1>1, GoodLater

\* processPreparedIdleSource: what the heuristics observe, a new row of theirs,
\* one that another gives way to, or rows recalled.
LEMMA ObserveKeeps ==
    ASSUME IInv, Read # Unreadable, NEW s \in Session, NEW t \in Text \cup {0},
           Observe(Read, s, t)
    PROVE  IInv'
<1> DEFINE g == Observed(Read, s, t)
           q == NewRow("heuristic", t)
<1>1. /\ HasRows(Read) /\ Good(Read, turns, confirmed, shown) /\ turns \in Nat
      /\ shown # Nothing => NotYet(shown, turns)
  BY ReadIsGood
<1>2. SameRows(g, Read)
  BY <1>1, OtherEdits
<1>3. Good(g, turns, confirmed, shown)
  BY <1>1, <1>2, SameGood
<1>4. t # 0 => IsNew(q, turns)
  BY NewRowIsNew
<1>5. /\ shown' = shown /\ confirmed' = confirmed
      /\ \/ Begin(g, Unprotected)
         \/ t # 0 /\ Begin(AddRow(g, q), Unprotected)
         \/ \E r \in RowsOf(Read) : t # 0 /\ Begin(AddRow(GiveWay(g, r.id), q), Unprotected)
         \/ \E r \in RowsOf(Read) : Begin(Recalled(g, r.id, s), Unprotected)
  BY DEF Observe
<1>6. s \in Nat
  BY StateDocumentAssumption
<1> HIDE DEF g, q
<1>7. ASSUME NEW m, Good(m, turns + 1, confirmed, shown), Begin(m, Unprotected) PROVE IInv'
  BY <1>5, <1>7, BeginKeeps
<1>8. CASE Begin(g, Unprotected)
  BY <1>1, <1>3, <1>7, <1>8, GoodNext
<1>9. CASE t # 0 /\ Begin(AddRow(g, q), Unprotected)
  <2>1. Good(AddRow(g, q), turns + 1, confirmed, shown)
    BY <1>1, <1>3, <1>4, <1>9, GoodIsAlmost, AddedGood
  <2> QED
    BY <1>7, <1>9, <2>1
<1>10. ASSUME NEW r \in RowsOf(Read), t # 0, Begin(AddRow(GiveWay(g, r.id), q), Unprotected)
       PROVE  IInv'
  <2>1. AlmostGood(GiveWay(g, r.id), turns, confirmed, shown)
    BY <1>1, <1>3, GivenWayGood
  <2>2. Good(AddRow(GiveWay(g, r.id), q), turns + 1, confirmed, shown)
    BY <1>1, <1>4, <1>10, <2>1, AddedGood
  <2> QED
    BY <1>7, <1>10, <2>2
<1>11. ASSUME NEW r \in RowsOf(Read), Begin(Recalled(g, r.id, s), Unprotected)
       PROVE  IInv'
  <2>1. Good(Recalled(g, r.id, s), turns, confirmed, shown)
    BY <1>3, <1>6, RecalledGood
  <2>2. Good(Recalled(g, r.id, s), turns + 1, confirmed, shown)
    BY <1>1, <2>1, GoodNext
  <2> QED
    BY <1>7, <1>11, <2>2
<1> QED
  BY <1>5, <1>8, <1>9, <1>10, <1>11

\* The final merge of an LLM's facts, and the transactions that leave the rows
\* alone or only request a promotion.
LEMMA OthersKeep ==
    ASSUME IInv, Read # Unreadable,
           \/ \E s \in Session, t \in Text : Learn(Read, s, t)
           \/ PersistAuditGuard(Read)
           \/ \E id \in Ids(Range(Read.audits)) : PersistTerminal(Read, id)
           \/ \E model \in Model : PersistModelHealth(Read, model)
           \/ RecallPromote(Read)
    PROVE  IInv'
<1>1. /\ HasRows(Read) /\ Good(Read, turns, confirmed, shown) /\ turns \in Nat
      /\ shown # Nothing => NotYet(shown, turns)
  BY ReadIsGood
<1>2. ASSUME NEW m, NEW p, Good(m, turns + 1, confirmed, shown), Begin(m, p),
             shown' = shown, confirmed' = confirmed
      PROVE  IInv'
  BY <1>2, BeginKeeps
<1>3. ASSUME NEW m, SameRows(m, Read) PROVE Good(m, turns + 1, confirmed, shown)
  BY <1>1, <1>3, SameGood, GoodNext
<1>4. ASSUME NEW s \in Session, NEW t \in Text, Learn(Read, s, t) PROVE IInv'
  <2> DEFINE q == NewRow("llm", t)
             added == AddRow(Read, q)
             told == RecordSession(added, s)
             done == Completed(told, turns)
  <2>1. IsNew(q, turns)
    BY NewRowIsNew
  <2>2. Begin(done, [Unprotected EXCEPT !.sources = {turns}])
        /\ shown' = shown /\ confirmed' = confirmed
    BY <1>4 DEF Learn
  <2> HIDE DEF q
  <2>3. Good(added, turns + 1, confirmed, shown)
    BY <1>1, <2>1, GoodIsAlmost, AddedGood
  <2> HIDE DEF added
  <2>4. HasRows(added) /\ SameRows(told, added)
    BY <2>3, OtherEdits DEF Good
  <2> HIDE DEF told
  <2>5. Good(told, turns + 1, confirmed, shown)
    BY <2>3, <2>4, SameGood
  <2>6. HasRows(told) /\ SameRows(done, told)
    BY <2>5, OtherEdits DEF Good
  <2> HIDE DEF done
  <2>7. Good(done, turns + 1, confirmed, shown)
    BY <2>5, <2>6, SameGood
  <2> QED
    BY <1>2, <2>2, <2>7
<1>5. CASE PersistAuditGuard(Read)
  <2>1. Good(Guarded(Read), turns + 1, confirmed, shown)
    BY <1>1, <1>3, OtherEdits
  <2> QED
    BY <1>2, <1>5, <2>1 DEF PersistAuditGuard
<1>6. ASSUME NEW id, PersistTerminal(Read, id) PROVE IInv'
  <2>1. Good(Settle(Read, id), turns + 1, confirmed, shown)
    BY <1>1, <1>3, OtherEdits
  <2> QED
    BY <1>2, <1>6, <2>1 DEF PersistTerminal
<1>7. ASSUME NEW model, PersistModelHealth(Read, model) PROVE IInv'
  <2>1. Good(Reported(Read, model), turns + 1, confirmed, shown)
    BY <1>1, <1>3, OtherEdits
  <2> QED
    BY <1>2, <1>7, <2>1 DEF PersistModelHealth
<1>8. CASE RecallPromote(Read)
  <2>1. PICK r \in RowsOf(Read) :
           Begin(Flagged(Read, r.id, Requested), [Unprotected EXCEPT !.rows = {r.id}])
    BY <1>8 DEF RecallPromote
  <2>2. shown' = shown /\ confirmed' = confirmed
    BY <1>8 DEF RecallPromote
  <2>3. Good(Flagged(Read, r.id, Requested), turns + 1, confirmed, shown)
    BY <1>1, RequestedGood, GoodNext
  <2> QED
    BY <1>2, <2>1, <2>2, <2>3
<1> QED
  BY <1>4, <1>5, <1>6, <1>7, <1>8

\* tokenmaxxer promote: the row that is shown is the only one of its id, and
\* what is confirmed is what was shown.
LEMMA PromotionKeeps ==
    ASSUME IInv, pending = Idle, Read # Unreadable, Show(Read) \/ Confirm(Read)
    PROVE  IInv'
<1>1. /\ HasRows(Read) /\ Good(Read, turns, confirmed, shown) /\ turns \in Nat
      /\ shown # Nothing => NotYet(shown, turns)
  BY ReadIsGood
<1>2. CASE Show(Read)
  <2>1. PICK r \in RowsOf(Read) : shown' = [id |-> r.id, key |-> r.key]
    BY <1>2 DEF Show
  <2>2. UNCHANGED <<file, pending, turns, clock, confirmed>>
    BY <1>2 DEF Show
  <2>3. \A q \in RowsOf(Read) : q.id = r.id => q = r
    <3>1. Unique(Read.decisions)
      BY ReadableIsLegal DEF Read, Legal
    <3> QED
      BY <3>1 DEF Unique, RowsOf, Range
  <2>4. ShowsRight(RowsOf(Read), shown')
    BY <2>1, <2>3 DEF ShowsRight
  <2>5. Good(Read, turns, confirmed, shown')
    BY <1>1, <2>4 DEF Good
  <2>6. r.key \in Nat
    <3>1. RowsOf(Read) \subseteq Decision
      BY <1>1, RangeOfSeq DEF HasRows, RowsOf
    <3> QED
      BY <3>1 DEF Decision
  <2>7. shown'.key \in Nat /\ NotYet(shown', turns)
    <3>1. NotYet(r, turns)
      BY <1>1 DEF Good, Issued
    <3> QED
      BY <2>1, <2>6, <3>1 DEF NotYet
  <2>8. Read' = Read
    BY <2>2 DEF Read
  <2> QED
    BY <2>2, <2>5, <2>7, <2>8 DEF IInv
<1>3. CASE Confirm(Read)
  <2> DEFINE y == Flagged(Read, shown.id, Confirmed)
  <2>1. /\ shown # Nothing /\ Begin(y, [Unprotected EXCEPT !.rows = {shown.id}])
        /\ confirmed' = confirmed \cup {shown.key} /\ shown' = Nothing
    BY <1>3 DEF Confirm
  <2>2. Good(y, turns, confirmed', shown)
    BY <1>1, <2>1, ConfirmedGood
  <2> HIDE DEF y
  <2>3. turns + 1 \in Nat /\ turns + 1 >= turns
    BY <1>1
  <2>4. Good(y, turns + 1, confirmed', Nothing)
    BY <1>1, <2>2, <2>3, GoodLater
  <2>5. confirmed \subseteq confirmed'
    BY <2>1
  <2> QED
    BY <2>1, <2>4, <2>5, BeginKeeps
<1> QED
  BY <1>2, <1>3
\* A human looks away: nothing is shown any more.
LEMMA LookAwayKeeps ==
    ASSUME IInv, LookAway
    PROVE  IInv'
<1>1. shown' = Nothing /\ UNCHANGED <<file, pending, turns, clock, confirmed>> /\ Read' = Read
  BY DEF LookAway, Read
<1>2. ASSUME NEW m, Good(m, turns, confirmed, shown)
      PROVE  Good(m, turns, confirmed, Nothing)
  BY <1>2 DEF Good, ShowsRight
<1> QED
  BY <1>1, <1>2 DEF IInv

\* fitMemoryToBudget judges the transaction's memory, which it leaves alone.
LEMMA FitKeeps ==
    ASSUME IInv, FitToBudget
    PROVE  IInv'
<1> DEFINE v == Fit(pending.memory, clock, pending.protection)
<1>1. /\ pending # Idle /\ pending' = [pending EXCEPT !.verdict = v]
      /\ UNCHANGED <<file, turns, clock, shown, confirmed>> /\ Read' = Read
  BY DEF FitToBudget, Read
<1>2. v.fits => v.memory = Fitted(pending.memory, clock, pending.protection)
  BY DEF Fit
<1> HIDE DEF v
<1>3. /\ DOMAIN pending' = {"memory", "protection", "verdict"}
      /\ pending'.memory = pending.memory /\ pending'.protection = pending.protection
      /\ pending'.verdict = v
  BY <1>1 DEF IInv
<1> QED
  BY <1>1, <1>2, <1>3 DEF IInv

\* commitMemoryExact writes what the budget made of the memory, which is legal
\* and so will be read with the same rows.
LEMMA CommitKeeps ==
    ASSUME IInv, Commit
    PROVE  IInv'
<1>1. /\ pending # Idle /\ pending.verdict.fits /\ Legal(file')
      /\ file' = pending.verdict.memory /\ pending' = Idle
      /\ UNCHANGED <<turns, clock, shown, confirmed>>
  BY DEF Commit, Judged, Accepted, Idle
<1>2. /\ Good(pending.memory, turns, confirmed, shown)
      /\ file' = Fitted(pending.memory, clock, pending.protection)
  BY <1>1 DEF IInv
<1>3. Reduced(file', pending.memory, pending.protection)
  BY <1>2, FittedReduces DEF Good
<1>4. Good(file', turns, confirmed, shown)
  BY <1>2, <1>3, ReducedGood
<1>5. ASSUME Read' # Unreadable PROVE Good(Read', turns, confirmed, shown)
  <2>1. Read' = Load(file')
    BY DEF Read
  <2>2. HasRows(Read') /\ RowsOf(Read') = RowsOf(file')
    BY <1>1, <1>4, <1>5, <2>1, LegalIsRead DEF Good
  <2> QED
    BY <1>4, <2>2 DEF Good
<1>6. DOMAIN Idle = {"memory", "protection", "verdict"}
  BY DEF Idle
<1> QED
  BY <1>1, <1>5, <1>6 DEF IInv

\* What was refused leaves the file as it was, and time passes between
\* transactions.
LEMMA RestKeeps ==
    ASSUME IInv, Refuse \/ Tick \/ UNCHANGED vars
    PROVE  IInv'
<1>1. DOMAIN Idle = {"memory", "protection", "verdict"}
  BY DEF Idle
<1>2. CASE Refuse
  <2>1. pending' = Idle /\ UNCHANGED <<file, turns, clock, shown, confirmed>> /\ Read' = Read
    BY <1>2 DEF Refuse, Read
  <2> QED
    BY <1>1, <2>1 DEF IInv
<1>3. CASE Tick
  <2>1. /\ pending = Idle /\ clock' = clock + 1 /\ Read' = Read
        /\ UNCHANGED <<file, pending, turns, shown, confirmed>>
    BY <1>3 DEF Tick, Read
  <2>2. clock' \in Nat
    BY <2>1 DEF IInv
  <2> QED
    BY <2>1, <2>2 DEF IInv
<1>4. CASE UNCHANGED vars
  <2>1. UNCHANGED <<file, pending, turns, clock, shown, confirmed>> /\ Read' = Read
    BY <1>4 DEF vars, Read
  <2> QED
    BY <2>1 DEF IInv
<1> QED
  BY <1>2, <1>3, <1>4

\* Every behaviour starts from a good document, if it can be read.
LEMMA InitGood == Init => IInv
<1> SUFFICES ASSUME Init PROVE IInv
  OBVIOUS
<1>1. /\ file \in InitialFiles /\ pending = Idle /\ turns = 0 /\ clock = 1
      /\ shown = Nothing /\ confirmed = ReviewedAlone(file)
  BY DEF Init, ReviewedAlone
<1>2. DOMAIN Idle = {"memory", "protection", "verdict"}
  BY DEF Idle
<1>3. Read # Unreadable => Good(Read, turns, confirmed, shown)
  BY <1>1, OldIsGood DEF Read
<1> QED
  BY <1>1, <1>2, <1>3 DEF IInv

\* Every step of a document's life keeps it good.
LEMMA StepKeeps == IInv /\ [Next]_vars => IInv'
<1> SUFFICES ASSUME IInv, [Next]_vars PROVE IInv'
  OBVIOUS
<1> DEFINE others ==
      \/ \E s \in Session, t \in Text : Learn(Read, s, t)
      \/ PersistAuditGuard(Read)
      \/ \E id \in Ids(Range(Read.audits)) : PersistTerminal(Read, id)
      \/ \E model \in Model : PersistModelHealth(Read, model)
      \/ RecallPromote(Read)
    reads ==
      /\ pending = Idle /\ Read # Unreadable
      /\ \/ \E s \in Session, t \in Text \cup {0} : Observe(Read, s, t)
         \/ others
         \/ Show(Read) \/ Confirm(Read)
<1>1. \/ reads \/ LookAway \/ FitToBudget \/ Commit
      \/ Refuse \/ Tick \/ UNCHANGED vars
  BY DEF Next
<1>2. CASE reads
  <2>1. CASE \E s \in Session, t \in Text \cup {0} : Observe(Read, s, t)
    BY <1>2, <2>1, ObserveKeeps
  <2>2. CASE others
    BY <1>2, <2>2, OthersKeep
  <2>3. CASE Show(Read) \/ Confirm(Read)
    BY <1>2, <2>3, PromotionKeeps
  <2> QED
    BY <1>2, <2>1, <2>2, <2>3
<1>3. CASE LookAway
  BY <1>3, LookAwayKeeps
<1>4. CASE FitToBudget
  BY <1>4, FitKeeps
<1>5. CASE Commit
  BY <1>5, CommitKeeps
<1>6. CASE Refuse \/ Tick \/ UNCHANGED vars
  BY <1>6, RestKeeps
<1> HIDE DEF reads
<1> QED
  BY <1>1, <1>2, <1>3, <1>4, <1>5, <1>6

\* The document that is read is good, and so is what is about to be written,
\* in every state of every behaviour (mutateMemory).
THEOREM DocumentInductive == Spec => []IInv
BY InitGood, StepKeeps, PTL DEF Spec

\* A row that is read as a human's is one that a human was shown and confirmed
\* (cli.ts promote, migrate.ts repairDecisionIds).
THEOREM TrustHolds == Spec => []OnlyConfirmedIsTrusted
<1>1. IInv => OnlyConfirmedIsTrusted
  BY DEF IInv, Good, Trusts, OnlyConfirmedIsTrusted
<1> QED
  BY <1>1, DocumentInductive, PTL

\* Every reference leads to the decision that was meant, or to none
\* (migrate.ts, budget.ts).
THEOREM LineageIsKept == Spec => []LineageHolds
<1>1. IInv => LineageHolds
  BY DEF IInv, Good, Linked, LineageHolds
<1> QED
  BY <1>1, DocumentInductive, PTL
-----------------------------------------------------------------------------
(* What a commit leaves of the rows                                        *)

\* No row is dropped that is foundational, quarantined or protected by the
\* transaction, and no other stays that is invalid or old (budget.ts, stages
\* 5, 7 and 9): the part of FitsAsAssumed that is about rows.
THEOREM RowsAreLeft ==
    Spec => [](Judged /\ pending.verdict.fits =>
                   LeavesRows(pending.memory, pending.verdict.memory))
<1>1. ASSUME IInv, Judged, pending.verdict.fits
      PROVE  LeavesRows(pending.memory, pending.verdict.memory)
  <2> DEFINE c == pending.memory
             p == pending.protection
             r == pending.verdict.memory
             ids == ProtectedIds(c, p)
  <2>1. pending # Idle
    BY <1>1 DEF Judged, Idle
  <2>2. HasRows(c) /\ r = Fitted(c, clock, p)
    BY <1>1, <2>1 DEF IInv, Good
  <2>3. Reduced(r, c, p) /\ \A q \in RowsOf(r) : Lasting(q, ids, clock)
    BY <2>2, FittedReduces
  <2>4. RowsOf(c) \subseteq Decision
    BY <2>2, RangeOfSeq DEF HasRows, RowsOf
  <2>5. \A q \in RowsOf(c) : q \in Kept(c) <=> ProtectedRow(q, p)
    BY DEF Kept, ProtectedRow, Has
  <2> HIDE DEF c, p, r
  <2>6. Ids(Kept(c)) \subseteq Ids(RowsOf(r))
    <3> SUFFICES ASSUME NEW q \in Kept(c) PROVE q.id \in Ids(RowsOf(r))
      BY DEF Ids
    <3>1. q \in RowsOf(c)
      BY DEF Kept
    <3>2. PICK k \in RowsOf(r) : IsRow(k, q)
      BY <2>3, <2>5, <3>1 DEF Reduced, Protects
    <3> QED
      BY <3>2 DEF IsRow, Ids
  <2>7. ASSUME NEW k \in RowsOf(r) PROVE k.id \in Ids(Kept(c) \cup Current(c))
    <3>1. PICK q \in RowsOf(c) : IsRow(k, q)
      BY <2>3 DEF Reduced, Descends
    <3>2. CASE k.id \in ids
      <4>1. \/ k.id \in p.rows
            \/ \E x \in RowsOf(c) : x.id = k.id
                 /\ (Has(x, "foundational") \/ Has(x, "human_conflict_quarantined"))
        BY <3>2 DEF ProtectedIds, RowsOf
      <4>2. PICK x \in RowsOf(c) : x.id = k.id /\ ProtectedRow(x, p)
        BY <3>1, <4>1 DEF IsRow, ProtectedRow
      <4> QED
        BY <2>5, <4>2 DEF Ids
    <3>3. CASE k.id \notin ids
      <4>1. Has(q, "still_valid") /\ q.stamp # NoTime /\ clock <= q.stamp + Horizon
        BY <2>3, <3>1, <3>3 DEF Lasting, IsRow, Has
      <4>2. q.stamp \in Int /\ Horizon \in Nat /\ clock \in Nat
        BY <1>1, <2>4, <4>1, BudgetAssumption DEF Decision, IInv
      <4>3. clock - q.stamp <= Horizon
        BY <4>1, <4>2
      <4>4. q \in Kept(c) \cup Current(c)
        BY <4>1, <4>3 DEF Current
      <4> QED
        BY <3>1, <4>4 DEF IsRow, Ids
    <3> QED
      BY <3>2, <3>3
  <2>8. LeavesRows(c, r)
    BY <2>6, <2>7 DEF LeavesRows, Ids
  <2> QED
    BY <2>8 DEF c, r
<1> QED
  BY <1>1, DocumentInductive, PTL
=============================================================================
