------------------------ MODULE StateBudget_proofs ------------------------
(***************************************************************************)
(* Proofs about what the budget makes of a document (modules Budget and    *)
(* StateDocument): what each stage sheds and what the document weighs      *)
(* after it, what a transaction may hand to the budget (BInv), and from    *)
(* the two together what a commit leaves.                                  *)
(***************************************************************************)
EXTENDS StateDocument_proofs
-----------------------------------------------------------------------------
(* Lists and the lists they were made from                                 *)

\* What places a set of numbers up to n has.
LEMMA PlacesFinite ==
    ASSUME NEW D, NEW s \in Seq(D), NEW at \in SUBSET DOMAIN s
    PROVE  /\ IsFiniteSet(at) /\ Cardinality(at) \in Nat
           /\ Len(s) \in Nat /\ DOMAIN s = 1 .. Len(s)
           /\ \A i \in at : i \in Nat
<1>1. Len(s) \in Nat /\ DOMAIN s = 1 .. Len(s)
  BY LenProperties
<1>2. IsFiniteSet(1 .. Len(s))
  BY <1>1, FS_Interval
<1>3. IsFiniteSet(at)
  BY <1>1, <1>2, FS_Subset
<1> QED
  BY <1>1, <1>3, FS_CardinalityType

\* t has the entries of s at some of its places, in the same order: g says from
\* which place each came.
Selects(g, t, s, at) ==
    /\ g \in [1 .. Cardinality(at) -> at]
    /\ \A j, k \in 1 .. Cardinality(at) : j < k => g[j] < g[k]
    /\ \A i \in at : \E k \in 1 .. Cardinality(at) : g[k] = i
    /\ t = [k \in 1 .. Cardinality(at) |-> s[g[k]]]

\* The order of numbers, on a set of them.
Below(S) == {p \in S \X S : p[1] < p[2]}

\* Numbers are in order.
LEMMA BelowOrders ==
    ASSUME NEW S \in SUBSET Nat
    PROVE  Orders(Below(S), S) /\ \A i, j \in S : <<i, j>> \in Below(S) <=> i < j
<1>1. \A i, j \in S : <<i, j>> \in Below(S) <=> i < j
  BY DEF Below
<1>2. \A i \in S : <<i, i>> \notin Below(S)
  BY <1>1
<1>3. \A i, j, k \in S :
          <<i, j>> \in Below(S) /\ <<j, k>> \in Below(S) => <<i, k>> \in Below(S)
  <2> SUFFICES ASSUME NEW i \in S, NEW j \in S, NEW k \in S, i < j, j < k PROVE i < k
    BY <1>1
  <2> QED
    OBVIOUS
<1>4. \A i, j \in S : i # j => <<i, j>> \in Below(S) \/ <<j, i>> \in Below(S)
  BY <1>1
<1> QED
  BY <1>1, <1>2, <1>3, <1>4 DEF Orders

\* Of places in an order, an earlier one has a smaller number.
LEMMA PlacesInOrder ==
    ASSUME NEW S, IsFiniteSet(S), NEW B, Orders(B, S), NEW i \in S, NEW k \in S
    PROVE  <<i, k>> \in B <=> PlaceIn(S, B)[i] < PlaceIn(S, B)[k]
<1> DEFINE below(x) == {j \in S : <<j, x>> \in B}
<1>1. ASSUME NEW x \in S
      PROVE  /\ IsFiniteSet(below(x)) /\ Cardinality(below(x)) \in Nat
             /\ PlaceIn(S, B)[x] = Cardinality(below(x)) + 1
  <2>1. below(x) \subseteq S
    OBVIOUS
  <2>2. PlaceIn(S, B)[x] = Cardinality(below(x)) + 1
    BY DEF PlaceIn
  <2> HIDE DEF below
  <2> QED
    BY <2>1, <2>2, PartIsSmaller
<1>2. ASSUME NEW x \in S, NEW y \in S, <<x, y>> \in B
      PROVE  PlaceIn(S, B)[x] < PlaceIn(S, B)[y]
  <2>1. below(x) \subseteq below(y) /\ below(x) # below(y)
    <3>1. x \in below(y) /\ x \notin below(x)
      BY <1>2 DEF Orders
    <3>2. below(x) \subseteq below(y)
      BY <1>2 DEF Orders
    <3> HIDE DEF below
    <3> QED
      BY <3>1, <3>2
  <2> HIDE DEF below
  <2>2. Cardinality(below(x)) < Cardinality(below(y))
    BY <1>1, <2>1, PartIsSmaller
  <2> QED
    BY <1>1, <2>2
<1>3. PlaceIn(S, B)[i] \in Nat /\ PlaceIn(S, B)[k] \in Nat
  <2> HIDE DEF below
  <2> QED
    BY <1>1
<1>4. i = k \/ <<i, k>> \in B \/ <<k, i>> \in B
  BY DEF Orders
<1>5. i = k => <<i, k>> \notin B
  BY DEF Orders
<1> QED
  BY <1>2, <1>3, <1>4, <1>5

\* The elements of a set by their rank, which is their place in an order.
ByRank(S, rank) == [k \in 1 .. Cardinality(S) |-> CHOOSE i \in S : rank[i] = k]
Ranks(rank, S, B) == \A i \in S : rank[i] = PlaceIn(S, B)[i]

\* By rank the elements of a set are in their order, and none is missing.
LEMMA InOrderOf ==
    ASSUME NEW S, IsFiniteSet(S), NEW B, Orders(B, S), NEW rank, Ranks(rank, S, B)
    PROVE  /\ Cardinality(S) \in Nat
           /\ ByRank(S, rank) \in [1 .. Cardinality(S) -> S]
           /\ \A j, k \in 1 .. Cardinality(S) :
                 j < k <=> <<ByRank(S, rank)[j], ByRank(S, rank)[k]>> \in B
           /\ \A i \in S : \E k \in 1 .. Cardinality(S) : ByRank(S, rank)[k] = i
<1> DEFINE n == Cardinality(S)
           g == ByRank(S, rank)
<1>1. g = [k \in 1 .. n |-> CHOOSE i \in S : rank[i] = k]
  BY DEF ByRank
<1> HIDE DEF g
<1>2. /\ n \in Nat
      /\ \A i \in S : PlaceIn(S, B)[i] \in 1 .. n
      /\ \A i, k \in S : PlaceIn(S, B)[i] = PlaceIn(S, B)[k] => i = k
      /\ \A k \in 1 .. n : \E i \in S : PlaceIn(S, B)[i] = k
  BY Places
<1> HIDE DEF n
<1>3. \A k \in 1 .. n : \E i \in S : rank[i] = k
  BY <1>2 DEF Ranks
<1>4. ASSUME NEW k \in 1 .. n PROVE g[k] \in S /\ PlaceIn(S, B)[g[k]] = k
  <2>1. g[k] \in S /\ rank[g[k]] = k
    BY <1>1, <1>3
  <2> QED
    BY <2>1 DEF Ranks
<1>5. g \in [1 .. n -> S]
  BY <1>1, <1>3
<1>6. ASSUME NEW j \in 1 .. n, NEW k \in 1 .. n
      PROVE  j < k <=> <<g[j], g[k]>> \in B
  BY <1>4, PlacesInOrder
<1>7. ASSUME NEW i \in S PROVE \E k \in 1 .. n : g[k] = i
  <2> DEFINE k == PlaceIn(S, B)[i]
  <2>1. k \in 1 .. n
    BY <1>2
  <2> HIDE DEF k
  <2>2. g[k] \in S /\ PlaceIn(S, B)[g[k]] = k
    BY <1>4, <2>1
  <2>3. g[k] = i
    BY <1>2, <2>2 DEF k
  <2> QED
    BY <2>1, <2>3
<1> QED
  BY <1>2, <1>5, <1>6, <1>7 DEF g, n

\* At selects.
LEMMA AtSelects ==
    ASSUME NEW D, NEW s \in Seq(D), NEW at \in SUBSET DOMAIN s
    PROVE  /\ Cardinality(at) \in Nat
           /\ \E g : Selects(g, At(s, at), s, at)
           /\ At(s, at) \in Seq(D) /\ Len(At(s, at)) = Cardinality(at)
           /\ Range(At(s, at)) = {s[i] : i \in at}
<1> DEFINE place == [i \in at |-> Cardinality({j \in at : j <= i})]
           n == Cardinality(at)
           g == ByRank(at, place)
           w == [k \in 1 .. n |-> s[g[k]]]
<1>1. IsFiniteSet(at) /\ n \in Nat /\ at \in SUBSET Nat /\ DOMAIN s = 1 .. Len(s)
      /\ Len(s) \in Nat
  BY PlacesFinite
<1>2. Orders(Below(at), at) /\ \A i, j \in at : <<i, j>> \in Below(at) <=> i < j
  BY <1>1, BelowOrders
<1>3. ASSUME NEW i \in at PROVE place[i] = PlaceIn(at, Below(at))[i]
  <2> DEFINE below == {j \in at : <<j, i>> \in Below(at)}
  <2>1. {j \in at : j <= i} = below \cup {i} /\ i \notin below
    BY <1>1, <1>2
  <2>2. IsFiniteSet(below) /\ Cardinality(below) \in Nat
    <3>1. below \subseteq at
      OBVIOUS
    <3> HIDE DEF below
    <3> QED
      BY <1>1, <3>1, PartIsSmaller
  <2>3. PlaceIn(at, Below(at))[i] = Cardinality(below) + 1
    BY DEF PlaceIn
  <2>4. Cardinality(below \cup {i}) = Cardinality(below) + 1
    <3> HIDE DEF below
    <3> QED
      BY <2>1, <2>2, FS_AddElement
  <2> QED
    BY <2>1, <2>3, <2>4
<1>4. w = At(s, at)
  <2> DEFINE which(k) == CHOOSE i \in at : place[i] = k
  <2>1. At(s, at) = [k \in 1 .. n |-> s[which(k)]]
    BY DEF At
  <2> HIDE DEF place
  <2>2. g = [k \in 1 .. n |-> which(k)]
    BY DEF ByRank
  <2> HIDE DEF which, n, g
  <2> QED
    BY <2>1, <2>2
<1>5. Ranks(place, at, Below(at))
  <2> HIDE DEF place
  <2> QED
    BY <1>3 DEF Ranks
<1> HIDE DEF place
<1>6. /\ g \in [1 .. n -> at]
      /\ \A j, k \in 1 .. n : j < k <=> <<g[j], g[k]>> \in Below(at)
      /\ \A i \in at : \E k \in 1 .. n : g[k] = i
  BY <1>1, <1>2, <1>5, InOrderOf
<1> HIDE DEF g
<1>7. \A k \in 1 .. n : g[k] \in at
  BY <1>6
<1>8. Selects(g, w, s, at)
  BY <1>2, <1>6, <1>7 DEF Selects
<1>9. \A i \in at : s[i] \in Range(s)
  BY DEF Range
<1>10. w \in [1 .. n -> Range(s)]
  BY <1>7, <1>9
<1>11. /\ w \in Seq(D) /\ Len(w) = n /\ Range(w) = {w[k] : k \in 1 .. n}
  <2> HIDE DEF w, n
  <2> QED
    BY <1>1, <1>10, ListOf
<1>12. \A k \in 1 .. n : w[k] = s[g[k]]
  OBVIOUS
<1> HIDE DEF w, n
<1>13. Range(w) = {s[i] : i \in at}
  BY <1>6, <1>7, <1>11, <1>12
<1> QED
  BY <1>1, <1>4, <1>8, <1>11, <1>13 DEF n

\* How much is left of a list that is cut.
Lesser(a, n) == IF a > n THEN n ELSE a

\* It is not more than there was, nor more than is asked for.
LEMMA LesserIs ==
    ASSUME NEW a \in Nat, NEW n \in Nat
    PROVE  /\ Lesser(a, n) \in Nat /\ Lesser(a, n) <= a /\ Lesser(a, n) <= n
           /\ a <= n => Lesser(a, n) = a
           /\ n <= a => Lesser(a, n) = n
<1>1. CASE a > n
  <2>1. Lesser(a, n) = n
    BY <1>1 DEF Lesser
  <2> QED
    BY <1>1, <2>1
<1>2. CASE ~(a > n)
  <2>1. Lesser(a, n) = a
    BY <1>2 DEF Lesser
  <2> QED
    BY <1>2, <2>1
<1> QED
  BY <1>1, <1>2

\* The numbers up to n are n.
LEMMA UpTo ==
    ASSUME NEW n \in Nat
    PROVE  IsFiniteSet(1 .. n) /\ Cardinality(1 .. n) = n
<1>1. IsFiniteSet(1 .. n) /\ Cardinality(1 .. n) = IF 1 > n THEN 0 ELSE n - 1 + 1
  BY FS_Interval
<1> QED
  BY <1>1

\* Every entry of t is one of s: no entry of s is there twice but where s has
\* it twice.
Drawn(t, s) ==
    \E g \in Injection(DOMAIN t, DOMAIN s) : \A k \in DOMAIN t : t[k] = s[g[k]]

\* What is drawn is not longer and has no other entries.
LEMMA DrawnIsLess ==
    ASSUME NEW D, NEW s \in Seq(D), NEW t \in Seq(D), Drawn(t, s)
    PROVE  Len(t) <= Len(s) /\ Range(t) \subseteq Range(s)
<1>1. PICK g \in Injection(DOMAIN t, DOMAIN s) : \A k \in DOMAIN t : t[k] = s[g[k]]
  BY DEF Drawn
<1>2. /\ Len(s) \in Nat /\ DOMAIN s = 1 .. Len(s)
      /\ Len(t) \in Nat /\ DOMAIN t = 1 .. Len(t)
  BY LenProperties
<1>3. /\ IsFiniteSet(1 .. Len(s)) /\ Cardinality(1 .. Len(s)) = Len(s)
      /\ Cardinality(1 .. Len(t)) = Len(t)
  BY <1>2, UpTo
<1>4. Cardinality(DOMAIN t) <= Cardinality(DOMAIN s)
  BY <1>2, <1>3, FS_Injection
<1>5. g \in [DOMAIN t -> DOMAIN s]
  BY DEF Injection
<1>6. Range(t) \subseteq Range(s)
  BY <1>1, <1>5 DEF Range
<1> QED
  BY <1>2, <1>3, <1>4, <1>6

\* How g is found.
LEMMA DrawnBy ==
    ASSUME NEW s, NEW t, NEW g \in [DOMAIN t -> DOMAIN s],
           \A j, k \in DOMAIN t : g[j] = g[k] => j = k,
           \A k \in DOMAIN t : t[k] = s[g[k]]
    PROVE  Drawn(t, s)
<1>1. g \in Injection(DOMAIN t, DOMAIN s)
  BY Fun_IsInj
<1> QED
  BY <1>1 DEF Drawn

\* A list is drawn from itself, and what is drawn from what was drawn.
LEMMA DrawnTwice ==
    ASSUME NEW s, NEW t, NEW u
    PROVE  Drawn(s, s) /\ (Drawn(t, s) /\ Drawn(u, t) => Drawn(u, s))
<1>1. Drawn(s, s)
  <2> DEFINE g == [k \in DOMAIN s |-> k]
  <2>1. g \in [DOMAIN s -> DOMAIN s] /\ \A k \in DOMAIN s : g[k] = k
    OBVIOUS
  <2> HIDE DEF g
  <2> QED
    BY <2>1, DrawnBy
<1>2. ASSUME Drawn(t, s), Drawn(u, t) PROVE Drawn(u, s)
  <2>1. PICK g \in Injection(DOMAIN t, DOMAIN s) : \A k \in DOMAIN t : t[k] = s[g[k]]
    BY <1>2 DEF Drawn
  <2>2. PICK h \in Injection(DOMAIN u, DOMAIN t) : \A k \in DOMAIN u : u[k] = t[h[k]]
    BY <1>2 DEF Drawn
  <2> DEFINE f == [k \in DOMAIN u |-> g[h[k]]]
  <2>3. f \in Injection(DOMAIN u, DOMAIN s)
    BY Fun_InjTransitive
  <2>4. h \in [DOMAIN u -> DOMAIN t]
    BY DEF Injection
  <2>5. \A k \in DOMAIN u : u[k] = s[f[k]]
    BY <2>1, <2>2, <2>4
  <2> HIDE DEF f
  <2> QED
    BY <2>3, <2>5 DEF Drawn
<1> QED
  BY <1>1, <1>2

\* What At selects is drawn; all the places select the list.
LEMMA AtDrawn ==
    ASSUME NEW D, NEW s \in Seq(D), NEW at \in SUBSET DOMAIN s
    PROVE  /\ Drawn(At(s, at), s) /\ At(s, at) \in Seq(D)
           /\ at = DOMAIN s => At(s, at) = s
           /\ at = {} => At(s, at) = <<>>
<1> DEFINE n == Cardinality(at)
           t == At(s, at)
<1>1. /\ IsFiniteSet(at) /\ n \in Nat /\ Len(s) \in Nat /\ DOMAIN s = 1 .. Len(s)
      /\ \A i \in at : i \in Nat
  BY PlacesFinite
<1>2. t \in Seq(D) /\ Len(t) = n /\ DOMAIN t = 1 .. n
  <2>1. t \in Seq(D) /\ Len(t) = n
    BY AtSelects
  <2> HIDE DEF t, n
  <2> QED
    BY <2>1, LenProperties
<1>3. PICK g : Selects(g, t, s, at)
  BY AtSelects
<1>4. /\ g \in [1 .. n -> at]
      /\ \A j, k \in 1 .. n : j < k => g[j] < g[k]
      /\ t = [k \in 1 .. n |-> s[g[k]]]
  BY <1>3 DEF Selects
<1> HIDE DEF t
<1>5. Drawn(t, s)
  <2>1. g \in [DOMAIN t -> DOMAIN s]
    BY <1>2, <1>4
  <2>2. ASSUME NEW j \in 1 .. n, NEW k \in 1 .. n, g[j] = g[k] PROVE j = k
    <3>1. g[j] \in Nat /\ g[k] \in Nat
      BY <1>1, <1>4
    <3>2. ~(j < k) /\ ~(k < j)
      BY <1>4, <2>2, <3>1
    <3> QED
      BY <1>1, <3>2
  <2>3. \A k \in DOMAIN t : t[k] = s[g[k]]
    BY <1>2, <1>4
  <2>4. \A j, k \in DOMAIN t : g[j] = g[k] => j = k
    BY <1>2, <2>2
  <2> HIDE DEF n
  <2> QED
    BY <2>1, <2>3, <2>4, DrawnBy
<1>6. ASSUME at = DOMAIN s PROVE t = s
  <2> DEFINE place == [i \in at |-> Cardinality({j \in at : j <= i})]
             which(k) == CHOOSE i \in at : place[i] = k
  <2>1. t = [k \in 1 .. n |-> s[which(k)]]
    BY DEF At, t
  <2>2. ASSUME NEW i \in at PROVE place[i] = i
    <3>1. {j \in at : j <= i} = 1 .. i
      BY <1>1, <1>6
    <3>2. i \in Nat /\ i >= 1
      BY <1>1, <1>6
    <3>3. Cardinality(1 .. i) = i
      BY <3>2, UpTo
    <3> QED
      BY <3>1, <3>3
  <2>3. n = Len(s)
    <3>1. Cardinality(1 .. Len(s)) = Len(s)
      BY <1>1, UpTo
    <3> QED
      BY <1>1, <1>6, <3>1
  <2> HIDE DEF place
  <2>4. \A k \in 1 .. n : which(k) = k
    BY <1>1, <1>6, <2>2, <2>3
  <2> HIDE DEF which, n
  <2>5. Len(t) = Len(s) /\ \A k \in 1 .. Len(t) : t[k] = s[k]
    BY <1>2, <2>1, <2>3, <2>4
  <2> QED
    BY <1>2, <2>5, SeqEqual
<1>7. ASSUME at = {} PROVE t = <<>>
  <2>1. n = 0
    BY <1>7, FS_EmptySet
  <2> QED
    BY <1>2, <2>1, EmptySeq
<1> QED
  BY <1>2, <1>5, <1>6, <1>7 DEF t

\* A filter draws from a list; what all pass, it leaves as it is.
LEMMA WithinDraws ==
    ASSUME NEW D, NEW s \in Seq(D), NEW S
    PROVE  /\ Within(s, S) \in Seq(D) /\ Range(Within(s, S)) = Range(s) \cap S
           /\ Drawn(Within(s, S), s) /\ Len(Within(s, S)) <= Len(s)
           /\ Range(s) \subseteq S => Within(s, S) = s
           /\ Range(s) \cap S = {} => Within(s, S) = <<>>
<1> DEFINE at == {i \in DOMAIN s : s[i] \in S}
<1>1. Within(s, S) = At(s, at)
  BY DEF Within
<1>2. Range(s) \subseteq S => at = DOMAIN s
  BY DEF Range
<1>3. Range(s) \cap S = {} => at = {}
  BY DEF Range
<1>4. at \in SUBSET DOMAIN s
  OBVIOUS
<1> HIDE DEF at
<1>5. /\ Drawn(At(s, at), s) /\ At(s, at) \in Seq(D)
      /\ at = DOMAIN s => At(s, at) = s
      /\ at = {} => At(s, at) = <<>>
  BY <1>4, AtDrawn
<1>6. Len(At(s, at)) <= Len(s)
  BY <1>5, DrawnIsLess
<1> QED
  BY <1>1, <1>2, <1>3, <1>5, <1>6, WithinKeeps

\* What is cut from a list's end.
LEMMA LastOfIs ==
    ASSUME NEW D, NEW s \in Seq(D), NEW n \in Nat
    PROVE  /\ LastOf(s, n) \in Seq(D)
           /\ Len(LastOf(s, n)) = IF Len(s) > n THEN n ELSE Len(s)
           /\ \A i \in 1 .. Len(LastOf(s, n)) :
                 LastOf(s, n)[i] = s[Len(s) - Len(LastOf(s, n)) + i]
           /\ Len(s) <= n => LastOf(s, n) = s
           /\ Drawn(LastOf(s, n), s)
<1> DEFINE m == Lesser(Len(s), n)
           first == Len(s) - m + 1
           t == SubSeq(s, first, Len(s))
<1>1. Len(s) \in Nat /\ DOMAIN s = 1 .. Len(s)
  BY LenProperties
<1>2. m \in Nat /\ m <= Len(s) /\ first = Len(s) - m + 1 /\ first \in Int
  <2>1. m \in Nat /\ m <= Len(s)
    BY <1>1, LesserIs
  <2> HIDE DEF m
  <2> QED
    BY <1>1, <2>1
<1>3. t = LastOf(s, n)
  <2>1. first = IF Len(s) > n THEN Len(s) - n + 1 ELSE 1
    BY <1>1 DEF Lesser
  <2> QED
    BY <2>1 DEF LastOf
<1>4. Len(s) <= n => m = Len(s)
  BY <1>1, LesserIs
<1>5. m = IF Len(s) > n THEN n ELSE Len(s)
  BY DEF Lesser
<1> HIDE DEF m, first
<1>6. \A i \in first .. Len(s) : s[i] \in D
  <2> SUFFICES ASSUME NEW i \in first .. Len(s) PROVE s[i] \in D
    OBVIOUS
  <2>1. i \in 1 .. Len(s)
    BY <1>1, <1>2
  <2> QED
    BY <2>1, ElementOfSeq
<1>7. /\ t \in Seq(D) /\ Len(t) = IF first <= Len(s) THEN Len(s) - first + 1 ELSE 0
      /\ \A i \in 1 .. Len(s) - first + 1 : t[i] = s[first + i - 1]
  BY <1>1, <1>2, <1>6, SubSeqProperties
<1> HIDE DEF t
<1>8. Len(t) = m
  BY <1>1, <1>2, <1>7
<1>9. \A i \in 1 .. m : t[i] = s[Len(s) - m + i]
  <2> SUFFICES ASSUME NEW i \in 1 .. m PROVE t[i] = s[Len(s) - m + i]
    OBVIOUS
  <2>1. i \in 1 .. Len(s) - first + 1 /\ first + i - 1 = Len(s) - m + i
    BY <1>1, <1>2
  <2> QED
    BY <1>7, <2>1
<1>10. DOMAIN t = 1 .. m
  BY <1>7, <1>8, LenProperties
<1>11. Drawn(t, s)
  <2> DEFINE g == [i \in 1 .. m |-> Len(s) - m + i]
  <2>1. \A i \in 1 .. m : g[i] \in 1 .. Len(s) /\ g[i] = Len(s) - m + i
    BY <1>1, <1>2
  <2>2. g \in [DOMAIN t -> DOMAIN s]
    BY <1>1, <1>10, <2>1
  <2> HIDE DEF g
  <2>3. \A j, k \in DOMAIN t : g[j] = g[k] => j = k
    BY <1>1, <1>2, <1>10, <2>1
  <2>4. \A k \in DOMAIN t : t[k] = s[g[k]]
    BY <1>9, <1>10, <2>1
  <2> QED
    BY <2>2, <2>3, <2>4, DrawnBy
<1>12. ASSUME Len(s) <= n PROVE t = s
  <2>1. m = Len(s)
    BY <1>4, <1>12
  <2>2. \A i \in 1 .. Len(t) : t[i] = s[i]
    BY <1>1, <1>8, <1>9, <2>1
  <2> QED
    BY <1>7, <1>8, <2>1, <2>2, SeqEqual
<1> QED
  BY <1>5, <1>3, <1>7, <1>8, <1>9, <1>11, <1>12

\* What is cut from a list's front.
LEMMA FirstOfIs ==
    ASSUME NEW D, NEW s \in Seq(D), NEW n \in Nat
    PROVE  /\ FirstOf(s, n) \in Seq(D)
           /\ Len(FirstOf(s, n)) = IF Len(s) > n THEN n ELSE Len(s)
           /\ \A i \in 1 .. Len(FirstOf(s, n)) : FirstOf(s, n)[i] = s[i]
           /\ Len(s) <= n => FirstOf(s, n) = s
           /\ Drawn(FirstOf(s, n), s)
<1> DEFINE m == Lesser(Len(s), n)
           t == SubSeq(s, 1, m)
<1>1. Len(s) \in Nat /\ DOMAIN s = 1 .. Len(s)
  BY LenProperties
<1>2. m \in Nat /\ m <= Len(s) /\ (Len(s) <= n => m = Len(s))
  BY <1>1, LesserIs
<1>3. t = FirstOf(s, n) /\ m = IF Len(s) > n THEN n ELSE Len(s)
  BY DEF FirstOf, Lesser
<1> HIDE DEF m
<1>4. \A i \in 1 .. m : i \in 1 .. Len(s)
  <2>1. m \in Nat /\ m <= Len(s) /\ Len(s) \in Nat
    BY <1>1, <1>2
  <2> QED
    BY <2>1
<1>5. \A i \in 1 .. m : s[i] \in D
  BY <1>4, ElementOfSeq
<1>6. /\ t \in Seq(D) /\ Len(t) = IF 1 <= m THEN m - 1 + 1 ELSE 0
      /\ \A i \in 1 .. m - 1 + 1 : t[i] = s[1 + i - 1]
  BY <1>2, <1>5, SubSeqProperties
<1> HIDE DEF t
<1>7. Len(t) = m /\ DOMAIN t = 1 .. m
  <2>1. Len(t) = m
    BY <1>2, <1>6
  <2> QED
    BY <1>6, <2>1, LenProperties
<1>8. \A i \in 1 .. m : t[i] = s[i]
  <2> SUFFICES ASSUME NEW i \in 1 .. m PROVE t[i] = s[i]
    OBVIOUS
  <2>1. i \in 1 .. m - 1 + 1 /\ 1 + i - 1 = i
    BY <1>2
  <2> QED
    BY <1>6, <2>1
<1>9. Drawn(t, s)
  <2> DEFINE g == [i \in 1 .. m |-> i]
  <2>1. \A i \in 1 .. m : i \in 1 .. Len(s) /\ g[i] = i
    BY <1>4
  <2>2. g \in [DOMAIN t -> DOMAIN s]
    BY <1>1, <1>7, <2>1
  <2> HIDE DEF g
  <2>3. \A k \in DOMAIN t : g[k] = k /\ t[k] = s[g[k]]
    BY <1>7, <1>8, <2>1
  <2> QED
    BY <2>2, <2>3, DrawnBy
<1>10. ASSUME Len(s) <= n PROVE t = s
  <2>1. m = Len(s)
    BY <1>2, <1>10
  <2>2. \A i \in 1 .. Len(t) : t[i] = s[i]
    BY <1>7, <1>8
  <2> QED
    BY <1>6, <1>7, <2>1, <2>2, SeqEqual
<1> QED
  BY <1>3, <1>6, <1>7, <1>8, <1>9, <1>10
-----------------------------------------------------------------------------
(* Sorting                                                                 *)

\* Of two entries at the places in p the first comes first, L, or neither
\* does and it was there first.
Stable(L, S) == {p \in S \X S : p \in L \/ (<<p[2], p[1]>> \notin L /\ p[1] < p[2])}

\* L is a strict weak order of S: what neither precedes nor follows is equal.
Weak(L, S) ==
    /\ \A i, j \in S : <<i, j>> \in L => <<j, i>> \notin L
    /\ \A i, j, k \in S : <<i, k>> \in L => <<i, j>> \in L \/ <<j, k>> \in L

\* Ties are decided by the places.
LEMMA StableOrders ==
    ASSUME NEW S \in SUBSET Nat, NEW L, Weak(L, S)
    PROVE  Orders(Stable(L, S), S)
<1>1. \A i, j \in S : <<i, j>> \in Stable(L, S)
                          <=> <<i, j>> \in L \/ (<<j, i>> \notin L /\ i < j)
  BY DEF Stable
<1>2. \A i \in S : <<i, i>> \notin Stable(L, S)
  BY <1>1 DEF Weak
<1>3. ASSUME NEW i \in S, NEW j \in S, NEW k \in S,
             <<i, j>> \in Stable(L, S), <<j, k>> \in Stable(L, S)
      PROVE  <<i, k>> \in Stable(L, S)
  <2>1. /\ <<i, j>> \in L \/ (<<j, i>> \notin L /\ i < j)
        /\ <<j, k>> \in L \/ (<<k, j>> \notin L /\ j < k)
    BY <1>1, <1>3
  <2>2. /\ <<i, j>> \in L => <<i, k>> \in L \/ <<k, j>> \in L
        /\ <<j, k>> \in L => <<j, i>> \in L \/ <<i, k>> \in L
        /\ <<k, i>> \in L => <<k, j>> \in L \/ <<j, i>> \in L
        /\ <<i, j>> \in L => <<j, i>> \notin L
        /\ <<j, k>> \in L => <<k, j>> \notin L
    BY DEF Weak
  <2>3. i < j /\ j < k => i < k
    OBVIOUS
  <2>4. <<i, k>> \in L \/ (<<k, i>> \notin L /\ i < k)
    BY <2>1, <2>2, <2>3
  <2> QED
    BY <1>1, <2>4
<1>4. \A i, j \in S : i # j => <<i, j>> \in Stable(L, S) \/ <<j, i>> \in Stable(L, S)
  <2> SUFFICES ASSUME NEW i \in S, NEW j \in S, i # j
               PROVE  <<i, j>> \in Stable(L, S) \/ <<j, i>> \in Stable(L, S)
    OBVIOUS
  <2>1. i < j \/ j < i
    OBVIOUS
  <2> QED
    BY <1>1, <2>1
<1> QED
  BY <1>2, <1>3, <1>4 DEF Orders

\* The entries of s by the places of an order.
Arranges(g, t, s, B) ==
    /\ g \in [1 .. Len(s) -> 1 .. Len(s)]
    /\ \A j, k \in 1 .. Len(s) : j < k <=> <<g[j], g[k]>> \in B
    /\ \A i \in 1 .. Len(s) : \E k \in 1 .. Len(s) : g[k] = i
    /\ \A k \in 1 .. Len(s) : t[k] = s[g[k]]

RankIn(s, L) ==
    [i \in DOMAIN s |-> Cardinality({j \in DOMAIN s : <<j, i>> \in Stable(L, DOMAIN s)}) + 1]

\* What Sorted makes of s if L says of which places the entries come first.
SortOf(s, L) == [k \in DOMAIN s |-> s[CHOOSE i \in DOMAIN s : RankIn(s, L)[i] = k]]

\* A sort gives the same entries in order; what is in order it leaves as it is.
LEMMA SortOfIs ==
    ASSUME NEW D, NEW s \in Seq(D), NEW L, Weak(L, DOMAIN s)
    PROVE  /\ SortOf(s, L) \in Seq(D) /\ Len(SortOf(s, L)) = Len(s)
           /\ Range(SortOf(s, L)) = Range(s) /\ Drawn(SortOf(s, L), s)
           /\ \E g : Arranges(g, SortOf(s, L), s, Stable(L, DOMAIN s))
           /\ (\A i, j \in DOMAIN s : i < j => <<j, i>> \notin L) => SortOf(s, L) = s
<1> DEFINE S == DOMAIN s
           n == Len(s)
           B == Stable(L, S)
           rank == RankIn(s, L)
           g == ByRank(S, rank)
           t == SortOf(s, L)
<1>1. n \in Nat /\ S = 1 .. n /\ IsFiniteSet(S) /\ S \in SUBSET Nat /\ Cardinality(S) = n
  <2>1. n \in Nat /\ S = 1 .. n
    BY LenProperties
  <2>2. IsFiniteSet(1 .. n) /\ Cardinality(1 .. n) = n
    BY <2>1, UpTo
  <2> QED
    BY <2>1, <2>2
<1>2. Orders(B, S)
  BY <1>1, StableOrders
<1>3. Ranks(rank, S, B)
  BY DEF Ranks, RankIn, PlaceIn
<1>4. t = [k \in S |-> s[g[k]]]
  <2> DEFINE which(k) == CHOOSE i \in S : rank[i] = k
  <2>1. t = [k \in S |-> s[which(k)]]
    BY DEF SortOf
  <2>2. g = [k \in 1 .. Cardinality(S) |-> which(k)]
    BY DEF ByRank
  <2> HIDE DEF which, g, t, S, n
  <2> QED
    BY <1>1, <2>1, <2>2
<1> HIDE DEF rank, B, S, n, t
<1>5. /\ g \in [1 .. n -> S]
      /\ \A j, k \in 1 .. n : j < k <=> <<g[j], g[k]>> \in B
      /\ \A i \in S : \E k \in 1 .. n : g[k] = i
  <2>1. /\ ByRank(S, rank) \in [1 .. Cardinality(S) -> S]
        /\ \A j, k \in 1 .. Cardinality(S) :
              j < k <=> <<ByRank(S, rank)[j], ByRank(S, rank)[k]>> \in B
        /\ \A i \in S : \E k \in 1 .. Cardinality(S) : ByRank(S, rank)[k] = i
    <3>1. IsFiniteSet(S)
      BY <1>1
    <3> QED
      BY <1>2, <1>3, <3>1, InOrderOf
  <2> QED
    BY <1>1, <2>1
<1> HIDE DEF g
<1>6. \A k \in 1 .. n : g[k] \in 1 .. n /\ t[k] = s[g[k]]
  BY <1>1, <1>4, <1>5
<1>7. Arranges(g, t, s, B)
  BY <1>1, <1>5, <1>6 DEF Arranges, n
<1>8. \A i \in 1 .. n : s[i] \in Range(s)
  BY <1>1 DEF Range, S
<1>9. t \in [1 .. n -> Range(s)]
  BY <1>1, <1>4, <1>6, <1>8
<1>10. /\ t \in Seq(D) /\ Len(t) = n /\ Range(t) = {t[k] : k \in 1 .. n} /\ DOMAIN t = 1 .. n
  BY <1>1, <1>9, ListOf
<1>11. Range(t) = Range(s)
  <2>1. Range(s) = {s[i] : i \in 1 .. n}
    BY <1>1 DEF Range, S
  <2>2. \A k \in 1 .. n : t[k] \in Range(s)
    BY <1>6, <1>8
  <2>3. ASSUME NEW i \in 1 .. n PROVE s[i] \in Range(t)
    <3>1. PICK k \in 1 .. n : g[k] = i
      BY <1>1, <1>5
    <3>2. t[k] = s[i]
      BY <1>6, <3>1
    <3> QED
      BY <1>10, <3>2
  <2>4. Range(s) \subseteq Range(t)
    BY <2>1, <2>3
  <2>5. Range(t) \subseteq Range(s)
    BY <1>10, <2>2
  <2> QED
    BY <2>4, <2>5
<1>12. Drawn(t, s)
  <2>1. g \in [DOMAIN t -> DOMAIN s]
    BY <1>1, <1>5, <1>10 DEF S
  <2>2. ASSUME NEW j \in 1 .. n, NEW k \in 1 .. n, g[j] = g[k] PROVE j = k
    <3>1. <<g[j], g[k]>> \notin B /\ <<g[k], g[j]>> \notin B
      BY <1>1, <1>2, <1>6, <2>2 DEF Orders
    <3>2. ~(j < k) /\ ~(k < j)
      BY <1>5, <3>1
    <3> QED
      BY <1>1, <3>2
  <2>3. \A j, k \in DOMAIN t : g[j] = g[k] => j = k
    BY <1>10, <2>2
  <2>4. \A k \in DOMAIN t : t[k] = s[g[k]]
    BY <1>6, <1>10
  <2> QED
    BY <2>1, <2>3, <2>4, DrawnBy
<1>13. ASSUME \A i, j \in S : i < j => <<j, i>> \notin L PROVE t = s
  <2>1. \A i, j \in S : <<i, j>> \in B <=> i < j
    <3> SUFFICES ASSUME NEW i \in S, NEW j \in S PROVE <<i, j>> \in B <=> i < j
      OBVIOUS
    <3>1. <<i, j>> \in B <=> <<i, j>> \in L \/ (<<j, i>> \notin L /\ i < j)
      BY DEF B, Stable
    <3>2. <<i, j>> \in L => i < j
      <4>1. i = j => <<i, j>> \notin L
        BY DEF Weak, S
      <4>2. j < i => <<i, j>> \notin L
        BY <1>13
      <4>3. i < j \/ j < i \/ i = j
        BY <1>1
      <4> QED
        BY <4>1, <4>2, <4>3
    <3> QED
      BY <1>13, <3>1, <3>2
  <2>2. ASSUME NEW i \in S PROVE PlaceIn(S, B)[i] = i
    <3>1. i \in Nat /\ i >= 1 /\ i <= n /\ i - 1 \in Nat
      BY <1>1
    <3>2. {j \in S : <<j, i>> \in B} = 1 .. i - 1
      <4>1. {j \in S : <<j, i>> \in B} = {j \in S : j < i}
        BY <2>1
      <4>2. {j \in 1 .. n : j < i} = 1 .. i - 1
        BY <1>1, <3>1
      <4> QED
        BY <1>1, <4>1, <4>2
    <3>3. Cardinality(1 .. i - 1) = i - 1
      BY <3>1, UpTo
    <3>4. PlaceIn(S, B)[i] = Cardinality({j \in S : <<j, i>> \in B}) + 1
      BY DEF PlaceIn
    <3>5. PlaceIn(S, B)[i] = (i - 1) + 1
      BY <3>2, <3>3, <3>4
    <3>6. (i - 1) + 1 = i
      BY <3>1
    <3> QED
      BY <3>5, <3>6
  <2>3. \A k \in S : g[k] = k
    <3> SUFFICES ASSUME NEW k \in S PROVE g[k] = k
      OBVIOUS
    <3>1. g[k] = CHOOSE i \in S : rank[i] = k
      BY <1>1 DEF g, ByRank
    <3>2. \A i \in S : rank[i] = i
      BY <1>3, <2>2 DEF Ranks
    <3> QED
      BY <3>1, <3>2
  <2>4. \A k \in 1 .. Len(t) : t[k] = s[k]
    BY <1>1, <1>6, <1>10, <2>3
  <2> QED
    BY <1>10, <2>4, SeqEqual DEF n
<1> QED
  BY <1>7, <1>10, <1>11, <1>12, <1>13 DEF n, t, B, S
-----------------------------------------------------------------------------
(* Lists put together                                                      *)

\* Parts of a list that have no entry in common are drawn from it together.
LEMMA ConcatDrawn ==
    ASSUME NEW D, NEW s \in Seq(D), NEW a \in Seq(D), NEW b \in Seq(D),
           Drawn(a, s), Drawn(b, s), Range(a) \cap Range(b) = {}
    PROVE  Drawn(a \o b, s)
<1> DEFINE t == a \o b
<1>1. PICK f \in Injection(DOMAIN a, DOMAIN s) : \A k \in DOMAIN a : a[k] = s[f[k]]
  BY DEF Drawn
<1>2. PICK h \in Injection(DOMAIN b, DOMAIN s) : \A k \in DOMAIN b : b[k] = s[h[k]]
  BY DEF Drawn
<1>3. /\ Len(a) \in Nat /\ DOMAIN a = 1 .. Len(a) /\ Len(b) \in Nat /\ DOMAIN b = 1 .. Len(b)
      /\ t \in Seq(D) /\ Len(t) = Len(a) + Len(b)
      /\ \A i \in 1 .. Len(a) + Len(b) : t[i] = IF i <= Len(a) THEN a[i] ELSE b[i - Len(a)]
  <2>1. /\ Len(a) \in Nat /\ DOMAIN a = 1 .. Len(a)
        /\ Len(b) \in Nat /\ DOMAIN b = 1 .. Len(b)
    BY LenProperties
  <2>2. /\ t \in Seq(D) /\ Len(t) = Len(a) + Len(b)
        /\ \A i \in 1 .. Len(a) + Len(b) : t[i] = IF i <= Len(a) THEN a[i] ELSE b[i - Len(a)]
    BY ConcatProperties
  <2> QED
    BY <2>1, <2>2
<1>4. /\ f \in [DOMAIN a -> DOMAIN s] /\ \A j, k \in DOMAIN a : f[j] = f[k] => j = k
      /\ h \in [DOMAIN b -> DOMAIN s] /\ \A j, k \in DOMAIN b : h[j] = h[k] => j = k
  BY Fun_InjectionProperties
<1>5. DOMAIN t = 1 .. Len(a) + Len(b)
  BY <1>3, LenProperties
<1> HIDE DEF t
<1> DEFINE g == [i \in DOMAIN t |-> IF i <= Len(a) THEN f[i] ELSE h[i - Len(a)]]
<1>6. ASSUME NEW i \in DOMAIN t
      PROVE  \/ i \in DOMAIN a /\ g[i] = f[i] /\ t[i] = a[i]
             \/ /\ i \notin DOMAIN a /\ i - Len(a) \in DOMAIN b /\ g[i] = h[i - Len(a)]
                /\ t[i] = b[i - Len(a)]
  <2>1. CASE i <= Len(a)
    <3>1. i \in DOMAIN a
      BY <1>3, <1>5, <2>1
    <3> QED
      BY <1>3, <1>5, <2>1, <3>1
  <2>2. CASE ~(i <= Len(a))
    <3>1. i \notin DOMAIN a /\ i - Len(a) \in DOMAIN b
      BY <1>3, <1>5, <2>2
    <3> QED
      BY <1>3, <1>5, <2>2, <3>1
  <2> QED
    BY <2>1, <2>2
<1>7. g \in [DOMAIN t -> DOMAIN s]
  <2>1. \A i \in DOMAIN t : g[i] \in DOMAIN s
    BY <1>4, <1>6
  <2> QED
    BY <2>1
<1>8. \A k \in DOMAIN t : t[k] = s[g[k]]
  BY <1>1, <1>2, <1>6
<1> HIDE DEF g
<1>9. ASSUME NEW j \in DOMAIN a, NEW k \in DOMAIN b PROVE f[j] # h[k]
  <2>1. a[j] \in Range(a) /\ b[k] \in Range(b)
    BY DEF Range
  <2>2. a[j] # b[k]
    BY <2>1
  <2> QED
    BY <1>1, <1>2, <2>2
<1>10. ASSUME NEW j \in DOMAIN t, NEW k \in DOMAIN t, g[j] = g[k] PROVE j = k
  <2>1. CASE j \in DOMAIN a /\ k \in DOMAIN a
    BY <1>4, <1>6, <1>10, <2>1
  <2>2. CASE j \notin DOMAIN a /\ k \notin DOMAIN a
    <3>1. j - Len(a) = k - Len(a)
      BY <1>4, <1>6, <1>10, <2>2
    <3> QED
      BY <1>3, <1>5, <3>1
  <2>3. CASE j \in DOMAIN a /\ k \notin DOMAIN a
    BY <1>6, <1>9, <1>10, <2>3
  <2>4. CASE j \notin DOMAIN a /\ k \in DOMAIN a
    BY <1>6, <1>9, <1>10, <2>4
  <2> QED
    BY <2>1, <2>2, <2>3, <2>4
<1>11. Drawn(t, s)
  BY <1>7, <1>8, <1>10, DrawnBy
<1> QED
  BY <1>11 DEF t
-----------------------------------------------------------------------------
(* Sums                                                                    *)

\* What Total counts.
Bytes(s) == UNION {{i} \X (1 .. s[i]) : i \in DOMAIN s}

\* They are finitely many.
LEMMA BytesAre ==
    ASSUME NEW s \in Seq(Nat)
    PROVE  /\ IsFiniteSet(Bytes(s)) /\ Total(s) = Cardinality(Bytes(s)) /\ Total(s) \in Nat
           /\ \A i, b : <<i, b>> \in Bytes(s) <=> i \in DOMAIN s /\ b \in 1 .. s[i]
           /\ \A x \in Bytes(s) : x = <<x[1], x[2]>>
<1> DEFINE at(i) == {i} \X (1 .. s[i])
           all == {at(i) : i \in DOMAIN s}
           f == [i \in DOMAIN s |-> at(i)]
<1>1. /\ Len(s) \in Nat /\ DOMAIN s = 1 .. Len(s) /\ \A i \in DOMAIN s : s[i] \in Nat
  BY LenProperties
<1>2. \A i \in DOMAIN s : IsFiniteSet(at(i))
  <2> SUFFICES ASSUME NEW i \in DOMAIN s PROVE IsFiniteSet(at(i))
    OBVIOUS
  <2>1. IsFiniteSet({i})
    BY FS_Singleton
  <2>2. IsFiniteSet(1 .. s[i])
    BY <1>1, UpTo
  <2> QED
    BY <2>1, <2>2, FS_Product
<1>3. IsFiniteSet(DOMAIN s)
  BY <1>1, UpTo
<1>4. IsFiniteSet(all)
  <2> HIDE DEF at
  <2>1. f \in [DOMAIN s -> all] /\ \A t \in all : \E i \in DOMAIN s : f[i] = t
    OBVIOUS
  <2> HIDE DEF f, all
  <2>2. f \in Surjection(DOMAIN s, all)
    BY <2>1, Fun_IsSurj
  <2> QED
    BY <1>3, <2>2, FS_Surjection
<1>5. IsFiniteSet(UNION all)
  <2>1. \A t \in all : IsFiniteSet(t)
    BY <1>2
  <2> HIDE DEF all
  <2> QED
    BY <1>4, <2>1, FS_UNION
<1>6. Bytes(s) = UNION all
  BY DEF Bytes
<1>7. Total(s) = Cardinality(Bytes(s))
  BY DEF Total, Bytes
<1>8. Total(s) \in Nat
  BY <1>5, <1>6, <1>7, FS_CardinalityType
<1>9. \A i, b : <<i, b>> \in Bytes(s) <=> i \in DOMAIN s /\ b \in 1 .. s[i]
  BY DEF Bytes
<1>10. \A x \in Bytes(s) : x = <<x[1], x[2]>>
  BY DEF Bytes
<1> QED
  BY <1>5, <1>6, <1>7, <1>8, <1>9, <1>10

\* Entries that others outweigh, each another one, are not more in all.
Outweighs(s, t) ==
    \E g \in Injection(DOMAIN t, DOMAIN s) : \A k \in DOMAIN t : t[k] <= s[g[k]]

\* They weigh less in all.
LEMMA OutweighedIsLess ==
    ASSUME NEW s \in Seq(Nat), NEW t \in Seq(Nat), Outweighs(s, t)
    PROVE  Total(t) <= Total(s) /\ Total(t) \in Nat /\ Total(s) \in Nat
<1>1. PICK g \in Injection(DOMAIN t, DOMAIN s) : \A k \in DOMAIN t : t[k] <= s[g[k]]
  BY DEF Outweighs
<1>2. g \in [DOMAIN t -> DOMAIN s] /\ \A j, k \in DOMAIN t : g[j] = g[k] => j = k
  BY Fun_InjectionProperties
<1>3. /\ \A i \in DOMAIN s : s[i] \in Nat
      /\ \A i \in DOMAIN t : t[i] \in Nat
  BY LenProperties
<1> DEFINE f == [x \in Bytes(t) |-> <<g[x[1]], x[2]>>]
<1>4. ASSUME NEW x \in Bytes(t)
      PROVE  /\ x = <<x[1], x[2]>> /\ x[1] \in DOMAIN t /\ x[2] \in 1 .. t[x[1]]
             /\ f[x] = <<g[x[1]], x[2]>> /\ f[x] \in Bytes(s)
  <2>1. x = <<x[1], x[2]>>
    BY BytesAre
  <2>2. x[1] \in DOMAIN t /\ x[2] \in 1 .. t[x[1]]
    BY <2>1, BytesAre
  <2>3. g[x[1]] \in DOMAIN s /\ x[2] \in 1 .. s[g[x[1]]]
    BY <1>1, <1>2, <1>3, <2>2
  <2>4. <<g[x[1]], x[2]>> \in Bytes(s)
    BY <2>3, BytesAre
  <2> QED
    BY <2>1, <2>2, <2>4
<1>5. ASSUME NEW x \in Bytes(t), NEW y \in Bytes(t), f[x] = f[y] PROVE x = y
  <2>1. g[x[1]] = g[y[1]] /\ x[2] = y[2]
    BY <1>4, <1>5
  <2>2. x[1] = y[1]
    BY <1>2, <1>4, <2>1
  <2> QED
    BY <1>4, <2>1, <2>2
<1>6. f \in [Bytes(t) -> Bytes(s)]
  BY <1>4
<1> HIDE DEF f
<1>7. f \in Injection(Bytes(t), Bytes(s))
  BY <1>5, <1>6, Fun_IsInj
<1>8. IsFiniteSet(Bytes(s)) /\ Total(s) = Cardinality(Bytes(s)) /\ Total(s) \in Nat
  BY BytesAre
<1>9. Total(t) = Cardinality(Bytes(t)) /\ Total(t) \in Nat
  BY BytesAre
<1> QED
  BY <1>7, <1>8, <1>9, FS_Injection

\* How the others are found.
LEMMA OutweighsBy ==
    ASSUME NEW s, NEW t, NEW g \in [DOMAIN t -> DOMAIN s],
           \A j, k \in DOMAIN t : g[j] = g[k] => j = k,
           \A k \in DOMAIN t : t[k] <= s[g[k]]
    PROVE  Outweighs(s, t)
<1>1. g \in Injection(DOMAIN t, DOMAIN s)
  BY Fun_IsInj
<1> QED
  BY <1>1 DEF Outweighs

\* What is drawn weighs no more.
LEMMA DrawnWeighsLess ==
    ASSUME NEW s \in Seq(Nat), NEW t \in Seq(Nat), Drawn(t, s)
    PROVE  Total(t) <= Total(s) /\ Total(t) \in Nat /\ Total(s) \in Nat
<1>1. PICK g \in Injection(DOMAIN t, DOMAIN s) : \A k \in DOMAIN t : t[k] = s[g[k]]
  BY DEF Drawn
<1>2. g \in [DOMAIN t -> DOMAIN s] /\ \A j, k \in DOMAIN t : g[j] = g[k] => j = k
  BY Fun_InjectionProperties
<1>3. \A i \in DOMAIN s : s[i] \in Nat
  BY LenProperties
<1>4. \A k \in DOMAIN t : t[k] <= s[g[k]]
  BY <1>1, <1>2, <1>3
<1>5. Outweighs(s, t)
  BY <1>2, <1>4, OutweighsBy
<1> QED
  BY <1>5, OutweighedIsLess

\* Nothing weighs nothing.
LEMMA EmptyTotal == Total(<<>>) = 0
<1>1. Bytes(<<>>) = {}
  BY DEF Bytes
<1>2. Total(<<>>) = Cardinality({})
  BY <1>1 DEF Total, Bytes
<1> QED
  BY <1>2, FS_EmptySet
-----------------------------------------------------------------------------
(* The size of a document                                                  *)

FileRecord == [path : Nat, touched : Nat, by : Authors, reason : Nat]
AuditRecord == [id : Nat, state : {"pending", "completed"}, stamp : Nat]
CacheRecord == [key : Nat, kind : {"current", "old", "unproven"}]

RowWeights(m) == Mapped(m.decisions, LAMBDA r : Cost.row + r.text)
FileWeights(m) == Mapped(m.files, LAMBDA f : Cost.file + f.reason)

\* The fields of a document.
LEMMA FieldsOf ==
    ASSUME NEW m \in Document
    PROVE  /\ m.version \in Nat /\ m.decisions \in Seq(Decision)
           /\ m.files \in Seq(FileRecord) /\ m.blockers \in Seq(Nat) /\ m.steps \in Seq(Nat)
           /\ m.task \in [text : Nat, by : Authors \cup {"none"}] /\ m.task.text \in Nat
           /\ m.cache \in Seq(CacheRecord) /\ m.quarantined \in Nat
           /\ m.audits \in Seq(AuditRecord)
           /\ m.sources \in Seq(Nat) /\ m.sessions \in Seq(Nat) /\ m.health \in Seq(Nat)
           /\ HasRows(m)
BY DEF Document, FileRecord, AuditRecord, CacheRecord, HasRows

\* A document is its fields.
LEMMA DocumentOf ==
    ASSUME NEW m \in Document
    PROVE  /\ \A t \in Seq(Decision) : [m EXCEPT !.decisions = t] \in Document
           /\ \A t \in Seq(FileRecord) : [m EXCEPT !.files = t] \in Document
           /\ \A t \in Seq(Nat) : [m EXCEPT !.blockers = t] \in Document
           /\ \A t \in Seq(Nat) : [m EXCEPT !.steps = t] \in Document
           /\ \A t \in [text : Nat, by : Authors \cup {"none"}] :
                 [m EXCEPT !.task = t] \in Document
           /\ \A t \in Seq(CacheRecord) : [m EXCEPT !.cache = t] \in Document
           /\ \A t \in Nat : [m EXCEPT !.quarantined = t] \in Document
           /\ \A t \in Seq(AuditRecord) : [m EXCEPT !.audits = t] \in Document
           /\ \A t \in Seq(Nat) : [m EXCEPT !.sources = t] \in Document
           /\ \A t \in Seq(Nat) : [m EXCEPT !.sessions = t] \in Document
           /\ \A t \in Seq(Nat) : [m EXCEPT !.health = t] \in Document
BY DEF Document, FileRecord, AuditRecord, CacheRecord

\* The weights of rows and files are numbers.
LEMMA Weights ==
    ASSUME NEW m \in Document
    PROVE  /\ RowWeights(m) \in Seq(Nat) /\ DOMAIN RowWeights(m) = DOMAIN m.decisions
           /\ \A i \in DOMAIN m.decisions : /\ m.decisions[i] \in Decision
                                            /\ m.decisions[i].text \in Nat
                                            /\ RowWeights(m)[i] = Cost.row + m.decisions[i].text
           /\ FileWeights(m) \in Seq(Nat) /\ DOMAIN FileWeights(m) = DOMAIN m.files
           /\ \A i \in DOMAIN m.files : /\ m.files[i] \in FileRecord
                                        /\ m.files[i].reason \in Nat
                                        /\ FileWeights(m)[i] = Cost.file + m.files[i].reason
           /\ Cost.row \in Nat /\ Cost.file \in Nat
<1>1. Cost.row \in Nat /\ Cost.file \in Nat
  BY DocumentAssumption
<1>2. m.decisions \in Seq(Decision) /\ m.files \in Seq(FileRecord)
  BY FieldsOf
<1>3. /\ Len(m.decisions) \in Nat /\ DOMAIN m.decisions = 1 .. Len(m.decisions)
      /\ \A i \in DOMAIN m.decisions : m.decisions[i] \in Decision
  BY <1>2, LenProperties
<1>4. /\ Len(m.files) \in Nat /\ DOMAIN m.files = 1 .. Len(m.files)
      /\ \A i \in DOMAIN m.files : m.files[i] \in FileRecord
  BY <1>2, LenProperties
<1>5. RowWeights(m) = [i \in DOMAIN m.decisions |-> Cost.row + m.decisions[i].text]
  BY DEF RowWeights, Mapped
<1>6. FileWeights(m) = [i \in DOMAIN m.files |-> Cost.file + m.files[i].reason]
  BY DEF FileWeights, Mapped
<1>7. \A i \in DOMAIN m.decisions : m.decisions[i].text \in Nat
  BY <1>3 DEF Decision
<1>8. \A i \in DOMAIN m.files : m.files[i].reason \in Nat
  BY <1>4 DEF FileRecord
<1>9. RowWeights(m) \in [1 .. Len(m.decisions) -> Nat]
  BY <1>1, <1>3, <1>5, <1>7
<1>10. FileWeights(m) \in [1 .. Len(m.files) -> Nat]
  BY <1>1, <1>4, <1>6, <1>8
<1>11. RowWeights(m) \in Seq(Nat) /\ FileWeights(m) \in Seq(Nat)
  BY <1>3, <1>4, <1>9, <1>10, SeqDef
<1> QED
  BY <1>1, <1>3, <1>4, <1>5, <1>6, <1>7, <1>8, <1>11

\* More of what costs as much costs more.
LEMMA TimesMore ==
    ASSUME NEW a \in Nat, NEW b \in Nat, NEW c \in Nat, a <= b
    PROVE  c * a \in Nat /\ c * b \in Nat /\ c * a <= c * b
OBVIOUS

Flat(m) == IF m.quarantined > 0 THEN Cost.quarantine ELSE 0

\* What the parts of a document cost.
Charge(m) ==
    <<Total(RowWeights(m)), Total(FileWeights(m)), Total(m.blockers), Total(m.steps),
      m.task.text, Cost.audit * Len(m.audits), Cost.cache * Len(m.cache),
      Cost.health * Len(m.health), Cost.session * Len(m.sessions),
      Cost.source * Len(m.sources), Flat(m)>>

Sum(c) == c[1] + c[2] + c[3] + c[4] + c[5] + c[6] + c[7] + c[8] + c[9] + c[10] + c[11]

Charges == [1 .. 11 -> Nat]

\* What costs no more in any part costs no more.
LEMMA SumIs ==
    ASSUME NEW a \in Charges
    PROVE  /\ Sum(a) \in Nat
           /\ \A b \in Charges : (\A k \in 1 .. 11 : a[k] <= b[k]) => Sum(a) <= Sum(b)
<1>1. /\ a[1] \in Nat /\ a[2] \in Nat /\ a[3] \in Nat /\ a[4] \in Nat /\ a[5] \in Nat
      /\ a[6] \in Nat /\ a[7] \in Nat /\ a[8] \in Nat /\ a[9] \in Nat /\ a[10] \in Nat
      /\ a[11] \in Nat
  BY DEF Charges
<1>2. ASSUME NEW b \in Charges, \A k \in 1 .. 11 : a[k] <= b[k] PROVE Sum(a) <= Sum(b)
  <2>1. /\ b[1] \in Nat /\ b[2] \in Nat /\ b[3] \in Nat /\ b[4] \in Nat /\ b[5] \in Nat
        /\ b[6] \in Nat /\ b[7] \in Nat /\ b[8] \in Nat /\ b[9] \in Nat /\ b[10] \in Nat
        /\ b[11] \in Nat
    BY DEF Charges
  <2>2. /\ a[1] <= b[1] /\ a[2] <= b[2] /\ a[3] <= b[3] /\ a[4] <= b[4] /\ a[5] <= b[5]
        /\ a[6] <= b[6] /\ a[7] <= b[7] /\ a[8] <= b[8] /\ a[9] <= b[9] /\ a[10] <= b[10]
        /\ a[11] <= b[11]
    BY <1>2
  <2>3. a[1] + a[2] + a[3] + a[4] <= b[1] + b[2] + b[3] + b[4]
    BY <1>1, <2>1, <2>2
  <2>4. a[1] + a[2] + a[3] + a[4] + a[5] + a[6] <= b[1] + b[2] + b[3] + b[4] + b[5] + b[6]
    BY <1>1, <2>1, <2>2, <2>3
  <2>5. a[1] + a[2] + a[3] + a[4] + a[5] + a[6] + a[7] + a[8]
            <= b[1] + b[2] + b[3] + b[4] + b[5] + b[6] + b[7] + b[8]
    BY <1>1, <2>1, <2>2, <2>4
  <2>6. a[1] + a[2] + a[3] + a[4] + a[5] + a[6] + a[7] + a[8] + a[9] + a[10]
            <= b[1] + b[2] + b[3] + b[4] + b[5] + b[6] + b[7] + b[8] + b[9] + b[10]
    BY <1>1, <2>1, <2>2, <2>5
  <2>7. a[1] + a[2] + a[3] + a[4] + a[5] + a[6] + a[7] + a[8] + a[9] + a[10] + a[11]
            <= b[1] + b[2] + b[3] + b[4] + b[5] + b[6] + b[7] + b[8] + b[9] + b[10] + b[11]
    BY <1>1, <2>1, <2>2, <2>6
  <2> QED
    BY <2>7 DEF Sum
<1> QED
  BY <1>1, <1>2 DEF Sum

\* The size is the sum of the charges.
LEMMA SizeIs ==
    ASSUME NEW m \in Document
    PROVE  Charge(m) \in Charges /\ Size(m) = Sum(Charge(m)) /\ Size(m) \in Nat
<1>1. /\ m.blockers \in Seq(Nat) /\ m.steps \in Seq(Nat) /\ m.task.text \in Nat
      /\ m.cache \in Seq(CacheRecord) /\ m.quarantined \in Nat /\ m.audits \in Seq(AuditRecord)
      /\ m.sources \in Seq(Nat) /\ m.sessions \in Seq(Nat) /\ m.health \in Seq(Nat)
  BY FieldsOf
<1>2. RowWeights(m) \in Seq(Nat) /\ FileWeights(m) \in Seq(Nat)
  BY Weights
<1>3. /\ Total(RowWeights(m)) \in Nat /\ Total(FileWeights(m)) \in Nat
      /\ Total(m.blockers) \in Nat /\ Total(m.steps) \in Nat
  BY <1>1, <1>2, BytesAre
<1>4. /\ Len(m.audits) \in Nat /\ Len(m.cache) \in Nat /\ Len(m.health) \in Nat
      /\ Len(m.sessions) \in Nat /\ Len(m.sources) \in Nat
  BY <1>1, LenProperties
<1>5. /\ Cost.audit \in Nat /\ Cost.cache \in Nat /\ Cost.health \in Nat
      /\ Cost.session \in Nat /\ Cost.source \in Nat /\ Cost.quarantine \in Nat
  BY DocumentAssumption
<1>6. Flat(m) \in Nat
  BY <1>1, <1>5 DEF Flat
<1>7. \A a, b \in Nat : a * b \in Nat
  OBVIOUS
<1>8. Cost.audit * Len(m.audits) \in Nat
  BY <1>4, <1>5, <1>7
<1>9. Cost.cache * Len(m.cache) \in Nat
  BY <1>4, <1>5, <1>7
<1>10. Cost.health * Len(m.health) \in Nat
  BY <1>4, <1>5, <1>7
<1>11. Cost.session * Len(m.sessions) \in Nat
  BY <1>4, <1>5, <1>7
<1>12. Cost.source * Len(m.sources) \in Nat
  BY <1>4, <1>5, <1>7
<1>13. ASSUME NEW a \in Nat, NEW b \in Nat, NEW c \in Nat, NEW d \in Nat, NEW e \in Nat,
              NEW f \in Nat, NEW g \in Nat, NEW h \in Nat, NEW i \in Nat, NEW j \in Nat,
              NEW k \in Nat
       PROVE  <<a, b, c, d, e, f, g, h, i, j, k>> \in Charges
  BY DEF Charges
<1>14. Charge(m) \in Charges
  BY <1>1, <1>3, <1>6, <1>8, <1>9, <1>10, <1>11, <1>12, <1>13 DEF Charge
<1>15. Size(m) = Total(RowWeights(m)) + Total(FileWeights(m)) + Total(m.blockers)
                 + Total(m.steps) + m.task.text
                 + Cost.audit * Len(m.audits) + Cost.cache * Len(m.cache)
                 + Cost.health * Len(m.health) + Cost.session * Len(m.sessions)
                 + Cost.source * Len(m.sources) + Flat(m)
  BY DEF Size, RowWeights, FileWeights, Flat
<1>16. Size(m) = Sum(Charge(m))
  BY <1>15 DEF Sum, Charge
<1> QED
  BY <1>14, <1>16, SumIs

\* Each part of y costs no more than that of x.
Lighter(y, x) == \A k \in 1 .. 11 : Charge(y)[k] <= Charge(x)[k]

\* A lighter document is not larger; a document is as light as itself, and
\* what is lighter than a lighter one is lighter.
LEMMA LighterIs ==
    /\ \A x, y \in Document : Lighter(y, x) => Size(y) <= Size(x)
    /\ \A x \in Document : Lighter(x, x)
    /\ \A x, y, z \in Document : Lighter(y, x) /\ Lighter(z, y) => Lighter(z, x)
<1>1. \A x, y \in Document : Lighter(y, x) => Size(y) <= Size(x)
  BY SizeIs, SumIs DEF Lighter
<1>2. \A x \in Document, k \in 1 .. 11 : Charge(x)[k] \in Nat
  BY SizeIs DEF Charges
<1>3. \A x \in Document : Lighter(x, x)
  BY <1>2 DEF Lighter
<1>4. ASSUME NEW x \in Document, NEW y \in Document, NEW z \in Document,
             Lighter(y, x), Lighter(z, y), NEW k \in 1 .. 11
      PROVE  Charge(z)[k] <= Charge(x)[k]
  <2>1. Charge(x)[k] \in Nat /\ Charge(y)[k] \in Nat /\ Charge(z)[k] \in Nat
    BY <1>2
  <2>2. Charge(z)[k] <= Charge(y)[k] /\ Charge(y)[k] <= Charge(x)[k]
    BY <1>4 DEF Lighter
  <2> QED
    BY <2>1, <2>2
<1>5. \A x, y, z \in Document : Lighter(y, x) /\ Lighter(z, y) => Lighter(z, x)
  BY <1>4 DEF Lighter
<1> QED
  BY <1>1, <1>3, <1>5

\* y is a document no part of which costs more than in x.
Lightened(y, x) == y \in Document /\ Lighter(y, x)

\* The charge of a part depends on the part alone.
LEMMA ChargeOf ==
    ASSUME NEW m
    PROVE  /\ Charge(m)[1] = Total(RowWeights(m)) /\ Charge(m)[2] = Total(FileWeights(m))
           /\ Charge(m)[3] = Total(m.blockers) /\ Charge(m)[4] = Total(m.steps)
           /\ Charge(m)[5] = m.task.text /\ Charge(m)[6] = Cost.audit * Len(m.audits)
           /\ Charge(m)[7] = Cost.cache * Len(m.cache)
           /\ Charge(m)[8] = Cost.health * Len(m.health)
           /\ Charge(m)[9] = Cost.session * Len(m.sessions)
           /\ Charge(m)[10] = Cost.source * Len(m.sources) /\ Charge(m)[11] = Flat(m)
BY DEF Charge

\* Parts that are the same cost the same.
LEMMA SameCharge ==
    ASSUME NEW x \in Document, NEW y \in Document
    PROVE  /\ y.decisions = x.decisions => Charge(y)[1] = Charge(x)[1]
           /\ y.files = x.files => Charge(y)[2] = Charge(x)[2]
           /\ y.blockers = x.blockers => Charge(y)[3] = Charge(x)[3]
           /\ y.steps = x.steps => Charge(y)[4] = Charge(x)[4]
           /\ y.task = x.task => Charge(y)[5] = Charge(x)[5]
           /\ y.audits = x.audits => Charge(y)[6] = Charge(x)[6]
           /\ y.cache = x.cache => Charge(y)[7] = Charge(x)[7]
           /\ y.health = x.health => Charge(y)[8] = Charge(x)[8]
           /\ y.sessions = x.sessions => Charge(y)[9] = Charge(x)[9]
           /\ y.sources = x.sources => Charge(y)[10] = Charge(x)[10]
           /\ y.quarantined = x.quarantined => Charge(y)[11] = Charge(x)[11]
           /\ \A k \in 1 .. 11 : Charge(x)[k] \in Nat
<1>1. /\ y.decisions = x.decisions => RowWeights(y) = RowWeights(x)
      /\ y.files = x.files => FileWeights(y) = FileWeights(x)
      /\ y.quarantined = x.quarantined => Flat(y) = Flat(x)
  BY DEF RowWeights, FileWeights, Flat
<1>2. \A k \in 1 .. 11 : Charge(x)[k] \in Nat
  BY SizeIs DEF Charges
<1>3. /\ y.decisions = x.decisions => Charge(y)[1] = Charge(x)[1]
      /\ y.files = x.files => Charge(y)[2] = Charge(x)[2]
      /\ y.quarantined = x.quarantined => Charge(y)[11] = Charge(x)[11]
  BY <1>1, ChargeOf
<1>4. /\ y.blockers = x.blockers => Charge(y)[3] = Charge(x)[3]
      /\ y.steps = x.steps => Charge(y)[4] = Charge(x)[4]
      /\ y.task = x.task => Charge(y)[5] = Charge(x)[5]
      /\ y.audits = x.audits => Charge(y)[6] = Charge(x)[6]
  BY ChargeOf
<1>5. /\ y.cache = x.cache => Charge(y)[7] = Charge(x)[7]
      /\ y.health = x.health => Charge(y)[8] = Charge(x)[8]
      /\ y.sessions = x.sessions => Charge(y)[9] = Charge(x)[9]
      /\ y.sources = x.sources => Charge(y)[10] = Charge(x)[10]
  BY ChargeOf
<1> QED
  BY <1>2, <1>3, <1>4, <1>5

\* If all but one part cost the same, and that part no more, a document is
\* lighter.
LEMMA OnePart ==
    ASSUME NEW x \in Document, NEW y \in Document, NEW i \in 1 .. 11,
           \A k \in 1 .. 11 : k # i => Charge(y)[k] = Charge(x)[k],
           Charge(y)[i] <= Charge(x)[i]
    PROVE  Lightened(y, x)
<1>1. \A k \in 1 .. 11 : Charge(x)[k] \in Nat
  BY SameCharge
<1>2. ASSUME NEW k \in 1 .. 11 PROVE Charge(y)[k] <= Charge(x)[k]
  <2>1. Charge(x)[k] \in Nat
    BY <1>1
  <2>2. CASE k = i
    BY <2>2
  <2>3. CASE k # i
    BY <2>1, <2>3
  <2> QED
    BY <2>2, <2>3
<1> QED
  BY <1>2 DEF Lightened, Lighter

\* A document with fewer rows.
LEMMA LighterDecisions ==
    ASSUME NEW m \in Document, NEW t \in Seq(Decision), Drawn(t, m.decisions)
    PROVE  Lightened([m EXCEPT !.decisions = t], m)
<1> DEFINE y == [m EXCEPT !.decisions = t]
<1>1. y \in Document /\ y.decisions = t
  BY DocumentOf DEF Document
<1>2. /\ y.files = m.files /\ y.blockers = m.blockers /\ y.steps = m.steps /\ y.task = m.task
      /\ y.audits = m.audits /\ y.cache = m.cache /\ y.health = m.health /\ y.sessions = m.sessions
      /\ y.sources = m.sources /\ y.quarantined = m.quarantined
  BY DEF Document
<1> HIDE DEF y
<1>3. /\ Charge(y)[2] = Charge(m)[2] /\ Charge(y)[3] = Charge(m)[3]
      /\ Charge(y)[4] = Charge(m)[4] /\ Charge(y)[5] = Charge(m)[5]
      /\ Charge(y)[6] = Charge(m)[6] /\ Charge(y)[7] = Charge(m)[7]
      /\ Charge(y)[8] = Charge(m)[8] /\ Charge(y)[9] = Charge(m)[9]
      /\ Charge(y)[10] = Charge(m)[10] /\ Charge(y)[11] = Charge(m)[11]
  BY <1>1, <1>2, SameCharge
<1>4. \A k \in 1 .. 11 : k # 1 => Charge(y)[k] = Charge(m)[k]
  <2>1. \A k \in 1 .. 11 : k \in {1, 2, 3, 4, 5, 6, 7, 8, 9, 10, 11}
    OBVIOUS
  <2> QED
    BY <1>3, <2>1
<1>5. Charge(y)[1] <= Charge(m)[1]
  <2>1. PICK g \in Injection(DOMAIN t, DOMAIN m.decisions) :
               \A k \in DOMAIN t : t[k] = m.decisions[g[k]]
    BY DEF Drawn
  <2>2. g \in [DOMAIN t -> DOMAIN m.decisions]
    BY Fun_InjectionProperties
  <2>3. /\ RowWeights(m) \in Seq(Nat) /\ DOMAIN RowWeights(m) = DOMAIN m.decisions
        /\ RowWeights(y) \in Seq(Nat) /\ DOMAIN RowWeights(y) = DOMAIN t
    BY <1>1, Weights
  <2>4. ASSUME NEW k \in DOMAIN t PROVE RowWeights(y)[k] = RowWeights(m)[g[k]]
    <3>1. g[k] \in DOMAIN m.decisions /\ t[k] = m.decisions[g[k]]
      BY <2>1, <2>2
    <3>2. RowWeights(m)[g[k]] = Cost.row + m.decisions[g[k]].text
      BY <3>1, Weights
    <3>3. RowWeights(y)[k] = Cost.row + y.decisions[k].text
      BY <1>1, Weights
    <3> QED
      BY <1>1, <3>1, <3>2, <3>3
  <2>5. Drawn(RowWeights(y), RowWeights(m))
    BY <2>1, <2>3, <2>4 DEF Drawn
  <2> QED
    BY <2>3, <2>5, DrawnWeighsLess, ChargeOf
<1>6. 1 \in 1 .. 11
  OBVIOUS
<1>7. Lightened(y, m)
  BY <1>1, <1>4, <1>5, <1>6, OnePart
<1> QED
  BY <1>7 DEF y

\* A document with fewer files.
LEMMA LighterFiles ==
    ASSUME NEW m \in Document, NEW t \in Seq(FileRecord), Drawn(t, m.files)
    PROVE  Lightened([m EXCEPT !.files = t], m)
<1> DEFINE y == [m EXCEPT !.files = t]
<1>1. y \in Document /\ y.files = t
  BY DocumentOf DEF Document
<1>2. /\ y.decisions = m.decisions /\ y.blockers = m.blockers /\ y.steps = m.steps
      /\ y.task = m.task
      /\ y.audits = m.audits /\ y.cache = m.cache /\ y.health = m.health /\ y.sessions = m.sessions
      /\ y.sources = m.sources /\ y.quarantined = m.quarantined
  BY DEF Document
<1> HIDE DEF y
<1>3. /\ Charge(y)[1] = Charge(m)[1] /\ Charge(y)[3] = Charge(m)[3]
      /\ Charge(y)[4] = Charge(m)[4] /\ Charge(y)[5] = Charge(m)[5]
      /\ Charge(y)[6] = Charge(m)[6] /\ Charge(y)[7] = Charge(m)[7]
      /\ Charge(y)[8] = Charge(m)[8] /\ Charge(y)[9] = Charge(m)[9]
      /\ Charge(y)[10] = Charge(m)[10] /\ Charge(y)[11] = Charge(m)[11]
  BY <1>1, <1>2, SameCharge
<1>4. \A k \in 1 .. 11 : k # 2 => Charge(y)[k] = Charge(m)[k]
  <2>1. \A k \in 1 .. 11 : k \in {1, 2, 3, 4, 5, 6, 7, 8, 9, 10, 11}
    OBVIOUS
  <2> QED
    BY <1>3, <2>1
<1>5. Charge(y)[2] <= Charge(m)[2]
  <2>1. PICK g \in Injection(DOMAIN t, DOMAIN m.files) : \A k \in DOMAIN t : t[k] = m.files[g[k]]
    BY DEF Drawn
  <2>2. g \in [DOMAIN t -> DOMAIN m.files]
    BY Fun_InjectionProperties
  <2>3. /\ FileWeights(m) \in Seq(Nat) /\ DOMAIN FileWeights(m) = DOMAIN m.files
        /\ FileWeights(y) \in Seq(Nat) /\ DOMAIN FileWeights(y) = DOMAIN t
    BY <1>1, Weights
  <2>4. ASSUME NEW k \in DOMAIN t PROVE FileWeights(y)[k] = FileWeights(m)[g[k]]
    <3>1. g[k] \in DOMAIN m.files /\ t[k] = m.files[g[k]]
      BY <2>1, <2>2
    <3>2. FileWeights(m)[g[k]] = Cost.file + m.files[g[k]].reason
      BY <3>1, Weights
    <3>3. FileWeights(y)[k] = Cost.file + y.files[k].reason
      BY <1>1, Weights
    <3> QED
      BY <1>1, <3>1, <3>2, <3>3
  <2>5. Drawn(FileWeights(y), FileWeights(m))
    BY <2>1, <2>3, <2>4 DEF Drawn
  <2> QED
    BY <2>3, <2>5, DrawnWeighsLess, ChargeOf
<1>6. 2 \in 1 .. 11
  OBVIOUS
<1>7. Lightened(y, m)
  BY <1>1, <1>4, <1>5, <1>6, OnePart
<1> QED
  BY <1>7 DEF y

\* A document with fewer blockers.
LEMMA LighterBlockers ==
    ASSUME NEW m \in Document, NEW t \in Seq(Nat), Drawn(t, m.blockers)
    PROVE  Lightened([m EXCEPT !.blockers = t], m)
<1> DEFINE y == [m EXCEPT !.blockers = t]
<1>1. y \in Document /\ y.blockers = t
  BY DocumentOf DEF Document
<1>2. /\ y.decisions = m.decisions /\ y.files = m.files /\ y.steps = m.steps /\ y.task = m.task
      /\ y.audits = m.audits /\ y.cache = m.cache /\ y.health = m.health /\ y.sessions = m.sessions
      /\ y.sources = m.sources /\ y.quarantined = m.quarantined
  BY DEF Document
<1> HIDE DEF y
<1>3. /\ Charge(y)[1] = Charge(m)[1] /\ Charge(y)[2] = Charge(m)[2]
      /\ Charge(y)[4] = Charge(m)[4] /\ Charge(y)[5] = Charge(m)[5]
      /\ Charge(y)[6] = Charge(m)[6] /\ Charge(y)[7] = Charge(m)[7]
      /\ Charge(y)[8] = Charge(m)[8] /\ Charge(y)[9] = Charge(m)[9]
      /\ Charge(y)[10] = Charge(m)[10] /\ Charge(y)[11] = Charge(m)[11]
  BY <1>1, <1>2, SameCharge
<1>4. \A k \in 1 .. 11 : k # 3 => Charge(y)[k] = Charge(m)[k]
  <2>1. \A k \in 1 .. 11 : k \in {1, 2, 3, 4, 5, 6, 7, 8, 9, 10, 11}
    OBVIOUS
  <2> QED
    BY <1>3, <2>1
<1>5. Charge(y)[3] <= Charge(m)[3]
  <2>1. m.blockers \in Seq(Nat)
    BY FieldsOf
  <2>2. Total(t) <= Total(m.blockers)
    BY <2>1, DrawnWeighsLess
  <2> QED
    BY <1>1, <2>2, ChargeOf
<1>6. 3 \in 1 .. 11
  OBVIOUS
<1>7. Lightened(y, m)
  BY <1>1, <1>4, <1>5, <1>6, OnePart
<1> QED
  BY <1>7 DEF y

\* A document with fewer steps.
LEMMA LighterSteps ==
    ASSUME NEW m \in Document, NEW t \in Seq(Nat), Drawn(t, m.steps)
    PROVE  Lightened([m EXCEPT !.steps = t], m)
<1> DEFINE y == [m EXCEPT !.steps = t]
<1>1. y \in Document /\ y.steps = t
  BY DocumentOf DEF Document
<1>2. /\ y.decisions = m.decisions /\ y.files = m.files /\ y.blockers = m.blockers
      /\ y.task = m.task
      /\ y.audits = m.audits /\ y.cache = m.cache /\ y.health = m.health /\ y.sessions = m.sessions
      /\ y.sources = m.sources /\ y.quarantined = m.quarantined
  BY DEF Document
<1> HIDE DEF y
<1>3. /\ Charge(y)[1] = Charge(m)[1] /\ Charge(y)[2] = Charge(m)[2]
      /\ Charge(y)[3] = Charge(m)[3] /\ Charge(y)[5] = Charge(m)[5]
      /\ Charge(y)[6] = Charge(m)[6] /\ Charge(y)[7] = Charge(m)[7]
      /\ Charge(y)[8] = Charge(m)[8] /\ Charge(y)[9] = Charge(m)[9]
      /\ Charge(y)[10] = Charge(m)[10] /\ Charge(y)[11] = Charge(m)[11]
  BY <1>1, <1>2, SameCharge
<1>4. \A k \in 1 .. 11 : k # 4 => Charge(y)[k] = Charge(m)[k]
  <2>1. \A k \in 1 .. 11 : k \in {1, 2, 3, 4, 5, 6, 7, 8, 9, 10, 11}
    OBVIOUS
  <2> QED
    BY <1>3, <2>1
<1>5. Charge(y)[4] <= Charge(m)[4]
  <2>1. m.steps \in Seq(Nat)
    BY FieldsOf
  <2>2. Total(t) <= Total(m.steps)
    BY <2>1, DrawnWeighsLess
  <2> QED
    BY <1>1, <2>2, ChargeOf
<1>6. 4 \in 1 .. 11
  OBVIOUS
<1>7. Lightened(y, m)
  BY <1>1, <1>4, <1>5, <1>6, OnePart
<1> QED
  BY <1>7 DEF y

\* A document with fewer cache.
LEMMA LighterCache ==
    ASSUME NEW m \in Document, NEW t \in Seq(CacheRecord), Len(t) <= Len(m.cache)
    PROVE  Lightened([m EXCEPT !.cache = t], m)
<1> DEFINE y == [m EXCEPT !.cache = t]
<1>1. y \in Document /\ y.cache = t
  BY DocumentOf DEF Document
<1>2. /\ y.decisions = m.decisions /\ y.files = m.files /\ y.blockers = m.blockers
      /\ y.steps = m.steps
      /\ y.task = m.task /\ y.audits = m.audits /\ y.health = m.health /\ y.sessions = m.sessions
      /\ y.sources = m.sources /\ y.quarantined = m.quarantined
  BY DEF Document
<1> HIDE DEF y
<1>3. /\ Charge(y)[1] = Charge(m)[1] /\ Charge(y)[2] = Charge(m)[2]
      /\ Charge(y)[3] = Charge(m)[3] /\ Charge(y)[4] = Charge(m)[4]
      /\ Charge(y)[5] = Charge(m)[5] /\ Charge(y)[6] = Charge(m)[6]
      /\ Charge(y)[8] = Charge(m)[8] /\ Charge(y)[9] = Charge(m)[9]
      /\ Charge(y)[10] = Charge(m)[10] /\ Charge(y)[11] = Charge(m)[11]
  BY <1>1, <1>2, SameCharge
<1>4. \A k \in 1 .. 11 : k # 7 => Charge(y)[k] = Charge(m)[k]
  <2>1. \A k \in 1 .. 11 : k \in {1, 2, 3, 4, 5, 6, 7, 8, 9, 10, 11}
    OBVIOUS
  <2> QED
    BY <1>3, <2>1
<1>5. Charge(y)[7] <= Charge(m)[7]
  <2>1. Cost.cache \in Nat
    BY DocumentAssumption
  <2>2. m.cache \in Seq(CacheRecord)
    BY FieldsOf
  <2>3. Len(t) \in Nat /\ Len(m.cache) \in Nat
    BY <2>2, LenProperties
  <2>4. Cost.cache * Len(t) <= Cost.cache * Len(m.cache)
    BY <2>1, <2>3, TimesMore
  <2> QED
    BY <1>1, <2>4, ChargeOf
<1>6. 7 \in 1 .. 11
  OBVIOUS
<1>7. Lightened(y, m)
  BY <1>1, <1>4, <1>5, <1>6, OnePart
<1> QED
  BY <1>7 DEF y

\* A document with fewer health.
LEMMA LighterHealth ==
    ASSUME NEW m \in Document, NEW t \in Seq(Nat), Len(t) <= Len(m.health)
    PROVE  Lightened([m EXCEPT !.health = t], m)
<1> DEFINE y == [m EXCEPT !.health = t]
<1>1. y \in Document /\ y.health = t
  BY DocumentOf DEF Document
<1>2. /\ y.decisions = m.decisions /\ y.files = m.files /\ y.blockers = m.blockers
      /\ y.steps = m.steps
      /\ y.task = m.task /\ y.audits = m.audits /\ y.cache = m.cache /\ y.sessions = m.sessions
      /\ y.sources = m.sources /\ y.quarantined = m.quarantined
  BY DEF Document
<1> HIDE DEF y
<1>3. /\ Charge(y)[1] = Charge(m)[1] /\ Charge(y)[2] = Charge(m)[2]
      /\ Charge(y)[3] = Charge(m)[3] /\ Charge(y)[4] = Charge(m)[4]
      /\ Charge(y)[5] = Charge(m)[5] /\ Charge(y)[6] = Charge(m)[6]
      /\ Charge(y)[7] = Charge(m)[7] /\ Charge(y)[9] = Charge(m)[9]
      /\ Charge(y)[10] = Charge(m)[10] /\ Charge(y)[11] = Charge(m)[11]
  BY <1>1, <1>2, SameCharge
<1>4. \A k \in 1 .. 11 : k # 8 => Charge(y)[k] = Charge(m)[k]
  <2>1. \A k \in 1 .. 11 : k \in {1, 2, 3, 4, 5, 6, 7, 8, 9, 10, 11}
    OBVIOUS
  <2> QED
    BY <1>3, <2>1
<1>5. Charge(y)[8] <= Charge(m)[8]
  <2>1. Cost.health \in Nat
    BY DocumentAssumption
  <2>2. m.health \in Seq(Nat)
    BY FieldsOf
  <2>3. Len(t) \in Nat /\ Len(m.health) \in Nat
    BY <2>2, LenProperties
  <2>4. Cost.health * Len(t) <= Cost.health * Len(m.health)
    BY <2>1, <2>3, TimesMore
  <2> QED
    BY <1>1, <2>4, ChargeOf
<1>6. 8 \in 1 .. 11
  OBVIOUS
<1>7. Lightened(y, m)
  BY <1>1, <1>4, <1>5, <1>6, OnePart
<1> QED
  BY <1>7 DEF y

\* A document with fewer sessions.
LEMMA LighterSessions ==
    ASSUME NEW m \in Document, NEW t \in Seq(Nat), Len(t) <= Len(m.sessions)
    PROVE  Lightened([m EXCEPT !.sessions = t], m)
<1> DEFINE y == [m EXCEPT !.sessions = t]
<1>1. y \in Document /\ y.sessions = t
  BY DocumentOf DEF Document
<1>2. /\ y.decisions = m.decisions /\ y.files = m.files /\ y.blockers = m.blockers
      /\ y.steps = m.steps
      /\ y.task = m.task /\ y.audits = m.audits /\ y.cache = m.cache /\ y.health = m.health
      /\ y.sources = m.sources /\ y.quarantined = m.quarantined
  BY DEF Document
<1> HIDE DEF y
<1>3. /\ Charge(y)[1] = Charge(m)[1] /\ Charge(y)[2] = Charge(m)[2]
      /\ Charge(y)[3] = Charge(m)[3] /\ Charge(y)[4] = Charge(m)[4]
      /\ Charge(y)[5] = Charge(m)[5] /\ Charge(y)[6] = Charge(m)[6]
      /\ Charge(y)[7] = Charge(m)[7] /\ Charge(y)[8] = Charge(m)[8]
      /\ Charge(y)[10] = Charge(m)[10] /\ Charge(y)[11] = Charge(m)[11]
  BY <1>1, <1>2, SameCharge
<1>4. \A k \in 1 .. 11 : k # 9 => Charge(y)[k] = Charge(m)[k]
  <2>1. \A k \in 1 .. 11 : k \in {1, 2, 3, 4, 5, 6, 7, 8, 9, 10, 11}
    OBVIOUS
  <2> QED
    BY <1>3, <2>1
<1>5. Charge(y)[9] <= Charge(m)[9]
  <2>1. Cost.session \in Nat
    BY DocumentAssumption
  <2>2. m.sessions \in Seq(Nat)
    BY FieldsOf
  <2>3. Len(t) \in Nat /\ Len(m.sessions) \in Nat
    BY <2>2, LenProperties
  <2>4. Cost.session * Len(t) <= Cost.session * Len(m.sessions)
    BY <2>1, <2>3, TimesMore
  <2> QED
    BY <1>1, <2>4, ChargeOf
<1>6. 9 \in 1 .. 11
  OBVIOUS
<1>7. Lightened(y, m)
  BY <1>1, <1>4, <1>5, <1>6, OnePart
<1> QED
  BY <1>7 DEF y

\* A document with fewer audits.
LEMMA LighterAudits ==
    ASSUME NEW m \in Document, NEW t \in Seq(AuditRecord), Len(t) <= Len(m.audits)
    PROVE  Lightened([m EXCEPT !.audits = t], m)
<1> DEFINE y == [m EXCEPT !.audits = t]
<1>1. y \in Document /\ y.audits = t
  BY DocumentOf DEF Document
<1>2. /\ y.decisions = m.decisions /\ y.files = m.files /\ y.blockers = m.blockers
      /\ y.steps = m.steps
      /\ y.task = m.task /\ y.cache = m.cache /\ y.health = m.health /\ y.sessions = m.sessions
      /\ y.sources = m.sources /\ y.quarantined = m.quarantined
  BY DEF Document
<1> HIDE DEF y
<1>3. /\ Charge(y)[1] = Charge(m)[1] /\ Charge(y)[2] = Charge(m)[2]
      /\ Charge(y)[3] = Charge(m)[3] /\ Charge(y)[4] = Charge(m)[4]
      /\ Charge(y)[5] = Charge(m)[5] /\ Charge(y)[7] = Charge(m)[7]
      /\ Charge(y)[8] = Charge(m)[8] /\ Charge(y)[9] = Charge(m)[9]
      /\ Charge(y)[10] = Charge(m)[10] /\ Charge(y)[11] = Charge(m)[11]
  BY <1>1, <1>2, SameCharge
<1>4. \A k \in 1 .. 11 : k # 6 => Charge(y)[k] = Charge(m)[k]
  <2>1. \A k \in 1 .. 11 : k \in {1, 2, 3, 4, 5, 6, 7, 8, 9, 10, 11}
    OBVIOUS
  <2> QED
    BY <1>3, <2>1
<1>5. Charge(y)[6] <= Charge(m)[6]
  <2>1. Cost.audit \in Nat
    BY DocumentAssumption
  <2>2. m.audits \in Seq(AuditRecord)
    BY FieldsOf
  <2>3. Len(t) \in Nat /\ Len(m.audits) \in Nat
    BY <2>2, LenProperties
  <2>4. Cost.audit * Len(t) <= Cost.audit * Len(m.audits)
    BY <2>1, <2>3, TimesMore
  <2> QED
    BY <1>1, <2>4, ChargeOf
<1>6. 6 \in 1 .. 11
  OBVIOUS
<1>7. Lightened(y, m)
  BY <1>1, <1>4, <1>5, <1>6, OnePart
<1> QED
  BY <1>7 DEF y

\* A document with fewer sources.
LEMMA LighterSources ==
    ASSUME NEW m \in Document, NEW t \in Seq(Nat), Len(t) <= Len(m.sources)
    PROVE  Lightened([m EXCEPT !.sources = t], m)
<1> DEFINE y == [m EXCEPT !.sources = t]
<1>1. y \in Document /\ y.sources = t
  BY DocumentOf DEF Document
<1>2. /\ y.decisions = m.decisions /\ y.files = m.files /\ y.blockers = m.blockers
      /\ y.steps = m.steps
      /\ y.task = m.task /\ y.audits = m.audits /\ y.cache = m.cache /\ y.health = m.health
      /\ y.sessions = m.sessions /\ y.quarantined = m.quarantined
  BY DEF Document
<1> HIDE DEF y
<1>3. /\ Charge(y)[1] = Charge(m)[1] /\ Charge(y)[2] = Charge(m)[2]
      /\ Charge(y)[3] = Charge(m)[3] /\ Charge(y)[4] = Charge(m)[4]
      /\ Charge(y)[5] = Charge(m)[5] /\ Charge(y)[6] = Charge(m)[6]
      /\ Charge(y)[7] = Charge(m)[7] /\ Charge(y)[8] = Charge(m)[8]
      /\ Charge(y)[9] = Charge(m)[9] /\ Charge(y)[11] = Charge(m)[11]
  BY <1>1, <1>2, SameCharge
<1>4. \A k \in 1 .. 11 : k # 10 => Charge(y)[k] = Charge(m)[k]
  <2>1. \A k \in 1 .. 11 : k \in {1, 2, 3, 4, 5, 6, 7, 8, 9, 10, 11}
    OBVIOUS
  <2> QED
    BY <1>3, <2>1
<1>5. Charge(y)[10] <= Charge(m)[10]
  <2>1. Cost.source \in Nat
    BY DocumentAssumption
  <2>2. m.sources \in Seq(Nat)
    BY FieldsOf
  <2>3. Len(t) \in Nat /\ Len(m.sources) \in Nat
    BY <2>2, LenProperties
  <2>4. Cost.source * Len(t) <= Cost.source * Len(m.sources)
    BY <2>1, <2>3, TimesMore
  <2> QED
    BY <1>1, <2>4, ChargeOf
<1>6. 10 \in 1 .. 11
  OBVIOUS
<1>7. Lightened(y, m)
  BY <1>1, <1>4, <1>5, <1>6, OnePart
<1> QED
  BY <1>7 DEF y

\* A document without its count.
LEMMA LighterCount ==
    ASSUME NEW m \in Document
    PROVE  Lightened([m EXCEPT !.quarantined = 0], m)
<1> DEFINE y == [m EXCEPT !.quarantined = 0]
<1>1. y \in Document /\ y.quarantined = 0
  BY DocumentOf DEF Document
<1>2. /\ y.decisions = m.decisions /\ y.files = m.files /\ y.blockers = m.blockers
      /\ y.steps = m.steps /\ y.task = m.task /\ y.audits = m.audits /\ y.cache = m.cache
      /\ y.health = m.health /\ y.sessions = m.sessions /\ y.sources = m.sources
  BY DEF Document
<1> HIDE DEF y
<1>3. /\ Charge(y)[1] = Charge(m)[1] /\ Charge(y)[2] = Charge(m)[2]
      /\ Charge(y)[3] = Charge(m)[3] /\ Charge(y)[4] = Charge(m)[4]
      /\ Charge(y)[5] = Charge(m)[5] /\ Charge(y)[6] = Charge(m)[6]
      /\ Charge(y)[7] = Charge(m)[7] /\ Charge(y)[8] = Charge(m)[8]
      /\ Charge(y)[9] = Charge(m)[9] /\ Charge(y)[10] = Charge(m)[10]
  BY <1>1, <1>2, SameCharge
<1>4. \A k \in 1 .. 11 : k # 11 => Charge(y)[k] = Charge(m)[k]
  <2>1. \A k \in 1 .. 11 : k \in {1, 2, 3, 4, 5, 6, 7, 8, 9, 10, 11}
    OBVIOUS
  <2> QED
    BY <1>3, <2>1
<1>5. Charge(y)[11] <= Charge(m)[11]
  <2>1. Charge(y)[11] = 0
    BY <1>1, ChargeOf DEF Flat
  <2>2. Charge(m)[11] \in Nat
    BY SameCharge
  <2> QED
    BY <2>1, <2>2
<1>6. 11 \in 1 .. 11
  OBVIOUS
<1>7. Lightened(y, m)
  BY <1>1, <1>4, <1>5, <1>6, OnePart
<1> QED
  BY <1>7 DEF y

\* A document without its task, or with a shorter one.
LEMMA LighterTask ==
    ASSUME NEW m \in Document, NEW t \in [text : Nat, by : Authors \cup {"none"}],
           t.text <= m.task.text
    PROVE  Lightened([m EXCEPT !.task = t], m)
<1> DEFINE y == [m EXCEPT !.task = t]
<1>1. y \in Document /\ y.task = t
  <2>1. y \in Document
    BY DocumentOf
  <2>2. y.task = t
    BY DEF Document
  <2> QED
    BY <2>1, <2>2
<1>2. /\ y.decisions = m.decisions /\ y.files = m.files /\ y.blockers = m.blockers
      /\ y.steps = m.steps /\ y.quarantined = m.quarantined /\ y.audits = m.audits
      /\ y.cache = m.cache /\ y.health = m.health /\ y.sessions = m.sessions
      /\ y.sources = m.sources
  BY DEF Document
<1> HIDE DEF y
<1>3. /\ Charge(y)[1] = Charge(m)[1] /\ Charge(y)[2] = Charge(m)[2]
      /\ Charge(y)[3] = Charge(m)[3] /\ Charge(y)[4] = Charge(m)[4]
      /\ Charge(y)[11] = Charge(m)[11] /\ Charge(y)[6] = Charge(m)[6]
      /\ Charge(y)[7] = Charge(m)[7] /\ Charge(y)[8] = Charge(m)[8]
      /\ Charge(y)[9] = Charge(m)[9] /\ Charge(y)[10] = Charge(m)[10]
  BY <1>1, <1>2, SameCharge
<1>4. \A k \in 1 .. 11 : k # 5 => Charge(y)[k] = Charge(m)[k]
  <2>1. \A k \in 1 .. 11 : k \in {1, 2, 3, 4, 5, 6, 7, 8, 9, 10, 11}
    OBVIOUS
  <2> QED
    BY <1>3, <2>1
<1>5. Charge(y)[5] <= Charge(m)[5]
  BY <1>1, ChargeOf
<1>6. 5 \in 1 .. 11
  OBVIOUS
<1>7. Lightened(y, m)
  BY <1>1, <1>4, <1>5, <1>6, OnePart
<1> QED
  BY <1>7 DEF y
-----------------------------------------------------------------------------
(* The sorts of the budget and of the repair                               *)

\* t is s sorted: L says of which places the entries come first.
SortedBy(t, s, L) ==
    /\ Len(t) = Len(s) /\ Range(t) = Range(s) /\ Drawn(t, s)
    /\ \E g : Arranges(g, t, s, Stable(L, DOMAIN s))
    /\ (\A i, j \in DOMAIN s : i < j => <<j, i>> \notin L) => t = s

LaterPlaces(s) == {p \in (DOMAIN s) \X (DOMAIN s) : s[p[1]].touched > s[p[2]].touched}
NewestFirst(s) == Sorted(s, LAMBDA f, g : f.touched > g.touched)

\* Files touched last come first (budget.ts, stage 6).
LEMMA NewestFirstSorts ==
    ASSUME NEW s \in Seq(FileRecord)
    PROVE  NewestFirst(s) \in Seq(FileRecord) /\ SortedBy(NewestFirst(s), s, LaterPlaces(s))
<1> DEFINE D == DOMAIN s
           L == LaterPlaces(s)
           less(i, j) == s[i].touched > s[j].touched
           before(j, i) == less(j, i) \/ (~less(i, j) /\ j < i)
           rank == [i \in D |-> Cardinality({j \in D : before(j, i)}) + 1]
<1>1. \A i \in D : s[i] \in FileRecord
  BY LenProperties
<1>2. \A i \in D : s[i].touched \in Nat
  BY <1>1 DEF FileRecord
<1>3. \A i, j \in D : <<i, j>> \in L <=> less(i, j)
  <2> SUFFICES ASSUME NEW i \in D, NEW j \in D PROVE <<i, j>> \in L <=> less(i, j)
    OBVIOUS
  <2> DEFINE pair == <<i, j>>
             yes(p) == s[p[1]].touched > s[p[2]].touched
  <2>1. pair \in D \X D /\ pair[1] = i /\ pair[2] = j
    OBVIOUS
  <2>2. L = {p \in D \X D : yes(p)}
    BY DEF LaterPlaces
  <2>3. yes(pair) <=> less(i, j)
    BY <2>1
  <2> HIDE DEF pair, yes, L, less
  <2>4. pair \in L <=> less(i, j)
    BY <2>1, <2>2, <2>3
  <2> QED
    BY <2>4 DEF pair
<1>4. Weak(L, D)
  <2>1. \A i, j \in D : less(i, j) => ~less(j, i)
    BY <1>2
  <2>2. \A i, j, k \in D : less(i, k) => less(i, j) \/ less(j, k)
    BY <1>2
  <2> HIDE DEF L, D, less
  <2> QED
    BY <1>3, <2>1, <2>2 DEF Weak
<1>5. rank = RankIn(s, L)
  <2>1. \A i \in D : {j \in D : before(j, i)} = {j \in D : <<j, i>> \in Stable(L, D)}
    <3> SUFFICES ASSUME NEW i \in D, NEW j \in D
                 PROVE  before(j, i) <=> <<j, i>> \in Stable(L, D)
      OBVIOUS
    <3>1. <<j, i>> \in Stable(L, D) <=> <<j, i>> \in L \/ (<<i, j>> \notin L /\ j < i)
      BY DEF Stable
    <3> HIDE DEF L, D, less
    <3> QED
      BY <1>3, <3>1
  <2> HIDE DEF L, before
  <2> QED
    BY <2>1 DEF RankIn
<1>6. NewestFirst(s) = [k \in D |-> s[CHOOSE i \in D : rank[i] = k]]
  BY DEF NewestFirst, Sorted
<1>7. NewestFirst(s) = SortOf(s, L)
  <2> HIDE DEF rank, L
  <2> QED
    BY <1>5, <1>6 DEF SortOf
<1> HIDE DEF L
<1> QED
  BY <1>4, <1>7, SortOfIs DEF SortedBy, L

EarlierPlaces(s) == {p \in (DOMAIN s) \X (DOMAIN s) : s[p[1]].touched < s[p[2]].touched}
OldestFirst(s) == Sorted(s, LAMBDA f, g : f.touched < g.touched)

\* Files touched first come first (budget.ts, stage 10).
LEMMA OldestFirstSorts ==
    ASSUME NEW s \in Seq(FileRecord)
    PROVE  OldestFirst(s) \in Seq(FileRecord) /\ SortedBy(OldestFirst(s), s, EarlierPlaces(s))
<1> DEFINE D == DOMAIN s
           L == EarlierPlaces(s)
           less(i, j) == s[i].touched < s[j].touched
           before(j, i) == less(j, i) \/ (~less(i, j) /\ j < i)
           rank == [i \in D |-> Cardinality({j \in D : before(j, i)}) + 1]
<1>1. \A i \in D : s[i] \in FileRecord
  BY LenProperties
<1>2. \A i \in D : s[i].touched \in Nat
  BY <1>1 DEF FileRecord
<1>3. \A i, j \in D : <<i, j>> \in L <=> less(i, j)
  <2> SUFFICES ASSUME NEW i \in D, NEW j \in D PROVE <<i, j>> \in L <=> less(i, j)
    OBVIOUS
  <2> DEFINE pair == <<i, j>>
             yes(p) == s[p[1]].touched < s[p[2]].touched
  <2>1. pair \in D \X D /\ pair[1] = i /\ pair[2] = j
    OBVIOUS
  <2>2. L = {p \in D \X D : yes(p)}
    BY DEF EarlierPlaces
  <2>3. yes(pair) <=> less(i, j)
    BY <2>1
  <2> HIDE DEF pair, yes, L, less
  <2>4. pair \in L <=> less(i, j)
    BY <2>1, <2>2, <2>3
  <2> QED
    BY <2>4 DEF pair
<1>4. Weak(L, D)
  <2>1. \A i, j \in D : less(i, j) => ~less(j, i)
    BY <1>2
  <2>2. \A i, j, k \in D : less(i, k) => less(i, j) \/ less(j, k)
    BY <1>2
  <2> HIDE DEF L, D, less
  <2> QED
    BY <1>3, <2>1, <2>2 DEF Weak
<1>5. rank = RankIn(s, L)
  <2>1. \A i \in D : {j \in D : before(j, i)} = {j \in D : <<j, i>> \in Stable(L, D)}
    <3> SUFFICES ASSUME NEW i \in D, NEW j \in D
                 PROVE  before(j, i) <=> <<j, i>> \in Stable(L, D)
      OBVIOUS
    <3>1. <<j, i>> \in Stable(L, D) <=> <<j, i>> \in L \/ (<<i, j>> \notin L /\ j < i)
      BY DEF Stable
    <3> HIDE DEF L, D, less
    <3> QED
      BY <1>3, <3>1
  <2> HIDE DEF L, before
  <2> QED
    BY <2>1 DEF RankIn
<1>6. OldestFirst(s) = [k \in D |-> s[CHOOSE i \in D : rank[i] = k]]
  BY DEF OldestFirst, Sorted
<1>7. OldestFirst(s) = SortOf(s, L)
  <2> HIDE DEF rank, L
  <2> QED
    BY <1>5, <1>6 DEF SortOf
<1> HIDE DEF L
<1> QED
  BY <1>4, <1>7, SortOfIs DEF SortedBy, L

UsedPlaces(s) == {p \in (DOMAIN s) \X (DOMAIN s) : MoreUsed(s[p[1]], s[p[2]])}
BestUsed(s) == Sorted(s, MoreUsed)

\* Rows recalled last come first, then the newest (budget.ts, stage 9).
LEMMA BestUsedSorts ==
    ASSUME NEW s \in Seq(Decision)
    PROVE  BestUsed(s) \in Seq(Decision) /\ SortedBy(BestUsed(s), s, UsedPlaces(s))
<1> DEFINE D == DOMAIN s
           L == UsedPlaces(s)
           less(i, j) == MoreUsed(s[i], s[j])
           before(j, i) == less(j, i) \/ (~less(i, j) /\ j < i)
           rank == [i \in D |-> Cardinality({j \in D : before(j, i)}) + 1]
<1>1. \A i \in D : s[i] \in Decision
  BY LenProperties
<1>2. \A i \in D : s[i].used \in Nat /\ s[i].stamp \in Nat
  BY <1>1 DEF Decision
<1>3. \A i, j \in D : <<i, j>> \in L <=> less(i, j)
  <2> SUFFICES ASSUME NEW i \in D, NEW j \in D PROVE <<i, j>> \in L <=> less(i, j)
    OBVIOUS
  <2> DEFINE pair == <<i, j>>
             yes(p) == MoreUsed(s[p[1]], s[p[2]])
  <2>1. pair \in D \X D /\ pair[1] = i /\ pair[2] = j
    OBVIOUS
  <2>2. L = {p \in D \X D : yes(p)}
    BY DEF UsedPlaces
  <2>3. yes(pair) <=> less(i, j)
    BY <2>1
  <2> HIDE DEF pair, yes, L, less
  <2>4. pair \in L <=> less(i, j)
    BY <2>1, <2>2, <2>3
  <2> QED
    BY <2>4 DEF pair
<1>4. Weak(L, D)
  <2>1. \A i, j \in D : less(i, j) => ~less(j, i)
    BY <1>2 DEF MoreUsed
  <2>2. \A i, j, k \in D : less(i, k) => less(i, j) \/ less(j, k)
    BY <1>2 DEF MoreUsed
  <2> HIDE DEF L, D, less
  <2> QED
    BY <1>3, <2>1, <2>2 DEF Weak
<1>5. rank = RankIn(s, L)
  <2>1. \A i \in D : {j \in D : before(j, i)} = {j \in D : <<j, i>> \in Stable(L, D)}
    <3> SUFFICES ASSUME NEW i \in D, NEW j \in D
                 PROVE  before(j, i) <=> <<j, i>> \in Stable(L, D)
      OBVIOUS
    <3>1. <<j, i>> \in Stable(L, D) <=> <<j, i>> \in L \/ (<<i, j>> \notin L /\ j < i)
      BY DEF Stable
    <3> HIDE DEF L, D, less
    <3> QED
      BY <1>3, <3>1
  <2> HIDE DEF L, before
  <2> QED
    BY <2>1 DEF RankIn
<1>6. BestUsed(s) = [k \in D |-> s[CHOOSE i \in D : rank[i] = k]]
  BY DEF BestUsed, Sorted
<1>7. BestUsed(s) = SortOf(s, L)
  <2> HIDE DEF rank, L
  <2> QED
    BY <1>5, <1>6 DEF SortOf
<1> HIDE DEF L
<1> QED
  BY <1>4, <1>7, SortOfIs DEF SortedBy, L

ReadPlaces(s) == {p \in (DOMAIN s) \X (DOMAIN s) : TouchedLater(s[p[1]], s[p[2]])}
ReadFirst(s) == Sorted(s, TouchedLater)

\* Files touched last come first, then by path (migrate.ts).
LEMMA ReadFirstSorts ==
    ASSUME NEW s \in Seq(FileRecord)
    PROVE  ReadFirst(s) \in Seq(FileRecord) /\ SortedBy(ReadFirst(s), s, ReadPlaces(s))
<1> DEFINE D == DOMAIN s
           L == ReadPlaces(s)
           less(i, j) == TouchedLater(s[i], s[j])
           before(j, i) == less(j, i) \/ (~less(i, j) /\ j < i)
           rank == [i \in D |-> Cardinality({j \in D : before(j, i)}) + 1]
<1>1. \A i \in D : s[i] \in FileRecord
  BY LenProperties
<1>2. \A i \in D : s[i].touched \in Nat /\ s[i].path \in Nat
  BY <1>1 DEF FileRecord
<1>3. \A i, j \in D : <<i, j>> \in L <=> less(i, j)
  <2> SUFFICES ASSUME NEW i \in D, NEW j \in D PROVE <<i, j>> \in L <=> less(i, j)
    OBVIOUS
  <2> DEFINE pair == <<i, j>>
             yes(p) == TouchedLater(s[p[1]], s[p[2]])
  <2>1. pair \in D \X D /\ pair[1] = i /\ pair[2] = j
    OBVIOUS
  <2>2. L = {p \in D \X D : yes(p)}
    BY DEF ReadPlaces
  <2>3. yes(pair) <=> less(i, j)
    BY <2>1
  <2> HIDE DEF pair, yes, L, less
  <2>4. pair \in L <=> less(i, j)
    BY <2>1, <2>2, <2>3
  <2> QED
    BY <2>4 DEF pair
<1>4. Weak(L, D)
  <2>1. \A i, j \in D : less(i, j) => ~less(j, i)
    BY <1>2 DEF TouchedLater
  <2>2. \A i, j, k \in D : less(i, k) => less(i, j) \/ less(j, k)
    BY <1>2 DEF TouchedLater
  <2> HIDE DEF L, D, less
  <2> QED
    BY <1>3, <2>1, <2>2 DEF Weak
<1>5. rank = RankIn(s, L)
  <2>1. \A i \in D : {j \in D : before(j, i)} = {j \in D : <<j, i>> \in Stable(L, D)}
    <3> SUFFICES ASSUME NEW i \in D, NEW j \in D
                 PROVE  before(j, i) <=> <<j, i>> \in Stable(L, D)
      OBVIOUS
    <3>1. <<j, i>> \in Stable(L, D) <=> <<j, i>> \in L \/ (<<i, j>> \notin L /\ j < i)
      BY DEF Stable
    <3> HIDE DEF L, D, less
    <3> QED
      BY <1>3, <3>1
  <2> HIDE DEF L, before
  <2> QED
    BY <2>1 DEF RankIn
<1>6. ReadFirst(s) = [k \in D |-> s[CHOOSE i \in D : rank[i] = k]]
  BY DEF ReadFirst, Sorted
<1>7. ReadFirst(s) = SortOf(s, L)
  <2> HIDE DEF rank, L
  <2> QED
    BY <1>5, <1>6 DEF SortOf
<1> HIDE DEF L
<1> QED
  BY <1>4, <1>7, SortOfIs DEF SortedBy, L
-----------------------------------------------------------------------------
(* The loops of the budget                                                 *)

\* A loop that leaves the newest entries leaves the most that are in counts.
LEMMA NewestCut ==
    ASSUME NEW D, NEW s \in Seq(D), NEW counts \in SUBSET (0 .. Len(s)), 0 \in counts
    PROVE  /\ Most(counts) \in counts /\ Most(counts) \in 0 .. Len(s) /\ Most(counts) \in Nat
           /\ \A k \in 0 .. Len(s) : k > Most(counts) => k \notin counts
           /\ LastOf(s, Most(counts)) \in Seq(D)
           /\ Len(LastOf(s, Most(counts))) = Most(counts)
           /\ Drawn(LastOf(s, Most(counts)), s)
           /\ Len(s) \in counts => LastOf(s, Most(counts)) = s
           /\ LastOf(s, 0) = <<>>
<1>1. Len(s) \in Nat
  BY LenProperties
<1>2. counts # {}
  OBVIOUS
<1>3. Most(counts) \in counts /\ \A k \in counts : k <= Most(counts)
  BY <1>1, <1>2, MostIs
<1> DEFINE n == Most(counts)
<1>4. n \in counts /\ \A k \in counts : k <= n
  BY <1>3
<1> HIDE DEF n
<1>5. n \in Nat /\ n <= Len(s) /\ n \in 0 .. Len(s)
  <2>1. n \in 0 .. Len(s)
    BY <1>4
  <2> QED
    BY <1>1, <2>1
<1>6. /\ LastOf(s, n) \in Seq(D) /\ Len(LastOf(s, n)) = IF Len(s) > n THEN n ELSE Len(s)
      /\ Len(s) <= n => LastOf(s, n) = s
      /\ Drawn(LastOf(s, n), s)
  BY <1>5, LastOfIs
<1>7. Len(LastOf(s, n)) = n
  BY <1>1, <1>5, <1>6
<1>8. LastOf(s, 0) = <<>>
  <2>1. /\ LastOf(s, 0) \in Seq(D) /\ Len(LastOf(s, 0)) = IF Len(s) > 0 THEN 0 ELSE Len(s)
    BY LastOfIs
  <2>2. Len(LastOf(s, 0)) = 0
    BY <1>1, <2>1
  <2> QED
    BY <2>1, <2>2, EmptySeq
<1>9. Len(s) \in counts => LastOf(s, n) = s
  BY <1>3, <1>6 DEF n
<1>10. \A k \in 0 .. Len(s) : k > n => k \notin counts
  BY <1>1, <1>3, <1>5 DEF n
<1> QED
  BY <1>3, <1>5, <1>6, <1>7, <1>8, <1>9, <1>10 DEF n

\* So does one that leaves the first, down to a floor.
LEMMA FirstCut ==
    ASSUME NEW D, NEW s \in Seq(D), NEW floor \in 0 .. Len(s),
           NEW counts \in SUBSET (floor .. Len(s)), floor \in counts
    PROVE  /\ Most(counts) \in counts /\ Most(counts) \in floor .. Len(s)
           /\ Most(counts) \in Nat
           /\ \A k \in floor .. Len(s) : k > Most(counts) => k \notin counts
           /\ FirstOf(s, Most(counts)) \in Seq(D)
           /\ Len(FirstOf(s, Most(counts))) = Most(counts)
           /\ Drawn(FirstOf(s, Most(counts)), s)
           /\ Len(s) \in counts => FirstOf(s, Most(counts)) = s
           /\ FirstOf(s, 0) = <<>>
<1>1. Len(s) \in Nat /\ floor \in Nat /\ counts \in SUBSET (0 .. Len(s))
  BY LenProperties
<1>2. counts # {}
  OBVIOUS
<1>3. Most(counts) \in counts /\ \A k \in counts : k <= Most(counts)
  BY <1>1, <1>2, MostIs
<1> DEFINE n == Most(counts)
<1>4. n \in counts /\ \A k \in counts : k <= n
  BY <1>3
<1> HIDE DEF n
<1>5. n \in Nat /\ n <= Len(s) /\ n \in floor .. Len(s)
  <2>1. n \in floor .. Len(s)
    BY <1>4
  <2> QED
    BY <1>1, <2>1
<1>6. /\ FirstOf(s, n) \in Seq(D) /\ Len(FirstOf(s, n)) = IF Len(s) > n THEN n ELSE Len(s)
      /\ Len(s) <= n => FirstOf(s, n) = s
      /\ Drawn(FirstOf(s, n), s)
  BY <1>5, FirstOfIs
<1>7. Len(FirstOf(s, n)) = n
  BY <1>1, <1>5, <1>6
<1>8. FirstOf(s, 0) = <<>>
  <2>1. /\ FirstOf(s, 0) \in Seq(D) /\ Len(FirstOf(s, 0)) = IF Len(s) > 0 THEN 0 ELSE Len(s)
    BY FirstOfIs
  <2>2. Len(FirstOf(s, 0)) = 0
    BY <1>1, <2>1
  <2> QED
    BY <2>1, <2>2, EmptySeq
<1>9. Len(s) \in counts => FirstOf(s, n) = s
  BY <1>3, <1>6 DEF n
<1>10. \A k \in floor .. Len(s) : k > n => k \notin counts
  BY <1>1, <1>3, <1>5 DEF n
<1> QED
  BY <1>3, <1>5, <1>6, <1>7, <1>8, <1>9, <1>10 DEF n

\* Stage 2: what is left of the cache are the newest entries that fit.
WithCache(m, t) == [m EXCEPT !.cache = t]
CacheLeft(m) == LastOf(m.cache, Cap.cache)

\* The loop stops at the most of them that fit.
LEMMA CacheCut ==
    ASSUME NEW m \in Document
    PROVE  /\ CacheLeft(m) \in Seq(CacheRecord) /\ Drawn(CacheLeft(m), m.cache)
           /\ \E n \in 0 .. Len(CacheLeft(m)) :
                 /\ ShedCache(m) = WithCache(m, LastOf(CacheLeft(m), n))
                 /\ n = 0 \/ ~Over(ShedCache(m))
                 /\ \A k \in 0 .. Len(CacheLeft(m)) :
                       k > n => Over(WithCache(m, LastOf(CacheLeft(m), k)))
                 /\ LastOf(CacheLeft(m), n) \in Seq(CacheRecord)
                 /\ Drawn(LastOf(CacheLeft(m), n), m.cache)
                 /\ Len(LastOf(CacheLeft(m), n)) = n
                 /\ n = Len(CacheLeft(m)) => LastOf(CacheLeft(m), n) = CacheLeft(m)
           /\ Lightened(ShedCache(m), m)
<1> DEFINE s == CacheLeft(m)
           With(t) == [m EXCEPT !.cache = t]
           counts == {n \in 0 .. Len(s) : n = 0 \/ ~Over(With(LastOf(s, n)))}
           n == Most(counts)
<1>1. s \in Seq(CacheRecord) /\ Drawn(s, m.cache)
  <2>1. m.cache \in Seq(CacheRecord)
    BY FieldsOf
  <2>2. Cap.cache \in Nat
    BY DocumentAssumption
  <2> QED
    BY <2>1, <2>2, LastOfIs DEF CacheLeft
<1>2. ShedCache(m) = With(LastOf(s, n))
  BY DEF ShedCache, NewestThatFit, CacheLeft
<1>3. \A k \in 0 .. Len(s) : k \in counts <=> k = 0 \/ ~Over(With(LastOf(s, k)))
  OBVIOUS
<1>4. counts \in SUBSET (0 .. Len(s)) /\ 0 \in counts
  <2>1. Len(s) \in Nat
    BY <1>1, LenProperties
  <2> QED
    BY <2>1
<1>5. \A t : With(t) = WithCache(m, t)
  BY DEF WithCache
<1> HIDE DEF s, With, counts
<1>6. /\ n \in counts /\ n \in 0 .. Len(s)
      /\ \A k \in 0 .. Len(s) : k > n => k \notin counts
      /\ LastOf(s, n) \in Seq(CacheRecord) /\ Len(LastOf(s, n)) = n /\ Drawn(LastOf(s, n), s)
      /\ n \in Nat
  BY <1>1, <1>4, NewestCut
<1> HIDE DEF n
<1>7. Drawn(LastOf(s, n), m.cache)
  BY <1>1, <1>6, DrawnTwice
<1>8. n = 0 \/ ~Over(ShedCache(m))
  BY <1>2, <1>3, <1>6
<1>9. \A k \in 0 .. Len(s) : k > n => Over(WithCache(m, LastOf(s, k)))
  BY <1>3, <1>5, <1>6
<1>10. n = Len(s) => LastOf(s, n) = s
  BY <1>1, <1>6, LastOfIs
<1>11. ShedCache(m) = WithCache(m, LastOf(s, n))
  BY <1>2, <1>5
<1>12. Lightened(ShedCache(m), m)
  <2>1. m.cache \in Seq(CacheRecord)
    BY FieldsOf
  <2>2. Len(LastOf(s, n)) <= Len(m.cache)
    BY <1>6, <1>7, <2>1, DrawnIsLess
  <2> QED
    BY <1>6, <1>7, <1>11, <2>2, LighterCache DEF WithCache
<1> QED
  BY <1>1, <1>6, <1>7, <1>8, <1>9, <1>10, <1>11, <1>12 DEF s

\* Stage 6: of the files those touched last.
WithFiles(m, t) == [m EXCEPT !.files = t]
FilesLeft(m) == FirstOf(NewestFirst(m.files), Cap.files)

\* Stage 6: the most of the files touched last that fit.
LEMMA FilesCut ==
    ASSUME NEW m \in Document
    PROVE  /\ FilesLeft(m) \in Seq(FileRecord) /\ Drawn(FilesLeft(m), m.files)
           /\ \E n \in 0 .. Len(FilesLeft(m)) :
                 /\ ShedFiles(m) = WithFiles(m, FirstOf(FilesLeft(m), n))
                 /\ n = 0 \/ ~Over(ShedFiles(m))
                 /\ \A k \in 0 .. Len(FilesLeft(m)) :
                       k > n => Over(WithFiles(m, FirstOf(FilesLeft(m), k)))
                 /\ FirstOf(FilesLeft(m), n) \in Seq(FileRecord)
                 /\ Drawn(FirstOf(FilesLeft(m), n), m.files)
                 /\ Len(FirstOf(FilesLeft(m), n)) = n
                 /\ n = Len(FilesLeft(m)) => FirstOf(FilesLeft(m), n) = FilesLeft(m)
           /\ Lightened(ShedFiles(m), m)
<1> DEFINE s == FilesLeft(m)
           With(t) == [m EXCEPT !.files = t]
           counts == {n \in 0 .. Len(s) : n = 0 \/ ~Over(With(FirstOf(s, n)))}
           n == Most(counts)
<1>1. s \in Seq(FileRecord) /\ Drawn(s, m.files)
  <2>1. m.files \in Seq(FileRecord)
    BY FieldsOf
  <2>2. Cap.files \in Nat
    BY DocumentAssumption
  <2>3. NewestFirst(m.files) \in Seq(FileRecord) /\ Drawn(NewestFirst(m.files), m.files)
    BY <2>1, NewestFirstSorts DEF SortedBy
  <2>4. s \in Seq(FileRecord) /\ Drawn(s, NewestFirst(m.files))
    BY <2>2, <2>3, FirstOfIs DEF FilesLeft
  <2> QED
    BY <2>3, <2>4, DrawnTwice
<1>2. ShedFiles(m) = With(FirstOf(s, n))
  BY DEF ShedFiles, FirstThatFit, FilesLeft, NewestFirst
<1>3. \A k \in 0 .. Len(s) : k \in counts <=> k = 0 \/ ~Over(With(FirstOf(s, k)))
  OBVIOUS
<1>4. counts \in SUBSET (0 .. Len(s)) /\ 0 \in counts
  <2>1. Len(s) \in Nat
    BY <1>1, LenProperties
  <2> QED
    BY <2>1
<1>5. \A t : With(t) = WithFiles(m, t)
  BY DEF WithFiles
<1> HIDE DEF s, With, counts
<1>6. /\ n \in counts /\ n \in 0 .. Len(s)
      /\ \A k \in 0 .. Len(s) : k > n => k \notin counts
      /\ FirstOf(s, n) \in Seq(FileRecord) /\ Len(FirstOf(s, n)) = n /\ Drawn(FirstOf(s, n), s)
      /\ n \in Nat
  <2>1. 0 \in 0 .. Len(s)
    BY <1>4
  <2> QED
    BY <1>1, <1>4, <2>1, FirstCut
<1> HIDE DEF n
<1>7. Drawn(FirstOf(s, n), m.files)
  BY <1>1, <1>6, DrawnTwice
<1>8. n = 0 \/ ~Over(ShedFiles(m))
  BY <1>2, <1>3, <1>6
<1>9. \A k \in 0 .. Len(s) : k > n => Over(WithFiles(m, FirstOf(s, k)))
  BY <1>3, <1>5, <1>6
<1>10. n = Len(s) => FirstOf(s, n) = s
  BY <1>1, <1>6, FirstOfIs
<1>11. ShedFiles(m) = WithFiles(m, FirstOf(s, n))
  BY <1>2, <1>5
<1>12. Lightened(ShedFiles(m), m)
  <2>1. m.files \in Seq(FileRecord)
    BY FieldsOf
  <2>2. Len(FirstOf(s, n)) <= Len(m.files)
    BY <1>6, <1>7, <2>1, DrawnIsLess
  <2> QED
    BY <1>6, <1>7, <1>11, <2>2, LighterFiles DEF WithFiles
<1> QED
  BY <1>1, <1>6, <1>7, <1>8, <1>9, <1>10, <1>11, <1>12 DEF s

\* Stage 10: of the files, under pressure, those touched last.
WithOldFiles(m, t) == [m EXCEPT !.files = t]
OldFilesLeft(m) == OldestFirst(m.files)

\* Stage 10: the most of the files that fit, sorted anew.
LEMMA OldFilesCut ==
    ASSUME NEW m \in Document
    PROVE  /\ OldFilesLeft(m) \in Seq(FileRecord) /\ Drawn(OldFilesLeft(m), m.files)
           /\ \E n \in 0 .. Len(OldFilesLeft(m)) :
                 /\ ShedOldFiles(m) = WithOldFiles(m, LastOf(OldFilesLeft(m), n))
                 /\ n = 0 \/ ~Over(ShedOldFiles(m))
                 /\ \A k \in 0 .. Len(OldFilesLeft(m)) :
                       k > n => Over(WithOldFiles(m, LastOf(OldFilesLeft(m), k)))
                 /\ LastOf(OldFilesLeft(m), n) \in Seq(FileRecord)
                 /\ Drawn(LastOf(OldFilesLeft(m), n), m.files)
                 /\ Len(LastOf(OldFilesLeft(m), n)) = n
                 /\ n = Len(OldFilesLeft(m)) => LastOf(OldFilesLeft(m), n) = OldFilesLeft(m)
           /\ Lightened(ShedOldFiles(m), m)
<1> DEFINE s == OldFilesLeft(m)
           With(t) == [m EXCEPT !.files = t]
           counts == {n \in 0 .. Len(s) : n = 0 \/ ~Over(With(LastOf(s, n)))}
           n == Most(counts)
<1>1. s \in Seq(FileRecord) /\ Drawn(s, m.files)
  <2>1. m.files \in Seq(FileRecord)
    BY FieldsOf
  <2> QED
    BY <2>1, OldestFirstSorts DEF SortedBy, OldFilesLeft
<1>2. ShedOldFiles(m) = With(LastOf(s, n))
  BY DEF ShedOldFiles, NewestThatFit, OldFilesLeft, OldestFirst
<1>3. \A k \in 0 .. Len(s) : k \in counts <=> k = 0 \/ ~Over(With(LastOf(s, k)))
  OBVIOUS
<1>4. counts \in SUBSET (0 .. Len(s)) /\ 0 \in counts
  <2>1. Len(s) \in Nat
    BY <1>1, LenProperties
  <2> QED
    BY <2>1
<1>5. \A t : With(t) = WithOldFiles(m, t)
  BY DEF WithOldFiles
<1> HIDE DEF s, With, counts
<1>6. /\ n \in counts /\ n \in 0 .. Len(s)
      /\ \A k \in 0 .. Len(s) : k > n => k \notin counts
      /\ LastOf(s, n) \in Seq(FileRecord) /\ Len(LastOf(s, n)) = n /\ Drawn(LastOf(s, n), s)
      /\ n \in Nat
  BY <1>1, <1>4, NewestCut
<1> HIDE DEF n
<1>7. Drawn(LastOf(s, n), m.files)
  BY <1>1, <1>6, DrawnTwice
<1>8. n = 0 \/ ~Over(ShedOldFiles(m))
  BY <1>2, <1>3, <1>6
<1>9. \A k \in 0 .. Len(s) : k > n => Over(WithOldFiles(m, LastOf(s, k)))
  BY <1>3, <1>5, <1>6
<1>10. n = Len(s) => LastOf(s, n) = s
  BY <1>1, <1>6, LastOfIs
<1>11. ShedOldFiles(m) = WithOldFiles(m, LastOf(s, n))
  BY <1>2, <1>5
<1>12. Lightened(ShedOldFiles(m), m)
  <2>1. m.files \in Seq(FileRecord)
    BY FieldsOf
  <2>2. Len(LastOf(s, n)) <= Len(m.files)
    BY <1>6, <1>7, <2>1, DrawnIsLess
  <2> QED
    BY <1>6, <1>7, <1>11, <2>2, LighterFiles DEF WithOldFiles
<1> QED
  BY <1>1, <1>6, <1>7, <1>8, <1>9, <1>10, <1>11, <1>12 DEF s

\* Stage 10: of the blockers the last.
WithBlockers(m, t) == [m EXCEPT !.blockers = t]
BlockersLeft(m) == m.blockers

\* Stage 10: the most of the last blockers that fit.
LEMMA BlockersCut ==
    ASSUME NEW m \in Document
    PROVE  /\ BlockersLeft(m) \in Seq(Nat) /\ Drawn(BlockersLeft(m), m.blockers)
           /\ \E n \in 0 .. Len(BlockersLeft(m)) :
                 /\ ShedBlockers(m) = WithBlockers(m, LastOf(BlockersLeft(m), n))
                 /\ n = 0 \/ ~Over(ShedBlockers(m))
                 /\ \A k \in 0 .. Len(BlockersLeft(m)) :
                       k > n => Over(WithBlockers(m, LastOf(BlockersLeft(m), k)))
                 /\ LastOf(BlockersLeft(m), n) \in Seq(Nat)
                 /\ Drawn(LastOf(BlockersLeft(m), n), m.blockers)
                 /\ Len(LastOf(BlockersLeft(m), n)) = n
                 /\ n = Len(BlockersLeft(m)) => LastOf(BlockersLeft(m), n) = BlockersLeft(m)
           /\ Lightened(ShedBlockers(m), m)
<1> DEFINE s == BlockersLeft(m)
           With(t) == [m EXCEPT !.blockers = t]
           counts == {n \in 0 .. Len(s) : n = 0 \/ ~Over(With(LastOf(s, n)))}
           n == Most(counts)
<1>1. s \in Seq(Nat) /\ Drawn(s, m.blockers)
  BY FieldsOf, DrawnTwice DEF BlockersLeft
<1>2. ShedBlockers(m) = With(LastOf(s, n))
  BY DEF ShedBlockers, NewestThatFit, BlockersLeft
<1>3. \A k \in 0 .. Len(s) : k \in counts <=> k = 0 \/ ~Over(With(LastOf(s, k)))
  OBVIOUS
<1>4. counts \in SUBSET (0 .. Len(s)) /\ 0 \in counts
  <2>1. Len(s) \in Nat
    BY <1>1, LenProperties
  <2> QED
    BY <2>1
<1>5. \A t : With(t) = WithBlockers(m, t)
  BY DEF WithBlockers
<1> HIDE DEF s, With, counts
<1>6. /\ n \in counts /\ n \in 0 .. Len(s)
      /\ \A k \in 0 .. Len(s) : k > n => k \notin counts
      /\ LastOf(s, n) \in Seq(Nat) /\ Len(LastOf(s, n)) = n /\ Drawn(LastOf(s, n), s)
      /\ n \in Nat
  BY <1>1, <1>4, NewestCut
<1> HIDE DEF n
<1>7. Drawn(LastOf(s, n), m.blockers)
  BY <1>1, <1>6, DrawnTwice
<1>8. n = 0 \/ ~Over(ShedBlockers(m))
  BY <1>2, <1>3, <1>6
<1>9. \A k \in 0 .. Len(s) : k > n => Over(WithBlockers(m, LastOf(s, k)))
  BY <1>3, <1>5, <1>6
<1>10. n = Len(s) => LastOf(s, n) = s
  BY <1>1, <1>6, LastOfIs
<1>11. ShedBlockers(m) = WithBlockers(m, LastOf(s, n))
  BY <1>2, <1>5
<1>12. Lightened(ShedBlockers(m), m)
  <2>1. m.blockers \in Seq(Nat)
    BY FieldsOf
  <2>2. Len(LastOf(s, n)) <= Len(m.blockers)
    BY <1>6, <1>7, <2>1, DrawnIsLess
  <2> QED
    BY <1>6, <1>7, <1>11, <2>2, LighterBlockers DEF WithBlockers
<1> QED
  BY <1>1, <1>6, <1>7, <1>8, <1>9, <1>10, <1>11, <1>12 DEF s

\* Stage 10: of the next steps the last.
WithSteps(m, t) == [m EXCEPT !.steps = t]
StepsLeft(m) == m.steps

\* Stage 10: the most of the last steps that fit.
LEMMA StepsCut ==
    ASSUME NEW m \in Document
    PROVE  /\ StepsLeft(m) \in Seq(Nat) /\ Drawn(StepsLeft(m), m.steps)
           /\ \E n \in 0 .. Len(StepsLeft(m)) :
                 /\ ShedSteps(m) = WithSteps(m, LastOf(StepsLeft(m), n))
                 /\ n = 0 \/ ~Over(ShedSteps(m))
                 /\ \A k \in 0 .. Len(StepsLeft(m)) :
                       k > n => Over(WithSteps(m, LastOf(StepsLeft(m), k)))
                 /\ LastOf(StepsLeft(m), n) \in Seq(Nat) /\ Drawn(LastOf(StepsLeft(m), n), m.steps)
                 /\ Len(LastOf(StepsLeft(m), n)) = n
                 /\ n = Len(StepsLeft(m)) => LastOf(StepsLeft(m), n) = StepsLeft(m)
           /\ Lightened(ShedSteps(m), m)
<1> DEFINE s == StepsLeft(m)
           With(t) == [m EXCEPT !.steps = t]
           counts == {n \in 0 .. Len(s) : n = 0 \/ ~Over(With(LastOf(s, n)))}
           n == Most(counts)
<1>1. s \in Seq(Nat) /\ Drawn(s, m.steps)
  BY FieldsOf, DrawnTwice DEF StepsLeft
<1>2. ShedSteps(m) = With(LastOf(s, n))
  BY DEF ShedSteps, NewestThatFit, StepsLeft
<1>3. \A k \in 0 .. Len(s) : k \in counts <=> k = 0 \/ ~Over(With(LastOf(s, k)))
  OBVIOUS
<1>4. counts \in SUBSET (0 .. Len(s)) /\ 0 \in counts
  <2>1. Len(s) \in Nat
    BY <1>1, LenProperties
  <2> QED
    BY <2>1
<1>5. \A t : With(t) = WithSteps(m, t)
  BY DEF WithSteps
<1> HIDE DEF s, With, counts
<1>6. /\ n \in counts /\ n \in 0 .. Len(s)
      /\ \A k \in 0 .. Len(s) : k > n => k \notin counts
      /\ LastOf(s, n) \in Seq(Nat) /\ Len(LastOf(s, n)) = n /\ Drawn(LastOf(s, n), s)
      /\ n \in Nat
  BY <1>1, <1>4, NewestCut
<1> HIDE DEF n
<1>7. Drawn(LastOf(s, n), m.steps)
  BY <1>1, <1>6, DrawnTwice
<1>8. n = 0 \/ ~Over(ShedSteps(m))
  BY <1>2, <1>3, <1>6
<1>9. \A k \in 0 .. Len(s) : k > n => Over(WithSteps(m, LastOf(s, k)))
  BY <1>3, <1>5, <1>6
<1>10. n = Len(s) => LastOf(s, n) = s
  BY <1>1, <1>6, LastOfIs
<1>11. ShedSteps(m) = WithSteps(m, LastOf(s, n))
  BY <1>2, <1>5
<1>12. Lightened(ShedSteps(m), m)
  <2>1. m.steps \in Seq(Nat)
    BY FieldsOf
  <2>2. Len(LastOf(s, n)) <= Len(m.steps)
    BY <1>6, <1>7, <2>1, DrawnIsLess
  <2> QED
    BY <1>6, <1>7, <1>11, <2>2, LighterSteps DEF WithSteps
<1> QED
  BY <1>1, <1>6, <1>7, <1>8, <1>9, <1>10, <1>11, <1>12 DEF s
-----------------------------------------------------------------------------
(* The stages that do more than to shorten one list                        *)

\* t is a list of elements of E, as long as s.
AsLong(t, s, E) ==
    DOMAIN t = DOMAIN s /\ t = [i \in DOMAIN s |-> t[i]] /\ \A i \in DOMAIN s : t[i] \in E

\* What Mapped makes of a list, entry by entry.
LEMMA ListBy ==
    ASSUME NEW D, NEW E, NEW s \in Seq(D), NEW t, AsLong(t, s, E)
    PROVE  t \in Seq(E) /\ Len(t) = Len(s)
<1>1. Len(s) \in Nat /\ DOMAIN s = 1 .. Len(s)
  BY LenProperties
<1>2. t \in [1 .. Len(s) -> E]
  BY <1>1 DEF AsLong
<1>3. t \in Seq(E)
  BY <1>1, <1>2, SeqDef
<1>4. Len(t) \in Nat /\ DOMAIN t = 1 .. Len(t)
  BY <1>3, LenProperties
<1> QED
  BY <1>1, <1>3, <1>4 DEF AsLong

Expired(a, now) == IF IsPending(a) /\ now - a.stamp > AuditTimeout
                   THEN [a EXCEPT !.state = "completed"] ELSE a

\* Stage 0 completes the audits that nobody will settle, and leaves the others.
LEMMA ExpireIs ==
    ASSUME NEW m \in Document, NEW now
    PROVE  /\ Lightened(ExpireAudits(m, now), m)
           /\ DOMAIN ExpireAudits(m, now).audits = DOMAIN m.audits
           /\ \A i \in DOMAIN m.audits :
                  ExpireAudits(m, now).audits[i] = Expired(m.audits[i], now)
           /\ ExpireAudits(m, now) = [m EXCEPT !.audits = ExpireAudits(m, now).audits]
<1> DEFINE t == [i \in DOMAIN m.audits |-> Expired(m.audits[i], now)]
<1>1. ExpireAudits(m, now) = [m EXCEPT !.audits = t]
  BY DEF ExpireAudits, Mapped, Expired
<1>2. m.audits \in Seq(AuditRecord)
  BY FieldsOf
<1>3. \A i \in DOMAIN m.audits : m.audits[i] \in AuditRecord
  BY <1>2, LenProperties
<1>4. \A a \in AuditRecord : Expired(a, now) \in AuditRecord
  BY DEF AuditRecord, Expired
<1>5. /\ DOMAIN t = DOMAIN m.audits /\ t = [i \in DOMAIN m.audits |-> t[i]]
      /\ \A i \in DOMAIN m.audits : t[i] = Expired(m.audits[i], now)
  OBVIOUS
<1>6. \A i \in DOMAIN m.audits : t[i] \in AuditRecord
  BY <1>3, <1>4
<1> HIDE DEF t
<1>7. t \in Seq(AuditRecord) /\ Len(t) = Len(m.audits)
  <2>1. AsLong(t, m.audits, AuditRecord)
    BY <1>5, <1>6 DEF AsLong
  <2> QED
    BY <1>2, <2>1, ListBy
<1>8. Len(t) <= Len(m.audits)
  BY <1>2, <1>7, LenProperties
<1>9. Lightened([m EXCEPT !.audits = t], m)
  BY <1>7, <1>8, LighterAudits
<1>10. [m EXCEPT !.audits = t].audits = t
  BY DEF Document
<1> QED
  BY <1>1, <1>5, <1>9, <1>10

\* A filter on a list of which another is cut: the parts put together.
LEMMA PartsDrawn ==
    ASSUME NEW D, NEW s \in Seq(D), NEW S, NEW T, S \cap T = {}, NEW a \in Seq(D),
           Drawn(a, Within(s, S))
    PROVE  /\ a \o Within(s, T) \in Seq(D) /\ Drawn(a \o Within(s, T), s)
           /\ Len(a \o Within(s, T)) <= Len(s)
           /\ Range(a \o Within(s, T)) = Range(a) \cup Range(Within(s, T))
<1>1. /\ Within(s, S) \in Seq(D) /\ Range(Within(s, S)) = Range(s) \cap S
      /\ Drawn(Within(s, S), s)
      /\ Within(s, T) \in Seq(D) /\ Range(Within(s, T)) = Range(s) \cap T
      /\ Drawn(Within(s, T), s)
  BY WithinDraws
<1>2. Range(a) \subseteq Range(Within(s, S))
  BY <1>1, DrawnIsLess
<1>3. Range(a) \cap Range(Within(s, T)) = {}
  BY <1>1, <1>2
<1>4. Drawn(a, s)
  BY <1>1, DrawnTwice
<1>5. Drawn(a \o Within(s, T), s)
  BY <1>1, <1>3, <1>4, ConcatDrawn
<1>6. a \o Within(s, T) \in Seq(D)
  BY <1>1, ConcatProperties
<1>7. Len(a \o Within(s, T)) <= Len(s)
  BY <1>5, <1>6, DrawnIsLess
<1>8. Range(a \o Within(s, T)) = Range(a) \cup Range(Within(s, T))
  BY <1>1, RangeConcatenation
<1> QED
  BY <1>5, <1>6, <1>7, <1>8

\* Stage 1: of the completed audits the newest that fit, before the pending
\* ones.
Waiting(m) == Those(m.audits, IsPending)
Done(m) == Those(m.audits, IsCompleted)
AuditsLeft(m) == LastOf(Done(m), Cap.audits)
WithAudits(m, t) == [m EXCEPT !.audits = t \o Waiting(m)]

\* The most of the newest completed audits that fit beside the pending ones.
LEMMA AuditsCut ==
    ASSUME NEW m \in Document
    PROVE  /\ AuditsLeft(m) \in Seq(AuditRecord) /\ Waiting(m) \in Seq(AuditRecord)
           /\ Done(m) \in Seq(AuditRecord)
           /\ Range(Waiting(m)) = {a \in Range(m.audits) : IsPending(a)}
           /\ \E n \in 0 .. Len(AuditsLeft(m)) :
                 /\ ShedAudits(m) = WithAudits(m, LastOf(AuditsLeft(m), n))
                 /\ n = 0 \/ ~Over(ShedAudits(m))
                 /\ \A k \in 0 .. Len(AuditsLeft(m)) :
                       k > n => Over(WithAudits(m, LastOf(AuditsLeft(m), k)))
                 /\ Len(LastOf(AuditsLeft(m), n)) = n
                 /\ n = Len(AuditsLeft(m)) => LastOf(AuditsLeft(m), n) = AuditsLeft(m)
           /\ Lightened(ShedAudits(m), m)
<1> DEFINE s == AuditsLeft(m)
           t == Waiting(m)
           With(kept) == [m EXCEPT !.audits = kept \o t]
           counts == {n \in 0 .. Len(s) : n = 0 \/ ~Over(With(LastOf(s, n)))}
           n == Most(counts)
           P == {a \in Range(m.audits) : IsPending(a)}
           C == {a \in Range(m.audits) : IsCompleted(a)}
<1>1. /\ m.audits \in Seq(AuditRecord) /\ Cap.audits \in Nat
      /\ t = Within(m.audits, P) /\ Done(m) = Within(m.audits, C) /\ C \cap P = {}
  <2>1. m.audits \in Seq(AuditRecord)
    BY FieldsOf
  <2>2. Cap.audits \in Nat
    BY DocumentAssumption
  <2> QED
    BY <2>1, <2>2 DEF Waiting, Done, Those, IsPending, IsCompleted
<1>2. /\ Done(m) \in Seq(AuditRecord) /\ t \in Seq(AuditRecord)
      /\ Range(t) = Range(m.audits) \cap P
  BY <1>1, WithinDraws
<1>3. s \in Seq(AuditRecord) /\ Drawn(s, Done(m))
  BY <1>1, <1>2, LastOfIs DEF AuditsLeft
<1>4. ShedAudits(m) = With(LastOf(s, n))
  BY DEF ShedAudits, NewestThatFit, AuditsLeft, Waiting, Done
<1>5. \A k \in 0 .. Len(s) : k \in counts <=> k = 0 \/ ~Over(With(LastOf(s, k)))
  OBVIOUS
<1>6. counts \in SUBSET (0 .. Len(s)) /\ 0 \in counts
  <2>1. Len(s) \in Nat
    BY <1>3, LenProperties
  <2> QED
    BY <2>1
<1>7. \A a : With(a) = WithAudits(m, a)
  BY DEF WithAudits
<1>8. Range(t) = P
  BY <1>2
<1> HIDE DEF s, t, With, counts, P, C
<1>9. /\ n \in counts /\ n \in 0 .. Len(s) /\ n \in Nat
      /\ \A k \in 0 .. Len(s) : k > n => k \notin counts
      /\ LastOf(s, n) \in Seq(AuditRecord) /\ Len(LastOf(s, n)) = n /\ Drawn(LastOf(s, n), s)
  BY <1>3, <1>6, NewestCut
<1> HIDE DEF n
<1>10. /\ LastOf(s, n) \o t \in Seq(AuditRecord) /\ Len(LastOf(s, n) \o t) <= Len(m.audits)
  <2>1. Drawn(LastOf(s, n), Done(m))
    BY <1>3, <1>9, DrawnTwice
  <2> QED
    BY <1>1, <1>9, <2>1, PartsDrawn
<1>11. Lightened(ShedAudits(m), m)
  BY <1>4, <1>10, LighterAudits DEF With
<1>12. n = 0 \/ ~Over(ShedAudits(m))
  BY <1>4, <1>5, <1>9
<1>13. \A k \in 0 .. Len(s) : k > n => Over(WithAudits(m, LastOf(s, k)))
  BY <1>5, <1>7, <1>9
<1>14. n = Len(s) => LastOf(s, n) = s
  BY <1>3, <1>9, LastOfIs
<1>15. ShedAudits(m) = WithAudits(m, LastOf(s, n))
  BY <1>4, <1>7
<1> QED
  BY <1>2, <1>3, <1>8, <1>9, <1>11, <1>12, <1>13, <1>14, <1>15 DEF s, t, P

\* Stage 3: of the models whose health is known the newest that fit, and then
\* the count of what was quarantined.
WithHealth(m, t) == [m EXCEPT !.health = t]
HealthLeft(m) == LastOf(m.health, Cap.health)

\* The most of the newest reports of health that fit; if none does, the
\* count of quarantined entries goes too.
LEMMA HealthCut ==
    ASSUME NEW m \in Document
    PROVE  /\ HealthLeft(m) \in Seq(Nat) /\ Drawn(HealthLeft(m), m.health)
           /\ \E n \in 0 .. Len(HealthLeft(m)), y \in Document :
                 /\ y = WithHealth(m, LastOf(HealthLeft(m), n))
                 /\ n = 0 \/ ~Over(y)
                 /\ \A k \in 0 .. Len(HealthLeft(m)) :
                       k > n => Over(WithHealth(m, LastOf(HealthLeft(m), k)))
                 /\ Len(LastOf(HealthLeft(m), n)) = n
                 /\ n = Len(HealthLeft(m)) => LastOf(HealthLeft(m), n) = HealthLeft(m)
                 /\ Lightened(y, m) /\ LastOf(HealthLeft(m), n) \in Seq(Nat)
                 /\ ShedHealth(m) = IF Over(y) THEN [y EXCEPT !.quarantined = 0] ELSE y
           /\ Lightened(ShedHealth(m), m)
<1> DEFINE s == HealthLeft(m)
           With(t) == [m EXCEPT !.health = t]
           counts == {n \in 0 .. Len(s) : n = 0 \/ ~Over(With(LastOf(s, n)))}
           n == Most(counts)
           y == With(LastOf(s, n))
<1>1. s \in Seq(Nat) /\ Drawn(s, m.health) /\ m.health \in Seq(Nat)
  <2>1. m.health \in Seq(Nat)
    BY FieldsOf
  <2>2. Cap.health \in Nat
    BY DocumentAssumption
  <2> QED
    BY <2>1, <2>2, LastOfIs DEF HealthLeft
<1>2. ShedHealth(m) = IF Over(y) THEN [y EXCEPT !.quarantined = 0] ELSE y
  BY DEF ShedHealth, NewestThatFit, HealthLeft
<1>3. \A k \in 0 .. Len(s) : k \in counts <=> k = 0 \/ ~Over(With(LastOf(s, k)))
  OBVIOUS
<1>4. counts \in SUBSET (0 .. Len(s)) /\ 0 \in counts
  <2>1. Len(s) \in Nat
    BY <1>1, LenProperties
  <2> QED
    BY <2>1
<1>5. \A t : With(t) = WithHealth(m, t)
  BY DEF WithHealth
<1> HIDE DEF s, With, counts
<1>6. /\ n \in counts /\ n \in 0 .. Len(s)
      /\ \A k \in 0 .. Len(s) : k > n => k \notin counts
      /\ LastOf(s, n) \in Seq(Nat) /\ Len(LastOf(s, n)) = n /\ Drawn(LastOf(s, n), s)
      /\ n \in Nat
  BY <1>1, <1>4, NewestCut
<1> HIDE DEF n
<1>7. Len(LastOf(s, n)) <= Len(m.health)
  <2>1. Drawn(LastOf(s, n), m.health)
    BY <1>1, <1>6, DrawnTwice
  <2> QED
    BY <1>1, <1>6, <2>1, DrawnIsLess
<1>8. Lightened(y, m)
  BY <1>6, <1>7, LighterHealth DEF With
<1>9. n = 0 \/ ~Over(y)
  BY <1>3, <1>6
<1>10. \A k \in 0 .. Len(s) : k > n => Over(WithHealth(m, LastOf(s, k)))
  BY <1>3, <1>5, <1>6
<1>11. n = Len(s) => LastOf(s, n) = s
  BY <1>1, <1>6, LastOfIs
<1>12. y = WithHealth(m, LastOf(s, n))
  BY <1>5
<1> HIDE DEF y
<1>13. y \in Document
  BY <1>8 DEF Lightened
<1>14. Lightened(ShedHealth(m), m)
  <2> DEFINE z == [y EXCEPT !.quarantined = 0]
  <2>1. Lightened(z, y)
    BY <1>13, LighterCount
  <2>2. Lightened(z, m)
    BY <1>8, <2>1, LighterIs DEF Lightened
  <2> HIDE DEF z
  <2> QED
    BY <1>2, <1>8, <2>2 DEF z
<1> QED
  BY <1>1, <1>2, <1>6, <1>8, <1>9, <1>10, <1>11, <1>12, <1>13, <1>14 DEF s

\* Stage 4: the completions that the transaction protects follow the newest of
\* the others; of the sessions, and then of these others, as many as fit.
OwnSources(m, p) == Within(m.sources, p.sources)
FreeSources(m, p) == Within(m.sources, Range(m.sources) \ p.sources)
SourcesLeft(m, p) == LastOf(FreeSources(m, p), Cap.sources)
SessionsLeft(m) == LastOf(m.sessions, Cap.sessions)
WithBooks(m, p, sources, sessions) ==
    [m EXCEPT !.sources = sources \o OwnSources(m, p), !.sessions = sessions]

\* The most of the newest sessions that fit, then of the unprotected completions.
LEMMA BooksCut ==
    ASSUME NEW m \in Document, NEW p
    PROVE  /\ OwnSources(m, p) \in Seq(Nat) /\ SourcesLeft(m, p) \in Seq(Nat)
           /\ FreeSources(m, p) \in Seq(Nat) /\ SessionsLeft(m) \in Seq(Nat)
           /\ Drawn(SourcesLeft(m, p), FreeSources(m, p))
           /\ \E i \in 0 .. Len(SessionsLeft(m)), n \in 0 .. Len(SourcesLeft(m, p)) :
                 LET sessions == LastOf(SessionsLeft(m), i)
                     sources == LastOf(SourcesLeft(m, p), n)
                     first == WithBooks(m, p, SourcesLeft(m, p), sessions)
                 IN  /\ ShedBookkeeping(m, p) = WithBooks(m, p, sources, sessions)
                     /\ i = 0 \/ ~Over(first)
                     /\ \A k \in 0 .. Len(SessionsLeft(m)) : k > i =>
                           Over(WithBooks(m, p, SourcesLeft(m, p), LastOf(SessionsLeft(m), k)))
                     /\ n = 0 \/ ~Over(ShedBookkeeping(m, p))
                     /\ \A k \in 0 .. Len(SourcesLeft(m, p)) : k > n =>
                           Over(WithBooks(m, p, LastOf(SourcesLeft(m, p), k), sessions))
                     /\ sessions \in Seq(Nat) /\ sources \in Seq(Nat)
                     /\ Len(sessions) = i /\ Len(sources) = n
                     /\ Drawn(sources, FreeSources(m, p))
                     /\ first \in Document /\ Lightened(ShedBookkeeping(m, p), first)
                     /\ i = Len(SessionsLeft(m)) => sessions = SessionsLeft(m)
                     /\ n = Len(SourcesLeft(m, p)) => sources = SourcesLeft(m, p)
           /\ Lightened(ShedBookkeeping(m, p), m)
<1> DEFINE kept == OwnSources(m, p)
           others == SourcesLeft(m, p)
           s == SessionsLeft(m)
           WithSessions(t) == [m EXCEPT !.sources = others \o kept, !.sessions = t]
           some == {n \in 0 .. Len(s) : n = 0 \/ ~Over(WithSessions(LastOf(s, n)))}
           i == Most(some)
           shed == WithSessions(LastOf(s, i))
           WithSources(t) == [shed EXCEPT !.sources = t \o kept]
           counts == {n \in 0 .. Len(others) : n = 0 \/ ~Over(WithSources(LastOf(others, n)))}
           n == Most(counts)
           S == Range(m.sources) \ p.sources
<1>1. /\ m.sources \in Seq(Nat) /\ m.sessions \in Seq(Nat)
      /\ Cap.sources \in Nat /\ Cap.sessions \in Nat
  <2>1. m.sources \in Seq(Nat) /\ m.sessions \in Seq(Nat)
    BY FieldsOf
  <2>2. Cap.sources \in Nat /\ Cap.sessions \in Nat
    BY DocumentAssumption
  <2> QED
    BY <2>1, <2>2
<1>2. kept \in Seq(Nat) /\ FreeSources(m, p) \in Seq(Nat)
  BY <1>1, WithinDraws DEF OwnSources, FreeSources
<1>3. others \in Seq(Nat) /\ Drawn(others, FreeSources(m, p))
  BY <1>1, <1>2, LastOfIs DEF SourcesLeft
<1>4. s \in Seq(Nat) /\ Drawn(s, m.sessions)
  BY <1>1, LastOfIs DEF SessionsLeft
<1>5. ShedBookkeeping(m, p) = WithSources(LastOf(others, n))
  BY DEF ShedBookkeeping, NewestThatFit, OwnSources, FreeSources, SourcesLeft, SessionsLeft
<1>6. /\ \A k \in 0 .. Len(s) : k \in some <=> k = 0 \/ ~Over(WithSessions(LastOf(s, k)))
      /\ some \in SUBSET (0 .. Len(s)) /\ 0 \in some
  <2>1. Len(s) \in Nat
    BY <1>4, LenProperties
  <2> HIDE DEF s, WithSessions
  <2> QED
    BY <2>1
<1>7. /\ \A k \in 0 .. Len(others) :
            k \in counts <=> k = 0 \/ ~Over(WithSources(LastOf(others, k)))
      /\ counts \in SUBSET (0 .. Len(others)) /\ 0 \in counts
  <2>1. Len(others) \in Nat
    BY <1>3, LenProperties
  <2> HIDE DEF others, WithSources
  <2> QED
    BY <2>1
<1>8. FreeSources(m, p) = Within(m.sources, S) /\ kept = Within(m.sources, p.sources)
      /\ S \cap p.sources = {}
  BY DEF FreeSources, OwnSources
<1>9. \A t : WithSessions(t) = WithBooks(m, p, others, t)
  BY DEF WithBooks
<1>10. \A t : WithSources(t) = WithBooks(m, p, t, LastOf(s, i))
  <2> HIDE DEF others, kept, s, i
  <2> QED
    BY DEF Document, WithBooks, kept
<1> HIDE DEF s, others, kept, WithSessions, some, S
<1>11. /\ i \in some /\ i \in 0 .. Len(s) /\ i \in Nat
       /\ \A k \in 0 .. Len(s) : k > i => k \notin some
       /\ LastOf(s, i) \in Seq(Nat) /\ Len(LastOf(s, i)) = i /\ Drawn(LastOf(s, i), s)
  BY <1>4, <1>6, NewestCut
<1> HIDE DEF i, shed, WithSources, counts
<1>12. /\ n \in counts /\ n \in 0 .. Len(others) /\ n \in Nat
       /\ \A k \in 0 .. Len(others) : k > n => k \notin counts
       /\ LastOf(others, n) \in Seq(Nat) /\ Len(LastOf(others, n)) = n
       /\ Drawn(LastOf(others, n), others)
  BY <1>3, <1>7, NewestCut
<1> HIDE DEF n
<1> DEFINE sessions == LastOf(s, i)
           sources == LastOf(others, n)
<1>13. Drawn(sources, FreeSources(m, p)) /\ sources \in Seq(Nat)
  BY <1>3, <1>12, DrawnTwice
<1>14. /\ others \o kept \in Seq(Nat) /\ Len(others \o kept) <= Len(m.sources)
  BY <1>1, <1>3, <1>8, PartsDrawn
<1>15. /\ sources \o kept \in Seq(Nat) /\ Len(sources \o kept) <= Len(others \o kept)
  <2>1. /\ sources \o kept \in Seq(Nat) /\ Len(sources \o kept) = Len(sources) + Len(kept)
    BY <1>2, <1>13, ConcatProperties
  <2>2. Len(others \o kept) = Len(others) + Len(kept)
    BY <1>2, <1>3, ConcatProperties
  <2>3. Len(sources) <= Len(others) /\ Len(others) \in Nat /\ Len(kept) \in Nat
        /\ Len(sources) \in Nat
    BY <1>2, <1>3, <1>12, LenProperties
  <2> QED
    BY <2>1, <2>2, <2>3
<1>16. sessions \in Seq(Nat) /\ Len(sessions) <= Len(m.sessions)
  <2>1. Drawn(sessions, m.sessions)
    BY <1>4, <1>11, DrawnTwice
  <2> QED
    BY <1>1, <1>11, <2>1, DrawnIsLess
<1> DEFINE x == [m EXCEPT !.sources = others \o kept]
           first == [x EXCEPT !.sessions = sessions]
           last == [first EXCEPT !.sources = sources \o kept]
<1>17. Lightened(x, m)
  BY <1>14, LighterSources
<1>18. /\ x.sessions = m.sessions /\ x.sources = others \o kept
       /\ first.sources = others \o kept
  BY DEF Document
<1>19. first = WithBooks(m, p, others, sessions)
  BY DEF Document, WithBooks, kept
<1>20. last = WithBooks(m, p, sources, sessions)
  BY DEF Document, WithBooks, kept
<1> HIDE DEF x
<1>21. x \in Document
  BY <1>17 DEF Lightened
<1>22. Lightened(first, x)
  BY <1>16, <1>18, <1>21, LighterSessions
<1> HIDE DEF first, sessions, sources
<1>23. first \in Document
  BY <1>22 DEF Lightened
<1>24. Lightened(last, first)
  BY <1>15, <1>18, <1>23, LighterSources
<1> HIDE DEF last
<1>25. ShedBookkeeping(m, p) = last
  BY <1>5, <1>10, <1>20 DEF sessions, sources
<1>26. Lightened(last, m)
  BY <1>17, <1>21, <1>22, <1>23, <1>24, LighterIs DEF Lightened
<1>27. i = 0 \/ ~Over(first)
  BY <1>6, <1>9, <1>11, <1>19 DEF sessions
<1>28. \A k \in 0 .. Len(s) : k > i => Over(WithBooks(m, p, others, LastOf(s, k)))
  BY <1>6, <1>9, <1>11
<1>29. n = 0 \/ ~Over(last)
  BY <1>5, <1>7, <1>12, <1>25
<1>30. \A k \in 0 .. Len(others) : k > n => Over(WithBooks(m, p, LastOf(others, k), sessions))
  BY <1>7, <1>10, <1>12 DEF sessions
<1>31. i = Len(s) => sessions = s
  BY <1>4, <1>11, LastOfIs DEF sessions
<1>32. n = Len(others) => sources = others
  BY <1>3, <1>12, LastOfIs DEF sources
<1>33. Len(sessions) = i /\ Len(sources) = n
  BY <1>11, <1>12 DEF sessions, sources
<1>34. /\ ShedBookkeeping(m, p) = WithBooks(m, p, sources, sessions)
       /\ i = 0 \/ ~Over(WithBooks(m, p, others, sessions))
       /\ n = 0 \/ ~Over(ShedBookkeeping(m, p))
       /\ WithBooks(m, p, others, sessions) \in Document
       /\ Lightened(ShedBookkeeping(m, p), WithBooks(m, p, others, sessions))
       /\ Lightened(ShedBookkeeping(m, p), m)
  BY <1>19, <1>20, <1>23, <1>24, <1>25, <1>26, <1>27, <1>29
<1> QED
  BY <1>2, <1>3, <1>4, <1>11, <1>12, <1>13, <1>16, <1>28, <1>30, <1>31, <1>32, <1>33, <1>34
     DEF s, others, kept, sessions, sources

\* Stages 5 and 7 only leave rows out.
LEMMA DropsLighten ==
    ASSUME NEW m \in Document, NEW now, NEW p
    PROVE  Lightened(DropInvalid(m, p), m) /\ Lightened(DropOld(m, now, p), m)
<1>1. ASSUME NEW S PROVE Lightened(KeepRows(m, S), m)
  <2> DEFINE t == Within(m.decisions, S)
  <2>1. m.decisions \in Seq(Decision)
    BY FieldsOf
  <2>2. t \in Seq(Decision) /\ Drawn(t, m.decisions)
    BY <2>1, WithinDraws
  <2>3. KeepRows(m, S) = [m EXCEPT !.decisions = t]
    BY DEF KeepRows
  <2> HIDE DEF t
  <2> QED
    BY <2>2, <2>3, LighterDecisions
<1> QED
  BY <1>1 DEF DropInvalid, DropOld

Short(t) == Truncated(t, Cap.detail)

\* A shortened text is not longer, and not longer than the limit.
LEMMA ShortIs ==
    ASSUME NEW t \in Nat
    PROVE  Short(t) \in Nat /\ Short(t) <= t /\ Short(t) <= Cap.detail /\ Cap.detail \in Nat
           /\ (t <= Cap.detail => Short(t) = t) /\ Short(Short(t)) = Short(t)
<1>1. Cap.detail \in Nat
  BY DocumentAssumption
<1> QED
  BY <1>1 DEF Short, Truncated

ShortRow(r) == [r EXCEPT !.text = Short(@)]
ShortFile(f) == [f EXCEPT !.reason = Short(@)]

\* What Shorten makes of each part of a document.
Shortened(y, m) ==
    /\ DOMAIN y.decisions = DOMAIN m.decisions
    /\ \A i \in DOMAIN m.decisions : y.decisions[i] = ShortRow(m.decisions[i])
    /\ DOMAIN y.files = DOMAIN m.files
    /\ \A i \in DOMAIN m.files : y.files[i] = ShortFile(m.files[i])
    /\ y.blockers = Mapped(LastOf(m.blockers, Cap.entries), Short)
    /\ y.steps = Mapped(LastOf(m.steps, Cap.entries), Short)
    /\ y.task = [m.task EXCEPT !.text = Short(@)]
    /\ y.audits = m.audits /\ y.cache = m.cache /\ y.health = m.health
    /\ y.sessions = m.sessions /\ y.sources = m.sources /\ y.quarantined = m.quarantined
    /\ y.version = m.version

\* The last texts of a list, shortened, are no more than the list.
LEMMA ShortTexts ==
    ASSUME NEW s \in Seq(Nat)
    PROVE  /\ LastOf(s, Cap.entries) \in Seq(Nat)
           /\ Mapped(LastOf(s, Cap.entries), Short) \in Seq(Nat)
           /\ Len(Mapped(LastOf(s, Cap.entries), Short)) = Len(LastOf(s, Cap.entries))
           /\ Total(Mapped(LastOf(s, Cap.entries), Short)) <= Total(s)
<1> DEFINE u == LastOf(s, Cap.entries)
           t == Mapped(u, Short)
<1>1. Cap.entries \in Nat
  BY DocumentAssumption
<1>2. u \in Seq(Nat) /\ Drawn(u, s)
  BY <1>1, LastOfIs
<1> HIDE DEF u
<1>3. t = [i \in DOMAIN u |-> Short(u[i])]
  BY DEF Mapped
<1> HIDE DEF t
<1>4. \A i \in DOMAIN u : u[i] \in Nat
  BY <1>2, LenProperties
<1>5. /\ DOMAIN t = DOMAIN u /\ \A i \in DOMAIN u : t[i] = Short(u[i])
  BY <1>3
<1>6. AsLong(t, u, Nat)
  <2>1. \A i \in DOMAIN u : t[i] \in Nat
    BY <1>4, <1>5, ShortIs
  <2>2. t = [i \in DOMAIN u |-> t[i]]
    BY <1>3
  <2> QED
    BY <1>5, <2>1, <2>2 DEF AsLong
<1>7. t \in Seq(Nat) /\ Len(t) = Len(u)
  BY <1>2, <1>6, ListBy
<1>8. Total(t) <= Total(u)
  <2> DEFINE g == [k \in DOMAIN t |-> k]
  <2>1. g \in [DOMAIN t -> DOMAIN u] /\ \A k \in DOMAIN t : g[k] = k
    BY <1>5
  <2>2. \A k \in DOMAIN t : t[k] <= u[g[k]]
    BY <1>4, <1>5, <2>1, ShortIs
  <2> HIDE DEF g
  <2>3. Outweighs(u, t)
    BY <2>1, <2>2, OutweighsBy
  <2> QED
    BY <1>2, <1>7, <2>3, OutweighedIsLess
<1>9. Total(u) <= Total(s) /\ Total(u) \in Nat /\ Total(s) \in Nat
  BY <1>2, DrawnWeighsLess
<1>10. Total(t) \in Nat
  BY <1>7, BytesAre
<1> QED
  BY <1>2, <1>7, <1>8, <1>9, <1>10 DEF u, t

\* Stage 8.
LEMMA ShortenIs ==
    ASSUME NEW m \in Document
    PROVE  Shortened(Shorten(m), m) /\ Lightened(Shorten(m), m)
<1> DEFINE y == Shorten(m)
           rows == [i \in DOMAIN m.decisions |-> ShortRow(m.decisions[i])]
           files == [i \in DOMAIN m.files |-> ShortFile(m.files[i])]
           blockers == Mapped(LastOf(m.blockers, Cap.entries), Short)
           steps == Mapped(LastOf(m.steps, Cap.entries), Short)
           task == [m.task EXCEPT !.text = Short(@)]
<1>1. y = [m EXCEPT !.decisions = rows, !.files = files, !.blockers = blockers,
                    !.steps = steps, !.task = task]
  <2> DEFINE a == [i \in DOMAIN m.decisions |->
                      [m.decisions[i] EXCEPT !.text = Truncated(@, Cap.detail)]]
             b == [i \in DOMAIN m.files |->
                      [m.files[i] EXCEPT !.reason = Truncated(@, Cap.detail)]]
             c == [i \in DOMAIN LastOf(m.blockers, Cap.entries) |->
                      Truncated(LastOf(m.blockers, Cap.entries)[i], Cap.detail)]
             d == [i \in DOMAIN LastOf(m.steps, Cap.entries) |->
                      Truncated(LastOf(m.steps, Cap.entries)[i], Cap.detail)]
             e == [m.task EXCEPT !.text = Truncated(@, Cap.detail)]
  <2>1. y = [m EXCEPT !.decisions = a, !.files = b, !.blockers = c, !.steps = d, !.task = e]
    BY DEF Shorten, Mapped
  <2>2. a = rows /\ b = files /\ e = task
    BY DEF Short, ShortRow, ShortFile
  <2>3. c = blockers /\ d = steps
    BY DEF Short, Mapped
  <2> HIDE DEF a, b, c, d, e, rows, files, blockers, steps, task
  <2> QED
    BY <2>1, <2>2, <2>3
<1>2. /\ m.decisions \in Seq(Decision) /\ m.files \in Seq(FileRecord)
      /\ m.blockers \in Seq(Nat) /\ m.steps \in Seq(Nat)
      /\ m.task \in [text : Nat, by : Authors \cup {"none"}] /\ m.task.text \in Nat
  BY FieldsOf
<1>3. /\ blockers \in Seq(Nat) /\ Total(blockers) <= Total(m.blockers)
      /\ steps \in Seq(Nat) /\ Total(steps) <= Total(m.steps)
  BY <1>2, ShortTexts
<1>4. /\ \A i \in DOMAIN m.decisions : m.decisions[i] \in Decision
      /\ \A i \in DOMAIN m.files : m.files[i] \in FileRecord
  BY <1>2, LenProperties
<1>5. ASSUME NEW r \in Decision
      PROVE  ShortRow(r) \in Decision /\ ShortRow(r).text <= r.text
  BY ShortIs DEF ShortRow, Decision
<1>6. ASSUME NEW f \in FileRecord
      PROVE  ShortFile(f) \in FileRecord /\ ShortFile(f).reason <= f.reason
  BY ShortIs DEF ShortFile, FileRecord
<1>7. rows \in Seq(Decision)
  <2>1. DOMAIN rows = DOMAIN m.decisions /\ rows = [i \in DOMAIN m.decisions |-> rows[i]]
    OBVIOUS
  <2>2. \A i \in DOMAIN m.decisions : rows[i] \in Decision
    BY <1>4, <1>5
  <2> HIDE DEF rows
  <2>3. AsLong(rows, m.decisions, Decision)
    BY <2>1, <2>2 DEF AsLong
  <2> QED
    BY <1>2, <2>3, ListBy
<1>8. files \in Seq(FileRecord)
  <2>1. DOMAIN files = DOMAIN m.files /\ files = [i \in DOMAIN m.files |-> files[i]]
    OBVIOUS
  <2>2. \A i \in DOMAIN m.files : files[i] \in FileRecord
    BY <1>4, <1>6
  <2> HIDE DEF files
  <2>3. AsLong(files, m.files, FileRecord)
    BY <2>1, <2>2 DEF AsLong
  <2> QED
    BY <1>2, <2>3, ListBy
<1>9. task \in [text : Nat, by : Authors \cup {"none"}] /\ task.text <= m.task.text
  BY <1>2, ShortIs
<1>10. /\ DOMAIN rows = DOMAIN m.decisions /\ DOMAIN files = DOMAIN m.files
       /\ \A i \in DOMAIN m.decisions : rows[i] = ShortRow(m.decisions[i])
       /\ \A i \in DOMAIN m.files : files[i] = ShortFile(m.files[i])
  OBVIOUS
<1> HIDE DEF rows, files, blockers, steps, task
<1>11. y \in Document
  BY <1>1, <1>3, <1>7, <1>8, <1>9 DEF Document, FileRecord
<1>12. /\ y.decisions = rows /\ y.files = files /\ y.blockers = blockers /\ y.steps = steps
       /\ y.task = task /\ y.audits = m.audits /\ y.cache = m.cache /\ y.health = m.health
       /\ y.sessions = m.sessions /\ y.sources = m.sources /\ y.quarantined = m.quarantined
       /\ y.version = m.version
  BY <1>1 DEF Document
<1> HIDE DEF y
<1>13. Shortened(y, m)
  BY <1>10, <1>12 DEF Shortened, blockers, steps, task
<1>14. Charge(y)[1] <= Charge(m)[1]
  <2> DEFINE g == [k \in DOMAIN RowWeights(y) |-> k]
  <2>1. /\ RowWeights(m) \in Seq(Nat) /\ DOMAIN RowWeights(m) = DOMAIN m.decisions
        /\ RowWeights(y) \in Seq(Nat) /\ DOMAIN RowWeights(y) = DOMAIN m.decisions
    BY <1>10, <1>11, <1>12, Weights
  <2>2. /\ g \in [DOMAIN RowWeights(y) -> DOMAIN RowWeights(m)]
        /\ \A k \in DOMAIN RowWeights(y) : g[k] = k
    BY <2>1
  <2>3. ASSUME NEW k \in DOMAIN m.decisions PROVE RowWeights(y)[k] <= RowWeights(m)[k]
    <3>1. /\ RowWeights(m)[k] = Cost.row + m.decisions[k].text /\ m.decisions[k].text \in Nat
          /\ RowWeights(y)[k] = Cost.row + y.decisions[k].text /\ y.decisions[k].text \in Nat
          /\ Cost.row \in Nat
      BY <1>10, <1>11, <1>12, Weights
    <3>2. y.decisions[k].text <= m.decisions[k].text
      BY <1>4, <1>5, <1>10, <1>12
    <3> QED
      BY <3>1, <3>2
  <2>4. \A k \in DOMAIN RowWeights(y) : RowWeights(y)[k] <= RowWeights(m)[g[k]]
    BY <2>1, <2>2, <2>3
  <2> HIDE DEF g
  <2>5. Outweighs(RowWeights(m), RowWeights(y))
    BY <2>2, <2>4, OutweighsBy
  <2> QED
    BY <2>1, <2>5, OutweighedIsLess, ChargeOf
<1>15. Charge(y)[2] <= Charge(m)[2]
  <2> DEFINE g == [k \in DOMAIN FileWeights(y) |-> k]
  <2>1. /\ FileWeights(m) \in Seq(Nat) /\ DOMAIN FileWeights(m) = DOMAIN m.files
        /\ FileWeights(y) \in Seq(Nat) /\ DOMAIN FileWeights(y) = DOMAIN m.files
    BY <1>10, <1>11, <1>12, Weights
  <2>2. /\ g \in [DOMAIN FileWeights(y) -> DOMAIN FileWeights(m)]
        /\ \A k \in DOMAIN FileWeights(y) : g[k] = k
    BY <2>1
  <2>3. ASSUME NEW k \in DOMAIN m.files PROVE FileWeights(y)[k] <= FileWeights(m)[k]
    <3>1. /\ FileWeights(m)[k] = Cost.file + m.files[k].reason /\ m.files[k].reason \in Nat
          /\ FileWeights(y)[k] = Cost.file + y.files[k].reason /\ y.files[k].reason \in Nat
          /\ Cost.file \in Nat
      BY <1>10, <1>11, <1>12, Weights
    <3>2. y.files[k].reason <= m.files[k].reason
      BY <1>4, <1>6, <1>10, <1>12
    <3> QED
      BY <3>1, <3>2
  <2>4. \A k \in DOMAIN FileWeights(y) : FileWeights(y)[k] <= FileWeights(m)[g[k]]
    BY <2>1, <2>2, <2>3
  <2> HIDE DEF g
  <2>5. Outweighs(FileWeights(m), FileWeights(y))
    BY <2>2, <2>4, OutweighsBy
  <2> QED
    BY <2>1, <2>5, OutweighedIsLess, ChargeOf
<1>16. /\ Charge(y)[3] <= Charge(m)[3] /\ Charge(y)[4] <= Charge(m)[4]
       /\ Charge(y)[5] <= Charge(m)[5]
  BY <1>3, <1>9, <1>12, ChargeOf
<1>17. /\ Charge(y)[6] = Charge(m)[6] /\ Charge(y)[7] = Charge(m)[7]
       /\ Charge(y)[8] = Charge(m)[8] /\ Charge(y)[9] = Charge(m)[9]
       /\ Charge(y)[10] = Charge(m)[10] /\ Charge(y)[11] = Charge(m)[11]
  BY <1>11, <1>12, SameCharge
<1>18. \A k \in 1 .. 11 : Charge(y)[k] <= Charge(m)[k]
  <2>1. \A k \in 1 .. 11 : k \in {1, 2, 3, 4, 5, 6, 7, 8, 9, 10, 11}
    OBVIOUS
  <2>2. \A k \in 1 .. 11 : Charge(m)[k] \in Nat
    BY SameCharge
  <2>3. /\ Charge(y)[6] <= Charge(m)[6] /\ Charge(y)[7] <= Charge(m)[7]
        /\ Charge(y)[8] <= Charge(m)[8] /\ Charge(y)[9] <= Charge(m)[9]
        /\ Charge(y)[10] <= Charge(m)[10] /\ Charge(y)[11] <= Charge(m)[11]
    BY <1>17, <2>2
  <2> QED
    BY <1>14, <1>15, <1>16, <2>1, <2>3
<1>19. Lightened(y, m)
  BY <1>11, <1>18 DEF Lightened, Lighter
<1> QED
  BY <1>13, <1>19 DEF y

\* Stage 9: the protected rows, and of the others as many of the most useful
\* as fit.
ProtectedRows(m, p) == {r \in Range(m.decisions) : r.id \in ProtectedIds(m, p)}
KeptRows(m, p) == Within(m.decisions, ProtectedRows(m, p))
FreeRows(m, p) == Within(m.decisions, Range(m.decisions) \ ProtectedRows(m, p))
UsefulRows(m, p) == BestUsed(FreeRows(m, p))
AllRows(m, p) == KeptRows(m, p) \o UsefulRows(m, p)
WithRows(m, t) == [m EXCEPT !.decisions = t]

\* Stage 9: the most of the useful rows that fit beside those that must stay.
LEMMA RowsCut ==
    ASSUME NEW m \in Document, NEW p
    PROVE  /\ KeptRows(m, p) \in Seq(Decision) /\ FreeRows(m, p) \in Seq(Decision)
           /\ UsefulRows(m, p) \in Seq(Decision) /\ AllRows(m, p) \in Seq(Decision)
           /\ Len(AllRows(m, p)) = Len(KeptRows(m, p)) + Len(UsefulRows(m, p))
           /\ Range(KeptRows(m, p)) = ProtectedRows(m, p)
           /\ Range(UsefulRows(m, p)) = Range(m.decisions) \ ProtectedRows(m, p)
           /\ UsefulRows(m, p) = <<>> => ShedRows(m, p) = m
           /\ UsefulRows(m, p) # <<>> =>
                 \E n \in Len(KeptRows(m, p)) .. Len(AllRows(m, p)) :
                    /\ ShedRows(m, p) = WithRows(m, FirstOf(AllRows(m, p), n))
                    /\ n = Len(KeptRows(m, p)) \/ ~Over(ShedRows(m, p))
                    /\ \A k \in Len(KeptRows(m, p)) .. Len(AllRows(m, p)) : k > n =>
                           Over(WithRows(m, FirstOf(AllRows(m, p), k)))
                    /\ FirstOf(AllRows(m, p), n) \in Seq(Decision)
                    /\ Len(FirstOf(AllRows(m, p), n)) = n
           /\ Lightened(ShedRows(m, p), m)
<1> DEFINE G == ProtectedRows(m, p)
           kept == KeptRows(m, p)
           free == FreeRows(m, p)
           others == UsefulRows(m, p)
           all == AllRows(m, p)
           With(rows) == [m EXCEPT !.decisions = rows]
           counts == {n \in Len(kept) .. Len(all) :
                         n = Len(kept) \/ ~Over(With(FirstOf(all, n)))}
           n == Most(counts)
<1>1. m.decisions \in Seq(Decision)
  BY FieldsOf
<1>2. /\ kept \in Seq(Decision) /\ Range(kept) = Range(m.decisions) \cap G
      /\ Drawn(kept, m.decisions)
      /\ free \in Seq(Decision) /\ Range(free) = Range(m.decisions) \cap (Range(m.decisions) \ G)
      /\ Drawn(free, m.decisions)
  BY <1>1, WithinDraws DEF KeptRows, FreeRows
<1>3. /\ others \in Seq(Decision) /\ Range(others) = Range(free) /\ Drawn(others, free)
  BY <1>2, BestUsedSorts DEF SortedBy, UsefulRows
<1>4. G \subseteq Range(m.decisions)
  BY DEF ProtectedRows
<1>5. ShedRows(m, p) = IF others = <<>> THEN m ELSE With(FirstOf(all, n))
  BY DEF ShedRows, FirstThatFit, AllRows, KeptRows, UsefulRows, FreeRows, BestUsed, ProtectedRows
<1>6. \A t : With(t) = WithRows(m, t)
  BY DEF WithRows
<1>7. all = kept \o others
  BY DEF AllRows
<1> HIDE DEF G, kept, free, others, all, With
<1>8. Range(kept) = G /\ Range(others) = Range(m.decisions) \ G
  BY <1>2, <1>3, <1>4
<1>9. Drawn(others, m.decisions)
  BY <1>2, <1>3, DrawnTwice
<1>10. Range(kept) \cap Range(others) = {}
  BY <1>8
<1>11. Drawn(all, m.decisions)
  BY <1>1, <1>2, <1>3, <1>7, <1>9, <1>10, ConcatDrawn
<1>12. all \in Seq(Decision) /\ Len(all) = Len(kept) + Len(others)
  BY <1>2, <1>3, <1>7, ConcatProperties
<1>13. /\ Len(kept) \in Nat /\ Len(all) \in Nat /\ Len(kept) <= Len(all)
       /\ Len(kept) \in 0 .. Len(all)
  <2>1. Len(kept) \in Nat /\ Len(all) \in Nat /\ Len(others) \in Nat
    BY <1>2, <1>3, <1>12, LenProperties
  <2> QED
    BY <1>12, <2>1
<1>14. /\ counts \in SUBSET (Len(kept) .. Len(all)) /\ Len(kept) \in counts
       /\ \A k \in Len(kept) .. Len(all) :
             k \in counts <=> k = Len(kept) \/ ~Over(With(FirstOf(all, k)))
  BY <1>13
<1> HIDE DEF counts
<1>15. /\ n \in counts /\ n \in Len(kept) .. Len(all) /\ n \in Nat
       /\ \A k \in Len(kept) .. Len(all) : k > n => k \notin counts
       /\ FirstOf(all, n) \in Seq(Decision) /\ Len(FirstOf(all, n)) = n
       /\ Drawn(FirstOf(all, n), all)
  <2> DEFINE floor == Len(kept)
  <2>1. floor \in 0 .. Len(all) /\ counts \in SUBSET (floor .. Len(all)) /\ floor \in counts
    BY <1>13, <1>14
  <2> HIDE DEF floor
  <2>2. /\ Most(counts) \in counts /\ Most(counts) \in floor .. Len(all)
        /\ Most(counts) \in Nat
        /\ \A k \in floor .. Len(all) : k > Most(counts) => k \notin counts
        /\ FirstOf(all, Most(counts)) \in Seq(Decision)
        /\ Len(FirstOf(all, Most(counts))) = Most(counts)
        /\ Drawn(FirstOf(all, Most(counts)), all)
    BY <1>12, <2>1, FirstCut
  <2> QED
    BY <2>2 DEF floor
<1> HIDE DEF n
<1>16. Lightened(With(FirstOf(all, n)), m)
  <2>1. Drawn(FirstOf(all, n), m.decisions)
    BY <1>11, <1>15, DrawnTwice
  <2> QED
    BY <1>15, <2>1, LighterDecisions DEF With
<1>17. Lightened(m, m)
  BY LighterIs DEF Lightened
<1>18. Lightened(ShedRows(m, p), m)
  BY <1>5, <1>16, <1>17
<1>19. others = <<>> => ShedRows(m, p) = m
  BY <1>5
<1>20. ASSUME others # <<>>
       PROVE  /\ ShedRows(m, p) = WithRows(m, FirstOf(all, n))
              /\ n = Len(kept) \/ ~Over(ShedRows(m, p))
              /\ \A k \in Len(kept) .. Len(all) : k > n => Over(WithRows(m, FirstOf(all, k)))
  <2>1. ShedRows(m, p) = With(FirstOf(all, n))
    BY <1>5, <1>20
  <2>2. n = Len(kept) \/ ~Over(ShedRows(m, p))
    BY <1>14, <1>15, <2>1
  <2>3. \A k \in Len(kept) .. Len(all) : k > n => Over(WithRows(m, FirstOf(all, k)))
    BY <1>6, <1>14, <1>15
  <2> QED
    BY <1>6, <2>1, <2>2, <2>3
<1> QED
  BY <1>2, <1>3, <1>8, <1>12, <1>15, <1>18, <1>19, <1>20 DEF kept, free, others, all, G

\* Stage 10: the task goes if nothing else helped.
LEMMA TaskCut ==
    ASSUME NEW m \in Document
    PROVE  /\ Lightened(ShedTask(m), m)
           /\ ShedTask(m) = IF Over(m) THEN [m EXCEPT !.task = [m.task EXCEPT !.text = 0]]
                            ELSE m
<1> DEFINE t == [m.task EXCEPT !.text = 0]
<1>1. ShedTask(m) = IF Over(m) THEN [m EXCEPT !.task = t] ELSE m
  BY DEF ShedTask
<1>2. t \in [text : Nat, by : Authors \cup {"none"}] /\ t.text = 0 /\ m.task.text \in Nat
  BY FieldsOf
<1> HIDE DEF t
<1>3. Lightened([m EXCEPT !.task = t], m)
  BY <1>2, LighterTask
<1>4. Lightened(m, m)
  BY LighterIs DEF Lightened
<1> QED
  BY <1>1, <1>3, <1>4 DEF t

\* What is lighter than a lighter document.
LEMMA LightenedTwice ==
    ASSUME NEW x \in Document, NEW y, NEW z, Lightened(y, x), Lightened(z, y)
    PROVE  y \in Document /\ Lightened(z, x)
BY LighterIs DEF Lightened
-----------------------------------------------------------------------------
(* What each stage leaves alone                                            *)

ButAudits(y, x) ==
    /\ y.version = x.version /\ y.decisions = x.decisions /\ y.files = x.files
    /\ y.blockers = x.blockers /\ y.steps = x.steps /\ y.task = x.task
    /\ y.cache = x.cache /\ y.health = x.health /\ y.sessions = x.sessions
    /\ y.sources = x.sources /\ y.quarantined = x.quarantined

ButCache(y, x) ==
    /\ y.version = x.version /\ y.decisions = x.decisions /\ y.files = x.files
    /\ y.blockers = x.blockers /\ y.steps = x.steps /\ y.task = x.task
    /\ y.audits = x.audits /\ y.health = x.health /\ y.sessions = x.sessions
    /\ y.sources = x.sources /\ y.quarantined = x.quarantined

ButHealth(y, x) ==
    /\ y.version = x.version /\ y.decisions = x.decisions /\ y.files = x.files
    /\ y.blockers = x.blockers /\ y.steps = x.steps /\ y.task = x.task
    /\ y.audits = x.audits /\ y.cache = x.cache /\ y.sessions = x.sessions
    /\ y.sources = x.sources

ButBooks(y, x) ==
    /\ y.version = x.version /\ y.decisions = x.decisions /\ y.files = x.files
    /\ y.blockers = x.blockers /\ y.steps = x.steps /\ y.task = x.task
    /\ y.audits = x.audits /\ y.cache = x.cache /\ y.health = x.health
    /\ y.quarantined = x.quarantined

ButRows(y, x) ==
    /\ y.version = x.version /\ y.files = x.files /\ y.blockers = x.blockers
    /\ y.steps = x.steps /\ y.task = x.task /\ y.audits = x.audits
    /\ y.cache = x.cache /\ y.health = x.health /\ y.sessions = x.sessions
    /\ y.sources = x.sources /\ y.quarantined = x.quarantined

ButFiles(y, x) ==
    /\ y.version = x.version /\ y.decisions = x.decisions /\ y.blockers = x.blockers
    /\ y.steps = x.steps /\ y.task = x.task /\ y.audits = x.audits
    /\ y.cache = x.cache /\ y.health = x.health /\ y.sessions = x.sessions
    /\ y.sources = x.sources /\ y.quarantined = x.quarantined

ButBlockers(y, x) ==
    /\ y.version = x.version /\ y.decisions = x.decisions /\ y.files = x.files
    /\ y.steps = x.steps /\ y.task = x.task /\ y.audits = x.audits
    /\ y.cache = x.cache /\ y.health = x.health /\ y.sessions = x.sessions
    /\ y.sources = x.sources /\ y.quarantined = x.quarantined

ButSteps(y, x) ==
    /\ y.version = x.version /\ y.decisions = x.decisions /\ y.files = x.files
    /\ y.blockers = x.blockers /\ y.task = x.task /\ y.audits = x.audits
    /\ y.cache = x.cache /\ y.health = x.health /\ y.sessions = x.sessions
    /\ y.sources = x.sources /\ y.quarantined = x.quarantined

ButTask(y, x) ==
    /\ y.version = x.version /\ y.decisions = x.decisions /\ y.files = x.files
    /\ y.blockers = x.blockers /\ y.steps = x.steps /\ y.audits = x.audits
    /\ y.cache = x.cache /\ y.health = x.health /\ y.sessions = x.sessions
    /\ y.sources = x.sources /\ y.quarantined = x.quarantined

\* Each stage changes the fields that it is about.
LEMMA StagesKeep ==
    ASSUME NEW m \in Document, NEW now, NEW p
    PROVE  /\ ButAudits(ExpireAudits(m, now), m) /\ ButAudits(ShedAudits(m), m)
           /\ ButCache(ShedCache(m), m) /\ ButHealth(ShedHealth(m), m)
           /\ ButBooks(ShedBookkeeping(m, p), m) /\ ButRows(DropInvalid(m, p), m)
           /\ ButRows(DropOld(m, now, p), m) /\ ButRows(ShedRows(m, p), m)
           /\ ButFiles(ShedFiles(m), m) /\ ButFiles(ShedOldFiles(m), m)
           /\ ButBlockers(ShedBlockers(m), m) /\ ButSteps(ShedSteps(m), m)
           /\ ButTask(ShedTask(m), m)
<1>1. \A t : ButAudits([m EXCEPT !.audits = t], m)
  BY DEF ButAudits, Document
<1>2. \A t : ButCache([m EXCEPT !.cache = t], m)
  BY DEF ButCache, Document
<1>3. \A t : ButHealth([m EXCEPT !.health = t], m)
  BY DEF ButHealth, Document
<1>4. \A t, u : ButBooks([m EXCEPT !.sources = t, !.sessions = u], m)
  BY DEF ButBooks, Document
<1>5. \A t : ButRows([m EXCEPT !.decisions = t], m)
  BY DEF ButRows, Document
<1>6. \A t : ButFiles([m EXCEPT !.files = t], m)
  BY DEF ButFiles, Document
<1>7. \A t : ButBlockers([m EXCEPT !.blockers = t], m)
  BY DEF ButBlockers, Document
<1>8. \A t : ButSteps([m EXCEPT !.steps = t], m)
  BY DEF ButSteps, Document
<1>9. \A t : ButTask([m EXCEPT !.task = t], m)
  BY DEF ButTask, Document
<1>10. ButAudits(ExpireAudits(m, now), m)
  BY <1>1, ExpireIs
<1>11. ButAudits(ShedAudits(m), m)
  BY <1>1 DEF ShedAudits, NewestThatFit
<1>12. ButCache(ShedCache(m), m)
  BY <1>2 DEF ShedCache, NewestThatFit
<1>13. ButHealth(ShedHealth(m), m)
  <2>1. PICK n \in 0 .. Len(HealthLeft(m)), y \in Document :
           /\ y = [m EXCEPT !.health = LastOf(HealthLeft(m), n)]
           /\ ShedHealth(m) = IF Over(y) THEN [y EXCEPT !.quarantined = 0] ELSE y
    BY HealthCut DEF WithHealth
  <2>2. ButHealth(y, m)
    BY <1>3, <2>1
  <2>3. ButHealth([y EXCEPT !.quarantined = 0], m)
    BY <2>2 DEF ButHealth, Document
  <2> QED
    BY <2>1, <2>2, <2>3
<1>14. ButBooks(ShedBookkeeping(m, p), m)
  <2>1. PICK t, u : ShedBookkeeping(m, p) = WithBooks(m, p, t, u)
    BY BooksCut
  <2> DEFINE a == t \o OwnSources(m, p)
  <2>2. ShedBookkeeping(m, p) = [m EXCEPT !.sources = a, !.sessions = u]
    BY <2>1 DEF WithBooks
  <2> HIDE DEF a
  <2>3. ButBooks([m EXCEPT !.sources = a, !.sessions = u], m)
    BY <1>4
  <2> QED
    BY <2>2, <2>3
<1>15. ButRows(DropInvalid(m, p), m) /\ ButRows(DropOld(m, now, p), m)
  BY <1>5 DEF DropInvalid, DropOld, KeepRows
<1>16. ButRows(ShedRows(m, p), m)
  <2>1. ButRows(m, m)
    BY DEF ButRows
  <2>2. ShedRows(m, p) = m \/ \E t : ShedRows(m, p) = [m EXCEPT !.decisions = t]
    BY DEF ShedRows, FirstThatFit
  <2> QED
    BY <1>5, <2>1, <2>2
<1>17. ButFiles(ShedFiles(m), m)
  BY <1>6 DEF ShedFiles, FirstThatFit
<1>18. ButFiles(ShedOldFiles(m), m)
  BY <1>6 DEF ShedOldFiles, NewestThatFit
<1>19. ButBlockers(ShedBlockers(m), m)
  BY <1>7 DEF ShedBlockers, NewestThatFit
<1>20. ButSteps(ShedSteps(m), m)
  BY <1>8 DEF ShedSteps, NewestThatFit
<1>21. ButTask(ShedTask(m), m)
  <2>1. ButTask(m, m)
    BY DEF ButTask
  <2> QED
    BY <1>9, <2>1, TaskCut
<1> QED
  BY <1>10, <1>11, <1>12, <1>13, <1>14, <1>15, <1>16, <1>17, <1>18, <1>19, <1>20, <1>21
-----------------------------------------------------------------------------
(* All the stages                                                          *)

Booked(m, now, p) == ShedBookkeeping(ShedHealth(ShedCache(ShedAudits(ExpireAudits(m, now)))), p)

\* Stages 0 to 8, one after the other, and what they leave alone.
LEMMA TidiedLightens ==
    ASSUME NEW m \in Document, NEW now, NEW p
    PROVE  /\ Booked(m, now, p) \in Document /\ Lightened(Tidied(m, now, p), m)
           /\ Tidied(m, now, p).audits = ShedAudits(ExpireAudits(m, now)).audits
           /\ Tidied(m, now, p).sources = Booked(m, now, p).sources
           /\ ShedHealth(ShedCache(ShedAudits(ExpireAudits(m, now)))) \in Document
           /\ ShedHealth(ShedCache(ShedAudits(ExpireAudits(m, now)))).sources = m.sources
<1> DEFINE a == ExpireAudits(m, now)
           b == ShedAudits(a)
           c == ShedCache(b)
           d == ShedHealth(c)
           e == ShedBookkeeping(d, p)
           f == DropInvalid(e, p)
           g == ShedFiles(f)
           h == DropOld(g, now, p)
           i == Shorten(h)
<1>1. Tidied(m, now, p) = i /\ Booked(m, now, p) = e
  BY DEF Tidied, Booked
<1>2. a \in Document /\ Lightened(a, m) /\ ButAudits(a, m)
  BY ExpireIs, StagesKeep DEF Lightened
<1> HIDE DEF a
<1>3. b \in Document /\ Lightened(b, m) /\ ButAudits(b, a)
  BY <1>2, AuditsCut, StagesKeep, LightenedTwice DEF Lightened
<1> HIDE DEF b
<1>4. c \in Document /\ Lightened(c, m) /\ ButCache(c, b)
  BY <1>3, CacheCut, StagesKeep, LightenedTwice DEF Lightened
<1> HIDE DEF c
<1>5. d \in Document /\ Lightened(d, m) /\ ButHealth(d, c)
  BY <1>4, HealthCut, StagesKeep, LightenedTwice DEF Lightened
<1> HIDE DEF d
<1>6. e \in Document /\ Lightened(e, m) /\ ButBooks(e, d)
  <2>1. Lightened(e, d) /\ ButBooks(e, d)
    BY <1>5, BooksCut, StagesKeep
  <2> HIDE DEF e
  <2> QED
    BY <1>5, <2>1, LightenedTwice DEF Lightened
<1> HIDE DEF e
<1>7. f \in Document /\ Lightened(f, m) /\ ButRows(f, e)
  BY <1>6, DropsLighten, StagesKeep, LightenedTwice DEF Lightened
<1> HIDE DEF f
<1>8. g \in Document /\ Lightened(g, m) /\ ButFiles(g, f)
  BY <1>7, FilesCut, StagesKeep, LightenedTwice DEF Lightened
<1> HIDE DEF g
<1>9. h \in Document /\ Lightened(h, m) /\ ButRows(h, g)
  BY <1>8, DropsLighten, StagesKeep, LightenedTwice DEF Lightened
<1> HIDE DEF h
<1>10. i \in Document /\ Lightened(i, m) /\ Shortened(i, h)
  BY <1>9, ShortenIs, LightenedTwice DEF Lightened
<1> HIDE DEF i
<1>11. i.audits = b.audits
  BY <1>4, <1>5, <1>6, <1>7, <1>8, <1>9, <1>10
     DEF ButCache, ButHealth, ButBooks, ButRows, ButFiles, Shortened
<1>12. i.sources = e.sources
  BY <1>7, <1>8, <1>9, <1>10 DEF ButRows, ButFiles, Shortened
<1>13. d.sources = m.sources
  BY <1>2, <1>3, <1>4, <1>5 DEF ButAudits, ButCache, ButHealth
<1> QED
  BY <1>1, <1>5, <1>6, <1>10, <1>11, <1>12, <1>13 DEF a, b, c, d

\* Stages 9 and 10.
LEMMA PressedLightens ==
    ASSUME NEW m \in Document, NEW p
    PROVE  /\ Lightened(Pressed(m, p), m) /\ (~Over(m) => Pressed(m, p) = m)
           /\ Pressed(m, p).audits = m.audits /\ Pressed(m, p).sources = m.sources
<1> DEFINE x == IF Over(m) THEN ShedRows(m, p) ELSE m
           a == ShedOldFiles(x)
           b == ShedBlockers(a)
           c == ShedSteps(b)
           d == ShedTask(c)
<1>1. Pressed(m, p) = IF Over(x) THEN d ELSE x
  BY DEF Pressed, ShedEphemeral
<1>2. Lightened(m, m) /\ ButRows(m, m)
  BY LighterIs DEF Lightened, ButRows
<1>3. x \in Document /\ Lightened(x, m) /\ ButRows(x, m) /\ (~Over(m) => x = m)
  BY <1>2, RowsCut, StagesKeep DEF Lightened
<1> HIDE DEF x
<1>4. a \in Document /\ Lightened(a, m) /\ ButFiles(a, x)
  BY <1>3, OldFilesCut, StagesKeep, LightenedTwice DEF Lightened
<1> HIDE DEF a
<1>5. b \in Document /\ Lightened(b, m) /\ ButBlockers(b, a)
  BY <1>4, BlockersCut, StagesKeep, LightenedTwice DEF Lightened
<1> HIDE DEF b
<1>6. c \in Document /\ Lightened(c, m) /\ ButSteps(c, b)
  BY <1>5, StepsCut, StagesKeep, LightenedTwice DEF Lightened
<1> HIDE DEF c
<1>7. d \in Document /\ Lightened(d, m) /\ ButTask(d, c)
  BY <1>6, TaskCut, StagesKeep, LightenedTwice DEF Lightened
<1> HIDE DEF d
<1>8. /\ x.audits = m.audits /\ x.sources = m.sources
      /\ d.audits = m.audits /\ d.sources = m.sources
  BY <1>3, <1>4, <1>5, <1>6, <1>7 DEF ButRows, ButFiles, ButBlockers, ButSteps, ButTask
<1> QED
  BY <1>1, <1>3, <1>7, <1>8

\* All of them: what is fitted is no larger, and with room for everything the
\* rows are not shed.
LEMMA FittedLightens ==
    ASSUME NEW m \in Document, NEW now, NEW p
    PROVE  /\ Lightened(Fitted(m, now, p), m)
           /\ Size(m) <= MaxBytes => Fitted(m, now, p) = Tidied(m, now, p)
           /\ Fitted(m, now, p).audits = ShedAudits(ExpireAudits(m, now)).audits
           /\ Fitted(m, now, p).sources = Booked(m, now, p).sources
<1> DEFINE t == Tidied(m, now, p)
<1>1. t \in Document /\ Lightened(t, m)
  BY TidiedLightens DEF Lightened
<1>2. /\ t.audits = ShedAudits(ExpireAudits(m, now)).audits
      /\ t.sources = Booked(m, now, p).sources
  BY TidiedLightens
<1>3. Fitted(m, now, p) = Pressed(t, p)
  BY DEF Fitted
<1> HIDE DEF t
<1>4. Lightened(Pressed(t, p), m)
  BY <1>1, PressedLightens, LightenedTwice
<1>5. Size(m) <= MaxBytes => ~Over(t)
  <2>1. Size(t) <= Size(m) /\ Size(t) \in Nat /\ Size(m) \in Nat /\ MaxBytes \in Nat
    BY <1>1, LighterIs, SizeIs, BudgetAssumption DEF Lightened
  <2> QED
    BY <2>1 DEF Over
<1> QED
  BY <1>1, <1>2, <1>3, <1>4, <1>5, PressedLightens DEF t
-----------------------------------------------------------------------------
(* What the budget is assumed to do                                        *)

\* What is left of a list's end, cut again, is left of its end.
LEMMA LastOfTwice ==
    ASSUME NEW D, NEW s \in Seq(D), NEW a \in Nat, NEW b \in Nat
    PROVE  \E c \in 0 .. Len(s) : LastOf(LastOf(s, a), b) = LastOf(s, c)
<1> DEFINE t == LastOf(s, a)
           u == LastOf(t, b)
           c == Len(u)
           v == LastOf(s, c)
<1>1. /\ t \in Seq(D) /\ Len(t) = (IF Len(s) > a THEN a ELSE Len(s))
      /\ \A i \in 1 .. Len(t) : t[i] = s[Len(s) - Len(t) + i]
  BY LastOfIs
<1>2. Len(s) \in Nat /\ Len(t) \in Nat
  BY <1>1, LenProperties
<1> HIDE DEF t
<1>3. /\ u \in Seq(D) /\ Len(u) = (IF Len(t) > b THEN b ELSE Len(t))
      /\ \A i \in 1 .. Len(u) : u[i] = t[Len(t) - Len(u) + i]
  BY <1>1, LastOfIs
<1> HIDE DEF u
<1>4. c \in Nat /\ c <= Len(t) /\ Len(t) <= Len(s) /\ c \in 0 .. Len(s)
  <2>1. c \in Nat
    BY <1>3, LenProperties
  <2>2. c <= Len(t) /\ Len(t) <= Len(s)
    BY <1>1, <1>2, <1>3
  <2> QED
    BY <1>2, <2>1, <2>2
<1>5. /\ v \in Seq(D) /\ Len(v) = (IF Len(s) > c THEN c ELSE Len(s))
      /\ \A i \in 1 .. Len(v) : v[i] = s[Len(s) - Len(v) + i]
  BY <1>4, LastOfIs
<1>6. Len(v) = c
  BY <1>2, <1>4, <1>5
<1> HIDE DEF v
<1>7. ASSUME NEW i \in 1 .. c PROVE u[i] = v[i]
  <2>1. Len(t) - c + i \in 1 .. Len(t)
    BY <1>2, <1>4
  <2>2. u[i] = t[Len(t) - c + i]
    BY <1>3
  <2>3. t[Len(t) - c + i] = s[Len(s) - Len(t) + (Len(t) - c + i)]
    BY <1>1, <2>1
  <2>4. Len(s) - Len(t) + (Len(t) - c + i) = Len(s) - c + i
    BY <1>2, <1>4
  <2>5. v[i] = s[Len(s) - c + i]
    BY <1>5, <1>6
  <2> QED
    BY <2>2, <2>3, <2>4, <2>5
<1>8. u = v
  BY <1>3, <1>5, <1>6, <1>7, SeqEqual
<1> QED
  BY <1>4, <1>8 DEF t, u, v

\* With a list behind it, what is left of a list's end is left of both.
LEMMA LastOfBoth ==
    ASSUME NEW D, NEW s \in Seq(D), NEW k \in Seq(D), NEW n \in 0 .. Len(s)
    PROVE  IsSuffix(LastOf(s, n) \o k, s \o k)
<1> DEFINE t == LastOf(s, n)
           all == s \o k
           c == n + Len(k)
           v == LastOf(all, c)
           w == t \o k
<1>1. Len(s) \in Nat /\ Len(k) \in Nat /\ n \in Nat /\ n <= Len(s) /\ c \in Nat
  BY LenProperties
<1>2. /\ t \in Seq(D) /\ Len(t) = (IF Len(s) > n THEN n ELSE Len(s))
      /\ \A i \in 1 .. Len(t) : t[i] = s[Len(s) - Len(t) + i]
  BY <1>1, LastOfIs
<1>3. Len(t) = n
  BY <1>1, <1>2
<1> HIDE DEF t
<1>4. /\ all \in Seq(D) /\ Len(all) = Len(s) + Len(k)
      /\ \A i \in 1 .. Len(s) + Len(k) :
            all[i] = IF i <= Len(s) THEN s[i] ELSE k[i - Len(s)]
  BY ConcatProperties
<1>5. /\ w \in Seq(D) /\ Len(w) = n + Len(k)
      /\ \A i \in 1 .. n + Len(k) : w[i] = IF i <= n THEN t[i] ELSE k[i - n]
  <2>1. /\ w \in Seq(D) /\ Len(w) = Len(t) + Len(k)
        /\ \A i \in 1 .. Len(t) + Len(k) : w[i] = IF i <= Len(t) THEN t[i] ELSE k[i - Len(t)]
    BY <1>2, ConcatProperties
  <2> QED
    BY <1>3, <2>1
<1> HIDE DEF all, w
<1>6. c <= Len(all) /\ c \in 0 .. Len(all)
  BY <1>1, <1>4
<1>7. /\ v \in Seq(D) /\ Len(v) = (IF Len(all) > c THEN c ELSE Len(all))
      /\ \A i \in 1 .. Len(v) : v[i] = all[Len(all) - Len(v) + i]
  BY <1>1, <1>4, LastOfIs
<1>8. Len(v) = c
  BY <1>1, <1>4, <1>6, <1>7
<1> HIDE DEF v
<1>9. ASSUME NEW i \in 1 .. c PROVE w[i] = v[i]
  <2> DEFINE j == Len(s) - n + i
  <2>1. v[i] = all[j]
    <3>1. v[i] = all[Len(all) - c + i]
      BY <1>7, <1>8
    <3>2. Len(all) - c + i = j
      BY <1>1, <1>4
    <3> QED
      BY <3>1, <3>2
  <2>2. j \in 1 .. Len(s) + Len(k)
    BY <1>1
  <2>3. CASE i <= n
    <3>1. w[i] = t[i] /\ i \in 1 .. Len(t)
      BY <1>1, <1>3, <1>5, <2>3
    <3>2. t[i] = s[j]
      BY <1>2, <1>3, <3>1
    <3>3. all[j] = s[j]
      <4>1. j <= Len(s)
        BY <1>1, <2>3
      <4> QED
        BY <1>4, <2>2, <4>1
    <3> QED
      BY <2>1, <3>1, <3>2, <3>3
  <2>4. CASE ~(i <= n)
    <3>1. w[i] = k[i - n]
      BY <1>5, <2>4
    <3>2. all[j] = k[j - Len(s)]
      <4>1. ~(j <= Len(s))
        BY <1>1, <2>4
      <4> QED
        BY <1>4, <2>2, <4>1
    <3>3. j - Len(s) = i - n
      BY <1>1
    <3> QED
      BY <2>1, <3>1, <3>2, <3>3
  <2> QED
    BY <2>3, <2>4
<1>10. w = v
  BY <1>5, <1>7, <1>8, <1>9, SeqEqual
<1> QED
  BY <1>6, <1>10 DEF IsSuffix, w, all, v, t

\* A row that is valid and not old is tidied, not dropped (stages 5, 7, 8).
LEMMA CurrentStays ==
    ASSUME NEW m \in Document, NEW now, NEW p, NEW r \in RowsOf(m), Has(r, "still_valid"),
           r.stamp # NoTime, now <= r.stamp + Horizon
    PROVE  \E q \in RowsOf(Tidied(m, now, p)) : q.id = r.id
<1> DEFINE e == Booked(m, now, p)
           f == DropInvalid(e, p)
           g == ShedFiles(f)
           h == DropOld(g, now, p)
           i == Shorten(h)
<1>1. Tidied(m, now, p) = i
  BY DEF Tidied, Booked
<1>2. e \in Document /\ e.decisions = m.decisions
  <2>1. e \in Document
    BY TidiedLightens
  <2> DEFINE a == ExpireAudits(m, now)
             b == ShedAudits(a)
             c == ShedCache(b)
             d == ShedHealth(c)
  <2>2. a \in Document /\ a.decisions = m.decisions
    BY ExpireIs, StagesKeep DEF Lightened, ButAudits
  <2> HIDE DEF a
  <2>3. b \in Document /\ b.decisions = m.decisions
    BY <2>2, AuditsCut, StagesKeep DEF Lightened, ButAudits
  <2> HIDE DEF b
  <2>4. c \in Document /\ c.decisions = m.decisions
    BY <2>3, CacheCut, StagesKeep DEF Lightened, ButCache
  <2> HIDE DEF c
  <2>5. d \in Document /\ d.decisions = m.decisions
    BY <2>4, HealthCut, StagesKeep DEF Lightened, ButHealth
  <2> HIDE DEF d
  <2>6. ShedBookkeeping(d, p).decisions = m.decisions
    BY <2>5, StagesKeep DEF ButBooks
  <2>7. e = ShedBookkeeping(d, p)
    BY DEF Booked, a, b, c, d
  <2> QED
    BY <2>1, <2>6, <2>7
<1> HIDE DEF e
<1>3. r \in Range(e.decisions)
  BY <1>2 DEF RowsOf
<1>4. r \in Range(f.decisions) /\ f \in Document
  <2> DEFINE S == {q \in Range(e.decisions) :
                      Has(q, "still_valid") \/ q.id \in ProtectedIds(e, p)}
  <2>1. f = [e EXCEPT !.decisions = Within(@, S)]
    BY DEF DropInvalid, KeepRows
  <2>2. r \in S
    BY <1>3
  <2> HIDE DEF S
  <2>3. f.decisions = Within(e.decisions, S)
    BY <1>2, <2>1 DEF Document
  <2>4. e.decisions \in Seq(Decision)
    BY <1>2, FieldsOf
  <2>5. Range(f.decisions) = Range(e.decisions) \cap S
    BY <2>3, <2>4, WithinDraws
  <2>6. f \in Document
    BY <1>2, DropsLighten DEF Lightened
  <2> QED
    BY <1>3, <2>2, <2>5, <2>6
<1> HIDE DEF f
<1>5. r \in Range(g.decisions) /\ g \in Document
  BY <1>4, FilesCut, StagesKeep DEF Lightened, ButFiles
<1> HIDE DEF g
<1>6. r \in Range(h.decisions) /\ h \in Document
  <2> DEFINE S == {q \in Range(g.decisions) :
                      q.id \in ProtectedIds(g, p)
                      \/ (q.stamp # NoTime /\ now <= q.stamp + Horizon)}
  <2>1. h = [g EXCEPT !.decisions = Within(@, S)]
    BY DEF DropOld, KeepRows
  <2>2. r \in S
    BY <1>5
  <2> HIDE DEF S
  <2>3. h.decisions = Within(g.decisions, S)
    BY <1>5, <2>1 DEF Document
  <2>4. g.decisions \in Seq(Decision)
    BY <1>5, FieldsOf
  <2>5. Range(h.decisions) = Range(g.decisions) \cap S
    BY <2>3, <2>4, WithinDraws
  <2>6. h \in Document
    BY <1>5, DropsLighten DEF Lightened
  <2> QED
    BY <1>5, <2>2, <2>5, <2>6
<1> HIDE DEF h
<1>7. PICK k \in DOMAIN h.decisions : h.decisions[k] = r
  BY <1>6 DEF Range
<1>8. Shortened(i, h)
  BY <1>6, ShortenIs
<1>9. i.decisions[k] = ShortRow(r) /\ k \in DOMAIN i.decisions
  BY <1>7, <1>8 DEF Shortened
<1>10. ShortRow(r).id = r.id
  <2>1. r \in Decision
    BY <1>6, FieldsOf, RangeOfSeq
  <2> QED
    BY <2>1 DEF ShortRow, Decision
<1>11. i.decisions[k] \in RowsOf(i)
  BY <1>9 DEF RowsOf, Range
<1> QED
  BY <1>1, <1>9, <1>10, <1>11

\* A guard that has not expired is neither completed nor shed (stages 0, 1).
LEMMA GuardsStay ==
    ASSUME NEW m \in Document, NEW now, NEW a \in Range(m.audits), IsPending(a),
           ~(now - a.stamp > AuditTimeout)
    PROVE  a \in Range(ShedAudits(ExpireAudits(m, now)).audits)
<1> DEFINE x == ExpireAudits(m, now)
<1>1. x \in Document
  BY ExpireIs DEF Lightened
<1>2. PICK i \in DOMAIN m.audits : m.audits[i] = a
  BY DEF Range
<1>3. x.audits[i] = Expired(a, now) /\ i \in DOMAIN x.audits
  BY <1>2, ExpireIs
<1>4. Expired(a, now) = a
  BY DEF Expired
<1>5. a \in Range(x.audits)
  BY <1>3, <1>4 DEF Range
<1> HIDE DEF x
<1>6. a \in Range(Waiting(x)) /\ Waiting(x) \in Seq(AuditRecord)
  BY <1>1, <1>5, AuditsCut
<1>7. PICK n \in 0 .. Len(AuditsLeft(x)) : ShedAudits(x) = WithAudits(x, LastOf(AuditsLeft(x), n))
  BY <1>1, AuditsCut
<1> DEFINE t == LastOf(AuditsLeft(x), n)
<1>8. t \in Seq(AuditRecord)
  <2>1. AuditsLeft(x) \in Seq(AuditRecord) /\ n \in Nat
    BY <1>1, AuditsCut
  <2> QED
    BY <2>1, LastOfIs
<1> HIDE DEF t
<1>9. ShedAudits(x).audits = t \o Waiting(x)
  BY <1>1, <1>7 DEF WithAudits, Document, t
<1>10. Range(t \o Waiting(x)) = Range(t) \cup Range(Waiting(x))
  BY <1>6, <1>8, RangeConcatenation
<1> QED
  BY <1>6, <1>9, <1>10 DEF x

\* Of the completions that the transaction does not protect the newest stay, of
\* the others all (stage 4).
LEMMA BookedSources ==
    ASSUME NEW m \in Document, NEW now, NEW p
    PROVE  \E n \in 0 .. Len(FreeSources(m, p)) :
               Booked(m, now, p).sources = LastOf(FreeSources(m, p), n) \o OwnSources(m, p)
<1> DEFINE d == ShedHealth(ShedCache(ShedAudits(ExpireAudits(m, now))))
<1>1. d \in Document /\ d.sources = m.sources
  BY TidiedLightens
<1>2. Booked(m, now, p) = ShedBookkeeping(d, p)
  BY DEF Booked
<1> HIDE DEF d
<1>3. /\ OwnSources(d, p) = OwnSources(m, p) /\ FreeSources(d, p) = FreeSources(m, p)
      /\ SourcesLeft(d, p) = LastOf(FreeSources(m, p), Cap.sources)
  BY <1>1 DEF OwnSources, FreeSources, SourcesLeft
<1>4. FreeSources(m, p) \in Seq(Nat)
  BY BooksCut
<1>5. PICK n \in 0 .. Len(SourcesLeft(d, p)) : \E t :
         ShedBookkeeping(d, p) = WithBooks(d, p, LastOf(SourcesLeft(d, p), n), t)
  <2>1. \E i \in 0 .. Len(SessionsLeft(d)), n \in 0 .. Len(SourcesLeft(d, p)) :
           ShedBookkeeping(d, p) = WithBooks(d, p, LastOf(SourcesLeft(d, p), n),
                                             LastOf(SessionsLeft(d), i))
    BY <1>1, BooksCut
  <2> QED
    BY <2>1
<1> DEFINE u == LastOf(SourcesLeft(d, p), n)
<1>6. ShedBookkeeping(d, p).sources = u \o OwnSources(d, p)
  <2>1. PICK t : ShedBookkeeping(d, p) = WithBooks(d, p, u, t)
    BY <1>5
  <2> HIDE DEF u
  <2> QED
    BY <1>1, <2>1 DEF WithBooks, Document
<1> DEFINE l == FreeSources(m, p)
<1>7. Cap.sources \in Nat /\ l \in Seq(Nat)
  BY <1>4, DocumentAssumption
<1>8. u = LastOf(LastOf(l, Cap.sources), n)
  BY <1>3
<1> HIDE DEF u, l
<1>9. n \in Nat
  <2>1. LastOf(l, Cap.sources) \in Seq(Nat)
    BY <1>7, LastOfIs
  <2>2. Len(SourcesLeft(d, p)) \in Nat
    BY <1>3, <2>1, LenProperties DEF l
  <2> QED
    BY <2>2
<1>10. \E c \in 0 .. Len(l) : u = LastOf(l, c)
  <2> DEFINE k == Cap.sources
  <2>1. k \in Nat /\ l \in Seq(Nat) /\ u = LastOf(LastOf(l, k), n)
    BY <1>7, <1>8
  <2> HIDE DEF k
  <2>2. \E c \in 0 .. Len(l) : LastOf(LastOf(l, k), n) = LastOf(l, c)
    BY <1>9, <2>1, LastOfTwice
  <2> QED
    BY <2>1, <2>2
<1> QED
  BY <1>2, <1>3, <1>6, <1>10 DEF l
-----------------------------------------------------------------------------
(* The transaction's own completions are the last                          *)

\* Of s the entries in S follow the others.
OwnLast(s, S) == s = Within(s, Range(s) \ S) \o Within(s, S)

\* The first places of a list select its beginning.
LEMMA BeginningOf ==
    ASSUME NEW D, NEW s \in Seq(D), NEW a \in 0 .. Len(s)
    PROVE  At(s, 1 .. a) = [k \in 1 .. a |-> s[k]]
<1> DEFINE at == 1 .. a
           place == [i \in at |-> Cardinality({j \in at : j <= i})]
           which(k) == CHOOSE i \in at : place[i] = k
<1>1. a \in Nat /\ IsFiniteSet(at) /\ Cardinality(at) = a
  <2>1. Len(s) \in Nat
    BY LenProperties
  <2>2. a \in Nat
    BY <2>1
  <2> QED
    BY <2>2, UpTo
<1>2. ASSUME NEW i \in at PROVE place[i] = i
  <2>1. {j \in at : j <= i} = 1 .. i /\ i \in Nat
    BY <1>1
  <2>2. Cardinality(1 .. i) = i
    BY <2>1, UpTo
  <2> QED
    BY <2>1, <2>2
<1> HIDE DEF place
<1>3. ASSUME NEW k \in at PROVE which(k) = k
  <2>1. \E i \in at : place[i] = k
    BY <1>2
  <2>2. which(k) \in at /\ place[which(k)] = k
    BY <2>1
  <2> HIDE DEF which
  <2> QED
    BY <1>2, <2>2
<1>4. At(s, at) = [k \in 1 .. Cardinality(at) |-> s[which(k)]]
  BY DEF At, place
<1> HIDE DEF which
<1>5. At(s, at) = [k \in at |-> s[which(k)]]
  BY <1>1, <1>4
<1> QED
  BY <1>3, <1>5

\* The number of places after a up to n.
LEMMA PlacesAfter ==
    ASSUME NEW a \in Nat, NEW n \in Nat, a <= n
    PROVE  IsFiniteSet(a + 1 .. n) /\ Cardinality(a + 1 .. n) = n - a
<1>1. /\ IsFiniteSet(a + 1 .. n)
      /\ Cardinality(a + 1 .. n) = IF a + 1 > n THEN 0 ELSE n - (a + 1) + 1
  BY FS_Interval
<1>2. n - (a + 1) + 1 = n - a /\ (a + 1 > n => n - a = 0)
  OBVIOUS
<1> QED
  BY <1>1, <1>2

\* The last places of a list select its end.
LEMMA EndOf ==
    ASSUME NEW D, NEW s \in Seq(D), NEW a \in 0 .. Len(s)
    PROVE  At(s, a + 1 .. Len(s)) = [k \in 1 .. Len(s) - a |-> s[a + k]]
<1> DEFINE n == Len(s)
           at == a + 1 .. n
           place == [i \in at |-> Cardinality({j \in at : j <= i})]
           which(k) == CHOOSE i \in at : place[i] = k
<1>1. n \in Nat /\ a \in Nat /\ a <= n
  BY LenProperties
<1>2. IsFiniteSet(at) /\ Cardinality(at) = n - a
  BY <1>1, PlacesAfter
<1>3. ASSUME NEW i \in at PROVE place[i] = i - a
  <2>1. i \in Nat /\ a <= i /\ i <= n
    BY <1>1
  <2>2. {j \in at : j <= i} = a + 1 .. i
    BY <1>1, <2>1
  <2>3. Cardinality(a + 1 .. i) = i - a
    BY <1>1, <2>1, PlacesAfter
  <2> QED
    BY <2>2, <2>3
<1> HIDE DEF place
<1>4. ASSUME NEW k \in 1 .. n - a PROVE which(k) = a + k
  <2>1. a + k \in at /\ (a + k) - a = k
    BY <1>1
  <2>2. \E i \in at : place[i] = k
    BY <1>3, <2>1
  <2>3. which(k) \in at /\ place[which(k)] = k
    BY <2>2
  <2> HIDE DEF which
  <2>4. which(k) - a = k /\ which(k) \in Int
    BY <1>1, <1>3, <2>3
  <2> QED
    BY <1>1, <2>4
<1>5. At(s, at) = [k \in 1 .. Cardinality(at) |-> s[which(k)]]
  BY DEF At, place
<1> HIDE DEF which
<1>6. At(s, at) = [k \in 1 .. n - a |-> s[which(k)]]
  BY <1>2, <1>5
<1> QED
  BY <1>4, <1>6

\* The entries of a are in S, those of b in T.
Apart(a, b, S, T) ==
    /\ Range(a) \subseteq S /\ Range(b) \cap S = {}
    /\ Range(b) \subseteq T /\ Range(a) \cap T = {}

\* Two lists of different entries, one after the other, are told apart again.
LEMMA PartsAgain ==
    ASSUME NEW D, NEW a \in Seq(D), NEW b \in Seq(D), NEW S, NEW T,
           Apart(a, b, S, T)
    PROVE  Within(a \o b, S) = a /\ Within(a \o b, T) = b
<1> DEFINE c == a \o b
           P == {i \in DOMAIN c : c[i] \in S}
           Q == {i \in DOMAIN c : c[i] \in T}
           k == Len(a)
           n == Len(c)
<1>1. /\ k \in Nat /\ Len(b) \in Nat /\ DOMAIN a = 1 .. k /\ DOMAIN b = 1 .. Len(b)
      /\ c \in Seq(D) /\ n = k + Len(b) /\ DOMAIN c = 1 .. n
      /\ \A i \in 1 .. n : c[i] = IF i <= k THEN a[i] ELSE b[i - k]
      /\ a = [i \in 1 .. k |-> a[i]] /\ b = [i \in 1 .. Len(b) |-> b[i]]
  BY ConcatProperties, LenProperties
<1>2. \A i \in 1 .. k : a[i] \in S /\ a[i] \notin T
  BY <1>1 DEF Range, Apart
<1>3. \A i \in 1 .. Len(b) : b[i] \in T /\ b[i] \notin S
  BY <1>1 DEF Range, Apart
<1> HIDE DEF c
<1>4. \A i \in 1 .. n : /\ i <= k => c[i] \in S /\ c[i] \notin T
                        /\ i > k => c[i] \in T /\ c[i] \notin S
  <2> SUFFICES ASSUME NEW i \in 1 .. n
               PROVE  /\ i <= k => c[i] \in S /\ c[i] \notin T
                      /\ i > k => c[i] \in T /\ c[i] \notin S
    OBVIOUS
  <2>1. CASE i <= k
    <3>1. i \in 1 .. k /\ c[i] = a[i]
      BY <1>1, <2>1
    <3> QED
      BY <1>1, <1>2, <2>1, <3>1
  <2>2. CASE i > k
    <3>1. i - k \in 1 .. Len(b) /\ c[i] = b[i - k]
      BY <1>1, <2>2
    <3> QED
      BY <1>1, <1>3, <2>2, <3>1
  <2> QED
    BY <1>1, <2>1, <2>2
<1>5. P = 1 .. k /\ Q = k + 1 .. n
  BY <1>1, <1>4
<1>6. Within(c, S) = At(c, P) /\ Within(c, T) = At(c, Q)
  BY DEF Within
<1> HIDE DEF P, Q
<1>7. k \in 0 .. n
  BY <1>1
<1>8. At(c, P) = a
  <2>1. At(c, 1 .. k) = [i \in 1 .. k |-> c[i]]
    BY <1>1, <1>7, BeginningOf
  <2>2. \A i \in 1 .. k : c[i] = a[i]
    BY <1>1
  <2> QED
    BY <1>1, <1>5, <2>1, <2>2
<1>9. At(c, Q) = b
  <2>1. At(c, k + 1 .. n) = [i \in 1 .. n - k |-> c[k + i]]
    <3>1. c \in Seq(D) /\ k \in 0 .. Len(c)
      BY <1>1, <1>7
    <3> HIDE DEF k
    <3>2. At(c, k + 1 .. Len(c)) = [i \in 1 .. Len(c) - k |-> c[k + i]]
      BY ONLY <3>1, EndOf
    <3> QED
      BY ONLY <3>2
  <2>2. n - k = Len(b)
    BY <1>1
  <2>3. \A i \in 1 .. Len(b) : c[k + i] = b[i]
    <3> SUFFICES ASSUME NEW i \in 1 .. Len(b) PROVE c[k + i] = b[i]
      OBVIOUS
    <3>1. k \in Nat /\ Len(b) \in Nat /\ n = k + Len(b)
      BY <1>1
    <3>2. \A j \in 1 .. n : c[j] = IF j <= k THEN a[j] ELSE b[j - k]
      BY <1>1
    <3> HIDE DEF k, n
    <3>3. k + i \in 1 .. n /\ ~(k + i <= k) /\ (k + i) - k = i
      BY <3>1
    <3> QED
      BY <3>2, <3>3
  <2> QED
    BY <1>1, <1>5, <2>1, <2>2, <2>3
<1> QED
  BY <1>6, <1>8, <1>9 DEF c

\* A list is split if it was put together so.
LEMMA OwnAgain ==
    ASSUME NEW D, NEW a \in Seq(D), NEW b \in Seq(D), NEW S,
           Range(a) \cap S = {}, Range(b) \subseteq S
    PROVE  OwnLast(a \o b, S)
<1> DEFINE R == Range(a \o b) \ S
<1>1. Range(a \o b) = Range(a) \cup Range(b)
  BY RangeConcatenation
<1>2. Apart(a, b, R, S)
  BY <1>1 DEF Apart
<1> HIDE DEF R
<1>3. Within(a \o b, R) = a /\ Within(a \o b, S) = b
  BY <1>2, PartsAgain
<1> QED
  BY <1>3 DEF OwnLast, R

\* A list is split if what is in S is its last entry.
LEMMA LastIsSplit ==
    ASSUME NEW D, NEW u \in Seq(D), NEW k \in D, k \notin Range(u)
    PROVE  OwnLast(Append(u, k), {k})
<1> DEFINE one == <<k>>
<1>1. one \in Seq(D) /\ Range(one) = {k}
  BY DEF Range
<1>2. Append(u, k) = u \o one
  OBVIOUS
<1> HIDE DEF one
<1>3. Range(u) \cap {k} = {} /\ Range(one) \subseteq {k}
  BY <1>1
<1>4. OwnLast(u \o one, {k})
  BY <1>1, <1>3, OwnAgain
<1> QED
  BY <1>2, <1>4

\* What a list has to which an entry was appended.
LEMMA AppendedHas ==
    ASSUME NEW D, NEW s \in Seq(D), NEW k \in D
    PROVE  Append(s, k) \in Seq(D) /\ Range(Append(s, k)) = Range(s) \cup {k}
<1> DEFINE one == <<k>>
<1>1. Append(s, k) = s \o one /\ one \in Seq(D) /\ Range(one) = {k}
  BY AppendIsConcat DEF Range
<1> HIDE DEF one
<1>2. Range(s \o one) = Range(s) \cup Range(one)
  BY <1>1, RangeConcatenation
<1> QED
  BY <1>1, <1>2, AppendProperties

\* The newest entries of a list to which one was appended.
LEMMA AppendedIsSplit ==
    ASSUME NEW D, NEW s \in Seq(D), NEW k \in D, k \notin Range(s), NEW n \in Nat
    PROVE  /\ OwnLast(LastOf(Append(s, k), n), {k})
           /\ LastOf(Append(s, k), n) \in Seq(D) /\ Len(LastOf(Append(s, k), n)) <= n
           /\ Range(LastOf(Append(s, k), n)) \subseteq Range(s) \cup {k}
<1> DEFINE a == Append(s, k)
           t == LastOf(a, n)
<1>1. /\ Len(s) \in Nat /\ a \in Seq(D) /\ Len(a) = Len(s) + 1
      /\ a[Len(s) + 1] = k /\ \A i \in 1 .. Len(s) : a[i] = s[i]
  BY AppendProperties, LenProperties
<1>2. Range(a) \subseteq Range(s) \cup {k}
  BY AppendedHas
<1> HIDE DEF a
<1>3. /\ t \in Seq(D) /\ Len(t) = (IF Len(a) > n THEN n ELSE Len(a))
      /\ \A i \in 1 .. Len(t) : t[i] = a[Len(a) - Len(t) + i]
      /\ Drawn(t, a)
  BY <1>1, LastOfIs
<1>4. Range(t) \subseteq Range(s) \cup {k}
  BY <1>1, <1>2, <1>3, DrawnIsLess
<1>5. Len(t) \in Nat /\ Len(t) <= n /\ Len(t) <= Len(a)
  BY <1>1, <1>3, LenProperties
<1> HIDE DEF t
<1>6. OwnLast(t, {k})
  <2>1. CASE Len(t) = 0
    <3>1. t = <<>>
      BY <1>3, <2>1, EmptySeq
    <3>2. Range(t) = {}
      BY <3>1 DEF Range
    <3>3. Within(t, Range(t) \ {k}) = <<>> /\ Within(t, {k}) = <<>>
      BY <1>3, <3>2, WithinDraws
    <3>4. <<>> \o <<>> = <<>>
      OBVIOUS
    <3> QED
      BY <3>1, <3>3, <3>4 DEF OwnLast
  <2>2. CASE Len(t) # 0
    <3> DEFINE m == Len(t)
               u == SubSeq(t, 1, m - 1)
    <3>1. m \in Nat /\ m >= 1
      BY <1>5, <2>2
    <3>2. /\ u \in Seq(D) /\ Len(u) = m - 1 /\ \A i \in 1 .. m - 1 : u[i] = t[i]
      BY <1>3, <3>1, SubSeqProperties
    <3> HIDE DEF u
    <3>3. t[m] = k
      <4>1. t[m] = a[Len(a) - m + m]
        <5>1. m \in 1 .. Len(t)
          BY <3>1
        <5> HIDE DEF m
        <5> QED
          BY <1>3, <5>1 DEF m
      <4>2. Len(a) - m + m = Len(s) + 1
        BY <1>1, <3>1
      <4> QED
        BY <1>1, <4>1, <4>2
    <3>4. ASSUME NEW i \in 1 .. m - 1 PROVE u[i] # k
      <4>1. u[i] = a[Len(a) - m + i]
        <5>1. i \in 1 .. Len(t)
          BY <3>1
        <5>2. t[i] = a[Len(a) - Len(t) + i]
          BY <1>3, <5>1
        <5> QED
          BY <3>2, <5>2
      <4>2. Len(a) - m + i \in 1 .. Len(s)
        BY <1>1, <1>5, <3>1
      <4>3. u[i] = s[Len(a) - m + i] /\ Len(a) - m + i \in DOMAIN s
        BY <1>1, <4>1, <4>2, LenProperties
      <4> QED
        BY <4>3 DEF Range
    <3>5. k \notin Range(u)
      BY <3>2, <3>4, LenProperties DEF Range
    <3>6. t = Append(u, k)
      <4> DEFINE w == Append(u, k)
      <4>1. w \in Seq(D) /\ Len(w) = m /\ w[m] = k /\ \A i \in 1 .. m - 1 : w[i] = u[i]
        <5>1. /\ w \in Seq(D) /\ Len(w) = Len(u) + 1
              /\ w[Len(u) + 1] = k /\ \A i \in 1 .. Len(u) : w[i] = u[i]
          BY <3>2, AppendProperties
        <5>2. Len(u) + 1 = m /\ Len(u) = m - 1
          BY <3>1, <3>2
        <5> QED
          BY <5>1, <5>2
      <4> HIDE DEF w
      <4>2. ASSUME NEW i \in 1 .. m PROVE t[i] = w[i]
        <5>1. CASE i = m
          BY <3>3, <4>1, <5>1
        <5>2. CASE i # m
          <6>1. i \in 1 .. m - 1
            BY <3>1, <5>2
          <6> QED
            BY <3>2, <4>1, <6>1
        <5> QED
          BY <5>1, <5>2
      <4>3. t = w
        BY <1>3, <4>1, <4>2, SeqEqual
      <4> QED
        BY <4>3 DEF w
    <3>7. OwnLast(Append(u, k), {k})
      BY <3>2, <3>5, LastIsSplit
    <3> QED
      BY <3>6, <3>7
  <2> QED
    BY <2>1, <2>2
<1> QED
  BY <1>3, <1>4, <1>5, <1>6 DEF t, a

\* A list of which nothing is to be kept apart.
LEMMA NothingIsSplit ==
    ASSUME NEW D, NEW s \in Seq(D)
    PROVE  OwnLast(s, {})
<1>1. Range(s) \ {} = Range(s)
  OBVIOUS
<1>2. Within(s, Range(s)) = s /\ Within(s, {}) = <<>>
  BY WithinDraws
<1>3. s \o <<>> = s
  BY ConcatEmptySeq
<1> QED
  BY <1>1, <1>2, <1>3 DEF OwnLast
-----------------------------------------------------------------------------
(* What is read                                                            *)

\* What the schema and the repairs ask of a row, but for the length of its text.
SoundRow(r) ==
    /\ r.id \notin Overlong /\ NamedIn(r) \cap Overlong = {}
    /\ r.by # "unproven-llm"
    /\ ClaimsHuman(r) => ClaimHolds(r)
    /\ r.id \notin NamedIn(r)

\* Completions are of turns before the n-th, or of before.
DoneBy(s, n) == \A k \in Range(s) : k < n \/ k >= MaxTurns

\* More audits than their collection holds are kept only beside as many guards.
RoomForAudits(s) == Len(s) > Cap.audits => Len(Those(s, IsPending)) >= Cap.audits

\* What a transaction may hand to the budget in the n-th turn.
Ready(m, n) ==
    /\ m \in Document /\ m.version = CurrentVersion
    /\ Unique(m.decisions) /\ \A r \in RowsOf(m) : SoundRow(r)
    /\ \A f \in Range(m.files) : f.by \in {"heuristic", "legacy"}
    /\ m.task.by \in {"none", "heuristic", "legacy"}
    /\ \A e \in Range(m.cache) : e.kind = "current"
    /\ Len(m.sources) <= Cap.sources /\ m.quarantined <= Cap.quarantined
    /\ Len(m.cache) <= Cap.cache /\ Len(m.health) <= Cap.health
    /\ Len(m.sessions) <= Cap.sessions
    /\ RoomForAudits(m.audits) /\ DoneBy(m.sources, n)

\* A filter that leaves nothing out is passed by all.
LEMMA AllPass ==
    ASSUME NEW D, NEW s \in Seq(D), NEW S, Len(Within(s, S)) = Len(s)
    PROVE  Range(s) \subseteq S
<1> DEFINE at == {i \in DOMAIN s : s[i] \in S}
<1>1. at \in SUBSET DOMAIN s /\ Within(s, S) = At(s, at)
  BY DEF Within
<1>2. Len(s) \in Nat /\ DOMAIN s = 1 .. Len(s)
  BY LenProperties
<1>3. IsFiniteSet(DOMAIN s) /\ Cardinality(DOMAIN s) = Len(s)
  <2>1. IsFiniteSet(1 .. Len(s)) /\ Cardinality(1 .. Len(s)) = Len(s)
    BY <1>2, UpTo
  <2> QED
    BY <1>2, <2>1
<1> HIDE DEF at
<1>4. Cardinality(at) = Len(s)
  BY <1>1, AtSelects
<1>5. at = DOMAIN s
  BY <1>1, <1>3, <1>4, FS_Subset
<1> QED
  BY <1>5 DEF at, Range

\* y is m with the cache entries in S alone, and the others counted.
Quarantines(y, m, S) ==
    LET kept == Within(m.cache, S)
        dropped == Len(m.cache) - Len(kept)
    IN  y = IF dropped = 0 THEN m ELSE [Counted(m, dropped) EXCEPT !.cache = kept]

\* A cache of which entries were dropped.
LEMMA CacheKept ==
    ASSUME NEW m \in Document, NEW S, NEW y, Quarantines(y, m, S)
    PROVE  /\ y \in Document /\ y.sources = m.sources
           /\ Range(y.cache) \subseteq Range(m.cache) /\ Range(y.cache) \subseteq S
<1> DEFINE kept == Within(m.cache, S)
           dropped == Len(m.cache) - Len(kept)
           q == IF m.quarantined + dropped > Cap.quarantined THEN Cap.quarantined
                ELSE m.quarantined + dropped
<1>1. /\ m.cache \in Seq(CacheRecord) /\ m.quarantined \in Nat
  BY FieldsOf
<1>2. y = IF dropped = 0 THEN m ELSE [Counted(m, dropped) EXCEPT !.cache = kept]
  BY DEF Quarantines
<1>3. /\ kept \in Seq(CacheRecord) /\ Len(kept) <= Len(m.cache)
      /\ Range(kept) = Range(m.cache) \cap S
  BY <1>1, WithinDraws
<1>4. Len(kept) = Len(m.cache) => Range(m.cache) \subseteq S
  BY <1>1, AllPass
<1>5. Len(kept) \in Nat /\ Len(m.cache) \in Nat
  BY <1>1, <1>3, LenProperties
<1> HIDE DEF kept
<1>6. dropped \in Nat /\ (dropped = 0 => Len(kept) = Len(m.cache))
  BY <1>3, <1>5
<1> HIDE DEF dropped
<1>7. q \in Nat
  <2>1. Cap.quarantined \in Nat
    BY DocumentAssumption
  <2> QED
    BY <1>1, <1>6, <2>1
<1>8. Counted(m, dropped) = [m EXCEPT !.quarantined = q]
  BY <1>1 DEF Counted, Document
<1> HIDE DEF q
<1>9. CASE dropped # 0
  <2>1. y = [[m EXCEPT !.quarantined = q] EXCEPT !.cache = kept]
    BY <1>2, <1>8, <1>9
  <2>2. y \in Document /\ y.sources = m.sources /\ y.cache = kept
    BY <1>3, <1>7, <2>1 DEF Document, CacheRecord
  <2> QED
    BY <1>3, <2>2
<1>10. CASE dropped = 0
  <2>1. y = m /\ Range(m.cache) \subseteq S
    BY <1>2, <1>4, <1>6, <1>10
  <2> QED
    BY <2>1
<1> QED
  BY <1>9, <1>10

\* Of an old release every fact is told as legacy, and what was cached without
\* evidence goes (migrate.ts 53-96).
LEMMA UpgradedIs ==
    ASSUME NEW m \in Document
    PROVE  Upgraded(m) \in Document /\ Upgraded(m).sources = m.sources
<1>1. ASSUME NEW x \in Document
      PROVE  MigrateV2ToV3(x) \in Document /\ MigrateV2ToV3(x).sources = x.sources
  <2> DEFINE d == Mapped(x.decisions, AsLegacy)
             f == Mapped(x.files, LAMBDA g : [g EXCEPT !.by = "legacy"])
             t == IF x.task.text = 0 THEN x.task ELSE [x.task EXCEPT !.by = "legacy"]
             z == [x EXCEPT !.version = CurrentVersion, !.decisions = d, !.files = f,
                            !.task = t]
             S == {e \in Range(z.cache) : e.kind # "unproven"}
  <2>1. /\ x.decisions \in Seq(Decision) /\ x.files \in Seq(FileRecord)
        /\ x.task \in [text : Nat, by : Authors \cup {"none"}]
    BY FieldsOf
  <2>2. d \in Seq(Decision)
    <3>1. \A r \in Decision : AsLegacy(r) \in Decision
      BY DEF AsLegacy, Decision, Authors
    <3>2. \A i \in DOMAIN x.decisions : x.decisions[i] \in Decision
      BY <2>1, RowAt
    <3>3. AsLong(d, x.decisions, Decision)
      BY <3>1, <3>2 DEF AsLong, Mapped
    <3> QED
      BY <2>1, <3>3, ListBy
  <2>3. f \in Seq(FileRecord)
    <3>1. \A g \in FileRecord : [g EXCEPT !.by = "legacy"] \in FileRecord
      BY DEF FileRecord, Authors
    <3>2. \A i \in DOMAIN x.files : x.files[i] \in FileRecord
      BY Weights
    <3>3. AsLong(f, x.files, FileRecord)
      BY <3>1, <3>2 DEF AsLong, Mapped
    <3> QED
      BY <2>1, <3>3, ListBy
  <2>4. t \in [text : Nat, by : Authors \cup {"none"}]
    BY <2>1 DEF Authors
  <2>5. MigrateV2ToV3(x) = KeepCache(z, LAMBDA e : e.kind # "unproven")
    BY DEF MigrateV2ToV3, z, d, f, t, Document
  <2> HIDE DEF d, f, t
  <2>6. CurrentVersion \in Nat
    BY DEF CurrentVersion
  <2>7. z \in Document /\ z.sources = x.sources
    BY <2>2, <2>3, <2>4, <2>6 DEF Document, FileRecord
  <2> HIDE DEF z
  <2>8. Quarantines(MigrateV2ToV3(x), z, S)
    BY <2>5 DEF Quarantines, KeepCache, Those
  <2> HIDE DEF S
  <2> QED
    BY <2>7, <2>8, CacheKept
<1>2. CASE m.version = 1
  <2>1. Upgraded(m) = MigrateV2ToV3(MigrateV1ToV2(m))
    BY <1>2 DEF Upgraded
  <2>2. MigrateV1ToV2(m) \in Document /\ MigrateV1ToV2(m).sources = m.sources
    BY DEF MigrateV1ToV2, Document
  <2> QED
    BY <1>1, <2>1, <2>2
<1>3. CASE m.version = 2
  <2>1. Upgraded(m) = MigrateV2ToV3(m)
    BY <1>3 DEF Upgraded
  <2> QED
    BY <1>1, <2>1
<1>4. CASE m.version # 1 /\ m.version # 2
  BY <1>4 DEF Upgraded
<1> QED
  BY <1>2, <1>3, <1>4

\* The repairs leave a document, without cache entries of an earlier contract.
LEMMA RepairedIs ==
    ASSUME NEW m \in Document, HasRows(Repaired(m))
    PROVE  /\ Repaired(m) \in Document /\ Repaired(m).sources = m.sources
           /\ \A e \in Range(Repaired(m).cache) : e.kind # "old"
<1> DEFINE a == QuarantineStaleCache(m)
           S == {e \in Range(m.cache) : e.kind # "old"}
           b == [a EXCEPT !.decisions = RepairDecisions(@)]
           c == RepairState(b)
           d == RepairOversized(c)
<1>1. d = Repaired(m)
  BY DEF Repaired, a, b, c
<1>2. Quarantines(a, m, S)
  BY DEF QuarantineStaleCache, Quarantines, KeepCache, Those
<1>3. a \in Document /\ a.sources = m.sources /\ Range(a.cache) \subseteq S
  BY <1>2, CacheKept
<1>4. \A e \in Range(a.cache) : e.kind # "old"
  BY <1>3
<1> HIDE DEF a, S
<1>5. RepairDecisions(a.decisions) \in Seq(Decision)
  <2>1. "decisions" \in DOMAIN a
    BY <1>3 DEF Document
  <2>2. "decisions" \in DOMAIN b /\ b.decisions = RepairDecisions(a.decisions)
    BY <2>1
  <2> HIDE DEF b
  <2>3. "decisions" \in DOMAIN c /\ c.decisions = b.decisions
    BY <2>2 DEF RepairState, Mapped
  <2> HIDE DEF c
  <2>4. "decisions" \in DOMAIN d /\ d.decisions = c.decisions
    BY <2>3 DEF RepairOversized
  <2> HIDE DEF d
  <2> QED
    BY <1>1, <2>2, <2>3, <2>4 DEF HasRows
<1>6. b \in Document /\ b.sources = a.sources /\ b.cache = a.cache
  <2> DEFINE rows == RepairDecisions(a.decisions)
  <2>1. b = [a EXCEPT !.decisions = rows]
    BY <1>3 DEF Document
  <2> HIDE DEF rows, b
  <2>2. rows \in Seq(Decision)
    BY <1>5 DEF rows
  <2> QED
    BY <1>3, <2>1, <2>2 DEF Document
<1> HIDE DEF b
<1>7. c \in Document /\ c.sources = b.sources /\ c.cache = b.cache
  <2> DEFINE f == Mapped(b.files, LAMBDA g :
                      IF FromLLM(g.by) THEN [g EXCEPT !.by = "legacy"] ELSE g)
             t == IF FromLLM(b.task.by) THEN [b.task EXCEPT !.by = "legacy"] ELSE b.task
  <2>1. b.files \in Seq(FileRecord) /\ b.task \in [text : Nat, by : Authors \cup {"none"}]
    BY <1>6, FieldsOf
  <2>2. f \in Seq(FileRecord)
    <3>1. \A g \in FileRecord : [g EXCEPT !.by = "legacy"] \in FileRecord
      BY DEF FileRecord, Authors
    <3>2. \A i \in DOMAIN b.files : b.files[i] \in FileRecord
      BY <1>6, Weights
    <3>3. AsLong(f, b.files, FileRecord)
      BY <3>1, <3>2 DEF AsLong, Mapped
    <3> QED
      BY <2>1, <3>3, ListBy
  <2>3. t \in [text : Nat, by : Authors \cup {"none"}]
    BY <2>1 DEF Authors
  <2>4. c = [b EXCEPT !.files = f, !.task = t]
    BY <1>6 DEF RepairState, Document, f, t, c
  <2> HIDE DEF f, t, c
  <2> QED
    BY <1>6, <2>2, <2>3, <2>4 DEF Document, FileRecord
<1> HIDE DEF c
<1>8. d \in Document /\ d.sources = c.sources /\ d.cache = c.cache
  <2> DEFINE f == IF Len(c.files) > Cap.array THEN FirstOf(ReadFirst(c.files), Cap.array)
                  ELSE c.files
             x == FirstOf(c.blockers, Cap.array)
             s == FirstOf(c.steps, Cap.array)
  <2>1. c.files \in Seq(FileRecord) /\ c.blockers \in Seq(Nat) /\ c.steps \in Seq(Nat)
    BY <1>7, FieldsOf
  <2>2. Cap.array \in Nat
    BY DocumentAssumption
  <2>3. ReadFirst(c.files) \in Seq(FileRecord)
    BY <2>1, ReadFirstSorts
  <2>4. FirstOf(ReadFirst(c.files), Cap.array) \in Seq(FileRecord)
    BY <2>2, <2>3, FirstOfIs
  <2>5. f \in Seq(FileRecord)
    BY <2>1, <2>4
  <2>6. x \in Seq(Nat) /\ s \in Seq(Nat)
    BY <2>1, <2>2, FirstOfIs
  <2>7. d = [c EXCEPT !.files = f, !.blockers = x, !.steps = s]
    BY <1>7 DEF RepairOversized, Document, ReadFirst
  <2> HIDE DEF f, x, s, d
  <2> QED
    BY <1>7, <2>5, <2>6, <2>7 DEF Document, FileRecord
<1> HIDE DEF d
<1> QED
  BY <1>1, <1>3, <1>4, <1>6, <1>7, <1>8

\* A legal document without entries of an earlier contract is ready.
LEMMA LegalIsReady ==
    ASSUME NEW m \in Document, Legal(m), \A e \in Range(m.cache) : e.kind # "old",
           NEW n, DoneBy(m.sources, n)
    PROVE  Ready(m, n)
<1>1. \A r \in RowsOf(m) : SoundRow(r)
  BY DEF Legal, LegalRow, SoundRow, RowsOf
<1>2. \A e \in Range(m.cache) : e.kind = "current"
  <2>1. m.cache \in Seq(CacheRecord)
    BY FieldsOf
  <2>2. Range(m.cache) \subseteq CacheRecord
    BY <2>1, RangeOfSeq
  <2> QED
    BY <2>2 DEF Legal, CacheRecord
<1>3. RoomForAudits(m.audits)
  <2>1. m.audits \in Seq(AuditRecord) /\ Cap.audits \in Nat
    BY FieldsOf, DocumentAssumption
  <2>2. Len(m.audits) \in Nat /\ Len(m.audits) <= Cap.audits
    BY <2>1, LenProperties DEF Legal
  <2>3. ~(Len(m.audits) > Cap.audits)
    BY <2>1, <2>2
  <2> QED
    BY <2>3 DEF RoomForAudits
<1> QED
  BY <1>1, <1>2, <1>3 DEF Ready, Legal, CurrentVersion

\* So is what is read.
LEMMA ReadIsReady ==
    ASSUME NEW m \in Document, Load(m) # Unreadable, HasRows(Load(m)), NEW n,
           DoneBy(m.sources, n)
    PROVE  Ready(Load(m), n) /\ Legal(Load(m))
<1>1. Load(m) = Repaired(Upgraded(m)) /\ Legal(Load(m))
  BY ReadableIsLegal
<1>2. Upgraded(m) \in Document /\ Upgraded(m).sources = m.sources
  BY UpgradedIs
<1>3. /\ Load(m) \in Document /\ Load(m).sources = m.sources
      /\ \A e \in Range(Load(m).cache) : e.kind # "old"
  BY <1>1, <1>2, RepairedIs
<1> QED
  BY <1>1, <1>3, LegalIsReady
-----------------------------------------------------------------------------
(* What the transactions hand to the budget                                *)

\* Row by row y has the ids of x, and is as sound.
AsSound(y, x) ==
    /\ AsLong(y, x, Decision)
    /\ \A i \in DOMAIN x : y[i].id = x[i].id /\ SoundRow(y[i])

\* A document with other rows, which are sound, is as ready.
LEMMA OtherRows ==
    ASSUME NEW m, NEW n, Ready(m, n), NEW rows, AsSound(rows, m.decisions)
    PROVE  /\ Ready([m EXCEPT !.decisions = rows], n)
           /\ [m EXCEPT !.decisions = rows].sources = m.sources
<1> DEFINE y == [m EXCEPT !.decisions = rows]
<1>1. m \in Document /\ m.decisions \in Seq(Decision)
  BY FieldsOf DEF Ready
<1>2. rows \in Seq(Decision)
  BY <1>1, ListBy DEF AsSound
<1>3. /\ y \in Document /\ y.decisions = rows /\ y.version = m.version /\ y.files = m.files
      /\ y.task = m.task /\ y.cache = m.cache /\ y.sources = m.sources
      /\ y.quarantined = m.quarantined /\ y.audits = m.audits
      /\ y.health = m.health /\ y.sessions = m.sessions
  BY <1>1, <1>2 DEF Document
<1> HIDE DEF y
<1>4. Unique(y.decisions)
  BY <1>3 DEF AsSound, AsLong, Unique, Ready
<1>5. \A r \in RowsOf(y) : SoundRow(r)
  BY <1>3 DEF AsSound, AsLong, RowsOf, Range
<1>6. Ready(y, n)
  BY <1>3, <1>4, <1>5 DEF Ready
<1> QED
  BY <1>3, <1>6 DEF y

\* What is ready has sound rows.
LEMMA ReadyRows ==
    ASSUME NEW m, NEW n, Ready(m, n)
    PROVE  /\ m \in Document /\ m.decisions \in Seq(Decision)
           /\ \A i \in DOMAIN m.decisions :
                 m.decisions[i] \in Decision /\ SoundRow(m.decisions[i])
<1>1. m \in Document /\ m.decisions \in Seq(Decision)
  BY FieldsOf DEF Ready
<1>2. \A i \in DOMAIN m.decisions : m.decisions[i] \in Decision /\ m.decisions[i] \in RowsOf(m)
  BY <1>1, RowAt DEF RowsOf
<1> QED
  BY <1>1, <1>2 DEF Ready

\* A row that is remembered (Recalled).
LEMMA RecalledReady ==
    ASSUME NEW m, NEW n, Ready(m, n), NEW id, NEW when \in Nat
    PROVE  Ready(Recalled(m, id, when), n) /\ Recalled(m, id, when).sources = m.sources
<1> DEFINE used(r) == [r EXCEPT !.used = when]
           t == [i \in DOMAIN m.decisions |->
                    IF m.decisions[i].id = id THEN used(m.decisions[i]) ELSE m.decisions[i]]
<1>1. /\ m \in Document
      /\ \A i \in DOMAIN m.decisions : m.decisions[i] \in Decision /\ SoundRow(m.decisions[i])
  BY ReadyRows
<1>2. Recalled(m, id, when) = [m EXCEPT !.decisions = t]
  BY <1>1 DEF Recalled, Mapped, Document
<1>3. ASSUME NEW r \in Decision, SoundRow(r)
      PROVE  used(r) \in Decision /\ used(r).id = r.id /\ SoundRow(used(r))
  BY <1>3 DEF Decision, SoundRow, NamedIn, ClaimsHuman, ClaimHolds, Has
<1> HIDE DEF used
<1>4. AsSound(t, m.decisions)
  BY <1>1, <1>3 DEF AsSound, AsLong
<1> HIDE DEF t
<1> QED
  BY <1>2, <1>4, OtherRows

\* A row of which the promotion is requested (recall_promote).
LEMMA RequestedReady ==
    ASSUME NEW m, NEW n, Ready(m, n), NEW id
    PROVE  /\ Ready(Flagged(m, id, Requested), n)
           /\ Flagged(m, id, Requested).sources = m.sources
<1> DEFINE t == [i \in DOMAIN m.decisions |->
                    IF m.decisions[i].id = id THEN Requested(m.decisions[i]) ELSE m.decisions[i]]
<1>1. /\ m \in Document
      /\ \A i \in DOMAIN m.decisions : m.decisions[i] \in Decision /\ SoundRow(m.decisions[i])
  BY ReadyRows
<1>2. Flagged(m, id, Requested) = [m EXCEPT !.decisions = t]
  BY <1>1 DEF Flagged, Mapped, Document
<1>3. ASSUME NEW r \in Decision, SoundRow(r)
      PROVE  Requested(r) \in Decision /\ Requested(r).id = r.id /\ SoundRow(Requested(r))
  BY <1>3 DEF Decision, SoundRow, NamedIn, ClaimsHuman, ClaimHolds, Has, Requested, Flags
<1>4. AsSound(t, m.decisions)
  BY <1>1, <1>3 DEF AsSound, AsLong
<1> HIDE DEF t
<1> QED
  BY <1>2, <1>4, OtherRows

\* A row that a human confirmed (tokenmaxxer promote).
LEMMA ConfirmedReady ==
    ASSUME NEW m, NEW n, Ready(m, n), NEW id
    PROVE  /\ Ready(Flagged(m, id, Confirmed), n)
           /\ Flagged(m, id, Confirmed).sources = m.sources
<1> DEFINE t == [i \in DOMAIN m.decisions |->
                    IF m.decisions[i].id = id THEN Confirmed(m.decisions[i]) ELSE m.decisions[i]]
<1>1. /\ m \in Document
      /\ \A i \in DOMAIN m.decisions : m.decisions[i] \in Decision /\ SoundRow(m.decisions[i])
  BY ReadyRows
<1>2. Flagged(m, id, Confirmed) = [m EXCEPT !.decisions = t]
  BY <1>1 DEF Flagged, Mapped, Document
<1>3. ASSUME NEW r \in Decision, SoundRow(r)
      PROVE  Confirmed(r) \in Decision /\ Confirmed(r).id = r.id /\ SoundRow(Confirmed(r))
  BY <1>3 DEF Decision, SoundRow, NamedIn, ClaimsHuman, ClaimHolds, Has, Confirmed, Flags,
              Authors
<1>4. AsSound(t, m.decisions)
  BY <1>1, <1>3 DEF AsSound, AsLong
<1> HIDE DEF t
<1> QED
  BY <1>2, <1>4, OtherRows

\* The id of a new row is no legacy id.
LEMMA NewIsShort ==
    ASSUME NEW n
    PROVE  <<"new", n>> \notin Overlong
<1>1. \A x \in Overlong : Len(x) = 1
  <2>1. \A x \in Overlong : \E name \in Name : x = <<name>>
    BY DocumentAssumption
  <2>2. ASSUME NEW name PROVE Len(<<name>>) = 1
    OBVIOUS
  <2> QED
    BY <2>1, <2>2
<1>2. Len(<<"new", n>>) = 2
  OBVIOUS
<1> QED
  BY <1>1, <1>2

\* A row that gives way refers to the new one (mergeDecisions).
LEMMA GivenWayReady ==
    ASSUME NEW m, NEW n, Ready(m, n), turns \in Nat, Issued(RowsOf(m), turns), NEW id
    PROVE  /\ Ready(GiveWay(m, id), n) /\ GiveWay(m, id).sources = m.sources
           /\ \A r \in RowsOf(GiveWay(m, id)) : r.id # NewId
<1> DEFINE given(r) == [r EXCEPT !.flags = @ \ {"still_valid"},
                                 !.lineage = @ \cup {NewLink(turns)}]
           t == [i \in DOMAIN m.decisions |->
                    IF m.decisions[i].id # id THEN m.decisions[i] ELSE given(m.decisions[i])]
<1>1. /\ m \in Document /\ m.decisions \in Seq(Decision)
      /\ \A i \in DOMAIN m.decisions : m.decisions[i] \in Decision /\ SoundRow(m.decisions[i])
  BY ReadyRows
<1>2. GiveWay(m, id) = [m EXCEPT !.decisions = t]
  BY <1>1 DEF GiveWay, Mapped, Document, NewLink, NewId, NewKey
<1>3. NewLink(turns) \in [id : Id, key : Nat]
  <2>1. "new" \in Name \cup Nat /\ turns \in Name \cup Nat /\ FirstKey + turns \in Nat
    BY StateDocumentAssumption DEF FirstKey
  <2>2. <<"new", turns>> \in Seq(Name \cup Nat)
    BY <2>1
  <2> QED
    BY <2>1, <2>2 DEF NewLink, Id
<1>4. NewLink(turns).id = NewId /\ NewId \notin Overlong
  BY NewIsShort DEF NewLink, NewId
<1>5. \A i \in DOMAIN m.decisions : m.decisions[i].id # NewId
  <2>1. \A i \in DOMAIN m.decisions : NotYet(m.decisions[i], turns)
    BY DEF Issued, RowsOf, Range
  <2> QED
    BY <2>1 DEF NotYet, NewId
<1>6. ASSUME NEW r \in Decision, SoundRow(r), r.id # NewId
      PROVE  given(r) \in Decision /\ given(r).id = r.id /\ SoundRow(given(r))
  <2>1. given(r) \in Decision /\ given(r).id = r.id
    BY <1>3 DEF Decision
  <2>2. /\ given(r).by = r.by
        /\ Has(given(r), "human_review") <=> Has(r, "human_review")
        /\ given(r).flags = r.flags \ {"still_valid"}
        /\ given(r).lineage = r.lineage \cup {NewLink(turns)}
    BY DEF Decision, Has
  <2> HIDE DEF given
  <2>3. NamedIn(given(r)) = NamedIn(r) \cup {NewId}
    BY <1>4, <2>2 DEF NamedIn
  <2>4. ClaimsHuman(given(r)) => ClaimHolds(given(r))
    BY <1>6, <2>2 DEF SoundRow, ClaimsHuman, ClaimHolds, Has
  <2>5. SoundRow(given(r))
    BY <1>4, <1>6, <2>1, <2>2, <2>3, <2>4 DEF SoundRow
  <2> QED
    BY <2>1, <2>5
<1> HIDE DEF given
<1>7. AsSound(t, m.decisions)
  BY <1>1, <1>5, <1>6 DEF AsSound, AsLong
<1>8. \A r \in RowsOf(GiveWay(m, id)) : r.id # NewId
  <2>1. GiveWay(m, id).decisions = t
    BY <1>1, <1>2 DEF Document
  <2> QED
    BY <1>5, <1>7, <2>1 DEF AsSound, AsLong, RowsOf, Range
<1> HIDE DEF t
<1> QED
  BY <1>2, <1>7, <1>8, OtherRows

\* A new row (mergeDecisions).
LEMMA AddedReady ==
    ASSUME NEW m, NEW n, Ready(m, n), turns \in Nat, \A r \in RowsOf(m) : r.id # NewId,
           NEW by \in {"heuristic", "llm"}, NEW text, IsNew(NewRow(by, text), turns)
    PROVE  /\ Ready(AddRow(m, NewRow(by, text)), n)
           /\ AddRow(m, NewRow(by, text)).sources = m.sources
<1> DEFINE q == NewRow(by, text)
           s == m.decisions
           rows == Append(s, q)
           y == AddRow(m, q)
<1>1. /\ m \in Document /\ s \in Seq(Decision)
      /\ \A i \in DOMAIN s : s[i] \in Decision /\ SoundRow(s[i])
  BY ReadyRows
<1>2. q \in Decision /\ q.id = NewId /\ SoundRow(q)
  <2>1. q \in Decision /\ q.id = NewId /\ q.lineage = {} /\ ~ClaimsHuman(q)
    BY DEF IsNew, NewLink, NewId
  <2>2. q.by = by /\ NewId \notin Overlong
    BY NewIsShort DEF NewRow, NewId
  <2> HIDE DEF q
  <2>3. NamedIn(q) = {}
    BY <2>1 DEF NamedIn
  <2> QED
    BY <2>1, <2>2, <2>3 DEF SoundRow
<1> HIDE DEF q
<1>3. /\ Len(s) \in Nat /\ rows \in Seq(Decision) /\ Len(rows) = Len(s) + 1
      /\ rows[Len(s) + 1] = q /\ \A i \in 1 .. Len(s) : rows[i] = s[i]
  BY <1>1, <1>2, AppendProperties, LenProperties
<1>4. /\ y = [m EXCEPT !.decisions = rows]
  BY <1>1 DEF AddRow, Document
<1> HIDE DEF rows, y
<1>5. /\ y \in Document /\ y.decisions = rows /\ y.version = m.version /\ y.files = m.files
      /\ y.task = m.task /\ y.cache = m.cache /\ y.sources = m.sources
      /\ y.quarantined = m.quarantined /\ y.audits = m.audits
      /\ y.health = m.health /\ y.sessions = m.sessions
  BY <1>1, <1>3, <1>4 DEF Document
<1>6. DOMAIN rows = 1 .. Len(s) + 1 /\ DOMAIN s = 1 .. Len(s)
  BY <1>1, <1>3, LenProperties
<1>7. \A i \in 1 .. Len(s) : rows[i] = s[i] /\ rows[i].id # NewId /\ SoundRow(rows[i])
  BY <1>1, <1>3, <1>6 DEF RowsOf, Range
<1>8. \A i \in DOMAIN rows : i = Len(s) + 1 \/ i \in 1 .. Len(s)
  BY <1>3, <1>6
<1>9. Unique(y.decisions)
  <2> SUFFICES ASSUME NEW i \in DOMAIN rows, NEW j \in DOMAIN rows, rows[i].id = rows[j].id
               PROVE  i = j
    BY <1>5 DEF Unique
  <2>1. CASE i \in 1 .. Len(s) /\ j \in 1 .. Len(s)
    BY <1>6, <1>7, <2>1 DEF Ready, Unique
  <2> QED
    BY <1>2, <1>3, <1>7, <1>8, <2>1
<1>10. \A r \in RowsOf(y) : SoundRow(r)
  BY <1>2, <1>3, <1>5, <1>7, <1>8 DEF RowsOf, Range
<1> QED
  BY <1>5, <1>9, <1>10 DEF Ready, y, q

\* What has less than n before it in an order.
FirstIn(S, B, n) == {j \in S : Cardinality({i \in S : <<i, j>> \in B}) < n}

\* That is no more than n.
LEMMA AtMostFirst ==
    ASSUME NEW S, IsFiniteSet(S), NEW B, Orders(B, S), NEW n \in Nat
    PROVE  Cardinality(FirstIn(S, B, n)) \in Nat /\ Cardinality(FirstIn(S, B, n)) <= n
<1> DEFINE first == FirstIn(S, B, n)
           f == [j \in first |-> PlaceIn(S, B)[j]]
<1>1. /\ Cardinality(S) \in Nat
      /\ \A i \in S : PlaceIn(S, B)[i] \in 1 .. Cardinality(S)
      /\ \A i, k \in S : PlaceIn(S, B)[i] = PlaceIn(S, B)[k] => i = k
  BY Places
<1>2. ASSUME NEW j \in first PROVE f[j] \in 1 .. n
  <2> DEFINE c == Cardinality({i \in S : <<i, j>> \in B})
  <2>1. f[j] = c + 1 /\ c < n /\ j \in S
    BY DEF PlaceIn, FirstIn
  <2>2. IsFiniteSet({i \in S : <<i, j>> \in B})
    BY FS_Subset
  <2>3. c \in Nat
    BY <2>2, FS_CardinalityType
  <2> HIDE DEF c, f
  <2> QED
    BY <2>1, <2>3
<1>3. \A j, k \in first : f[j] = f[k] => j = k
  BY <1>1 DEF FirstIn
<1>4. DOMAIN f = first /\ f = [j \in first |-> f[j]]
  OBVIOUS
<1> HIDE DEF f
<1>5. IsFiniteSet(first)
  BY FS_Subset DEF FirstIn
<1> HIDE DEF first
<1>6. f \in Injection(first, 1 .. n)
  BY <1>2, <1>3, <1>4 DEF Injection, IsInjective
<1>7. IsFiniteSet(1 .. n) /\ Cardinality(1 .. n) = n
  BY UpTo
<1>8. Cardinality(first) <= n
  BY <1>6, <1>7, FS_Injection
<1> QED
  BY <1>5, <1>8, FS_CardinalityType DEF first

\* The most recent audits are audits of the list, and no more than asked for.
LEMMA MostRecentIs ==
    ASSUME NEW s \in Seq(AuditRecord), NEW n \in Int
    PROVE  /\ MostRecent(s, n) \in Seq(AuditRecord)
           /\ Range(MostRecent(s, n)) \subseteq Range(s)
           /\ n > 0 => Len(MostRecent(s, n)) <= n
<1> DEFINE after == {p \in (DOMAIN s) \X (DOMAIN s) :
                        \/ s[p[1]].stamp > s[p[2]].stamp
                        \/ s[p[1]].stamp = s[p[2]].stamp /\ p[1] > p[2]}
           recent == {j \in DOMAIN s :
                         Cardinality({i \in DOMAIN s :
                             s[i].stamp > s[j].stamp
                             \/ (s[i].stamp = s[j].stamp /\ i > j)}) < n}
           first == FirstIn(DOMAIN s, after, n)
<1>1. MostRecent(s, n) = IF n = 0 THEN s ELSE At(s, recent)
  BY DEF MostRecent
<1>2. /\ Len(s) \in Nat /\ DOMAIN s = 1 .. Len(s) /\ IsFiniteSet(DOMAIN s)
      /\ \A i \in DOMAIN s : i \in Nat /\ s[i] \in AuditRecord /\ s[i].stamp \in Nat
  <2>1. Len(s) \in Nat /\ DOMAIN s = 1 .. Len(s)
        /\ \A i \in DOMAIN s : i \in Nat /\ s[i] \in AuditRecord
    BY LenProperties
  <2>2. IsFiniteSet(1 .. Len(s))
    BY <2>1, UpTo
  <2> QED
    BY <2>1, <2>2 DEF AuditRecord
<1>3. \A i, j \in DOMAIN s : <<i, j>> \in after <=>
         s[i].stamp > s[j].stamp \/ (s[i].stamp = s[j].stamp /\ i > j)
  OBVIOUS
<1> HIDE DEF after
<1>4. recent = first
  BY <1>3 DEF FirstIn
<1>5. first \in SUBSET DOMAIN s
  BY DEF FirstIn
<1> HIDE DEF recent
<1>6. Orders(after, DOMAIN s)
  <2> HIDE DEF first
  <2>1. \A i \in DOMAIN s : <<i, i>> \notin after
    BY <1>2, <1>3
  <2>2. ASSUME NEW i \in DOMAIN s, NEW j \in DOMAIN s, NEW k \in DOMAIN s,
               <<i, j>> \in after, <<j, k>> \in after
        PROVE  <<i, k>> \in after
    <3>1. /\ s[i].stamp \in Nat /\ s[j].stamp \in Nat /\ s[k].stamp \in Nat
          /\ i \in Nat /\ j \in Nat /\ k \in Nat
      BY <1>2
    <3>2. s[i].stamp > s[j].stamp \/ (s[i].stamp = s[j].stamp /\ i > j)
      BY <1>3, <2>2
    <3>3. s[j].stamp > s[k].stamp \/ (s[j].stamp = s[k].stamp /\ j > k)
      BY <1>3, <2>2
    <3>4. s[i].stamp > s[k].stamp \/ (s[i].stamp = s[k].stamp /\ i > k)
      BY <3>1, <3>2, <3>3
    <3> QED
      BY <1>3, <3>4
  <2>3. \A i, j \in DOMAIN s : i # j => <<i, j>> \in after \/ <<j, i>> \in after
    BY <1>2, <1>3
  <2> QED
    BY <2>1, <2>2, <2>3 DEF Orders
<1>7. n > 0 => Cardinality(first) <= n
  BY <1>2, <1>6, AtMostFirst
<1> HIDE DEF first
<1>8. /\ At(s, first) \in Seq(AuditRecord) /\ Len(At(s, first)) = Cardinality(first)
      /\ Range(At(s, first)) = {s[i] : i \in first}
  BY <1>5, AtSelects
<1>9. Range(At(s, first)) \subseteq Range(s)
  BY <1>5, <1>8 DEF Range
<1>10. CASE n = 0
  BY <1>1, <1>10
<1>11. CASE n # 0
  BY <1>1, <1>4, <1>7, <1>8, <1>9, <1>11
<1> QED
  BY <1>10, <1>11

\* Of two lists the second of which waits as many wait as it has.
LEMMA WaitingOf ==
    ASSUME NEW c \in Seq(AuditRecord), NEW a \in Seq(AuditRecord),
           \A x \in Range(a) : IsPending(x)
    PROVE  Len(a) <= Len(Those(c \o a, IsPending))
<1> DEFINE s == c \o a
           S == {x \in Range(s) : IsPending(x)}
           at == {i \in DOMAIN s : s[i] \in S}
           f == [i \in 1 .. Len(a) |-> Len(c) + i]
<1>1. /\ s \in Seq(AuditRecord) /\ Len(s) = Len(c) + Len(a)
      /\ \A i \in 1 .. Len(c) + Len(a) : s[i] = IF i <= Len(c) THEN c[i] ELSE a[i - Len(c)]
  BY ConcatProperties
<1>2. Len(c) \in Nat /\ Len(a) \in Nat /\ DOMAIN s = 1 .. Len(c) + Len(a)
  BY <1>1, LenProperties
<1> HIDE DEF s
<1>3. Those(s, IsPending) = At(s, at)
  BY DEF Those, Within
<1>4. at \in SUBSET DOMAIN s
  OBVIOUS
<1>5. ASSUME NEW i \in 1 .. Len(a) PROVE f[i] \in at
  <2>1. f[i] = Len(c) + i /\ f[i] \in 1 .. Len(c) + Len(a) /\ ~(f[i] <= Len(c))
        /\ f[i] - Len(c) = i
    BY <1>2
  <2> HIDE DEF f
  <2>2. s[f[i]] = a[i]
    BY <1>1, <2>1
  <2>3. a[i] \in Range(a)
    BY LenProperties DEF Range
  <2>4. IsPending(s[f[i]])
    BY <2>2, <2>3
  <2> QED
    BY <1>2, <2>1, <2>4 DEF Range
<1>6. \A i, j \in 1 .. Len(a) : f[i] = f[j] => i = j
  BY <1>2
<1>7. DOMAIN f = 1 .. Len(a) /\ f = [i \in 1 .. Len(a) |-> f[i]]
  OBVIOUS
<1> HIDE DEF f, at
<1>8. f \in Injection(1 .. Len(a), at)
  BY <1>5, <1>6, <1>7 DEF Injection, IsInjective
<1>9. /\ IsFiniteSet(at) /\ Cardinality(1 .. Len(a)) = Len(a)
  BY <1>1, <1>2, <1>4, PlacesFinite, UpTo
<1>10. Len(a) <= Cardinality(at)
  BY <1>8, <1>9, FS_Injection
<1>11. Len(At(s, at)) = Cardinality(at)
  BY <1>1, <1>4, AtSelects
<1> QED
  BY <1>3, <1>10, <1>11 DEF s

\* What boundedAuditMetadata makes of a list.
LEMMA BoundedIs ==
    ASSUME NEW s \in Seq(AuditRecord)
    PROVE  BoundedAudits(s) \in Seq(AuditRecord) /\ RoomForAudits(BoundedAudits(s))
<1> DEFINE waits == Those(s, IsPending)
           done == Those(s, IsCompleted)
           a == MostRecent(waits, Cap.audits)
           n == Cap.audits - Len(a)
           c == MostRecent(done, n)
           b == c \o a
<1>1. BoundedAudits(s) = b
  BY DEF BoundedAudits
<1>2. /\ waits \in Seq(AuditRecord) /\ done \in Seq(AuditRecord)
      /\ \A x \in Range(waits) : IsPending(x)
  <2> DEFINE S == {x \in Range(s) : IsPending(x)}
             T == {x \in Range(s) : IsCompleted(x)}
  <2>1. waits = Within(s, S) /\ done = Within(s, T)
    BY DEF Those
  <2>2. \A x \in S : IsPending(x)
    OBVIOUS
  <2> HIDE DEF S, T, waits, done
  <2>3. /\ Within(s, S) \in Seq(AuditRecord) /\ Range(Within(s, S)) = Range(s) \cap S
    BY WithinDraws
  <2>4. Within(s, T) \in Seq(AuditRecord)
    BY WithinDraws
  <2> QED
    BY <2>1, <2>2, <2>3, <2>4
<1> HIDE DEF waits, done
<1> DEFINE cap == Cap.audits
<1>3. cap \in Nat
  BY DocumentAssumption
<1>4. a \in Seq(AuditRecord) /\ Range(a) \subseteq Range(waits)
  BY <1>2, <1>3, MostRecentIs
<1>5. \A x \in Range(a) : IsPending(x)
  BY <1>2, <1>4
<1>6. Len(a) \in Nat /\ n = cap - Len(a)
  BY <1>4, LenProperties
<1> HIDE DEF a, cap
<1>7. n \in Int
  BY <1>3, <1>6
<1>8. c \in Seq(AuditRecord) /\ (n > 0 => Len(c) <= n)
  <2> HIDE DEF n
  <2> QED
    BY <1>2, <1>7, MostRecentIs
<1> HIDE DEF c
<1>9. /\ b \in Seq(AuditRecord) /\ Len(b) = Len(c) + Len(a) /\ Len(c) \in Nat
  BY <1>4, <1>8, ConcatProperties, LenProperties
<1>10. Len(a) <= Len(Those(b, IsPending))
  BY <1>4, <1>5, <1>8, WaitingOf
<1>11. Len(Those(b, IsPending)) \in Nat
  <2> DEFINE S == {x \in Range(b) : IsPending(x)}
  <2>1. Those(b, IsPending) = Within(b, S)
    BY DEF Those
  <2> HIDE DEF b, S
  <2>2. Within(b, S) \in Seq(AuditRecord)
    BY <1>9, WithinDraws
  <2> QED
    BY <2>1, <2>2, LenProperties
<1> HIDE DEF b, n
<1>12. Len(b) > cap => Len(Those(b, IsPending)) >= cap
  <2>1. CASE Len(a) >= cap
    BY <1>3, <1>6, <1>10, <1>11, <2>1
  <2>2. CASE Len(a) < cap
    <3>1. n > 0
      BY <1>3, <1>6, <2>2
    <3>2. Len(c) <= n
      BY <1>8, <3>1
    <3>3. ~(Len(b) > cap)
      BY <1>3, <1>6, <1>7, <1>9, <3>2
    <3> QED
      BY <3>3
  <2> QED
    BY <1>3, <1>6, <2>1, <2>2
<1> QED
  BY <1>1, <1>9, <1>12 DEF RoomForAudits, cap

\* The end of a list is no longer than was asked for.
LEMMA AtMostLast ==
    ASSUME NEW D, NEW s \in Seq(D), NEW n \in Nat
    PROVE  LastOf(s, n) \in Seq(D) /\ Len(LastOf(s, n)) <= n
<1>1. /\ LastOf(s, n) \in Seq(D) /\ Len(s) \in Nat
      /\ Len(LastOf(s, n)) = IF Len(s) > n THEN n ELSE Len(s)
  BY LastOfIs, LenProperties
<1> QED
  BY <1>1

\* With other fields that are as they should be a document is as ready.
LEMMA StillReady ==
    ASSUME NEW m, NEW n, Ready(m, n), NEW y \in Document, y.version = m.version,
           y.decisions = m.decisions, y.files = m.files, y.task = m.task,
           y.cache = m.cache, y.quarantined = m.quarantined,
           y.sources = m.sources, RoomForAudits(y.audits),
           Len(y.health) <= Cap.health, Len(y.sessions) <= Cap.sessions
    PROVE  Ready(y, n)
BY DEF Ready, RowsOf

\* A session that is recorded (recordRecentSession).
LEMMA RecordedReady ==
    ASSUME NEW m, NEW n, Ready(m, n), NEW s \in Nat
    PROVE  /\ Ready(RecordSession(m, s), n) /\ RecordSession(m, s).decisions = m.decisions
           /\ RecordSession(m, s).sources = m.sources
<1> DEFINE t == LastOf(Append(m.sessions, s), Cap.sessions)
<1>1. m \in Document /\ m.sessions \in Seq(Nat) /\ Cap.sessions \in Nat
  BY FieldsOf, DocumentAssumption DEF Ready
<1>2. t \in Seq(Nat) /\ Len(t) <= Cap.sessions
  <2>1. Append(m.sessions, s) \in Seq(Nat)
    BY <1>1, AppendProperties
  <2> QED
    BY <1>1, <2>1, AtMostLast
<1>3. CASE s \in Range(m.sessions)
  BY <1>3 DEF RecordSession
<1>4. CASE s \notin Range(m.sessions)
  <2> DEFINE y == [m EXCEPT !.sessions = t]
  <2>1. RecordSession(m, s) = y
    BY <1>1, <1>4 DEF RecordSession, Document
  <2> HIDE DEF t
  <2>2. /\ y \in Document /\ y.version = m.version /\ y.decisions = m.decisions
        /\ y.files = m.files /\ y.task = m.task /\ y.cache = m.cache
        /\ y.quarantined = m.quarantined /\ y.sources = m.sources /\ y.audits = m.audits
        /\ y.health = m.health /\ y.sessions = t
    BY <1>1, <1>2 DEF Document
  <2> HIDE DEF y
  <2>3. /\ RoomForAudits(y.audits) /\ Len(y.health) <= Cap.health
        /\ Len(y.sessions) <= Cap.sessions
    BY <1>2, <2>2 DEF Ready
  <2>4. Ready(y, n)
    BY <2>2, <2>3, StillReady
  <2> QED
    BY <2>1, <2>2, <2>4
<1> QED
  BY <1>3, <1>4

\* What the heuristics observe.
LEMMA ObservedReady ==
    ASSUME NEW m, NEW n, Ready(m, n), clock \in Nat, NEW s \in Nat, NEW t \in Nat
    PROVE  /\ Ready(Observed(m, s, t), n) /\ Observed(m, s, t).decisions = m.decisions
           /\ Observed(m, s, t).sources = m.sources
<1> DEFINE f == IF t = 0 THEN <<>>
                ELSE <<[path |-> 1, touched |-> clock, by |-> "heuristic", reason |-> t]>>
           b == IF t = 0 THEN <<>> ELSE <<t>>
           k == IF t = 0 THEN m.task ELSE [text |-> t, by |-> "heuristic"]
           y == [m EXCEPT !.files = f, !.blockers = b, !.steps = b, !.task = k]
<1>1. m \in Document
  BY DEF Ready
<1>2. f \in Seq(FileRecord) /\ b \in Seq(Nat)
      /\ \A g \in Range(f) : g.by \in {"heuristic", "legacy"}
  <2>1. CASE t = 0
    BY <2>1 DEF Range
  <2>2. CASE t # 0
    <3> DEFINE g == [path |-> 1, touched |-> clock, by |-> "heuristic", reason |-> t]
    <3>1. g \in FileRecord /\ g.by = "heuristic"
      BY DEF FileRecord, Authors
    <3>2. f = <<g>> /\ b = <<t>>
      BY <2>2
    <3> HIDE DEF g, f, b
    <3>3. <<g>> \in Seq(FileRecord) /\ Range(<<g>>) = {g}
      BY <3>1 DEF Range
    <3> QED
      BY <3>1, <3>2, <3>3
  <2> QED
    BY <2>1, <2>2
<1>3. k \in [text : Nat, by : Authors \cup {"none"}] /\ k.by \in {"none", "heuristic", "legacy"}
  <2>1. m.task \in [text : Nat, by : Authors \cup {"none"}]
    BY <1>1, FieldsOf
  <2> QED
    BY <2>1 DEF Ready, Authors
<1>4. Observed(m, s, t) = RecordSession(y, s)
  BY <1>1 DEF Observed, Document
<1> HIDE DEF f, b, k
<1>5. /\ y \in Document /\ y.version = m.version /\ y.decisions = m.decisions
      /\ y.files = f /\ y.task = k /\ y.cache = m.cache
      /\ y.quarantined = m.quarantined /\ y.sources = m.sources /\ y.audits = m.audits
      /\ y.health = m.health /\ y.sessions = m.sessions
  BY <1>1, <1>2, <1>3 DEF Document, FileRecord
<1> HIDE DEF y
<1>6. Ready(y, n)
  BY <1>2, <1>3, <1>5 DEF Ready, RowsOf
<1> QED
  BY <1>4, <1>5, <1>6, RecordedReady

\* An extraction that is completed is the last of the completions.
LEMMA CompletedReady ==
    ASSUME NEW m, NEW n \in Nat, Ready(m, n), n < MaxTurns
    PROVE  /\ Ready(Completed(m, n), n + 1)
           /\ OwnLast(Completed(m, n).sources, {n})
<1> DEFINE e == [key |-> n, kind |-> "current"]
           c == LastOf(Append(m.cache, e), Cap.cache)
           s == LastOf(Append(m.sources, n), Cap.sources)
           y == [m EXCEPT !.cache = c, !.sources = s]
<1>1. /\ m \in Document /\ m.cache \in Seq(CacheRecord) /\ m.sources \in Seq(Nat)
  BY FieldsOf DEF Ready
<1>2. Cap.cache \in Nat
  BY DocumentAssumption
<1>3. Cap.sources \in Nat /\ MaxTurns \in Nat
  BY DocumentAssumption, StateDocumentAssumption
<1>4. Completed(m, n) = y
  BY <1>1 DEF Completed, Document
<1>5. /\ c \in Seq(CacheRecord) /\ Len(c) <= Cap.cache
      /\ \A x \in Range(c) : x.kind = "current"
  <2>1. e \in CacheRecord /\ e.kind = "current"
    BY DEF CacheRecord
  <2> DEFINE a == Append(m.cache, e)
  <2> HIDE DEF e
  <2>2. a \in Seq(CacheRecord)
    BY <1>1, <2>1, AppendProperties
  <2>3. Range(a) = Range(m.cache) \cup {e}
    BY <1>1, <2>1, AppendedHas
  <2>4. c = LastOf(a, Cap.cache)
    OBVIOUS
  <2> HIDE DEF a, c
  <2>5. c \in Seq(CacheRecord) /\ Drawn(c, a) /\ Len(c) <= Cap.cache
    BY <1>2, <2>2, <2>4, LastOfIs, AtMostLast
  <2>6. Range(c) \subseteq Range(a)
    BY <2>2, <2>5, DrawnIsLess
  <2> QED
    BY <2>1, <2>3, <2>5, <2>6 DEF Ready
<1>6. n \notin Range(m.sources)
  BY <1>3 DEF Ready, DoneBy
<1>7. /\ OwnLast(s, {n}) /\ s \in Seq(Nat) /\ Len(s) <= Cap.sources
      /\ Range(s) \subseteq Range(m.sources) \cup {n}
  <2> DEFINE cap == Cap.sources
  <2>1. cap \in Nat
    BY <1>3
  <2> HIDE DEF cap
  <2>2. LET t == LastOf(Append(m.sources, n), cap) IN
        /\ OwnLast(t, {n}) /\ t \in Seq(Nat) /\ Len(t) <= cap
        /\ Range(t) \subseteq Range(m.sources) \cup {n}
    BY <1>1, <1>6, <2>1, AppendedIsSplit
  <2> QED
    BY <2>2 DEF cap
<1> HIDE DEF c, s
<1>8. /\ y \in Document /\ y.version = m.version /\ y.decisions = m.decisions
      /\ y.files = m.files /\ y.task = m.task /\ y.cache = c
      /\ y.quarantined = m.quarantined /\ y.sources = s /\ y.audits = m.audits
      /\ y.health = m.health /\ y.sessions = m.sessions
  BY <1>1, <1>5, <1>7 DEF Document, CacheRecord
<1> HIDE DEF y
<1>9. DoneBy(s, n + 1)
  <2>1. Range(m.sources) \subseteq Nat
    BY <1>1, RangeOfSeq
  <2> QED
    BY <1>3, <1>7, <2>1 DEF Ready, DoneBy
<1>10. Ready(y, n + 1)
  BY <1>5, <1>7, <1>8, <1>9 DEF Ready, RowsOf
<1> QED
  BY <1>4, <1>7, <1>8, <1>10

\* A guard that is persisted (persistAuditGuard).
LEMMA GuardedReady ==
    ASSUME NEW m, NEW n, Ready(m, n), turns \in Nat, clock \in Nat
    PROVE  Ready(Guarded(m), n) /\ Guarded(m).sources = m.sources
<1> DEFINE S == {a \in Range(m.audits) : a.id # turns}
           g == [id |-> turns, state |-> "pending", stamp |-> clock]
           x == Append(Within(m.audits, S), g)
           t == BoundedAudits(x)
           y == [m EXCEPT !.audits = t]
<1>1. m \in Document /\ m.audits \in Seq(AuditRecord)
  BY FieldsOf DEF Ready
<1>2. x \in Seq(AuditRecord)
  <2>1. g \in AuditRecord
    BY DEF AuditRecord
  <2> HIDE DEF S
  <2>2. Within(m.audits, S) \in Seq(AuditRecord)
    BY <1>1, WithinDraws
  <2> QED
    BY <2>1, <2>2, AppendProperties
<1>3. Guarded(m) = y
  BY <1>1 DEF Guarded, Those, Document
<1> HIDE DEF x
<1>4. t \in Seq(AuditRecord) /\ RoomForAudits(t)
  BY <1>2, BoundedIs
<1> HIDE DEF t
<1>5. /\ y \in Document /\ y.version = m.version /\ y.decisions = m.decisions
      /\ y.files = m.files /\ y.task = m.task /\ y.cache = m.cache
      /\ y.quarantined = m.quarantined /\ y.sources = m.sources /\ y.audits = t
      /\ y.health = m.health /\ y.sessions = m.sessions
  BY <1>1, <1>4 DEF Document, AuditRecord
<1> HIDE DEF y
<1>6. Len(m.health) <= Cap.health /\ Len(m.sessions) <= Cap.sessions
  BY DEF Ready
<1>7. Ready(y, n)
  BY <1>4, <1>5, <1>6, StillReady
<1> QED
  BY <1>3, <1>5, <1>7

\* A terminal outcome (persistTerminalAudit).
LEMMA SettledReady ==
    ASSUME NEW m, NEW n, Ready(m, n), Legal(m), NEW id
    PROVE  Ready(Settle(m, id), n) /\ Settle(m, id).sources = m.sources
<1> DEFINE t == Mapped(m.audits, LAMBDA a :
                    IF a.id = id THEN [a EXCEPT !.state = "completed"] ELSE a)
           y == [m EXCEPT !.audits = t]
<1>1. m \in Document /\ m.audits \in Seq(AuditRecord)
  BY FieldsOf DEF Ready
<1>2. Settle(m, id) = y
  BY <1>1 DEF Settle, Document
<1>3. t \in Seq(AuditRecord) /\ Len(t) = Len(m.audits)
  <2>1. \A i \in DOMAIN m.audits : m.audits[i] \in AuditRecord
    BY <1>1, LenProperties
  <2>2. \A a \in AuditRecord : [a EXCEPT !.state = "completed"] \in AuditRecord
    BY DEF AuditRecord
  <2>3. AsLong(t, m.audits, AuditRecord)
    BY <2>1, <2>2 DEF AsLong, Mapped
  <2> HIDE DEF t
  <2> QED
    BY <1>1, <2>3, ListBy
<1>4. RoomForAudits(t)
  <2>1. Len(t) \in Nat /\ Len(t) <= Cap.audits /\ Cap.audits \in Nat
    BY <1>1, <1>3, LenProperties, DocumentAssumption DEF Legal
  <2>2. ~(Len(t) > Cap.audits)
    BY <2>1
  <2> QED
    BY <2>2 DEF RoomForAudits
<1> HIDE DEF t
<1>5. /\ y \in Document /\ y.version = m.version /\ y.decisions = m.decisions
      /\ y.files = m.files /\ y.task = m.task /\ y.cache = m.cache
      /\ y.quarantined = m.quarantined /\ y.sources = m.sources /\ y.audits = t
      /\ y.health = m.health /\ y.sessions = m.sessions
  BY <1>1, <1>3 DEF Document, AuditRecord
<1> HIDE DEF y
<1>6. Len(m.health) <= Cap.health /\ Len(m.sessions) <= Cap.sessions
  BY DEF Ready
<1>7. Ready(y, n)
  BY <1>4, <1>5, <1>6, StillReady
<1> QED
  BY <1>2, <1>5, <1>7

\* The health of a model (persistModelHealth).
LEMMA ReportedReady ==
    ASSUME NEW m, NEW n, Ready(m, n), NEW model \in Nat
    PROVE  Ready(Reported(m, model), n) /\ Reported(m, model).sources = m.sources
<1> DEFINE S == {h \in Range(m.health) : h # model}
           x == Append(Within(m.health, S), model)
           t == LastOf(x, Cap.health)
           y == [m EXCEPT !.health = t]
<1>1. m \in Document /\ m.health \in Seq(Nat) /\ Cap.health \in Nat
  BY FieldsOf, DocumentAssumption DEF Ready
<1>2. Reported(m, model) = y
  BY <1>1 DEF Reported, Those, Document
<1>3. x \in Seq(Nat)
  <2> HIDE DEF S
  <2>1. Within(m.health, S) \in Seq(Nat)
    BY <1>1, WithinDraws
  <2> QED
    BY <2>1, AppendProperties
<1> HIDE DEF x
<1>4. t \in Seq(Nat) /\ Len(t) <= Cap.health
  BY <1>1, <1>3, AtMostLast
<1> HIDE DEF t
<1>5. /\ y \in Document /\ y.version = m.version /\ y.decisions = m.decisions
      /\ y.files = m.files /\ y.task = m.task /\ y.cache = m.cache
      /\ y.quarantined = m.quarantined /\ y.sources = m.sources /\ y.audits = m.audits
      /\ y.health = t /\ y.sessions = m.sessions
  BY <1>1, <1>4 DEF Document
<1> HIDE DEF y
<1>6. /\ RoomForAudits(y.audits) /\ Len(y.health) <= Cap.health
      /\ Len(y.sessions) <= Cap.sessions
  BY <1>4, <1>5 DEF Ready
<1>7. Ready(y, n)
  BY <1>5, <1>6, StillReady
<1> QED
  BY <1>2, <1>5, <1>7
-----------------------------------------------------------------------------
(* The inductive invariant of what is committed                            *)

\* The file is a document, and so is the memory that a transaction hands to
\* the budget, whose verdict is on that memory.
BInv ==
    /\ IInv
    /\ file \in Document /\ DoneBy(file.sources, turns)
    /\ pending # Idle =>
          /\ Ready(pending.memory, turns)
          /\ OwnLast(pending.memory.sources, pending.protection.sources)
          /\ pending.verdict \in {Unjudged,
                                  Fit(pending.memory, clock, pending.protection)}

\* What is ready is ready a turn later.
LEMMA ReadyLater ==
    ASSUME NEW m, NEW n \in Nat, Ready(m, n)
    PROVE  Ready(m, n + 1)
<1>1. m.sources \in Seq(Nat)
  BY FieldsOf DEF Ready
<1>2. Range(m.sources) \subseteq Nat
  BY <1>1, RangeOfSeq
<1>3. DoneBy(m.sources, n + 1)
  BY <1>2 DEF Ready, DoneBy
<1> QED
  BY <1>3 DEF Ready

\* What the next turn may read.
LEMMA ReadNow ==
    ASSUME BInv, Read # Unreadable
    PROVE  /\ turns \in Nat /\ clock \in Nat /\ Ready(Read, turns) /\ Legal(Read)
           /\ Read.sources \in Seq(Nat) /\ Issued(RowsOf(Read), turns)
           /\ \A r \in RowsOf(Read) : r.id # NewId
<1>1. /\ IInv /\ file \in Document /\ DoneBy(file.sources, turns)
      /\ turns \in Nat /\ clock \in Nat
  BY DEF BInv, IInv
<1>2. HasRows(Read) /\ Issued(RowsOf(Read), turns)
  BY <1>1, ReadIsGood DEF Good
<1>3. Ready(Read, turns) /\ Legal(Read)
  BY <1>1, <1>2, ReadIsReady DEF Read
<1>4. Read.sources \in Seq(Nat)
  BY <1>3, FieldsOf DEF Ready
<1>5. \A r \in RowsOf(Read) : r.id # NewId
  <2>1. \A r \in RowsOf(Read) : NotYet(r, turns)
    BY <1>2 DEF Issued
  <2> QED
    BY <1>1, <2>1 DEF NotYet, NewId
<1> QED
  BY <1>1, <1>2, <1>3, <1>4, <1>5

\* What keeps no completions apart.
LEMMA ProtectsNoSource ==
    /\ Unprotected.sources = {}
    /\ \A S : [Unprotected EXCEPT !.rows = S].sources = {}
    /\ \A S : [Unprotected EXCEPT !.audits = S].sources = {}
    /\ \A S : [Unprotected EXCEPT !.sources = S].sources = S
BY DEF Unprotected

\* A transaction begins with memory that is ready.
LEMMA BeginReady ==
    ASSUME BInv, IInv', NEW m, NEW p, Begin(m, p), Ready(m, turns + 1),
           OwnLast(m.sources, p.sources)
    PROVE  BInv'
<1>1. /\ turns' = turns + 1 /\ file' = file /\ clock' = clock
      /\ pending' = [memory |-> m, protection |-> p, verdict |-> Unjudged]
  BY DEF Begin
<1>2. turns \in Nat /\ file \in Document /\ DoneBy(file.sources, turns)
  BY DEF BInv, IInv
<1>3. DoneBy(file.sources, turns + 1)
  <2>1. file.sources \in Seq(Nat)
    BY <1>2, FieldsOf
  <2>2. Range(file.sources) \subseteq Nat
    BY <2>1, RangeOfSeq
  <2> QED
    BY <1>2, <2>2 DEF DoneBy
<1>4. file' \in Document /\ DoneBy(file'.sources, turns')
  BY <1>1, <1>2, <1>3
<1>5. /\ pending'.memory = m /\ pending'.protection = p /\ pending'.verdict = Unjudged
  BY <1>1
<1>6. /\ Ready(pending'.memory, turns')
      /\ OwnLast(pending'.memory.sources, pending'.protection.sources)
      /\ pending'.verdict \in {Unjudged,
                               Fit(pending'.memory, clock', pending'.protection)}
  BY <1>1, <1>5
<1> QED
  BY <1>4, <1>6 DEF BInv

\* A transaction that protects no completion.
LEMMA BeginFree ==
    ASSUME BInv, IInv', NEW m, NEW p, Begin(m, p), Ready(m, turns), p.sources = {}
    PROVE  BInv'
<1>1. turns \in Nat
  BY DEF BInv, IInv
<1>2. Ready(m, turns + 1)
  BY <1>1, ReadyLater
<1>3. m.sources \in Seq(Nat)
  BY FieldsOf DEF Ready
<1>4. OwnLast(m.sources, p.sources)
  BY <1>3, NothingIsSplit
<1> QED
  BY <1>2, <1>4, BeginReady

\* The heuristic transaction.
LEMMA ObserveReady ==
    ASSUME BInv, IInv', Read # Unreadable, NEW s \in Session, NEW t \in Text \cup {0},
           Observe(Read, s, t)
    PROVE  BInv'
<1> DEFINE g == Observed(Read, s, t)
           q == NewRow("heuristic", t)
<1>1. /\ turns \in Nat /\ clock \in Nat /\ Ready(Read, turns)
      /\ Issued(RowsOf(Read), turns) /\ \A r \in RowsOf(Read) : r.id # NewId
  BY ReadNow
<1>2. s \in Nat /\ t \in Nat /\ IInv
  BY StateDocumentAssumption DEF BInv
<1>3. Ready(g, turns) /\ RowsOf(g) = RowsOf(Read)
  BY <1>1, <1>2, ObservedReady DEF RowsOf
<1>4. t # 0 => IsNew(q, turns)
  BY <1>2, NewRowIsNew
<1>5. \/ Begin(g, Unprotected)
      \/ t # 0 /\ Begin(AddRow(g, q), Unprotected)
      \/ \E r \in RowsOf(Read) : t # 0 /\ Begin(AddRow(GiveWay(g, r.id), q), Unprotected)
      \/ \E r \in RowsOf(Read) : Begin(Recalled(g, r.id, s), Unprotected)
  BY DEF Observe
<1>6. Unprotected.sources = {}
  BY ProtectsNoSource
<1> HIDE DEF g
<1>7. ASSUME NEW m, Ready(m, turns), Begin(m, Unprotected) PROVE BInv'
  BY <1>6, <1>7, BeginFree
<1>8. CASE Begin(g, Unprotected)
  BY <1>3, <1>7, <1>8
<1>9. CASE t # 0 /\ Begin(AddRow(g, q), Unprotected)
  <2>1. Ready(AddRow(g, q), turns)
    BY <1>1, <1>3, <1>4, <1>9, AddedReady
  <2> HIDE DEF q
  <2> QED
    BY <1>7, <1>9, <2>1
<1>10. ASSUME NEW r \in RowsOf(Read), t # 0, Begin(AddRow(GiveWay(g, r.id), q), Unprotected)
       PROVE  BInv'
  <2> DEFINE h == GiveWay(g, r.id)
  <2>1. Ready(h, turns) /\ \A k \in RowsOf(h) : k.id # NewId
    BY <1>1, <1>3, GivenWayReady
  <2> HIDE DEF h
  <2>2. Ready(AddRow(h, q), turns)
    BY <1>1, <1>4, <1>10, <2>1, AddedReady
  <2> HIDE DEF q
  <2> QED
    BY <1>7, <1>10, <2>2 DEF h
<1>11. ASSUME NEW r \in RowsOf(Read), Begin(Recalled(g, r.id, s), Unprotected)
       PROVE  BInv'
  <2>1. Ready(Recalled(g, r.id, s), turns)
    BY <1>2, <1>3, RecalledReady
  <2> QED
    BY <1>7, <1>11, <2>1
<1> QED
  BY <1>5, <1>8, <1>9, <1>10, <1>11

\* The final merge.
LEMMA LearnReady ==
    ASSUME BInv, IInv', Read # Unreadable, NEW s \in Session, NEW t \in Text,
           Learn(Read, s, t)
    PROVE  BInv'
<1> DEFINE q == NewRow("llm", t)
           added == AddRow(Read, q)
           told == RecordSession(added, s)
           done == Completed(told, turns)
<1>1. /\ turns \in Nat /\ clock \in Nat /\ Ready(Read, turns) /\ IInv /\ s \in Nat
      /\ \A r \in RowsOf(Read) : r.id # NewId
  BY ReadNow, StateDocumentAssumption DEF BInv
<1>2. Begin(done, [Unprotected EXCEPT !.sources = {turns}])
  BY DEF Learn
<1>3. turns < MaxTurns
  BY <1>2 DEF Begin
<1>4. IsNew(q, turns)
  BY <1>1, NewRowIsNew
<1>5. Ready(added, turns)
  BY <1>1, <1>4, AddedReady
<1> HIDE DEF added
<1>6. Ready(told, turns)
  BY <1>1, <1>5, RecordedReady
<1> HIDE DEF told
<1>7. Ready(done, turns + 1) /\ OwnLast(done.sources, {turns})
  BY <1>1, <1>3, <1>6, CompletedReady
<1>8. [Unprotected EXCEPT !.sources = {turns}].sources = {turns}
  BY ProtectsNoSource
<1> HIDE DEF done
<1> DEFINE p == [Unprotected EXCEPT !.sources = {turns}]
<1>9. p.sources = {turns} /\ Begin(done, p)
  BY <1>2, <1>8
<1> HIDE DEF p
<1> QED
  BY <1>7, <1>9, BeginReady

\* The transactions about audits, model health and promotion.
LEMMA OthersReady ==
    ASSUME BInv, IInv', Read # Unreadable,
           \/ PersistAuditGuard(Read)
           \/ \E id \in Ids(Range(Read.audits)) : PersistTerminal(Read, id)
           \/ \E model \in Model : PersistModelHealth(Read, model)
           \/ RecallPromote(Read)
           \/ Confirm(Read)
    PROVE  BInv'
<1>1. turns \in Nat /\ clock \in Nat /\ Ready(Read, turns) /\ Legal(Read)
  BY ReadNow
<1>2. ASSUME NEW m, NEW p, Ready(m, turns), Begin(m, p), p.sources = {} PROVE BInv'
  BY <1>2, BeginFree
<1>3. /\ Unprotected.sources = {}
      /\ \A S : [Unprotected EXCEPT !.rows = S].sources = {}
      /\ \A S : [Unprotected EXCEPT !.audits = S].sources = {}
  BY ProtectsNoSource
<1>4. CASE PersistAuditGuard(Read)
  <2>1. Ready(Guarded(Read), turns)
    BY <1>1, GuardedReady
  <2> QED
    BY <1>2, <1>3, <1>4, <2>1 DEF PersistAuditGuard
<1>5. ASSUME NEW id, PersistTerminal(Read, id) PROVE BInv'
  <2>1. Ready(Settle(Read, id), turns)
    BY <1>1, SettledReady
  <2> QED
    BY <1>2, <1>3, <1>5, <2>1 DEF PersistTerminal
<1>6. ASSUME NEW model \in Model, PersistModelHealth(Read, model) PROVE BInv'
  <2>1. Ready(Reported(Read, model), turns)
    BY <1>1, ReportedReady, StateDocumentAssumption
  <2> QED
    BY <1>2, <1>3, <1>6, <2>1 DEF PersistModelHealth
<1>7. CASE RecallPromote(Read)
  <2>1. PICK r \in RowsOf(Read) :
           Begin(Flagged(Read, r.id, Requested), [Unprotected EXCEPT !.rows = {r.id}])
    BY <1>7 DEF RecallPromote
  <2>2. Ready(Flagged(Read, r.id, Requested), turns)
    BY <1>1, RequestedReady
  <2> QED
    BY <1>2, <1>3, <2>1, <2>2
<1>8. CASE Confirm(Read)
  <2>1. Begin(Flagged(Read, shown.id, Confirmed), [Unprotected EXCEPT !.rows = {shown.id}])
    BY <1>8 DEF Confirm
  <2>2. Ready(Flagged(Read, shown.id, Confirmed), turns)
    BY <1>1, ConfirmedReady
  <2> QED
    BY <1>2, <1>3, <2>1, <2>2
<1> QED
  BY <1>4, <1>5, <1>6, <1>7, <1>8

\* What is committed is a document with the completions of the turns so far.
LEMMA FittedIsDocument ==
    ASSUME NEW m, NEW n, Ready(m, n), NEW now, NEW p
    PROVE  Fitted(m, now, p) \in Document /\ DoneBy(Fitted(m, now, p).sources, n)
<1>1. m \in Document
  BY DEF Ready
<1>2. /\ Fitted(m, now, p) \in Document
      /\ Fitted(m, now, p).sources = Booked(m, now, p).sources
  BY <1>1, FittedLightens DEF Lightened
<1> DEFINE f == FreeSources(m, p)
           o == OwnSources(m, p)
<1>3. PICK k \in 0 .. Len(f) : Booked(m, now, p).sources = LastOf(f, k) \o o
  BY <1>1, BookedSources
<1>4. /\ f \in Seq(Nat) /\ o \in Seq(Nat) /\ k \in Nat
      /\ Range(f) \subseteq Range(m.sources) /\ Range(o) \subseteq Range(m.sources)
  <2>1. m.sources \in Seq(Nat)
    BY <1>1, FieldsOf
  <2> DEFINE S == Range(m.sources) \ p.sources
             T == p.sources
  <2>2. f = Within(m.sources, S) /\ o = Within(m.sources, T)
    BY DEF FreeSources, OwnSources
  <2> HIDE DEF S, T, f, o
  <2>3. /\ Within(m.sources, S) \in Seq(Nat)
        /\ Range(Within(m.sources, S)) = Range(m.sources) \cap S
    BY <2>1, WithinDraws
  <2>4. /\ Within(m.sources, T) \in Seq(Nat)
        /\ Range(Within(m.sources, T)) = Range(m.sources) \cap T
    BY <2>1, WithinDraws
  <2>5. Len(f) \in Nat
    BY <2>2, <2>3, LenProperties
  <2> QED
    BY <2>2, <2>3, <2>4, <2>5
<1> HIDE DEF f, o
<1> DEFINE u == LastOf(f, k)
<1>5. u \in Seq(Nat) /\ Drawn(u, f)
  BY <1>4, LastOfIs
<1> HIDE DEF u
<1>6. Range(u) \subseteq Range(f)
  BY <1>4, <1>5, DrawnIsLess
<1>7. Range(u \o o) = Range(u) \cup Range(o)
  BY <1>4, <1>5, RangeConcatenation
<1>8. Fitted(m, now, p).sources = u \o o
  BY <1>2, <1>3 DEF u
<1> QED
  BY <1>2, <1>4, <1>6, <1>7, <1>8 DEF Ready, DoneBy

\* Every step keeps what is committed a document.
LEMMA BStepKeeps == BInv /\ [Next]_vars => BInv'
<1> SUFFICES ASSUME BInv, [Next]_vars PROVE BInv'
  OBVIOUS
<1>1. IInv /\ IInv'
  BY StepKeeps DEF BInv
<1> DEFINE others ==
      \/ PersistAuditGuard(Read)
      \/ \E id \in Ids(Range(Read.audits)) : PersistTerminal(Read, id)
      \/ \E model \in Model : PersistModelHealth(Read, model)
      \/ RecallPromote(Read)
      \/ Confirm(Read)
    reads ==
      /\ pending = Idle /\ Read # Unreadable
      /\ \/ \E s \in Session, t \in Text \cup {0} : Observe(Read, s, t)
         \/ \E s \in Session, t \in Text : Learn(Read, s, t)
         \/ others
         \/ Show(Read)
<1>2. \/ reads \/ LookAway \/ FitToBudget \/ Commit
      \/ Refuse \/ Tick \/ UNCHANGED vars
  BY DEF Next
<1>3. ASSUME UNCHANGED <<file, turns, clock, pending>> PROVE BInv'
  BY <1>1, <1>3 DEF BInv
<1>4. ASSUME UNCHANGED <<file, turns>>, pending' = Idle PROVE BInv'
  BY <1>1, <1>4 DEF BInv
<1>5. CASE reads
  <2>1. CASE \E s \in Session, t \in Text \cup {0} : Observe(Read, s, t)
    BY <1>1, <1>5, <2>1, ObserveReady
  <2>2. CASE \E s \in Session, t \in Text : Learn(Read, s, t)
    BY <1>1, <1>5, <2>2, LearnReady
  <2>3. CASE others
    BY <1>1, <1>5, <2>3, OthersReady
  <2>4. CASE Show(Read)
    BY <1>3, <2>4 DEF Show
  <2> QED
    BY <1>5, <2>1, <2>2, <2>3, <2>4
<1>6. CASE LookAway
  BY <1>3, <1>6 DEF LookAway
<1>7. CASE FitToBudget
  <2> DEFINE v == Fit(pending.memory, clock, pending.protection)
  <2>1. /\ pending # Idle /\ pending' = [pending EXCEPT !.verdict = v]
        /\ UNCHANGED <<file, turns, clock>>
    BY <1>7 DEF FitToBudget
  <2> HIDE DEF v
  <2>2. /\ pending'.memory = pending.memory /\ pending'.protection = pending.protection
        /\ pending'.verdict = v
    BY <1>1, <2>1 DEF IInv
  <2>3. v = Fit(pending'.memory, clock', pending'.protection)
    BY <2>1, <2>2 DEF v
  <2>4. /\ Ready(pending.memory, turns)
        /\ OwnLast(pending.memory.sources, pending.protection.sources)
        /\ file \in Document /\ DoneBy(file.sources, turns)
    BY <2>1 DEF BInv
  <2> QED
    BY <1>1, <2>1, <2>2, <2>3, <2>4 DEF BInv
<1>8. CASE Commit
  <2>1. /\ pending # Idle /\ pending.verdict.fits /\ file' = pending.verdict.memory
        /\ pending' = Idle /\ UNCHANGED <<turns, clock>>
    BY <1>8 DEF Commit, Judged, Accepted, Idle
  <2>2. /\ Ready(pending.memory, turns)
        /\ file' = Fitted(pending.memory, clock, pending.protection)
    BY <1>1, <2>1 DEF BInv, IInv
  <2>3. file' \in Document /\ DoneBy(file'.sources, turns')
    BY <2>1, <2>2, FittedIsDocument
  <2> QED
    BY <1>1, <2>1, <2>3 DEF BInv
<1>9. CASE Refuse
  BY <1>4, <1>9 DEF Refuse
<1>10. CASE Tick
  <2>1. pending = Idle /\ UNCHANGED <<file, turns, pending>>
    BY <1>10 DEF Tick
  <2> QED
    BY <1>4, <2>1
<1>11. CASE UNCHANGED vars
  BY <1>3, <1>11 DEF vars
<1> HIDE DEF reads
<1> QED
  BY <1>2, <1>5, <1>6, <1>7, <1>8, <1>9, <1>10, <1>11

\* Behaviours start from documents.
LEMMA BInitHolds == Init => BInv
<1> SUFFICES ASSUME Init PROVE BInv
  OBVIOUS
<1>1. IInv /\ file \in InitialFiles /\ pending = Idle
  BY InitGood DEF Init
<1>2. file \in Document /\ DoneBefore(file)
  BY <1>1, StateDocumentAssumption
<1>3. DoneBy(file.sources, turns)
  BY <1>2 DEF DoneBefore, DoneBy
<1> QED
  BY <1>1, <1>2, <1>3 DEF BInv

\* The memory that a transaction hands to the budget is legal but for the
\* length of its texts, and what is committed is a document (memory/writer.ts,
\* budget.ts).
THEOREM CandidatesReady == Spec => []BInv
BY BInitHolds, BStepKeeps, PTL DEF Spec
-----------------------------------------------------------------------------
(* What a commit leaves                                                    *)

\* A transaction has been judged, and what it wants to commit fits.
Fits == Judged /\ pending.verdict.fits

\* What the budget is given and what it makes of it.
LEMMA JudgedIs ==
    ASSUME BInv, Judged
    PROVE  /\ pending # Idle /\ Ready(pending.memory, turns) /\ pending.memory \in Document
           /\ clock \in Nat
           /\ OwnLast(pending.memory.sources, pending.protection.sources)
           /\ pending.verdict = Fit(pending.memory, clock, pending.protection)
           /\ pending.verdict.fits <=> ~Over(Fitted(pending.memory, clock, pending.protection))
           /\ pending.verdict.fits =>
                 pending.verdict.memory = Fitted(pending.memory, clock, pending.protection)
<1>1. pending # Idle
  BY DEF Judged, Idle
<1>2. pending.verdict = Fit(pending.memory, clock, pending.protection)
  BY <1>1 DEF BInv, Judged
<1>3. Ready(pending.memory, turns) /\ clock \in Nat
  BY <1>1 DEF BInv, IInv
<1>4. pending.memory \in Document
  BY <1>3 DEF Ready
<1> DEFINE v == pending.verdict
           f == Fitted(pending.memory, clock, pending.protection)
<1>5. /\ v.fits <=> ~Over(f)
      /\ v.fits => v.memory = f
  <2>1. CASE ~Over(f)
    <3>1. v = [fits |-> TRUE, memory |-> f]
      BY <1>2, <2>1 DEF Fit
    <3> HIDE DEF f, v
    <3> QED
      BY <2>1, <3>1
  <2>2. CASE Over(f)
    <3>1. ~v.fits
      BY <1>2, <2>2 DEF Fit
    <3> QED
      BY <2>2, <3>1
  <2> QED
    BY <2>1, <2>2
<1> QED
  BY <1>1, <1>2, <1>3, <1>4, <1>5 DEF BInv

\* Of the completions the newest stay, and the transaction's own.
LEMMA SourcesStay ==
    ASSUME NEW m \in Document, NEW now, NEW p, OwnLast(m.sources, p.sources)
    PROVE  /\ IsSuffix(Fitted(m, now, p).sources, m.sources)
           /\ Range(m.sources) \cap p.sources \subseteq Range(Fitted(m, now, p).sources)
<1> DEFINE s == m.sources
           free == FreeSources(m, p)
           own == OwnSources(m, p)
           t == Fitted(m, now, p).sources
<1>1. s \in Seq(Nat) /\ free \in Seq(Nat) /\ own \in Seq(Nat)
  BY FieldsOf, BooksCut
<1>2. s = free \o own
  BY DEF OwnLast, FreeSources, OwnSources
<1>3. PICK n \in 0 .. Len(free) : t = LastOf(free, n) \o own
  <2>1. t = Booked(m, now, p).sources
    BY FittedLightens
  <2>2. \E n \in 0 .. Len(free) : Booked(m, now, p).sources = LastOf(free, n) \o own
    BY BookedSources
  <2> QED
    BY <2>1, <2>2
<1>4. Range(own) = Range(s) \cap p.sources
  BY <1>1, WithinDraws DEF OwnSources
<1> HIDE DEF s, free, own, t
<1>5. IsSuffix(t, s)
  BY <1>1, <1>2, <1>3, LastOfBoth
<1>6. n \in Nat /\ LastOf(free, n) \in Seq(Nat)
  BY <1>1, <1>3, LastOfIs
<1>7. Range(t) = Range(LastOf(free, n)) \cup Range(own)
  BY <1>1, <1>3, <1>6, RangeConcatenation
<1> QED
  BY <1>4, <1>5, <1>7 DEF s, t

\* What the other models take a commit to do (budget.ts, stages 0 to 10).
THEOREM FitsAsAssumedHolds == Spec => []FitsAsAssumed
<1> DEFINE c == pending.memory
           p == pending.protection
           r == pending.verdict.memory
           Rows == LeavesRows(c, r)
           Left == Fits => Rows
<1>1. ASSUME BInv, Left PROVE FitsAsAssumed
  <2>1. SUFFICES ASSUME Judged, pending.verdict.fits PROVE AsAssumed(c, r)
    BY DEF FitsAsAssumed
  <2>2. /\ c \in Document /\ clock \in Nat /\ OwnLast(c.sources, p.sources)
        /\ r = Fitted(c, clock, p)
    BY <1>1, <2>1, JudgedIs
  <2>3. LeavesRows(c, r)
    BY <1>1, <2>1 DEF Fits
  <2>4. p = pending.protection
    OBVIOUS
  <2> HIDE DEF c, p, r
  <2>5. ASSUME Size(c) <= MaxBytes PROVE Ids(Current(c)) \subseteq Ids(RowsOf(r))
    <3> SUFFICES ASSUME NEW x \in Current(c) PROVE x.id \in Ids(RowsOf(r))
      BY DEF Ids
    <3>1. /\ x \in RowsOf(c) /\ Has(x, "still_valid") /\ x.stamp # NoTime
          /\ clock - x.stamp <= Horizon
      BY DEF Current
    <3>2. x \in Decision
      BY <2>2, <3>1, FieldsOf, RangeOfSeq DEF RowsOf
    <3>3. x.stamp \in Nat
      BY <3>2 DEF Decision
    <3>4. clock <= x.stamp + Horizon
      BY <2>2, <3>1, <3>3, BudgetAssumption
    <3>5. PICK q \in RowsOf(Tidied(c, clock, p)) : q.id = x.id
      BY <2>2, <3>1, <3>4, CurrentStays
    <3>6. r = Tidied(c, clock, p)
      BY <2>2, <2>5, FittedLightens
    <3> QED
      BY <3>5, <3>6 DEF Ids
  <2>6. IsSuffix(r.sources, c.sources) /\ Range(c.sources) \cap p.sources \subseteq Range(r.sources)
    BY <2>2, SourcesStay
  <2>7. Guards(c) \subseteq Range(r.audits)
    <3> SUFFICES ASSUME NEW a \in Guards(c) PROVE a \in Range(r.audits)
      OBVIOUS
    <3>1. a \in Range(c.audits) /\ IsPending(a) /\ ~(clock - a.stamp > AuditTimeout)
      BY DEF Guards, Stale, IsPending
    <3> QED
      BY <2>2, <3>1, GuardsStay, FittedLightens
  <2> QED
    BY <2>3, <2>4, <2>5, <2>6, <2>7 DEF AsAssumed
<1>2. Spec => []Left
  <2>1. (Judged /\ pending.verdict.fits =>
           LeavesRows(pending.memory, pending.verdict.memory)) => Left
    BY DEF Fits
  <2> QED
    BY <2>1, RowsAreLeft, PTL
<1> QED
  BY <1>1, <1>2, CandidatesReady, PTL
=============================================================================
