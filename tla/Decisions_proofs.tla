-------------------------- MODULE Decisions_proofs --------------------------
(***************************************************************************)
(* Theorems about the decisions of a project, for any numbers of rows,     *)
(* topics, texts and humans and any memories that the schema accepts.      *)
(***************************************************************************)
EXTENDS Decisions, FiniteSetTheorems, WellFoundedInduction, TLAPS

-----------------------------------------------------------------------------
(* Rows.                                                                   *)

Sound(m) == IsMemory(m) /\ SchemaSound(m)

RowSound(i, r) ==
    /\ r \in Decision
    /\ (r.confidence = "human-reviewed" \/ "human_review" \in r.flags) => HumanTrust(r)
    /\ i # r.superseded_by /\ i \notin r.conflicts_with

\* What no pass of the reader changes in a row.
SameRow(r, s) ==
    /\ s.topic = r.topic /\ s.decision = r.decision /\ s.timestamp = r.timestamp
    /\ HumanTrust(s) <=> HumanTrust(r)

Marked(r) == "human_conflict_quarantined" \in r.flags

\* A sound memory has sound rows, and nothing else makes it sound.
LEMMA SoundRows ==
    ASSUME NEW m, Sound(m), NEW i \in DOMAIN m
    PROVE  i \in Id /\ i \in Nat /\ i # NoId /\ RowSound(i, m[i])
BY DecisionsAssumption DEF Sound, IsMemory, SchemaSound, RowSound

LEMMA RowsSound ==
    ASSUME NEW m, m = [i \in DOMAIN m |-> m[i]],
           DOMAIN m \subseteq Id, IsFiniteSet(DOMAIN m),
           \A i \in DOMAIN m : RowSound(i, m[i])
    PROVE  Sound(m)
BY DEF Sound, IsMemory, SchemaSound, RowSound

LEMMA SupersededRow ==
    ASSUME NEW i, NEW r, RowSound(i, r), NEW w \in Id, i # w
    PROVE  LET s == Superseded(r, w) IN
           /\ RowSound(i, s) /\ SameRow(r, s) /\ ~Valid(s)
           /\ s.conflicts_with = r.conflicts_with
           /\ Marked(s) <=> Marked(r)
BY DEF RowSound, Superseded, SameRow, Marked, Valid, HumanTrust, Decision, Flag

LEMMA ContestedRow ==
    ASSUME NEW i, NEW r, RowSound(i, r), ~HumanTrust(r), NEW H \in SUBSET Id, i \notin H
    PROVE  LET s == Contested(r, H) IN
           RowSound(i, s) /\ SameRow(r, s) /\ ~Valid(s)
BY DEF RowSound, Contested, SameRow, Valid, HumanTrust, Decision, Flag

LEMMA QuarantinedRow ==
    ASSUME NEW i, NEW r, RowSound(i, r), NEW H \in SUBSET Id, i \notin H
    PROVE  LET s == Quarantined(r, H) IN
           RowSound(i, s) /\ SameRow(r, s) /\ ~Valid(s) /\ Marked(s)
BY DEF RowSound, Quarantined, SameRow, Valid, Marked, HumanTrust, Decision, Flag

\* A human's trust without validity is never a claim to it.
LEMMA TrustOfSound ==
    ASSUME NEW i, NEW r, RowSound(i, r), ~HumanTrust(r)
    PROVE  r.confidence # "human-reviewed" /\ "human_review" \notin r.flags
BY DEF RowSound

-----------------------------------------------------------------------------
(* Sets and orders.                                                        *)

LEMMA AtMostOne ==
    ASSUME NEW S, IsFiniteSet(S)
    PROVE  Cardinality(S) <= 1 <=> \A x, y \in S : x = y
<1>1. Cardinality(S) \in Nat /\ (Cardinality(S) = 0 <=> S = {})
  BY FS_CardinalityType, FS_EmptySet
<1>2. Cardinality(S) = 1 <=> \E x : S = {x}
  BY FS_Singleton
<1>3. (\A x, y \in S : x = y) <=> (S = {} \/ \E x : S = {x})
  OBVIOUS
<1>4. Cardinality(S) <= 1 <=> Cardinality(S) = 0 \/ Cardinality(S) = 1
  BY <1>1
<1> QED
  BY <1>1, <1>2, <1>3, <1>4, Zenon

LEMMA TwoOrMore ==
    ASSUME NEW S, IsFiniteSet(S)
    PROVE  /\ Cardinality(S) > 1 <=> \E x, y \in S : x # y
           /\ Cardinality(S) >= 2 <=> \E x, y \in S : x # y
<1>1. Cardinality(S) \in Nat
  BY FS_CardinalityType
<1>2. (Cardinality(S) > 1 <=> ~(Cardinality(S) <= 1))
      /\ (Cardinality(S) >= 2 <=> ~(Cardinality(S) <= 1))
  BY <1>1
<1> QED
  BY <1>2, AtMostOne, Zenon

LEMMA LeastNat ==
    ASSUME NEW S \in SUBSET Nat, S # {}
    PROVE  \E x \in S : \A y \in S : x <= y
<1>1. PICK x \in S : \A y \in S : <<y, x>> \notin OpToRel(<, Nat)
  BY WFMin, NatLessThanWellFounded, Zenon
<1>2. \A y \in S : ~(y < x)
  BY <1>1, Zenon DEF OpToRel
<1>3. \A y \in S : x <= y
  BY <1>2
<1> QED
  BY <1>3

\* The oldest of some rows is older than all others.
LEMMA OldestIs ==
    ASSUME NEW m, Sound(m), NEW S \in SUBSET DOMAIN m, S # {}
    PROVE  Oldest(m, S) \in S /\ \A j \in S \ {Oldest(m, S)} : Before(m, Oldest(m, S), j)
<1>1. \A i \in S : m[i].timestamp \in Nat /\ i \in Nat
  BY SoundRows DEF RowSound, Decision
<1> DEFINE T == {m[i].timestamp : i \in S}
<1>2. PICK t \in T : \A u \in T : t <= u
  <2>1. T \in SUBSET Nat /\ T # {}
    BY <1>1
  <2> HIDE DEF T
  <2> QED
    BY <2>1, LeastNat
<1> DEFINE U == {i \in S : m[i].timestamp = t}
<1>3. PICK i \in U : \A j \in U : i <= j
  <2>1. U \in SUBSET Nat /\ U # {}
    BY <1>1, <1>2
  <2> QED
    BY <2>1, LeastNat
<1>4. \A j \in S \ {i} : Before(m, i, j)
  BY <1>1, <1>2, <1>3 DEF Before
<1> QED
  BY <1>3, <1>4 DEF Oldest

\* The only row that is older than all others is the oldest.
LEMMA OldestUnique ==
    ASSUME NEW m, Sound(m), NEW S \in SUBSET DOMAIN m, NEW i \in S,
           \A j \in S \ {i} : Before(m, i, j)
    PROVE  Oldest(m, S) = i
<1>1. \A k \in S : m[k].timestamp \in Nat /\ k \in Nat
  BY SoundRows DEF RowSound, Decision
<1>2. Oldest(m, S) \in S /\ \A j \in S \ {Oldest(m, S)} : Before(m, Oldest(m, S), j)
  BY OldestIs
<1>3. SUFFICES ASSUME Oldest(m, S) # i PROVE FALSE
  OBVIOUS
<1>4. Before(m, i, Oldest(m, S)) /\ Before(m, Oldest(m, S), i)
  BY <1>2, <1>3
<1> QED
  BY <1>1, <1>2, <1>4 DEF Before

\* Some row outranks all others: of finitely many, one that the fewest outrank.
LEMMA NewestIs ==
    ASSUME NEW m, Sound(m), NEW S \in SUBSET DOMAIN m, S # {}
    PROVE  Newest(m, S) \in S /\ \A j \in S \ {Newest(m, S)} : Outranks(m, Newest(m, S), j)
<1>1. \A i \in S : m[i].timestamp \in Nat /\ i \in Nat /\ TrustRank(m[i]) \in Nat
  BY SoundRows DEF RowSound, Decision, TrustRank
<1>2. IsFiniteSet(S)
  BY FS_Subset DEF Sound, IsMemory
<1> DEFINE Above(i) == {j \in S : Outranks(m, j, i)}
<1>3. \A i \in S : IsFiniteSet(Above(i)) /\ Cardinality(Above(i)) \in Nat
  BY <1>2, FS_Subset, FS_CardinalityType
<1> DEFINE N == {Cardinality(Above(i)) : i \in S}
<1>4. PICK n \in N : \A k \in N : n <= k
  <2> HIDE DEF Above
  <2>1. N \in SUBSET Nat /\ N # {}
    BY <1>3
  <2> HIDE DEF N
  <2> QED
    BY <2>1, LeastNat
<1>5. PICK i \in S : n = Cardinality(Above(i))
  BY <1>4
<1>6. \A j \in S \ {i} : Outranks(m, i, j)
  <2>1. SUFFICES ASSUME NEW j \in S \ {i}, ~Outranks(m, i, j) PROVE FALSE
    OBVIOUS
  <2>2. Outranks(m, j, i)
    BY <1>1, <2>1 DEF Outranks
  <2>3. \A k \in S : Outranks(m, k, j) => Outranks(m, k, i)
    BY <1>1, <2>1, <2>2 DEF Outranks
  <2>4. ~Outranks(m, j, j)
    BY <1>1, <2>1 DEF Outranks
  <2>5. Above(j) \in SUBSET Above(i) /\ Above(j) # Above(i)
    BY <2>1, <2>2, <2>3, <2>4
  <2>6. Cardinality(Above(j)) <= Cardinality(Above(i))
        /\ Cardinality(Above(j)) # Cardinality(Above(i))
    BY <1>3, <2>5, FS_Subset
  <2>7. Cardinality(Above(j)) \in N
    OBVIOUS
  <2> HIDE DEF Above, N
  <2> QED
    BY <1>3, <1>4, <1>5, <2>1, <2>6, <2>7
<1> QED
  BY <1>6 DEF Newest

-----------------------------------------------------------------------------
(* What the reader makes of a topic.                                       *)

LEMMA TopicSets ==
    ASSUME NEW m, Sound(m), NEW t
    PROVE  /\ Humans(m, t) \subseteq ValidRows(m, t) /\ ValidRows(m, t) \subseteq DOMAIN m
           /\ HumanRows(m, t) \subseteq DOMAIN m /\ Humans(m, t) \subseteq HumanRows(m, t)
           /\ IsFiniteSet(ValidRows(m, t)) /\ IsFiniteSet(Humans(m, t))
           /\ IsFiniteSet(HumanRows(m, t))
           /\ DOMAIN m \subseteq Id
<1>1. /\ Humans(m, t) \subseteq ValidRows(m, t) /\ ValidRows(m, t) \subseteq DOMAIN m
      /\ HumanRows(m, t) \subseteq DOMAIN m /\ Humans(m, t) \subseteq HumanRows(m, t)
  BY DEF Humans, ValidRows, RowsOf, HumanRows, TrustedHuman
<1>2. IsFiniteSet(DOMAIN m) /\ DOMAIN m \subseteq Id
  BY DEF Sound, IsMemory
<1> QED
  BY <1>1, <1>2, FS_Subset

\* The winner of a topic that has one is a valid row, a human's if any.
LEMMA WinnerIs ==
    ASSUME NEW m, Sound(m), NEW t, ValidRows(m, t) # {}
    PROVE  /\ Winner(m, t) \in ValidRows(m, t)
           /\ Humans(m, t) # {} => Winner(m, t) = Oldest(m, Humans(m, t))
                                  /\ Winner(m, t) \in Humans(m, t)
<1>1. Humans(m, t) # {} => Oldest(m, Humans(m, t)) \in Humans(m, t)
  BY TopicSets, OldestIs
<1>2. Oldest(m, ValidRows(m, t)) \in ValidRows(m, t)
      /\ Newest(m, ValidRows(m, t)) \in ValidRows(m, t)
  BY TopicSets, OldestIs, NewestIs
<1> QED
  BY <1>1, <1>2, TopicSets DEF Winner

\* How the first pass treats a row.
LEMMA FirstPassCases ==
    ASSUME NEW m, NEW i \in DOMAIN m
    PROVE  LET r == m[i]  t == m[i].topic  humans == Humans(m, m[i].topic)
               v == AfterValidPass(m, i)
           IN  /\ ~Valid(r) \/ Settled(m, t) => v = r
               /\ Valid(r) /\ HumansConflict(m, t) =>
                     v = IF i \in humans THEN Quarantined(r, humans \ {i})
                         ELSE Contested(r, humans)
               /\ Valid(r) /\ ~Settled(m, t) /\ ~HumansConflict(m, t) =>
                     v = IF i = Winner(m, t) THEN r
                         ELSE IF Equivalent(m, t) \/ humans = {}
                              THEN Superseded(r, Winner(m, t))
                              ELSE Contested(r, humans)
<1> DEFINE r == m[i]  t == m[i].topic  humans == Humans(m, m[i].topic)
<1>1. HumansConflict(m, t) => ~Settled(m, t)
  BY DEF HumansConflict
<1>2. ASSUME ~Valid(r) \/ Settled(m, t) PROVE AfterValidPass(m, i) = r
  BY <1>1, <1>2 DEF AfterValidPass
<1>3. ASSUME Valid(r), HumansConflict(m, t)
      PROVE  AfterValidPass(m, i) = IF i \in humans THEN Quarantined(r, humans \ {i})
                                    ELSE Contested(r, humans)
  BY <1>1, <1>3 DEF AfterValidPass
<1>4. ASSUME Valid(r), ~Settled(m, t), ~HumansConflict(m, t)
      PROVE  AfterValidPass(m, i) =
                IF i = Winner(m, t) THEN r
                ELSE IF Equivalent(m, t) \/ humans = {}
                     THEN Superseded(r, Winner(m, t))
                     ELSE Contested(r, humans)
  BY <1>4 DEF AfterValidPass
<1> QED
  BY <1>2, <1>3, <1>4

\* The first pass keeps rows sound and what they say; a row that is valid
\* after it is as it was.
LEMMA FirstPass ==
    ASSUME NEW m, Sound(m), NEW i \in DOMAIN m
    PROVE  LET v == AfterValidPass(m, i) IN
           /\ RowSound(i, v) /\ SameRow(m[i], v)
           /\ Valid(v) => v = m[i]
<1> DEFINE r == m[i]  t == m[i].topic  humans == Humans(m, m[i].topic)
<1>1. RowSound(i, r) /\ i \in Id
  BY SoundRows
<1>2. humans \in SUBSET Id
  BY TopicSets
<1>3. CASE ~Valid(r) \/ Settled(m, t)
  BY <1>1, <1>3, FirstPassCases DEF SameRow
<1>4. ASSUME Valid(r), i \notin humans PROVE ~HumanTrust(r)
  BY <1>4 DEF Humans, ValidRows, RowsOf, TrustedHuman
<1>5. CASE Valid(r) /\ HumansConflict(m, t)
  <2>1. CASE i \in humans
    <3>1. AfterValidPass(m, i) = Quarantined(r, humans \ {i})
      BY <1>5, <2>1, FirstPassCases
    <3>2. humans \ {i} \in SUBSET Id /\ i \notin humans \ {i}
      BY <1>2
    <3> QED
      BY <1>1, <3>1, <3>2, QuarantinedRow
  <2>2. CASE i \notin humans
    <3>1. AfterValidPass(m, i) = Contested(r, humans)
      BY <1>5, <2>2, FirstPassCases
    <3> QED
      BY <1>1, <1>2, <1>4, <1>5, <2>2, <3>1, ContestedRow
  <2> QED
    BY <2>1, <2>2
<1>6. CASE Valid(r) /\ ~Settled(m, t) /\ ~HumansConflict(m, t)
  <2>1. i \in ValidRows(m, t)
    BY <1>6 DEF ValidRows, RowsOf
  <2>2. Winner(m, t) \in Id
        /\ (humans # {} => Winner(m, t) \in humans)
    BY <2>1, WinnerIs, TopicSets
  <2>3. CASE i = Winner(m, t)
    BY <1>1, <1>6, <2>3, FirstPassCases DEF SameRow
  <2>4. CASE i # Winner(m, t) /\ (Equivalent(m, t) \/ humans = {})
    <3>1. AfterValidPass(m, i) = Superseded(r, Winner(m, t))
      BY <1>6, <2>4, FirstPassCases
    <3> QED
      BY <1>1, <2>2, <2>4, <3>1, SupersededRow
  <2>5. CASE i # Winner(m, t) /\ ~(Equivalent(m, t) \/ humans = {})
    <3>1. \A x, y \in humans : x = y
      <4>1. ~(Cardinality(humans) > 1)
        BY <1>6, <2>5 DEF HumansConflict
      <4> QED
        BY <4>1, TopicSets, TwoOrMore
    <3>2. i \notin humans
      BY <2>2, <2>5, <3>1
    <3>3. AfterValidPass(m, i) = Contested(r, humans)
      BY <1>6, <2>5, FirstPassCases
    <3> QED
      BY <1>1, <1>2, <1>4, <1>6, <3>2, <3>3, ContestedRow
  <2> QED
    BY <2>3, <2>4, <2>5
<1> QED
  BY <1>3, <1>5, <1>6

\* After the first pass a topic has one valid row at most, none if humans conflict.
LEMMA FirstPassOne ==
    ASSUME NEW m, Sound(m), NEW i \in DOMAIN m, Valid(AfterValidPass(m, i))
    PROVE  /\ ~HumansConflict(m, m[i].topic)
           /\ \A j \in DOMAIN m : m[j].topic = m[i].topic /\ Valid(AfterValidPass(m, j))
                 => j = i
<1> DEFINE t == m[i].topic
<1>1. \A j \in DOMAIN m : Valid(AfterValidPass(m, j)) => Valid(m[j])
  BY FirstPass
<1>2. ~HumansConflict(m, t)
  <2>1. SUFFICES ASSUME HumansConflict(m, t) PROVE FALSE
    OBVIOUS
  <2>2. \/ AfterValidPass(m, i) = Quarantined(m[i], Humans(m, t) \ {i})
        \/ AfterValidPass(m, i) = Contested(m[i], Humans(m, t))
    BY <1>1, <2>1, FirstPassCases
  <2>3. ~Valid(Quarantined(m[i], Humans(m, t) \ {i})) /\ ~Valid(Contested(m[i], Humans(m, t)))
    BY SoundRows DEF Valid, Quarantined, Contested, RowSound, Decision
  <2> QED
    BY <2>2, <2>3
<1>3. ASSUME NEW j \in DOMAIN m, m[j].topic = t, Valid(AfterValidPass(m, j)), j # i
      PROVE  FALSE
  <2>1. {i, j} \subseteq ValidRows(m, t)
    BY <1>1, <1>3 DEF ValidRows, RowsOf
  <2>2. ~Settled(m, t)
    BY <1>3, <2>1, TopicSets, AtMostOne DEF Settled
  <2>3. \A k \in {i, j} : k = Winner(m, t)
    <3> SUFFICES ASSUME NEW k \in {i, j}, k # Winner(m, t) PROVE FALSE
      OBVIOUS
    <3>1. \/ AfterValidPass(m, k) = Superseded(m[k], Winner(m, t))
          \/ AfterValidPass(m, k) = Contested(m[k], Humans(m, t))
      <4>1. m[k].topic = t /\ Valid(m[k]) /\ k \in DOMAIN m
        BY <1>1, <1>3
      <4>2. ~HumansConflict(m, m[k].topic) /\ ~Settled(m, m[k].topic)
            /\ k # Winner(m, m[k].topic)
        BY <1>2, <2>2, <4>1
      <4>3. \/ AfterValidPass(m, k) = Superseded(m[k], Winner(m, m[k].topic))
            \/ AfterValidPass(m, k) = Contested(m[k], Humans(m, m[k].topic))
        BY <4>1, <4>2, FirstPassCases
      <4> QED
        BY <4>1, <4>3
    <3>2. ~Valid(Superseded(m[k], Winner(m, t))) /\ ~Valid(Contested(m[k], Humans(m, t)))
      BY SoundRows DEF Valid, Superseded, Contested, RowSound, Decision
    <3> QED
      BY <1>3, <3>1, <3>2
  <2> QED
    BY <1>3, <2>3
<1> QED
  BY <1>2, <1>3

\* The oldest of a topic's valid human rows, and the human rows that show a
\* conflict once the first pass has left only that one valid.
FirstHuman(m, t) ==
    {j \in Humans(m, t) : \A k \in Humans(m, t) \ {j} : Before(m, j, k)}

HumanPartners(m, t) ==
    {j \in HumanRows(m, t) :
        \/ Marked(m[j])
        \/ j \in FirstHuman(m, t)
        \/ m[j].conflicts_with \cap HumanRows(m, t) # {}}

LEMMA PassRows ==
    ASSUME NEW m, Sound(m)
    PROVE  /\ DOMAIN ValidPass(m) = DOMAIN m
           /\ Sound(ValidPass(m))
           /\ \A i \in DOMAIN m : ValidPass(m)[i] = AfterValidPass(m, i)
           /\ \A t : HumanRows(ValidPass(m), t) = HumanRows(m, t)
<1> DEFINE v == ValidPass(m)
<1>1. DOMAIN v = DOMAIN m /\ v = [i \in DOMAIN v |-> v[i]]
      /\ \A i \in DOMAIN m : v[i] = AfterValidPass(m, i)
  BY DEF ValidPass
<1>2. \A i \in DOMAIN m : RowSound(i, v[i]) /\ SameRow(m[i], v[i])
  BY <1>1, FirstPass
<1> HIDE DEF v
<1>3. Sound(v)
  BY <1>1, <1>2, RowsSound DEF Sound, IsMemory
<1>4. \A t : HumanRows(v, t) = HumanRows(m, t)
  BY <1>1, <1>2 DEF HumanRows, RowsOf, SameRow
<1> QED
  BY <1>1, <1>3, <1>4 DEF v

\* While humans do not conflict, the first pass leaves a human's row its marks,
\* and the oldest of the valid ones its validity.
LEMMA FirstPassHumans ==
    ASSUME NEW m, Sound(m), NEW t, ~HumansConflict(m, t), NEW j \in HumanRows(m, t)
    PROVE  LET v == AfterValidPass(m, j) IN
           /\ v.conflicts_with = m[j].conflicts_with
           /\ Marked(v) <=> Marked(m[j])
           /\ Valid(v) <=> j \in FirstHuman(m, t)
<1>1. j \in DOMAIN m /\ m[j].topic = t /\ HumanTrust(m[j])
  BY DEF HumanRows, RowsOf
<1>2. Valid(m[j]) <=> j \in Humans(m, t)
  BY <1>1 DEF Humans, ValidRows, RowsOf, TrustedHuman
<1>3. CASE ~Valid(m[j])
  <2>1. AfterValidPass(m, j) = m[j]
    BY <1>1, <1>3, FirstPassCases
  <2> QED
    BY <1>2, <1>3, <2>1 DEF FirstHuman
<1>4. CASE Valid(m[j]) /\ Settled(m, t)
  <2>1. AfterValidPass(m, j) = m[j]
    BY <1>1, <1>4, FirstPassCases
  <2>2. \A x, y \in ValidRows(m, t) : x = y
    BY <1>4, TopicSets, AtMostOne DEF Settled
  <2>3. j \in FirstHuman(m, t)
    BY <1>2, <1>4, <2>2, TopicSets DEF FirstHuman
  <2> QED
    BY <1>4, <2>1, <2>3
<1>5. CASE Valid(m[j]) /\ ~Settled(m, t)
  <2>1. j \in Humans(m, t) /\ j \in ValidRows(m, t)
    BY <1>2, <1>5, TopicSets
  <2>2. Winner(m, t) = Oldest(m, Humans(m, t)) /\ Winner(m, t) \in Humans(m, t)
    BY <2>1, WinnerIs
  <2>3. Humans(m, t) \in SUBSET DOMAIN m
    BY TopicSets
  <2>4. CASE j = Winner(m, t)
    <3>1. AfterValidPass(m, j) = m[j]
      BY <1>1, <1>5, <2>4, FirstPassCases
    <3>2. j \in FirstHuman(m, t)
      BY <2>1, <2>2, <2>3, <2>4, OldestIs DEF FirstHuman
    <3> QED
      BY <1>5, <3>1, <3>2
  <2>5. CASE j # Winner(m, t)
    <3>1. Cardinality(Humans(m, t)) > 1
      BY <2>1, <2>2, <2>5, TopicSets, TwoOrMore
    <3>2. Equivalent(m, t)
      BY <1>5, <3>1 DEF HumansConflict
    <3>3. AfterValidPass(m, j) = Superseded(m[j], Winner(m, t))
      BY <1>1, <1>5, <2>5, <3>2, FirstPassCases
    <3>4. Winner(m, t) \in Id
      BY <2>2, TopicSets
    <3>5. RowSound(j, m[j])
      BY <1>1, SoundRows
    <3>6. j \notin FirstHuman(m, t)
      BY <2>1, <2>2, <2>3, <2>5, OldestUnique DEF FirstHuman
    <3> QED
      BY <2>5, <3>3, <3>4, <3>5, <3>6, SupersededRow
  <2> QED
    BY <2>4, <2>5
<1> QED
  BY <1>3, <1>4, <1>5

\* So the partners of a durable conflict depend on the humans' rows alone.
LEMMA PartnersOfHumans ==
    ASSUME NEW m, Sound(m), NEW t, ~HumansConflict(m, t)
    PROVE  Partners(ValidPass(m), t) = HumanPartners(m, t)
<1>1. HumanRows(ValidPass(m), t) = HumanRows(m, t)
      /\ \A j \in HumanRows(m, t) : ValidPass(m)[j] = AfterValidPass(m, j)
  BY PassRows, TopicSets
<1>2. \A j \in HumanRows(m, t) :
         LET v == ValidPass(m)[j] IN
         /\ v.conflicts_with = m[j].conflicts_with
         /\ Marked(v) <=> Marked(m[j])
         /\ Valid(v) <=> j \in FirstHuman(m, t)
  BY <1>1, FirstPassHumans
<1> QED
  BY <1>1, <1>2 DEF Partners, HumanPartners, Marked

LEMMA ConflictOfHumans ==
    ASSUME NEW m, Sound(m), NEW t
    PROVE  /\ Conflict(m, t) = IF HumansConflict(m, t) THEN Humans(m, t)
                               ELSE AtLeastTwo(HumanPartners(m, t))
           /\ DurableConflict(m, ValidPass(m), t) =
                 IF HumansConflict(m, t) THEN {} ELSE AtLeastTwo(HumanPartners(m, t))
BY PartnersOfHumans DEF Conflict, DurableConflict

LEMMA PartnersFinite ==
    ASSUME NEW m, Sound(m), NEW t
    PROVE  /\ Partners(m, t) \subseteq HumanRows(m, t) /\ IsFiniteSet(Partners(m, t))
           /\ HumanPartners(m, t) \subseteq HumanRows(m, t)
           /\ IsFiniteSet(HumanPartners(m, t))
<1>1. Partners(m, t) \subseteq HumanRows(m, t) /\ HumanPartners(m, t) \subseteq HumanRows(m, t)
  BY DEF Partners, HumanPartners
<1> QED
  BY <1>1, TopicSets, FS_Subset

LEMMA AtLeastTwoIs ==
    ASSUME NEW S, IsFiniteSet(S)
    PROVE  /\ AtLeastTwo(S) = {} \/ AtLeastTwo(S) = S
           /\ AtLeastTwo(S) # {} <=> \E x, y \in S : x # y
           /\ AtLeastTwo(S) = {} <=> \A x, y \in S : x = y
BY TwoOrMore DEF AtLeastTwo
-----------------------------------------------------------------------------
(* What the reader makes of a memory.                                      *)

Durable(m, t) == DurableConflict(m, ValidPass(m), t)

LEMMA ReadRow ==
    ASSUME NEW m, Sound(m), NEW i \in DOMAIN m
    PROVE  Reconciled(m)[i] =
              AfterDurablePass(AfterValidPass(m, i), i, Durable(m, m[i].topic))
<1>1. m[i].topic \in Topic
  BY SoundRows DEF RowSound, Decision
<1>2. ValidPass(m)[i] = AfterValidPass(m, i)
  BY PassRows
<1> QED
  BY <1>1, <1>2 DEF Reconciled, Durable

LEMMA DurableIs ==
    ASSUME NEW m, Sound(m), NEW t
    PROVE  /\ Durable(m, t) \subseteq HumanRows(m, t) /\ Durable(m, t) \in SUBSET Id
           /\ HumansConflict(m, t) => Durable(m, t) = {} /\ Conflict(m, t) = Humans(m, t)
           /\ ~HumansConflict(m, t) => Durable(m, t) = AtLeastTwo(HumanPartners(m, t))
                                       /\ Conflict(m, t) = Durable(m, t)
           /\ HumansConflict(m, t) => \E x, y \in Humans(m, t) : x # y
<1>1. HumansConflict(m, t) => Durable(m, t) = {} /\ Conflict(m, t) = Humans(m, t)
  BY ConflictOfHumans DEF Durable
<1>2. ~HumansConflict(m, t) => Durable(m, t) = AtLeastTwo(HumanPartners(m, t))
                               /\ Conflict(m, t) = Durable(m, t)
  BY ConflictOfHumans DEF Durable
<1>3. Durable(m, t) \subseteq HumanRows(m, t)
  BY <1>1, <1>2, PartnersFinite, AtLeastTwoIs
<1>4. Durable(m, t) \in SUBSET Id
  BY <1>3, TopicSets
<1>5. HumansConflict(m, t) => \E x, y \in Humans(m, t) : x # y
  BY TopicSets, TwoOrMore DEF HumansConflict
<1> QED
  BY <1>1, <1>2, <1>3, <1>4, <1>5

\* A row that is valid for the reader is as it was, in a topic without conflict.
LEMMA Read ==
    ASSUME NEW m, Sound(m), NEW i \in DOMAIN m
    PROVE  LET r == Reconciled(m)[i]  t == m[i].topic IN
           /\ RowSound(i, r) /\ SameRow(m[i], r)
           /\ Valid(r) => r = m[i] /\ Valid(AfterValidPass(m, i)) /\ Conflict(m, t) = {}
           /\ Durable(m, t) = {} => r = AfterValidPass(m, i)
           /\ Durable(m, t) # {} => ~Valid(r) /\ (HumanTrust(m[i]) => Marked(r))
           /\ i \in Humans(m, t) /\ HumansConflict(m, t) => Marked(r)
<1> DEFINE r == Reconciled(m)[i]  t == m[i].topic  v == AfterValidPass(m, i)
           P == Durable(m, t)
<1>1. RowSound(i, v) /\ SameRow(m[i], v) /\ (Valid(v) => v = m[i])
  BY FirstPass
<1>2. r = AfterDurablePass(v, i, P)
  BY ReadRow
<1>3. P \in SUBSET Id /\ P \subseteq HumanRows(m, t)
  BY DurableIs
<1>4. Valid(v) => ~HumansConflict(m, t)
  BY FirstPassOne
<1>5. i \in Humans(m, t) /\ HumansConflict(m, t) => P = {} /\ Marked(v)
  <2>1. SUFFICES ASSUME i \in Humans(m, t), HumansConflict(m, t)
                 PROVE  P = {} /\ Marked(v)
    OBVIOUS
  <2>2. Valid(m[i])
    BY <2>1, TopicSets DEF ValidRows
  <2>3. v = Quarantined(m[i], Humans(m, t) \ {i})
    BY <2>1, <2>2, FirstPassCases
  <2>4. RowSound(i, m[i]) /\ Humans(m, t) \ {i} \in SUBSET Id /\ i \notin Humans(m, t) \ {i}
    BY SoundRows, TopicSets
  <2> QED
    BY <2>1, <2>3, <2>4, QuarantinedRow, DurableIs
<1> HIDE DEF r, v, P
<1>6. CASE P = {}
  <2>1. r = v
    BY <1>2, <1>6 DEF AfterDurablePass
  <2>2. ~HumansConflict(m, t) => Conflict(m, t) = {}
    BY <1>6, DurableIs DEF P
  <2> QED
    BY <1>1, <1>4, <1>5, <1>6, <2>1, <2>2 DEF r, v, P
<1>7. CASE P # {} /\ HumanTrust(v)
  <2>1. r = Quarantined(v, P \ {i})
    BY <1>2, <1>7 DEF AfterDurablePass
  <2>2. P \ {i} \in SUBSET Id /\ i \notin P \ {i}
    BY <1>3
  <2>3. RowSound(i, r) /\ SameRow(v, r) /\ ~Valid(r) /\ Marked(r)
    BY <1>1, <2>1, <2>2, QuarantinedRow
  <2>4. SameRow(m[i], r)
    BY <1>1, <2>3 DEF SameRow
  <2> QED
    BY <1>5, <1>7, <2>3, <2>4 DEF r, v, P
<1>8. CASE P # {} /\ ~HumanTrust(v)
  <2>1. r = Contested(v, P)
    BY <1>2, <1>8 DEF AfterDurablePass
  <2>2. ~HumanTrust(m[i])
    BY <1>1, <1>8 DEF SameRow
  <2>3. i \notin P
    BY <1>3, <2>2 DEF HumanRows
  <2>4. RowSound(i, r) /\ SameRow(v, r) /\ ~Valid(r)
    BY <1>1, <1>3, <1>8, <2>1, <2>3, ContestedRow
  <2>5. SameRow(m[i], r)
    BY <1>1, <2>4 DEF SameRow
  <2> QED
    BY <1>5, <1>8, <2>2, <2>4, <2>5 DEF r, v, P
<1> QED
  BY <1>6, <1>7, <1>8

LEMMA ReadSound ==
    ASSUME NEW m, Sound(m)
    PROVE  /\ Sound(Reconciled(m)) /\ DOMAIN Reconciled(m) = DOMAIN m
           /\ \A t : HumanRows(Reconciled(m), t) = HumanRows(m, t)
           /\ \A t : ValidRows(Reconciled(m), t) \subseteq ValidRows(m, t)
<1> DEFINE r == Reconciled(m)
<1>1. DOMAIN r = DOMAIN m /\ r = [i \in DOMAIN r |-> r[i]]
  BY DEF Reconciled
<1>2. \A i \in DOMAIN m : RowSound(i, r[i]) /\ SameRow(m[i], r[i])
                          /\ (Valid(r[i]) => r[i] = m[i])
  BY Read
<1> HIDE DEF r
<1>3. Sound(r)
  BY <1>1, <1>2, RowsSound DEF Sound, IsMemory
<1>4. \A t : HumanRows(r, t) = HumanRows(m, t)
  BY <1>1, <1>2 DEF HumanRows, RowsOf, SameRow
<1>5. \A t : ValidRows(r, t) \subseteq ValidRows(m, t)
  BY <1>1, <1>2 DEF ValidRows, RowsOf, SameRow
<1> QED
  BY <1>1, <1>3, <1>4, <1>5 DEF r

\* For the reader a topic has one valid row, or none if it is in conflict.
LEMMA ReadOne ==
    ASSUME NEW m, Sound(m), NEW t
    PROVE  /\ \A i, j \in ValidRows(Reconciled(m), t) : i = j
           /\ Conflict(m, t) # {} => ValidRows(Reconciled(m), t) = {}
           /\ Authorities(m, t) = ValidRows(Reconciled(m), t)
<1>1. \A i \in ValidRows(Reconciled(m), t) :
         /\ i \in DOMAIN m /\ m[i].topic = t
         /\ Valid(AfterValidPass(m, i)) /\ Conflict(m, t) = {}
  <2> TAKE i \in ValidRows(Reconciled(m), t)
  <2>1. i \in DOMAIN m /\ Reconciled(m)[i].topic = t /\ Valid(Reconciled(m)[i])
    BY ReadSound DEF ValidRows, RowsOf
  <2>2. m[i].topic = t
    BY <2>1, Read DEF SameRow
  <2> QED
    BY <2>1, <2>2, Read
<1>2. \A i, j \in ValidRows(Reconciled(m), t) : i = j
  BY <1>1, FirstPassOne
<1> QED
  BY <1>1, <1>2 DEF Authorities
\* A topic that reading leaves as it is: one valid row at most, and none while
\* two humans' rows bear the marks of a conflict.
Calm(m, t) ==
    /\ \A i, j \in ValidRows(m, t) : i = j
    /\ (\E x, y \in Partners(m, t) : x # y) => ValidRows(m, t) = {}

LEMMA CalmRead ==
    ASSUME NEW m, Sound(m), NEW t, Calm(m, t)
    PROVE  /\ ~HumansConflict(m, t) /\ HumanPartners(m, t) = Partners(m, t)
           /\ Conflict(m, t) = AtLeastTwo(Partners(m, t))
           /\ ValidRows(Reconciled(m), t) = ValidRows(m, t)
           /\ Authorities(m, t) = ValidRows(m, t)
<1>1. Settled(m, t)
  BY TopicSets, AtMostOne DEF Calm, Settled
<1>2. ~HumansConflict(m, t)
  BY <1>1 DEF HumansConflict
<1>3. \A j \in HumanRows(m, t) : j \in FirstHuman(m, t) <=> Valid(m[j])
  <2>1. \A j \in HumanRows(m, t) : j \in Humans(m, t) <=> Valid(m[j])
    BY DEF Humans, HumanRows, ValidRows, RowsOf, TrustedHuman
  <2>2. \A j, k \in Humans(m, t) : j = k
    BY TopicSets DEF Calm
  <2> QED
    BY <2>1, <2>2 DEF FirstHuman
<1>4. HumanPartners(m, t) = Partners(m, t)
  BY <1>3 DEF HumanPartners, Partners, Marked
<1>5. Conflict(m, t) = AtLeastTwo(Partners(m, t)) /\ Durable(m, t) = Conflict(m, t)
  BY <1>2, <1>4, DurableIs
<1>6. ASSUME NEW i \in ValidRows(m, t) PROVE i \in ValidRows(Reconciled(m), t)
  <2>1. i \in DOMAIN m /\ m[i].topic = t /\ Valid(m[i])
    BY DEF ValidRows, RowsOf
  <2>2. Durable(m, t) = {}
    BY <1>5, <1>6, PartnersFinite, AtLeastTwoIs DEF Calm
  <2>3. Reconciled(m)[i] = m[i]
    <3>1. AfterValidPass(m, i) = m[i]
      BY <1>1, <2>1, FirstPassCases
    <3> QED
      BY <2>1, <2>2, <3>1, Read
  <2> QED
    BY <2>1, <2>3, ReadSound DEF ValidRows, RowsOf
<1>7. ValidRows(Reconciled(m), t) = ValidRows(m, t)
  BY <1>6, ReadSound
<1> QED
  BY <1>2, <1>4, <1>5, <1>7, ReadOne

LEMMA ReadCalm ==
    ASSUME NEW m, Sound(m), NEW t
    PROVE  Calm(Reconciled(m), t)
<1> DEFINE r == Reconciled(m)
<1>1. SUFFICES ASSUME NEW x \in Partners(r, t), NEW y \in Partners(r, t), x # y,
                      NEW k \in ValidRows(r, t)
               PROVE  FALSE
  BY ReadOne DEF Calm
<1>2. Conflict(m, t) = {}
  BY <1>1, ReadOne
<1>3. ~HumansConflict(m, t) /\ Durable(m, t) = {}
  BY <1>2, DurableIs
<1>4. \A i \in HumanRows(m, t) : r[i] = ValidPass(m)[i]
  BY <1>3, PassRows, Read DEF HumanRows, RowsOf
<1>5. HumanRows(r, t) = HumanRows(m, t) /\ HumanRows(ValidPass(m), t) = HumanRows(m, t)
  BY ReadSound, PassRows
<1>6. Partners(r, t) = Partners(ValidPass(m), t)
  <2> HIDE DEF r
  <2> QED
    BY <1>4, <1>5 DEF Partners
<1>7. Partners(r, t) = HumanPartners(m, t)
  BY <1>3, <1>6, PartnersOfHumans
<1>8. \A a, b \in HumanPartners(m, t) : a = b
  BY <1>3, DurableIs, PartnersFinite, AtLeastTwoIs
<1> QED
  BY <1>1, <1>7, <1>8

\* Reading marks whoever is in conflict.
LEMMA ConflictMarked ==
    ASSUME NEW m, Sound(m), NEW t
    PROVE  Conflict(m, t) \subseteq Partners(Reconciled(m), t)
<1> SUFFICES ASSUME NEW i \in Conflict(m, t) PROVE i \in Partners(Reconciled(m), t)
  OBVIOUS
<1>1. i \in HumanRows(m, t)
  BY DurableIs, TopicSets
<1>2. i \in DOMAIN m /\ m[i].topic = t /\ HumanTrust(m[i])
  BY <1>1 DEF HumanRows, RowsOf
<1>3. Marked(Reconciled(m)[i])
  BY <1>2, Read, DurableIs
<1> QED
  BY <1>1, <1>3, ReadSound DEF Partners, Marked

-----------------------------------------------------------------------------
(* What a topic keeps when rows are dropped.                               *)

\* n has the rows of m about t, or fewer, but all that humans trust.
Shrunk(m, n, t) ==
    /\ \A i \in RowsOf(n, t) : i \in RowsOf(m, t) /\ n[i] = m[i]
    /\ HumanRows(m, t) \subseteq RowsOf(n, t)

LEMMA ShrunkHumans ==
    ASSUME NEW m, NEW n, Sound(m), Sound(n), NEW t, Shrunk(m, n, t)
    PROVE  /\ HumanRows(n, t) = HumanRows(m, t) /\ Humans(n, t) = Humans(m, t)
           /\ ValidRows(n, t) \subseteq ValidRows(m, t)
           /\ FirstHuman(n, t) = FirstHuman(m, t)
           /\ HumanPartners(n, t) = HumanPartners(m, t)
           /\ Partners(n, t) = Partners(m, t)
<1>1. HumanRows(n, t) = HumanRows(m, t)
      /\ \A i \in HumanRows(m, t) : n[i] = m[i]
  BY DEF Shrunk, HumanRows
<1>2. ValidRows(n, t) \subseteq ValidRows(m, t)
  BY DEF Shrunk, ValidRows
<1>3. Humans(n, t) = {i \in HumanRows(n, t) : Valid(n[i])}
      /\ Humans(m, t) = {i \in HumanRows(m, t) : Valid(m[i])}
  BY DEF Humans, HumanRows, ValidRows, TrustedHuman
<1>4. Humans(n, t) = Humans(m, t)
  BY <1>1, <1>3
<1>5. FirstHuman(n, t) = FirstHuman(m, t)
  <2>1. \A i, j \in Humans(m, t) : Before(n, i, j) <=> Before(m, i, j)
    BY <1>1, <1>3 DEF Before
  <2> QED
    BY <1>4, <2>1 DEF FirstHuman
<1>6. HumanPartners(n, t) = HumanPartners(m, t)
  BY <1>1, <1>5 DEF HumanPartners
<1>7. Partners(n, t) = Partners(m, t)
  BY <1>1 DEF Partners
<1> QED
  BY <1>1, <1>2, <1>4, <1>5, <1>6, <1>7

LEMMA ShrunkConflict ==
    ASSUME NEW m, NEW n, Sound(m), Sound(n), NEW t, Shrunk(m, n, t)
    PROVE  /\ HumansConflict(n, t) => HumansConflict(m, t)
           /\ Conflict(m, t) \subseteq Conflict(n, t) \/ HumansAgree(m, t)
           /\ Conflict(m, t) = {} => Conflict(n, t) = {}
<1>1. \A i \in ValidRows(n, t) : i \in ValidRows(m, t) /\ n[i] = m[i]
  BY ShrunkHumans DEF Shrunk, ValidRows
<1>2. Humans(n, t) = Humans(m, t) /\ Humans(n, t) \subseteq ValidRows(n, t)
      /\ HumanPartners(n, t) = HumanPartners(m, t)
  BY ShrunkHumans, TopicSets
<1>3. \A k \in {m, n} : HumansConflict(k, t) <=>
         /\ \E x, y \in Humans(k, t) : x # y
         /\ ~SameText(k, ValidRows(k, t))
  <2> TAKE k \in {m, n}
  <2>1. Settled(k, t) => \A x, y \in Humans(k, t) : x = y
    BY TopicSets, AtMostOne DEF Settled
  <2>2. Cardinality(Humans(k, t)) > 1 <=> \E x, y \in Humans(k, t) : x # y
    BY TopicSets, TwoOrMore
  <2> QED
    BY <2>1, <2>2 DEF HumansConflict, Equivalent
<1>4. HumansConflict(n, t) => HumansConflict(m, t)
  BY <1>1, <1>2, <1>3 DEF SameText
<1>5. HumansConflict(m, t) /\ ~SameText(m, Humans(m, t)) => HumansConflict(n, t)
  BY <1>1, <1>2, <1>3 DEF SameText
<1>6. ~HumansConflict(m, t) => Conflict(n, t) = Conflict(m, t)
  BY <1>2, <1>4, DurableIs
<1>7. HumansConflict(m, t) /\ ~SameText(m, Humans(m, t)) => Conflict(n, t) = Conflict(m, t)
  BY <1>2, <1>5, DurableIs
<1>8. HumansConflict(m, t) => Conflict(m, t) # {}
  BY DurableIs
<1> QED
  BY <1>4, <1>6, <1>7, <1>8 DEF HumansAgree

\* A human's authority does not depend on what others leave behind.
LEMMA ShrunkAuthority ==
    ASSUME NEW m, NEW n, Sound(m), Sound(n), NEW t, Shrunk(m, n, t),
           NEW i \in Authorities(m, t), HumanTrust(m[i])
    PROVE  i \in Authorities(n, t) /\ n[i] = m[i]
<1>1. i \in ValidRows(Reconciled(m), t) /\ Conflict(m, t) = {}
  BY DEF Authorities
<1>2. i \in ValidRows(m, t)
  BY <1>1, ReadSound
<1>3. i \in HumanRows(m, t) /\ i \in DOMAIN m /\ m[i].topic = t
  BY <1>2 DEF HumanRows, ValidRows, RowsOf
<1>4. Valid(AfterValidPass(m, i))
  BY <1>1, <1>3, Read DEF ValidRows
<1>5. i \in FirstHuman(m, t)
  BY <1>3, <1>4, FirstPassOne, FirstPassHumans
<1>6. i \in FirstHuman(n, t) /\ i \in HumanRows(n, t) /\ i \in DOMAIN n
      /\ n[i] = m[i] /\ n[i].topic = t
  BY <1>3, <1>5, ShrunkHumans DEF Shrunk, RowsOf
<1>7. Conflict(n, t) = {} /\ ~HumansConflict(n, t) /\ Durable(n, t) = {}
  BY <1>1, ShrunkConflict, DurableIs
<1>8. Valid(AfterValidPass(n, i))
  BY <1>6, <1>7, FirstPassHumans
<1>9. Valid(Reconciled(n)[i]) /\ Reconciled(n)[i].topic = t
  BY <1>6, <1>7, <1>8, Read DEF SameRow
<1> QED
  BY <1>6, <1>7, <1>9, ReadSound DEF Authorities, ValidRows, RowsOf

\* A human's valid row is the authority where no other human's row stands against it.
LEMMA LoneHuman ==
    ASSUME NEW n, Sound(n), NEW t, NEW i \in Humans(n, t), Partners(n, t) \subseteq {i}
    PROVE  i \in Authorities(n, t)
<1>1. Humans(n, t) \subseteq Partners(n, t)
  BY TopicSets DEF Partners, Humans, ValidRows
<1>2. ~HumansConflict(n, t)
  BY <1>1, DurableIs
<1>3. FirstHuman(n, t) = {i}
  BY <1>1 DEF FirstHuman
<1>4. HumanPartners(n, t) \subseteq {i}
  BY <1>1, <1>3 DEF HumanPartners, Partners, Marked
<1>5. Durable(n, t) = {} /\ Conflict(n, t) = {}
  BY <1>2, <1>4, DurableIs, PartnersFinite, AtLeastTwoIs
<1>6. i \in HumanRows(n, t) /\ i \in DOMAIN n /\ n[i].topic = t
  BY TopicSets DEF HumanRows, RowsOf
<1>7. Valid(AfterValidPass(n, i))
  BY <1>2, <1>3, <1>6, FirstPassHumans
<1>8. Valid(Reconciled(n)[i]) /\ Reconciled(n)[i].topic = t
  BY <1>5, <1>6, <1>7, Read DEF SameRow
<1> QED
  BY <1>5, <1>6, <1>8, ReadSound DEF Authorities, ValidRows, RowsOf
\* What the budget leaves of a memory: every row that is protected, and
\* nothing that was not there.
LEMMA FitsKeeps ==
    ASSUME NEW m, Sound(m), NEW preserve, NEW n \in Fits(m, preserve)
    PROVE  /\ Sound(n) /\ DOMAIN n \subseteq DOMAIN m
           /\ \A i \in DOMAIN n : n[i] = m[i]
           /\ \A i \in DOMAIN m : HumanTrust(m[i]) \/ i \in preserve => i \in DOMAIN n
           /\ \A t : Shrunk(m, n, t)
<1> DEFINE kept == Kept(m, preserve)
           must == kept \cap Protected(m, preserve)
<1>1. PICK S \in SUBSET (kept \ must) : n = OnlyRows(m, must \cup S)
  BY DEF Fits
<1> DEFINE K == must \cup S
<1>2. K \subseteq DOMAIN m
  BY DEF Kept
<1>3. DOMAIN n = K /\ n = [i \in DOMAIN n |-> n[i]] /\ \A i \in K : n[i] = m[i]
  BY <1>1 DEF OnlyRows
<1>4. \A i \in DOMAIN m : HumanTrust(m[i]) \/ i \in preserve => i \in K
  BY DEF Kept, Protected, HumanTrust
<1> HIDE DEF K
<1>5. Sound(n)
  <2>1. IsFiniteSet(DOMAIN n) /\ DOMAIN n \subseteq Id
    BY <1>2, <1>3, FS_Subset DEF Sound, IsMemory
  <2>2. \A i \in DOMAIN n : RowSound(i, n[i])
    BY <1>2, <1>3, SoundRows
  <2> QED
    BY <1>3, <2>1, <2>2, RowsSound
<1>6. \A t : Shrunk(m, n, t)
  BY <1>2, <1>3, <1>4 DEF Shrunk, RowsOf, HumanRows
<1> QED
  BY <1>2, <1>3, <1>4, <1>5, <1>6

-----------------------------------------------------------------------------
(* The inductive invariant.                                                *)

\* The type invariant.
TypeOK ==
    /\ IsMemory(rows) /\ IsMemory(draft)
    /\ issued \in SUBSET Id /\ prior \in SUBSET Id
    /\ clock \in Nat
    /\ txn \in {"none", "heuristic", "llm"}
    /\ review \in [Human -> Look]

\* What the schema accepts, committed or about to be.
Readable == SchemaSound(rows) /\ SchemaSound(draft)

\* No id is given out twice, and what a human looks at is a row by that id.
Looked(h) == IF review[h].kind = "promote" THEN review[h].target ELSE review[h].candidate
IdsIssued ==
    /\ DOMAIN rows \subseteq issued /\ DOMAIN draft \subseteq issued
    /\ \A h \in Human : review[h].kind # "none" => Looked(h) \in issued

\* A human was shown the words of the row, if it is still there.
ShownShape == \A h \in Human : review[h].kind # "none" =>
    /\ Looked(h) \in DOMAIN rows => review[h].shown = rows[Looked(h)].decision
    /\ Looked(h) \in DOMAIN draft => Looked(h) \in DOMAIN rows

\* A merge adds rows that no human trusts, changes none that one does, and
\* keeps a calm memory calm: with the authorities and conflicts it began with.
DraftShape ==
    /\ txn = "none" => draft = None
    /\ txn # "none" =>
          /\ DOMAIN rows \subseteq DOMAIN draft
          /\ \A i \in DOMAIN rows : SameRow(rows[i], draft[i])
          /\ \A i \in DOMAIN draft \ DOMAIN rows : ~HumanTrust(draft[i])
          /\ \A i \in HumanAuthorities : Valid(draft[i])
          /\ \A t \in Topic :
                /\ Calm(draft, t)
                /\ Conflict(rows, t) \subseteq Partners(draft, t)
                /\ Authorities(rows, t) # {} => ValidRows(draft, t) # {}

IInv == Readable /\ IdsIssued /\ ShownShape /\ DraftShape

LEMMA SoundMemories ==
    ASSUME TypeOK, IInv
    PROVE  Sound(rows) /\ Sound(draft)
BY DEF TypeOK, IInv, Readable, Sound

LEMMA Starting ==
    ASSUME Init
    PROVE  TypeOK /\ IInv
<1>1. IsMemory(rows) /\ SchemaSound(rows)
  BY InitialRowsAssumption DEF Init
<1>2. IsMemory(None) /\ SchemaSound(None) /\ DOMAIN None = {}
  BY FS_EmptySet DEF None, IsMemory, SchemaSound
<1>3. NoLook \in Look /\ NoLook.kind = "none"
  BY DEF NoLook, Look
<1>4. TypeOK
  BY <1>1, <1>2, <1>3 DEF Init, TypeOK, IsMemory
<1>5. IInv
  BY <1>1, <1>2, <1>3 DEF Init, IInv, Readable, IdsIssued, ShownShape, DraftShape
<1> QED
  BY <1>4, <1>5
-----------------------------------------------------------------------------
(* Merges.                                                                 *)

LEMMA FreshIs ==
    ASSUME TypeOK, Issue
    PROVE  /\ Fresh \in Id /\ Fresh \notin issued /\ Fresh # NoId
           /\ issued' = issued \cup {Fresh} /\ issued' \in SUBSET Id
<1>1. issued \in SUBSET Id /\ Id # issued /\ Id \subseteq Nat /\ NoId \notin Id
  BY DecisionsAssumption DEF TypeOK, Issue
<1> DEFINE S == Id \ issued
<1>2. S \in SUBSET Nat /\ S # {}
  BY <1>1
<1>3. \E n \in S : \A k \in S : n <= k
  BY <1>2, LeastNat
<1>4. Fresh \in S
  BY <1>3 DEF Fresh
<1> QED
  BY <1>1, <1>4 DEF Issue

LEMMA WithSound ==
    ASSUME NEW m, Sound(m), NEW i \in Id, NEW r, RowSound(i, r)
    PROVE  /\ Sound(With(m, i, r)) /\ DOMAIN With(m, i, r) = DOMAIN m \cup {i}
           /\ With(m, i, r)[i] = r
           /\ \A j \in DOMAIN m : j # i => With(m, i, r)[j] = m[j]
<1> DEFINE w == With(m, i, r)
<1>1. /\ DOMAIN w = DOMAIN m \cup {i} /\ w = [j \in DOMAIN w |-> w[j]]
      /\ w[i] = r
      /\ \A j \in DOMAIN m : j # i => w[j] = m[j]
  BY DEF With
<1> HIDE DEF w
<1>2. IsFiniteSet(DOMAIN w) /\ DOMAIN w \subseteq Id
  BY <1>1, FS_AddElement DEF Sound, IsMemory
<1>3. \A j \in DOMAIN w : RowSound(j, w[j])
  BY <1>1, SoundRows
<1>4. Sound(w)
  BY <1>1, <1>2, <1>3, RowsSound
<1> QED
  BY <1>1, <1>4 DEF w

LEMMA NewRowIs ==
    ASSUME TypeOK, txn # "none", NEW c \in Claim(txn), NEW i \in Id,
           NEW flags \in SUBSET {"still_valid"}, NEW conflicts \in SUBSET Id, i \notin conflicts
    PROVE  LET r == NewRow(c, flags, conflicts) IN
           /\ RowSound(i, r) /\ ~HumanTrust(r) /\ r.topic = c.topic
           /\ Valid(r) <=> "still_valid" \in flags
<1> DEFINE r == NewRow(c, flags, conflicts)
<1>1. NoId \notin Id
  BY DecisionsAssumption
<1>2. c.topic \in Topic /\ c.decision \in Text /\ clock \in Nat
  BY DEF TypeOK, Claim
<1>3. Requested(c) \in SUBSET {"foundational_requested"}
  BY DEF Requested
<1>4. r \in Decision
  BY <1>2, <1>3 DEF NewRow, Decision, Flag, Confidence
<1>5. r.confidence # "human-reviewed" /\ "human_review" \notin r.flags
      /\ r.superseded_by = NoId /\ r.conflicts_with = conflicts /\ r.topic = c.topic
      /\ r.flags = flags \cup Requested(c)
  BY <1>3 DEF NewRow
<1>6. Valid(r) <=> "still_valid" \in flags
  BY <1>3, <1>5 DEF Valid
<1> HIDE DEF r
<1>7. RowSound(i, r) /\ ~HumanTrust(r)
  BY <1>1, <1>4, <1>5 DEF RowSound, HumanTrust
<1> QED
  BY <1>5, <1>6, <1>7 DEF r

\* What a round of the merge does to a memory.
Grown(m, d) ==
    /\ Sound(d) /\ DOMAIN m \subseteq DOMAIN d
    /\ \A i \in DOMAIN m : SameRow(m[i], d[i]) /\ (HumanTrust(m[i]) => d[i] = m[i])
    /\ \A i \in DOMAIN d \ DOMAIN m : ~HumanTrust(d[i])
    /\ \A t \in Topic :
          /\ \A i, j \in ValidRows(d, t) : i = j
          /\ ValidRows(m, t) # {} => ValidRows(d, t) # {}
          /\ ValidRows(d, t) # {} =>
                ValidRows(m, t) # {} \/ \A x, y \in Partners(m, t) : x = y

LEMMA GrownHumans ==
    ASSUME NEW m, NEW d, Sound(m), Grown(m, d), NEW t
    PROVE  HumanRows(d, t) = HumanRows(m, t) /\ Partners(d, t) = Partners(m, t)
<1>1. HumanRows(d, t) = HumanRows(m, t)
      /\ \A i \in HumanRows(m, t) : d[i] = m[i]
  BY DEF Grown, HumanRows, RowsOf, SameRow
<1> QED
  BY <1>1 DEF Partners

LEMMA GrownCalm ==
    ASSUME NEW m, NEW d, Sound(m), Grown(m, d), NEW t \in Topic, Calm(m, t)
    PROVE  Calm(d, t)
BY GrownHumans DEF Calm, Grown

\* The conflict a merge goes by is none exactly if the draft has none.
LEMMA MergeConflictIs ==
    ASSUME NEW m, Sound(m), NEW t, Calm(m, t)
    PROVE  /\ MergeConflict(m, t) \in SUBSET DOMAIN m
           /\ MergeConflict(m, t) = {} => \A x, y \in Partners(m, t) : x = y
<1> DEFINE S == {i \in HumanRows(m, t) : "human_conflict_quarantined" \in m[i].flags}
<1>1. S \subseteq HumanRows(m, t) /\ HumanRows(m, t) \subseteq DOMAIN m /\ IsFiniteSet(S)
  BY TopicSets, FS_Subset
<1>2. Conflict(m, t) = AtLeastTwo(Partners(m, t))
  BY CalmRead
<1>3. AtLeastTwo(S) = {} \/ AtLeastTwo(S) = S
  BY <1>1, AtLeastTwoIs
<1>4. /\ Partners(m, t) \subseteq DOMAIN m
      /\ Conflict(m, t) = {} \/ Conflict(m, t) = Partners(m, t)
      /\ Conflict(m, t) = {} => \A x, y \in Partners(m, t) : x = y
  BY <1>1, <1>2, PartnersFinite, AtLeastTwoIs
<1>5. MergeConflict(m, t) = IF AtLeastTwo(S) # {} THEN AtLeastTwo(S) ELSE Conflict(m, t)
  BY DEF MergeConflict
<1> HIDE DEF S
<1> QED
  BY <1>1, <1>3, <1>4, <1>5

\* A row is added to the draft.
LEMMA AddGrows ==
    ASSUME TypeOK, IInv, txn # "none", NEW c \in Claim(txn),
           NEW flags \in SUBSET {"still_valid"}, NEW conflicts \in SUBSET DOMAIN draft,
           AddRow(NewRow(c, flags, conflicts)),
           flags # {} => /\ ValidRows(draft, c.topic) = {}
                         /\ \A x, y \in Partners(draft, c.topic) : x = y
    PROVE  /\ Grown(draft, draft') /\ DOMAIN draft' = DOMAIN draft \cup {Fresh}
           /\ Issue
<1> DEFINE r == NewRow(c, flags, conflicts)
<1>1. Sound(draft) /\ DOMAIN draft \subseteq issued
  BY SoundMemories DEF IInv, IdsIssued
<1>2. Fresh \in Id /\ Fresh \notin DOMAIN draft
  BY <1>1, FreshIs DEF AddRow
<1>3. conflicts \in SUBSET Id /\ Fresh \notin conflicts
  BY <1>1, <1>2 DEF TypeOK
<1>4. RowSound(Fresh, r) /\ ~HumanTrust(r) /\ r.topic = c.topic
      /\ (Valid(r) <=> "still_valid" \in flags)
  BY <1>2, <1>3, NewRowIs
<1>5. draft' = With(draft, Fresh, r)
  BY DEF AddRow
<1> HIDE DEF r
<1>6. /\ Sound(draft') /\ DOMAIN draft' = DOMAIN draft \cup {Fresh}
      /\ draft'[Fresh] = r /\ \A j \in DOMAIN draft : draft'[j] = draft[j]
  BY <1>1, <1>2, <1>4, <1>5, WithSound
<1>7. ASSUME NEW t \in Topic
      PROVE  IF t = c.topic /\ flags # {} THEN ValidRows(draft', t) = {Fresh}
             ELSE ValidRows(draft', t) = ValidRows(draft, t)
  <2>1. ValidRows(draft', t) = ValidRows(draft, t)
           \cup (IF t = c.topic /\ Valid(r) THEN {Fresh} ELSE {})
    BY <1>2, <1>4, <1>6 DEF ValidRows, RowsOf
  <2> QED
    BY <1>4, <2>1
<1>8. \A t \in Topic : \A i, j \in ValidRows(draft, t) : i = j
  BY DEF IInv, DraftShape, Calm
<1>9. \A i \in DOMAIN draft : SameRow(draft[i], draft'[i])
  BY <1>6 DEF SameRow
<1>10. Grown(draft, draft')
  BY <1>4, <1>6, <1>7, <1>8, <1>9 DEF Grown
<1> QED
  BY <1>6, <1>10 DEF AddRow

\* The claim repeats what the authority says.
LEMMA RepeatGrows ==
    ASSUME TypeOK, IInv, txn # "none", NEW c \in Claim(txn),
           NEW i \in ValidRows(draft, c.topic), Repeat(c, i)
    PROVE  Grown(draft, draft') /\ DOMAIN draft' = DOMAIN draft /\ issued' = issued
<1> DEFINE r == draft[i]  s == Enriched(draft[i], c)
<1>1. Sound(draft)
  BY SoundMemories
<1>2. i \in DOMAIN draft /\ Valid(r)
  BY DEF ValidRows, RowsOf
<1>3. RowSound(i, r)
  BY <1>1, <1>2, SoundRows
<1>4. RowSound(i, s) /\ SameRow(r, s) /\ Valid(s) /\ (HumanTrust(r) => s = r)
  <2>1. CASE HumanTrust(r)
    BY <1>2, <1>3, <2>1 DEF Enriched, TrustedHuman, SameRow
  <2>2. CASE ~HumanTrust(r)
    <3> DEFINE f == r.flags \cup Requested(c)
               k == IF txn = "llm" THEN "llm-corroborated" ELSE r.confidence
    <3>1. s = [r EXCEPT !.flags = f, !.confidence = k]
      BY <2>2 DEF Enriched, TrustedHuman
    <3>2. Requested(c) \in SUBSET {"foundational_requested"}
      BY DEF Requested
    <3>3. r \in Decision /\ r.confidence # "human-reviewed" /\ "human_review" \notin r.flags
      BY <1>3, <2>2 DEF RowSound
    <3>4. /\ s \in Decision /\ s.confidence # "human-reviewed" /\ "human_review" \notin s.flags
          /\ s.superseded_by = r.superseded_by /\ s.conflicts_with = r.conflicts_with
          /\ s.topic = r.topic /\ s.decision = r.decision /\ s.timestamp = r.timestamp
          /\ "still_valid" \in r.flags => "still_valid" \in s.flags
      <4>1. f \in SUBSET Flag /\ "human_review" \notin f
            /\ ("still_valid" \in r.flags => "still_valid" \in f)
        BY <3>2, <3>3 DEF Decision, Flag
      <4>2. k \in Confidence /\ k # "human-reviewed"
        BY <3>3 DEF Decision, Confidence
      <4> HIDE DEF f, k, r, s
      <4> QED
        BY <3>1, <3>3, <4>1, <4>2 DEF Decision
    <3> HIDE DEF s
    <3> QED
      BY <1>2, <1>3, <2>2, <3>4 DEF RowSound, SameRow, HumanTrust, Valid
  <2> QED
    BY <2>1, <2>2
<1>5. draft' = [draft EXCEPT ![i] = s] /\ issued' = issued
  BY DEF Repeat
<1> HIDE DEF s
<1>6. /\ DOMAIN draft' = DOMAIN draft /\ draft' = [j \in DOMAIN draft' |-> draft'[j]]
      /\ draft'[i] = s /\ \A j \in DOMAIN draft : j # i => draft'[j] = draft[j]
  BY <1>1, <1>2, <1>5
<1>7. Sound(draft')
  <2>1. IsFiniteSet(DOMAIN draft') /\ DOMAIN draft' \subseteq Id
    BY <1>1, <1>6 DEF Sound, IsMemory
  <2>2. \A j \in DOMAIN draft' : RowSound(j, draft'[j])
    BY <1>1, <1>4, <1>6, SoundRows
  <2> QED
    BY <1>6, <2>1, <2>2, RowsSound
<1>8. \A j \in DOMAIN draft : /\ SameRow(draft[j], draft'[j])
                              /\ HumanTrust(draft[j]) => draft'[j] = draft[j]
                              /\ Valid(draft'[j]) <=> Valid(draft[j])
  BY <1>2, <1>4, <1>6 DEF SameRow
<1>9. \A t : ValidRows(draft', t) = ValidRows(draft, t)
  BY <1>6, <1>8 DEF ValidRows, RowsOf, SameRow
<1>10. \A t \in Topic : \A j, k \in ValidRows(draft, t) : j = k
  BY DEF IInv, DraftShape, Calm
<1>11. Grown(draft, draft')
  BY <1>6, <1>7, <1>8, <1>9, <1>10 DEF Grown
<1> QED
  BY <1>5, <1>6, <1>11
\* The claim takes the place of an authority that no human trusts.
LEMMA ReplaceGrows ==
    ASSUME TypeOK, IInv, txn # "none", NEW c \in Claim(txn),
           NEW i \in ValidRows(draft, c.topic), ~HumanTrust(draft[i]), Replace(c)
    PROVE  Grown(draft, draft') /\ DOMAIN draft' = DOMAIN draft \cup {Fresh}
<1> DEFINE t0 == c.topic
           Lost(j) == draft[j].topic = t0 /\ Replaced(j)
           m == [j \in DOMAIN draft |->
                    IF Lost(j) THEN Superseded(draft[j], Fresh) ELSE draft[j]]
           r == NewRow(c, {"still_valid"}, {})
<1>1. Sound(draft) /\ DOMAIN draft \subseteq issued
  BY SoundMemories DEF IInv, IdsIssued
<1>2. Fresh \in Id /\ Fresh \notin DOMAIN draft
  BY <1>1, FreshIs DEF Replace
<1>3. RowSound(Fresh, r) /\ ~HumanTrust(r) /\ r.topic = t0 /\ Valid(r)
  BY <1>2, NewRowIs
<1>4. draft' = With(m, Fresh, r)
  BY DEF Replace
<1>5. \A j \in DOMAIN draft : m[j] = IF Lost(j) THEN Superseded(draft[j], Fresh) ELSE draft[j]
  OBVIOUS
<1>6. \A j \in DOMAIN draft : Lost(j) => ~HumanTrust(draft[j])
  BY DEF Replaced
<1>7. \A j \in DOMAIN draft : draft[j].topic = t0 /\ Valid(draft[j]) => Lost(j)
  <2>1. \A j \in ValidRows(draft, t0) : j = i
    BY DEF IInv, DraftShape, Calm, Claim
  <2> QED
    BY <2>1 DEF ValidRows, RowsOf, Replaced
<1>8. \A j \in DOMAIN draft : Lost(j) => draft[j].topic = t0
  OBVIOUS
<1>9. DOMAIN m = DOMAIN draft /\ m = [j \in DOMAIN m |-> m[j]]
  OBVIOUS
<1> HIDE DEF m, r, Lost
<1>10. \A j \in DOMAIN draft :
          /\ RowSound(j, m[j]) /\ SameRow(draft[j], m[j])
          /\ HumanTrust(draft[j]) => m[j] = draft[j]
          /\ Lost(j) => ~Valid(m[j])
          /\ ~Lost(j) => m[j] = draft[j]
  <2> TAKE j \in DOMAIN draft
  <2>1. RowSound(j, draft[j]) /\ j # Fresh
    BY <1>1, <1>2, SoundRows
  <2>2. CASE Lost(j)
    BY <1>2, <1>5, <1>6, <2>1, <2>2, SupersededRow
  <2>3. CASE ~Lost(j)
    BY <1>5, <2>1, <2>3 DEF SameRow
  <2> QED
    BY <2>2, <2>3
<1>11. Sound(m)
  BY <1>1, <1>9, <1>10, RowsSound DEF Sound, IsMemory
<1>12. /\ Sound(draft') /\ DOMAIN draft' = DOMAIN draft \cup {Fresh}
       /\ draft'[Fresh] = r /\ \A j \in DOMAIN draft : draft'[j] = m[j]
  <2>1. /\ Sound(With(m, Fresh, r)) /\ DOMAIN With(m, Fresh, r) = DOMAIN m \cup {Fresh}
        /\ With(m, Fresh, r)[Fresh] = r
        /\ \A j \in DOMAIN m : j # Fresh => With(m, Fresh, r)[j] = m[j]
    BY <1>2, <1>3, <1>11, WithSound
  <2>2. \A j \in DOMAIN draft : j # Fresh
    BY <1>2
  <2> QED
    BY <1>4, <1>9, <2>1, <2>2
<1>13. ASSUME NEW t \in Topic
       PROVE  IF t = t0 THEN ValidRows(draft', t) = {Fresh}
              ELSE ValidRows(draft', t) = ValidRows(draft, t)
  <2>1. CASE t = t0
    <3>1. \A j \in DOMAIN draft : m[j].topic = t => ~Valid(m[j])
      BY <1>7, <1>10, <2>1 DEF SameRow
    <3> QED
      BY <1>3, <1>12, <2>1, <3>1 DEF ValidRows, RowsOf
  <2>2. CASE t # t0
    <3>1. \A j \in DOMAIN draft : draft[j].topic = t => m[j] = draft[j]
      BY <1>8, <1>10, <2>2
    <3>2. \A j \in DOMAIN draft : m[j].topic = draft[j].topic
      BY <1>10 DEF SameRow
    <3> QED
      BY <1>3, <1>12, <2>2, <3>1, <3>2 DEF ValidRows, RowsOf
  <2> QED
    BY <2>1, <2>2
<1>14. \A t \in Topic : \A j, k \in ValidRows(draft, t) : j = k
  BY DEF IInv, DraftShape, Calm
<1>15. Grown(draft, draft')
  <2>1. \A t \in Topic : ValidRows(draft', t) # {} => ValidRows(draft, t) # {}
    <3> TAKE t \in Topic
    <3>1. i \in ValidRows(draft, t0)
      OBVIOUS
    <3> QED
      BY <1>13, <3>1
  <2>2. \A t \in Topic : ValidRows(draft, t) # {} => ValidRows(draft', t) # {}
    BY <1>13
  <2>3. \A t \in Topic : \A j, k \in ValidRows(draft', t) : j = k
    BY <1>13, <1>14
  <2>4. \A j \in DOMAIN draft : /\ SameRow(draft[j], draft'[j])
                                /\ HumanTrust(draft[j]) => draft'[j] = draft[j]
    BY <1>10, <1>12
  <2> QED
    BY <1>3, <1>12, <2>1, <2>2, <2>3, <2>4 DEF Grown
<1> QED
  BY <1>12, <1>15

LEMMA MergeGrows ==
    ASSUME TypeOK, IInv, txn # "none", NEW c \in Claim(txn), MergeClaim(c)
    PROVE  /\ Grown(draft, draft')
           /\ \/ issued' = issued /\ DOMAIN draft' = DOMAIN draft
              \/ Issue /\ DOMAIN draft' = DOMAIN draft \cup {Fresh}
<1> DEFINE t == c.topic
<1>1. Sound(draft) /\ t \in Topic
  BY SoundMemories DEF Claim
<1>2. Calm(draft, t)
  BY <1>1 DEF IInv, DraftShape
<1>3. Authorities(draft, t) = ValidRows(draft, t)
  BY <1>1, <1>2, CalmRead
<1>4. ASSUME NEW S \in SUBSET DOMAIN draft, Contest(c, S)
      PROVE  Grown(draft, draft') /\ DOMAIN draft' = DOMAIN draft \cup {Fresh} /\ Issue
  <2>1. AddRow(NewRow(c, {}, S))
    BY <1>4 DEF Contest
  <2> QED
    BY <1>4, <2>1, AddGrows
<1>5. CASE MergeConflict(draft, t) # {} /\ Contest(c, MergeConflict(draft, t))
  BY <1>1, <1>2, <1>4, <1>5, MergeConflictIs
<1>6. CASE /\ MergeConflict(draft, t) = {} /\ ValidRows(draft, t) = {}
           /\ AddRow(NewRow(c, {"still_valid"}, {}))
  <2>1. \A x, y \in Partners(draft, t) : x = y
    BY <1>1, <1>2, <1>6, MergeConflictIs
  <2> QED
    BY <1>6, <2>1, AddGrows
<1>7. ASSUME NEW i \in ValidRows(draft, t), MeetAuthority(c, i)
      PROVE  /\ Grown(draft, draft')
             /\ \/ issued' = issued /\ DOMAIN draft' = DOMAIN draft
                \/ Issue /\ DOMAIN draft' = DOMAIN draft \cup {Fresh}
  <2>1. i \in DOMAIN draft /\ Valid(draft[i])
    BY <1>7 DEF ValidRows, RowsOf
  <2>2. CASE Repeat(c, i)
    BY <1>7, <2>2, RepeatGrows
  <2>3. CASE Yields(draft[i]) /\ Replace(c)
    <3>1. ~HumanTrust(draft[i])
      BY <2>1, <2>3 DEF Yields, TrustedHuman, HumanTrust
    <3> QED
      BY <1>7, <2>3, <3>1, ReplaceGrows DEF Replace
  <2>4. CASE Contest(c, {i})
    BY <1>4, <2>1, <2>4
  <2> QED
    BY <1>7, <2>2, <2>3, <2>4 DEF MeetAuthority
<1> QED
  BY <1>3, <1>5, <1>6, <1>7 DEF MergeClaim

LEMMA MergeClaimStep ==
    ASSUME TypeOK, IInv, txn # "none", NEW c \in Claim(txn), MergeClaim(c)
    PROVE  TypeOK' /\ IInv'
<1>1. rows' = rows /\ clock' = clock /\ txn' = txn /\ prior' = prior /\ review' = review
  BY DEF MergeClaim
<1>2. Grown(draft, draft') /\ Sound(draft) /\ Sound(draft')
  BY MergeGrows, SoundMemories DEF Grown
<1>3. \/ issued' = issued /\ DOMAIN draft' = DOMAIN draft
      \/ /\ issued' = issued \cup {Fresh} /\ Fresh \in Id /\ Fresh \notin issued
         /\ DOMAIN draft' = DOMAIN draft \cup {Fresh}
  BY MergeGrows, FreshIs
<1>4. TypeOK'
  BY <1>1, <1>2, <1>3 DEF TypeOK, Sound
<1>5. Readable'
  BY <1>1, <1>2 DEF IInv, Readable, Sound
<1>6. IdsIssued'
  BY <1>1, <1>3 DEF IInv, IdsIssued, Looked
<1>7. ShownShape'
  BY <1>1, <1>3 DEF IInv, IdsIssued, ShownShape, Looked
<1>8. DraftShape'
  <2>1. DOMAIN rows \subseteq DOMAIN draft' /\ \A i \in DOMAIN rows : SameRow(rows[i], draft'[i])
    BY <1>2 DEF IInv, DraftShape, Grown, SameRow
  <2>2. \A i \in DOMAIN draft' \ DOMAIN rows : ~HumanTrust(draft'[i])
    BY <1>2 DEF IInv, DraftShape, Grown, SameRow
  <2>3. \A i \in HumanAuthorities : Valid(draft'[i])
    <3> TAKE i \in HumanAuthorities
    <3>1. i \in DOMAIN rows /\ HumanTrust(rows[i])
      BY DEF HumanAuthorities
    <3>2. i \in DOMAIN draft /\ HumanTrust(draft[i]) /\ Valid(draft[i])
      BY <3>1 DEF IInv, DraftShape, SameRow
    <3> QED
      BY <1>2, <3>2 DEF Grown
  <2>4. HumanAuthorities' = HumanAuthorities
    BY <1>1 DEF HumanAuthorities
  <2>5. ASSUME NEW t \in Topic
        PROVE  /\ Calm(draft', t)
               /\ Conflict(rows, t) \subseteq Partners(draft', t)
               /\ Authorities(rows, t) # {} => ValidRows(draft', t) # {}
    <3>1. /\ Calm(draft, t)
          /\ Conflict(rows, t) \subseteq Partners(draft, t)
          /\ Authorities(rows, t) # {} => ValidRows(draft, t) # {}
      BY DEF IInv, DraftShape
    <3> QED
      BY <1>2, <3>1, GrownCalm, GrownHumans DEF Grown
  <2> QED
    BY <1>1, <2>1, <2>2, <2>3, <2>4, <2>5 DEF DraftShape
<1> QED
  BY <1>4, <1>5, <1>6, <1>7, <1>8 DEF IInv
LEMMA BeginMergeStep ==
    ASSUME TypeOK, IInv, NEW origin \in {"heuristic", "llm"}, BeginMerge(origin)
    PROVE  TypeOK' /\ IInv'
<1>1. /\ rows' = rows /\ clock' = clock /\ issued' = issued /\ review' = review
      /\ txn' = origin /\ draft' = Reconciled(rows)
      /\ prior' = {i \in DOMAIN rows : Valid(rows[i])}
  BY DEF BeginMerge
<1>2. Sound(rows) /\ Sound(draft') /\ DOMAIN draft' = DOMAIN rows
  BY <1>1, SoundMemories, ReadSound
<1>3. TypeOK'
  BY <1>1, <1>2 DEF TypeOK, Sound, IsMemory
<1>4. Readable' /\ IdsIssued' /\ ShownShape'
  BY <1>1, <1>2 DEF IInv, Readable, Sound, IdsIssued, ShownShape, Looked
<1>5. DraftShape'
  <2>1. HumanAuthorities' = HumanAuthorities
    BY <1>1 DEF HumanAuthorities
  <2>2. \A i \in DOMAIN rows : SameRow(rows[i], draft'[i])
    BY <1>1, <1>2, Read
  <2>3. \A i \in HumanAuthorities : Valid(draft'[i])
    <3> TAKE i \in HumanAuthorities
    <3>1. i \in Authorities(rows, rows[i].topic)
      BY DEF HumanAuthorities
    <3> QED
      BY <1>1, <3>1 DEF Authorities, ValidRows
  <2>4. \A t \in Topic :
           /\ Calm(draft', t)
           /\ Conflict(rows, t) \subseteq Partners(draft', t)
           /\ Authorities(rows, t) # {} => ValidRows(draft', t) # {}
    BY <1>1, <1>2, ReadCalm, ConflictMarked, ReadOne
  <2> QED
    BY <1>1, <1>2, <2>1, <2>2, <2>3, <2>4 DEF DraftShape
<1> QED
  BY <1>3, <1>4, <1>5 DEF IInv

\* The end of a transaction: rows keep their words, and new ones have new ids.
LEMMA Committed ==
    ASSUME TypeOK, IInv, Sound(rows'), txn' = "none", draft' = None,
           prior' \in SUBSET Id, clock' \in Nat,
           issued \subseteq issued', issued' \in SUBSET Id, DOMAIN rows' \subseteq issued',
           review' \in [Human -> Look],
           \A h \in Human : review'[h].kind = "none" \/ review'[h] = review[h],
           \A i \in DOMAIN rows' :
              \/ i \in DOMAIN rows /\ rows'[i].decision = rows[i].decision
              \/ i \notin issued
              \/ i \in DOMAIN draft \ DOMAIN rows
    PROVE  TypeOK' /\ IInv'
<1>1. IsMemory(None) /\ SchemaSound(None) /\ DOMAIN None = {}
  BY FS_EmptySet DEF None, IsMemory, SchemaSound
<1>2. TypeOK'
  BY <1>1 DEF TypeOK, Sound
<1>3. Readable' /\ IdsIssued' /\ DraftShape'
  BY <1>1 DEF IInv, Readable, Sound, IdsIssued, DraftShape, Looked
<1>4. ShownShape'
  <2> SUFFICES ASSUME NEW h \in Human, review'[h].kind # "none", Looked(h)' \in DOMAIN rows'
               PROVE  review'[h].shown = rows'[Looked(h)'].decision
    BY <1>1 DEF ShownShape
  <2>1. review'[h] = review[h] /\ Looked(h)' = Looked(h)
    BY DEF Looked
  <2>2. Looked(h) \in issued /\ (Looked(h) \in DOMAIN draft => Looked(h) \in DOMAIN rows)
    BY <2>1 DEF IInv, IdsIssued, ShownShape
  <2>3. Looked(h) \in DOMAIN rows /\ rows'[Looked(h)].decision = rows[Looked(h)].decision
    BY <2>1, <2>2
  <2> QED
    BY <2>1, <2>3 DEF IInv, ShownShape
<1> QED
  BY <1>2, <1>3, <1>4 DEF IInv

LEMMA ShrunkCalm ==
    ASSUME NEW m, NEW n, Sound(m), Sound(n), NEW t, Shrunk(m, n, t), Calm(m, t)
    PROVE  Calm(n, t)
BY ShrunkHumans DEF Calm

\* What a merge commits.
LEMMA MergeCommits ==
    ASSUME TypeOK, IInv, txn # "none", NEW n \in Fits(draft, {})
    PROVE  /\ Sound(n) /\ DOMAIN n \subseteq DOMAIN draft
           /\ \A i \in DOMAIN n : n[i] = draft[i]
           /\ \A i \in DOMAIN draft : HumanTrust(draft[i]) => i \in DOMAIN n
           /\ \A t \in Topic : /\ Calm(n, t) /\ Partners(n, t) = Partners(draft, t)
                               /\ ValidRows(n, t) = ValidRows(draft, t) \cap DOMAIN n
<1>1. Sound(draft)
  BY SoundMemories
<1>2. /\ Sound(n) /\ DOMAIN n \subseteq DOMAIN draft
      /\ \A i \in DOMAIN n : n[i] = draft[i]
      /\ \A i \in DOMAIN draft : HumanTrust(draft[i]) => i \in DOMAIN n
      /\ \A t : Shrunk(draft, n, t)
  BY <1>1, FitsKeeps
<1>3. ASSUME NEW t \in Topic
      PROVE  /\ Calm(n, t) /\ Partners(n, t) = Partners(draft, t)
             /\ ValidRows(n, t) = ValidRows(draft, t) \cap DOMAIN n
  <2>1. Calm(draft, t)
    BY DEF IInv, DraftShape
  <2>2. ValidRows(n, t) = ValidRows(draft, t) \cap DOMAIN n
    BY <1>2 DEF ValidRows, RowsOf
  <2> QED
    BY <1>1, <1>2, <2>1, <2>2, ShrunkCalm, ShrunkHumans
<1> QED
  BY <1>2, <1>3

LEMMA CommitMergeStep ==
    ASSUME TypeOK, IInv, CommitMerge
    PROVE  TypeOK' /\ IInv'
<1>1. /\ txn # "none" /\ txn' = "none" /\ draft' = None /\ prior' = {}
      /\ issued' = issued /\ clock' = clock /\ review' = review
      /\ rows' \in Fits(draft, {}) \/ rows' = rows
  BY DEF CommitMerge, Commit
<1>2. clock' \in Nat /\ issued' \in SUBSET Id /\ review' \in [Human -> Look]
      /\ DOMAIN rows \subseteq issued /\ DOMAIN draft \subseteq issued
  BY <1>1 DEF TypeOK, IInv, IdsIssued
<1>3. /\ Sound(rows')
      /\ \A i \in DOMAIN rows' :
            \/ i \in DOMAIN rows /\ rows'[i].decision = rows[i].decision
            \/ i \in DOMAIN draft \ DOMAIN rows
  <2>1. CASE rows' = rows
    BY <2>1, SoundMemories
  <2>2. CASE rows' \in Fits(draft, {})
    <3>1. Sound(rows') /\ DOMAIN rows' \subseteq DOMAIN draft
          /\ \A i \in DOMAIN rows' : rows'[i] = draft[i]
      BY <1>1, <2>2, MergeCommits
    <3>2. \A i \in DOMAIN rows : draft[i].decision = rows[i].decision
      BY <1>1 DEF IInv, DraftShape, SameRow
    <3> QED
      BY <3>1, <3>2
  <2> QED
    BY <1>1, <2>1, <2>2
<1>4. DOMAIN rows' \subseteq issued'
  BY <1>1, <1>2, <1>3
<1> QED
  BY <1>1, <1>2, <1>3, <1>4, Committed

-----------------------------------------------------------------------------
(* Humans.                                                                 *)

\* A look at rows that are there.
LEMMA LookStep ==
    ASSUME TypeOK, IInv, NEW h \in Human, NEW look \in Look, LookAt(h, look),
           look.kind = "promote" => look.target \in DOMAIN rows
                                    /\ look.shown = rows[look.target].decision,
           look.kind = "supersede" => look.candidate \in DOMAIN rows
                                      /\ look.shown = rows[look.candidate].decision
    PROVE  TypeOK' /\ IInv'
<1>1. /\ rows' = rows /\ issued' = issued /\ clock' = clock
      /\ txn' = txn /\ draft' = draft /\ prior' = prior
      /\ review' = [review EXCEPT ![h] = look]
  BY DEF LookAt, mergeVars
<1>2. review' \in [Human -> Look] /\ review'[h] = look
      /\ \A k \in Human \ {h} : review'[k] = review[k]
  BY <1>1 DEF TypeOK
<1>3. TypeOK'
  BY <1>1, <1>2 DEF TypeOK
<1>4. look.kind \in {"none", "promote", "supersede"}
  BY DEF Look
<1>5. DOMAIN rows \subseteq issued
  BY DEF IInv, IdsIssued
<1>6. \A k \in Human \ {h} : Looked(k)' = Looked(k)
  BY <1>2 DEF Looked
<1>7. look.kind # "none" => Looked(h)' \in DOMAIN rows /\ look.shown = rows[Looked(h)'].decision
  BY <1>2, <1>4 DEF Looked
<1>8. IdsIssued' /\ ShownShape'
  BY <1>1, <1>2, <1>5, <1>6, <1>7 DEF IInv, IdsIssued, ShownShape
<1>9. Readable' /\ DraftShape'
  BY <1>1 DEF IInv, Readable, DraftShape, HumanAuthorities
<1> QED
  BY <1>3, <1>8, <1>9 DEF IInv

LEMMA LookAwayStep ==
    ASSUME TypeOK, IInv, NEW h \in Human, LookAway(h)
    PROVE  TypeOK' /\ IInv'
<1>1. /\ rows' = rows /\ issued' = issued /\ clock' = clock
      /\ txn' = txn /\ draft' = draft /\ prior' = prior
      /\ review' = [review EXCEPT ![h] = NoLook]
  BY DEF LookAway, mergeVars
<1>2. review' \in [Human -> Look] /\ review'[h].kind = "none"
      /\ \A k \in Human \ {h} : review'[k] = review[k] /\ Looked(k)' = Looked(k)
  BY <1>1 DEF TypeOK, NoLook, Look, Looked
<1>3. TypeOK'
  BY <1>1, <1>2 DEF TypeOK
<1>4. IdsIssued' /\ ShownShape'
  BY <1>1, <1>2 DEF IInv, IdsIssued, ShownShape
<1>5. Readable' /\ DraftShape'
  BY <1>1 DEF IInv, Readable, DraftShape, HumanAuthorities
<1> QED
  BY <1>3, <1>4, <1>5 DEF IInv
\* A human's transaction on row i, with what the budget drops in it.
OneChanged(m, n, i) ==
    /\ Sound(n) /\ DOMAIN n \subseteq DOMAIN m /\ i \in DOMAIN n
    /\ \A j \in DOMAIN n \ {i} : n[j] = m[j]
    /\ n[i].topic = m[i].topic /\ n[i].decision = m[i].decision
    /\ \A t \in Topic : t # m[i].topic => Shrunk(m, n, t)

LEMMA ChangeOne ==
    ASSUME NEW m, Sound(m), NEW i \in DOMAIN m, NEW s, RowSound(i, s),
           s.topic = m[i].topic, s.decision = m[i].decision,
           NEW n \in Fits([m EXCEPT ![i] = s], {i})
    PROVE  OneChanged(m, n, i) /\ n[i] = s
<1> DEFINE w == [m EXCEPT ![i] = s]
<1>1. /\ DOMAIN w = DOMAIN m /\ w = [j \in DOMAIN w |-> w[j]]
      /\ w[i] = s /\ \A j \in DOMAIN m \ {i} : w[j] = m[j]
  BY DEF Sound, IsMemory
<1>2. n \in Fits(w, {i})
  OBVIOUS
<1> HIDE DEF w
<1>3. Sound(w)
  BY <1>1, SoundRows, RowsSound DEF Sound, IsMemory
<1>4. /\ Sound(n) /\ DOMAIN n \subseteq DOMAIN w
      /\ \A j \in DOMAIN n : n[j] = w[j]
      /\ \A j \in DOMAIN w : HumanTrust(w[j]) \/ j \in {i} => j \in DOMAIN n
  BY <1>2, <1>3, FitsKeeps
<1>5. ASSUME NEW t \in Topic, t # m[i].topic
      PROVE  Shrunk(m, n, t)
  <2>1. \A j \in RowsOf(n, t) : j \in RowsOf(m, t) /\ n[j] = m[j]
    BY <1>1, <1>4, <1>5 DEF RowsOf
  <2>2. HumanRows(m, t) \subseteq RowsOf(n, t)
    BY <1>1, <1>4, <1>5 DEF RowsOf, HumanRows
  <2> QED
    BY <2>1, <2>2 DEF Shrunk
<1> QED
  BY <1>1, <1>4, <1>5 DEF OneChanged

LEMMA AuthorityIs ==
    ASSUME NEW m, Sound(m), NEW t, NEW i \in Authorities(m, t)
    PROVE  /\ i \in DOMAIN m /\ m[i].topic = t /\ Valid(m[i]) /\ Conflict(m, t) = {}
           /\ Reconciled(m)[i] = m[i]
           /\ \A j \in Authorities(m, t) : j = i
<1>1. i \in ValidRows(Reconciled(m), t) /\ Conflict(m, t) = {}
  BY DEF Authorities
<1>2. i \in DOMAIN m /\ m[i].topic = t /\ Valid(m[i])
  BY <1>1, ReadSound DEF ValidRows, RowsOf
<1>3. Reconciled(m)[i] = m[i]
  BY <1>1, <1>2, Read DEF ValidRows
<1> QED
  BY <1>1, <1>2, <1>3, ReadOne

LEMMA RequestDoes ==
    ASSUME TypeOK, IInv, NEW i, Request(i)
    PROVE  /\ i \in Authorities(rows, rows[i].topic) /\ i \in DOMAIN rows
           /\ ~HumanTrust(rows[i])
           /\ \/ rows' = rows
              \/ OneChanged(rows, rows', i) /\ ~HumanTrust(rows'[i])
           /\ Idle /\ issued' = issued /\ clock' = clock /\ review' = review
           /\ txn' = txn /\ draft' = draft /\ prior' = prior
<1> DEFINE s == [rows[i] EXCEPT !.flags = @ \cup {"foundational_requested"}]
           w == [rows EXCEPT ![i].flags = @ \cup {"foundational_requested"}]
<1>1. i \in Authorities(rows, rows[i].topic) /\ i \in DOMAIN rows
      /\ ~TrustedHuman(Reconciled(rows)[i])
  BY DEF Request, Requestable
<1>2. Sound(rows) /\ ~HumanTrust(rows[i])
  BY <1>1, SoundMemories, AuthorityIs DEF TrustedHuman
<1>3. RowSound(i, rows[i])
  BY <1>1, <1>2, SoundRows
<1>4. RowSound(i, s) /\ s.topic = rows[i].topic /\ s.decision = rows[i].decision
      /\ ~HumanTrust(s)
  BY <1>2, <1>3 DEF RowSound, Decision, Flag, HumanTrust
<1>5. w = [rows EXCEPT ![i] = s]
  BY <1>1 DEF Sound, IsMemory
<1>6. rows' \in Fits(w, {i}) \/ rows' = rows
  BY DEF Request, Commit
<1> HIDE DEF s, w
<1>7. ASSUME rows' \in Fits(w, {i})
      PROVE  OneChanged(rows, rows', i) /\ ~HumanTrust(rows'[i])
  <2>1. rows' \in Fits([rows EXCEPT ![i] = s], {i})
    BY <1>5, <1>7
  <2>2. OneChanged(rows, rows', i) /\ rows'[i] = s
    BY <1>1, <1>2, <1>4, <2>1, ChangeOne
  <2> QED
    BY <1>4, <2>2
<1>8. /\ Idle /\ issued' = issued /\ clock' = clock /\ review' = review
      /\ txn' = txn /\ draft' = draft /\ prior' = prior
  BY DEF Request, mergeVars
<1> QED
  BY <1>1, <1>2, <1>6, <1>7, <1>8

LEMMA ConfirmedIs ==
    ASSUME NEW i, NEW r, RowSound(i, r)
    PROVE  LET s == Confirmed(r) IN
           /\ RowSound(i, s) /\ HumanTrust(s) /\ (Valid(r) => Valid(s))
           /\ s.topic = r.topic /\ s.decision = r.decision
BY DEF Confirmed, RowSound, HumanTrust, Valid, Decision, Flag, Confidence

LEMMA PromoteDoes ==
    ASSUME TypeOK, IInv, NEW h \in Human, Promote(h)
    PROVE  LET i == review[h].target IN
           /\ review[h].kind = "promote"
           /\ i \in Authorities(rows, rows[i].topic) /\ i \in DOMAIN rows
           /\ ~HumanTrust(rows[i]) /\ review[h].shown = rows[i].decision
           /\ \/ rows' = rows
              \/ OneChanged(rows, rows', i) /\ TrustedHuman(rows'[i])
           /\ Idle /\ issued' = issued /\ clock' = clock
           /\ review' = [review EXCEPT ![h] = NoLook]
           /\ txn' = txn /\ draft' = draft /\ prior' = prior
<1> DEFINE i == review[h].target
           s == Confirmed(rows[i])
           w == [rows EXCEPT ![i] = Confirmed(@)]
<1>1. review[h].kind = "promote" /\ i \in DOMAIN rows /\ ~TrustedHuman(rows[i])
      /\ i \in Authorities(rows, rows[i].topic)
  BY DEF Promote, Promotable
<1>2. Sound(rows) /\ Valid(rows[i]) /\ ~HumanTrust(rows[i])
  BY <1>1, SoundMemories, AuthorityIs DEF TrustedHuman
<1>3. review[h].shown = rows[i].decision
  BY <1>1 DEF IInv, ShownShape, Looked
<1>4. RowSound(i, s) /\ TrustedHuman(s) /\ s.topic = rows[i].topic
      /\ s.decision = rows[i].decision
  BY <1>1, <1>2, SoundRows, ConfirmedIs DEF TrustedHuman
<1>5. w = [rows EXCEPT ![i] = s]
  BY <1>1 DEF Sound, IsMemory
<1>6. rows' \in Fits(w, {i}) \/ rows' = rows
  BY DEF Promote, Commit
<1>7. /\ Idle /\ issued' = issued /\ clock' = clock
      /\ review' = [review EXCEPT ![h] = NoLook]
      /\ txn' = txn /\ draft' = draft /\ prior' = prior
  BY DEF Promote, mergeVars
<1> HIDE DEF i, s, w
<1>8. ASSUME rows' \in Fits(w, {i})
      PROVE  OneChanged(rows, rows', i) /\ TrustedHuman(rows'[i])
  <2>1. rows' \in Fits([rows EXCEPT ![i] = s], {i})
    BY <1>5, <1>8
  <2>2. OneChanged(rows, rows', i) /\ rows'[i] = s
    BY <1>1, <1>2, <1>4, <2>1, ChangeOne
  <2> QED
    BY <1>4, <2>2
<1> QED
  BY <1>1, <1>2, <1>3, <1>6, <1>7, <1>8 DEF i
LEMMA DemotedIs ==
    ASSUME NEW i, NEW r, RowSound(i, r), NEW n \in Id, i # n
    PROVE  LET s == Demoted(r, n) IN
           RowSound(i, s) /\ ~HumanTrust(s) /\ s.decision = r.decision
BY DEF Demoted, RowSound, HumanTrust, Decision, Flag, Confidence

LEMMA SuccessorIs ==
    ASSUME NEW i, NEW r, RowSound(i, r), NEW c \in Id, NEW n \in Id
    PROVE  LET s == Successor(c, r) IN
           /\ RowSound(n, s) /\ TrustedHuman(s) /\ s.decision = r.decision
           /\ s.derived_from = c /\ s.topic = r.topic
BY DecisionsAssumption
   DEF Successor, RowSound, TrustedHuman, Valid, HumanTrust, Decision, Flag, Confidence

LEMMA LinkedIs ==
    ASSUME NEW i, NEW r, RowSound(i, r), NEW n \in Id, i # n
    PROVE  LET s == [r EXCEPT !.superseded_by = n] IN
           /\ RowSound(i, s) /\ s.decision = r.decision
           /\ HumanTrust(s) <=> HumanTrust(r)
BY DEF RowSound, HumanTrust, Decision

\* A supersession adds its one row and takes a human's trust from one: nothing
\* else about trust changes, and no words do.
LEMMA SupersedeDoes ==
    ASSUME TypeOK, IInv, NEW h \in Human, Supersede(h)
    PROVE  LET a == review[h].target  c == review[h].candidate IN
           /\ review[h].kind = "supersede"
           /\ c \in DOMAIN rows /\ review[h].shown = rows[c].decision
           /\ Issue
           /\ \/ rows' = rows
              \/ /\ Sound(rows') /\ DOMAIN rows' \subseteq DOMAIN rows \cup {Fresh}
                 /\ \A i \in DOMAIN rows' \ {Fresh} :
                       /\ rows'[i].decision = rows[i].decision
                       /\ HumanTrust(rows'[i]) => HumanTrust(rows[i])
                 /\ Fresh \in DOMAIN rows' /\ TrustedHuman(rows'[Fresh])
                 /\ rows'[Fresh].derived_from = c
                 /\ rows'[Fresh].decision = rows[c].decision
           /\ Idle /\ clock' = clock
           /\ review' = [review EXCEPT ![h] = NoLook]
           /\ txn' = txn /\ draft' = draft /\ prior' = prior
<1> DEFINE a == review[h].target  c == review[h].candidate
           ra == Demoted(rows[a], Fresh)
           rc == [rows[c] EXCEPT !.superseded_by = Fresh]
           rn == Successor(c, rows[c])
           m == [rows EXCEPT ![a] = Demoted(@, Fresh), ![c].superseded_by = Fresh]
           w == With(m, Fresh, rn)
<1>1. /\ review[h].kind = "supersede" /\ Linked(a, c) /\ Issue
      /\ rows' \in Fits(w, {Fresh, a, c}) \/ rows' = rows
  BY DEF Supersede, Commit
<1>2. /\ Idle /\ clock' = clock
      /\ review' = [review EXCEPT ![h] = NoLook]
      /\ txn' = txn /\ draft' = draft /\ prior' = prior
  BY DEF Supersede, mergeVars
<1>3. Sound(rows)
  BY SoundMemories
<1>4. a \in DOMAIN rows /\ c \in DOMAIN rows /\ a \in rows[c].conflicts_with
  BY <1>1 DEF Linked
<1>5. a # c /\ a \in Id /\ c \in Id /\ RowSound(a, rows[a]) /\ RowSound(c, rows[c])
  <2>1. RowSound(c, rows[c])
    BY <1>3, <1>4, SoundRows
  <2> QED
    BY <1>3, <1>4, <2>1, SoundRows DEF RowSound
<1>6. Fresh \in Id /\ Fresh \notin issued
  BY <1>1, FreshIs
<1>7. Fresh \notin DOMAIN rows
  BY <1>6 DEF IInv, IdsIssued
<1>8. review[h].shown = rows[c].decision
  BY <1>1, <1>4 DEF IInv, ShownShape, Looked
<1>9. RowSound(a, ra) /\ ~HumanTrust(ra) /\ ra.decision = rows[a].decision
  BY <1>4, <1>5, <1>6, <1>7, DemotedIs
<1>10. RowSound(c, rc) /\ rc.decision = rows[c].decision
       /\ (HumanTrust(rc) <=> HumanTrust(rows[c]))
  BY <1>4, <1>5, <1>6, <1>7, LinkedIs
<1>11. RowSound(Fresh, rn) /\ TrustedHuman(rn) /\ rn.decision = rows[c].decision
       /\ rn.derived_from = c
  BY <1>5, <1>6, SuccessorIs
<1>12. m = [rows EXCEPT ![a] = ra, ![c] = rc]
  BY <1>4, <1>5
<1> HIDE DEF a, c, ra, rc, rn, m
<1>13. /\ DOMAIN m = DOMAIN rows /\ m = [j \in DOMAIN m |-> m[j]]
       /\ m[a] = ra /\ m[c] = rc /\ \A j \in DOMAIN rows \ {a, c} : m[j] = rows[j]
  BY <1>3, <1>4, <1>5, <1>12 DEF Sound, IsMemory
<1>14. Sound(m)
  <2>1. IsFiniteSet(DOMAIN m) /\ DOMAIN m \subseteq Id
    BY <1>3, <1>13 DEF Sound, IsMemory
  <2>2. \A j \in DOMAIN m : RowSound(j, m[j])
    BY <1>3, <1>9, <1>10, <1>13, SoundRows
  <2> QED
    BY <1>13, <2>1, <2>2, RowsSound
<1>15. \A j \in DOMAIN m : m[j].decision = rows[j].decision
                           /\ (HumanTrust(m[j]) => HumanTrust(rows[j]))
  BY <1>9, <1>10, <1>13
<1>16. /\ Sound(w) /\ DOMAIN w = DOMAIN rows \cup {Fresh} /\ w[Fresh] = rn
       /\ \A j \in DOMAIN rows : w[j] = m[j]
  BY <1>6, <1>7, <1>11, <1>13, <1>14, WithSound
<1> HIDE DEF w
<1>17. ASSUME rows' \in Fits(w, {Fresh, a, c})
       PROVE  /\ Sound(rows') /\ DOMAIN rows' \subseteq DOMAIN rows \cup {Fresh}
              /\ \A i \in DOMAIN rows' : rows'[i] = w[i]
              /\ Fresh \in DOMAIN rows'
  BY <1>16, <1>17, FitsKeeps
<1>18. ASSUME rows' \in Fits(w, {Fresh, a, c})
       PROVE  /\ \A i \in DOMAIN rows' \ {Fresh} :
                    /\ rows'[i].decision = rows[i].decision
                    /\ HumanTrust(rows'[i]) => HumanTrust(rows[i])
              /\ rows'[Fresh] = rn
  BY <1>13, <1>15, <1>16, <1>17, <1>18
<1> QED
  BY <1>1, <1>2, <1>4, <1>8, <1>11, <1>17, <1>18 DEF a, c
\* The rows of a human's transaction that gives out no id.
LEMMA OneCommitted ==
    ASSUME TypeOK, IInv, NEW i, rows' = rows \/ OneChanged(rows, rows', i),
           Idle, issued' = issued, clock' = clock,
           txn' = txn, draft' = draft, prior' = prior,
           review' \in [Human -> Look],
           \A h \in Human : review'[h].kind = "none" \/ review'[h] = review[h]
    PROVE  TypeOK' /\ IInv'
<1>1. Sound(rows') /\ DOMAIN rows' \subseteq DOMAIN rows
  BY SoundMemories DEF OneChanged
<1>2. \A j \in DOMAIN rows' : rows'[j].decision = rows[j].decision
  BY DEF OneChanged
<1>3. txn' = "none" /\ draft' = None
  BY DEF Idle, IInv, DraftShape
<1>4. prior' \in SUBSET Id /\ clock' \in Nat /\ issued' \in SUBSET Id
      /\ DOMAIN rows' \subseteq issued'
  BY <1>1 DEF TypeOK, IInv, IdsIssued
<1> QED
  BY <1>1, <1>2, <1>3, <1>4, Committed

LEMMA RequestStep ==
    ASSUME TypeOK, IInv, NEW i, Request(i)
    PROVE  TypeOK' /\ IInv'
<1>1. review' \in [Human -> Look] /\ \A h \in Human : review'[h] = review[h]
  BY RequestDoes DEF TypeOK
<1> QED
  BY <1>1, RequestDoes, OneCommitted

LEMMA LookedAway ==
    ASSUME TypeOK, NEW h \in Human, review' = [review EXCEPT ![h] = NoLook]
    PROVE  /\ review' \in [Human -> Look] /\ review'[h].kind = "none"
           /\ \A k \in Human : review'[k].kind = "none" \/ review'[k] = review[k]
BY DEF TypeOK, NoLook, Look

LEMMA PromoteStep ==
    ASSUME TypeOK, IInv, NEW h \in Human, Promote(h)
    PROVE  TypeOK' /\ IInv'
<1> DEFINE i == review[h].target
<1>1. /\ rows' = rows \/ OneChanged(rows, rows', i)
      /\ Idle /\ issued' = issued /\ clock' = clock
      /\ txn' = txn /\ draft' = draft /\ prior' = prior
      /\ review' = [review EXCEPT ![h] = NoLook]
  BY PromoteDoes
<1> HIDE DEF i
<1> QED
  BY <1>1, LookedAway, OneCommitted

LEMMA SupersedeStep ==
    ASSUME TypeOK, IInv, NEW h \in Human, Supersede(h)
    PROVE  TypeOK' /\ IInv'
<1>1. /\ Issue /\ Idle /\ clock' = clock
      /\ txn' = txn /\ draft' = draft /\ prior' = prior
      /\ review' = [review EXCEPT ![h] = NoLook]
      /\ \/ rows' = rows
         \/ /\ Sound(rows') /\ DOMAIN rows' \subseteq DOMAIN rows \cup {Fresh}
            /\ \A i \in DOMAIN rows' \ {Fresh} : rows'[i].decision = rows[i].decision
  BY SupersedeDoes
<1>2. /\ Fresh \notin issued /\ issued' = issued \cup {Fresh} /\ issued' \in SUBSET Id
      /\ DOMAIN rows \subseteq issued
  BY <1>1, FreshIs DEF IInv, IdsIssued
<1>3. Sound(rows') /\ DOMAIN rows' \subseteq issued'
  BY <1>1, <1>2, SoundMemories
<1>4. \A i \in DOMAIN rows' : \/ i \in DOMAIN rows /\ rows'[i].decision = rows[i].decision
                              \/ i \notin issued
  BY <1>1, <1>2
<1>5. txn' = "none" /\ draft' = None /\ prior' \in SUBSET Id /\ clock' \in Nat
  BY <1>1 DEF Idle, IInv, DraftShape, TypeOK
<1> QED
  BY <1>1, <1>2, <1>3, <1>4, <1>5, LookedAway, Committed

LEMMA LookToPromoteStep ==
    ASSUME TypeOK, IInv, NEW h \in Human, NEW i \in Id, LookToPromote(h, i)
    PROVE  TypeOK' /\ IInv'
<1> DEFINE look == [kind |-> "promote", target |-> i, candidate |-> NoId,
                    shown |-> rows[i].decision]
<1>1. i \in DOMAIN rows /\ LookAt(h, look)
  BY DEF LookToPromote
<1>2. look \in Look
  BY <1>1 DEF Look, TypeOK, IsMemory, Decision
<1>3. look.kind = "promote" /\ look.target = i /\ look.shown = rows[i].decision
  OBVIOUS
<1> HIDE DEF look
<1> QED
  BY <1>1, <1>2, <1>3, LookStep

LEMMA LookToSupersedeStep ==
    ASSUME TypeOK, IInv, NEW h \in Human, NEW a \in Id, NEW c \in Id, LookToSupersede(h, a, c)
    PROVE  TypeOK' /\ IInv'
<1> DEFINE look == [kind |-> "supersede", target |-> a, candidate |-> c,
                    shown |-> rows[c].decision]
<1>1. c \in DOMAIN rows /\ LookAt(h, look)
  BY DEF LookToSupersede, Linked
<1>2. look \in Look
  BY <1>1 DEF Look, TypeOK, IsMemory, Decision
<1>3. look.kind = "supersede" /\ look.candidate = c /\ look.shown = rows[c].decision
  OBVIOUS
<1> HIDE DEF look
<1> QED
  BY <1>1, <1>2, <1>3, LookStep

LEMMA ClockStep ==
    ASSUME TypeOK, IInv, clock' \in Nat, UNCHANGED <<rows, issued, mergeVars, review>>
    PROVE  TypeOK' /\ IInv'
<1>1. /\ rows' = rows /\ issued' = issued /\ review' = review
      /\ txn' = txn /\ draft' = draft /\ prior' = prior
  BY DEF mergeVars
<1>2. TypeOK'
  BY <1>1 DEF TypeOK
<1>3. IdsIssued' /\ ShownShape'
  BY <1>1 DEF IInv, IdsIssued, ShownShape, Looked
<1>4. Readable' /\ DraftShape'
  BY <1>1 DEF IInv, Readable, DraftShape, HumanAuthorities
<1> QED
  BY <1>2, <1>3, <1>4 DEF IInv

\* The decisions keep their shape: the inductive invariant holds forever, in
\* every batch of claims, with every budget and whatever humans do between.
THEOREM Inductive == Spec => [](TypeOK /\ IInv)
<1>1. ASSUME TypeOK, IInv, Next PROVE TypeOK' /\ IInv'
  <2>1. CASE \E origin \in {"heuristic", "llm"} : BeginMerge(origin)
    BY <1>1, <2>1, BeginMergeStep
  <2>2. CASE txn # "none" /\ \E c \in Claim(txn) : MergeClaim(c)
    BY <1>1, <2>2, MergeClaimStep
  <2>3. CASE CommitMerge
    BY <1>1, <2>3, CommitMergeStep
  <2>4. CASE RequestFoundationalReview
    BY <1>1, <2>4, RequestStep DEF RequestFoundationalReview
  <2>5. CASE \E h \in Human : \E i \in Id : LookToPromote(h, i)
    BY <1>1, <2>5, LookToPromoteStep
  <2>6. CASE \E h \in Human : \E a, c \in Id : LookToSupersede(h, a, c)
    BY <1>1, <2>6, LookToSupersedeStep
  <2>7. CASE \E h \in Human : LookAway(h)
    BY <1>1, <2>7, LookAwayStep
  <2>8. CASE \E h \in Human : Promote(h)
    BY <1>1, <2>8, PromoteStep
  <2>9. CASE \E h \in Human : Supersede(h)
    BY <1>1, <2>9, SupersedeStep
  <2>10. CASE Tick
    <3>1. clock' \in Nat
      BY <1>1, <2>10 DEF Tick, TypeOK
    <3> QED
      BY <1>1, <2>10, <3>1, ClockStep DEF Tick
  <2> QED
    BY <1>1, <2>1, <2>2, <2>3, <2>4, <2>5, <2>6, <2>7, <2>8, <2>9, <2>10 DEF Next
<1>2. ASSUME TypeOK, IInv, UNCHANGED vars PROVE TypeOK' /\ IInv'
  <2>1. clock' \in Nat /\ UNCHANGED <<rows, issued, mergeVars, review>>
    BY <1>2 DEF vars, TypeOK
  <2> QED
    BY <1>2, <2>1, ClockStep
<1>3. (TypeOK /\ IInv) /\ [Next]_vars => (TypeOK /\ IInv)'
  BY <1>1, <1>2
<1> QED
  BY <1>3, Starting, PTL DEF Spec
-----------------------------------------------------------------------------
(* The theorems.                                                           *)

\* The type invariant.
THEOREM TypeCorrect == Spec => []TypeOK
BY Inductive, PTL

\* A memory that is committed can be read again: its rows are as schema.ts
\* accepts them, trust tuples whole and no row against itself.
THEOREM MemoryReadable == Spec => []RowsReadable
<1>1. TypeOK /\ IInv => RowsReadable
  BY DEF TypeOK, IInv, Readable, RowsReadable
<1> QED
  BY <1>1, Inductive, PTL

\* Whoever reads finds one authority of a topic at most, and none of a topic
\* whose humans contradict each other (resolveDecisionAuthorities).
THEOREM TopicHasOneVoice == Spec => []OneVoice
<1>1. TypeOK /\ IInv => OneVoice
  <2>1. SUFFICES ASSUME TypeOK, IInv, NEW t \in Topic
                 PROVE  /\ Cardinality(ValidRows(Reconciled(rows), t)) <= 1
                        /\ Conflict(rows, t) # {} => ValidRows(Reconciled(rows), t) = {}
    BY DEF OneVoice
  <2>2. Sound(rows) /\ Sound(Reconciled(rows))
    BY <2>1, SoundMemories, ReadSound
  <2>3. IsFiniteSet(ValidRows(Reconciled(rows), t))
    BY <2>2, TopicSets
  <2> QED
    BY <2>2, <2>3, ReadOne, AtMostOne
<1> QED
  BY <1>1, Inductive, PTL

\* What a step that commits rows can be: a merge, a request or a promotion,
\* which change one row, or a supersession.
OneRowActs ==
    \E i \in DOMAIN rows :
        /\ OneChanged(rows, rows', i)
        /\ i \in Authorities(rows, rows[i].topic) /\ ~HumanTrust(rows[i])
        /\ HumanTrust(rows'[i]) =>
              /\ TrustedHuman(rows'[i])
              /\ \E h \in Human :
                    /\ review[h].kind = "promote" /\ review[h].target = i
                    /\ review[h].shown = rows[i].decision

LEMMA RowsChange ==
    ASSUME TypeOK, IInv, [Next]_vars, rows' # rows
    PROVE  \/ txn # "none" /\ txn' = "none" /\ rows' \in Fits(draft, {})
           \/ OneRowActs /\ ~Merged
           \/ (\E h \in Human : Supersede(h)) /\ Superseding /\ ~Merged
<1>1. ~UNCHANGED vars
  BY DEF vars
<1>2. CASE CommitMerge
  BY <1>2 DEF CommitMerge, Commit
<1>3. ASSUME NEW i, Request(i) PROVE OneRowActs /\ ~Merged
  BY <1>3, RequestDoes DEF OneRowActs, Merged, Idle
<1>4. ASSUME NEW h \in Human, Promote(h) PROVE OneRowActs /\ ~Merged
  <2> DEFINE i == review[h].target
  <2>1. /\ review[h].kind = "promote"
        /\ i \in Authorities(rows, rows[i].topic) /\ i \in DOMAIN rows
        /\ ~HumanTrust(rows[i]) /\ review[h].shown = rows[i].decision
        /\ OneChanged(rows, rows', i) /\ TrustedHuman(rows'[i])
        /\ Idle /\ txn' = txn
    BY <1>4, PromoteDoes
  <2>2. \E k \in Human : /\ review[k].kind = "promote" /\ review[k].target = i
                         /\ review[k].shown = rows[i].decision
    BY <2>1
  <2> HIDE DEF i
  <2> QED
    BY <2>1, <2>2 DEF OneRowActs, Merged, Idle
<1>5. ASSUME NEW h \in Human, Supersede(h) PROVE Superseding /\ ~Merged
  <2>1. review[h].kind = "supersede" /\ Issue /\ Idle /\ txn' = txn
        /\ review' = [review EXCEPT ![h] = NoLook]
    BY <1>5, SupersedeDoes
  <2>2. issued' # issued /\ review'[h].kind = "none"
    BY <2>1, FreshIs, LookedAway
  <2> QED
    BY <2>1, <2>2 DEF Superseding, Merged, Idle
<1>6. \A origin \in {"heuristic", "llm"} : ~BeginMerge(origin)
  BY DEF BeginMerge
<1>7. \A c : ~MergeClaim(c)
  BY DEF MergeClaim
<1>8. \A h, i : ~LookToPromote(h, i)
  BY DEF LookToPromote, LookAt
<1>9. \A h, a, c : ~LookToSupersede(h, a, c)
  BY DEF LookToSupersede, LookAt
<1>10. (\A h : ~LookAway(h)) /\ ~Tick
  BY DEF LookAway, Tick
<1> QED
  BY <1>1, <1>2, <1>3, <1>4, <1>5, <1>6, <1>7, <1>8, <1>9, <1>10
     DEF Next, RequestFoundationalReview
\* What a merge commits over the memory it began with.
LEMMA MergeOver ==
    ASSUME TypeOK, IInv, txn # "none", rows' \in Fits(draft, {})
    PROVE  /\ Sound(rows')
           /\ \A i \in HumanAuthorities : /\ i \in DOMAIN rows' /\ Valid(rows'[i])
                                          /\ SameRow(rows[i], rows'[i])
           /\ \A i \in DOMAIN rows' : HumanTrust(rows'[i]) =>
                                         i \in DOMAIN rows /\ HumanTrust(rows[i])
           /\ \A t \in Topic :
                 /\ Calm(rows', t)
                 /\ Conflict(rows, t) \subseteq Partners(rows', t)
                 /\ Authorities(rows', t) = ValidRows(draft, t) \cap DOMAIN rows'
                 /\ Authorities(draft, t) = ValidRows(draft, t)
                 /\ Authorities(rows, t) # {} => ValidRows(draft, t) # {}
<1>1. /\ Sound(rows') /\ DOMAIN rows' \subseteq DOMAIN draft
      /\ \A i \in DOMAIN rows' : rows'[i] = draft[i]
      /\ \A i \in DOMAIN draft : HumanTrust(draft[i]) => i \in DOMAIN rows'
      /\ \A t \in Topic : /\ Calm(rows', t) /\ Partners(rows', t) = Partners(draft, t)
                          /\ ValidRows(rows', t) = ValidRows(draft, t) \cap DOMAIN rows'
  BY MergeCommits
<1>2. /\ DOMAIN rows \subseteq DOMAIN draft
      /\ \A i \in DOMAIN rows : SameRow(rows[i], draft[i])
      /\ \A i \in DOMAIN draft \ DOMAIN rows : ~HumanTrust(draft[i])
      /\ \A i \in HumanAuthorities : Valid(draft[i])
      /\ \A t \in Topic : /\ Calm(draft, t)
                          /\ Conflict(rows, t) \subseteq Partners(draft, t)
                          /\ Authorities(rows, t) # {} => ValidRows(draft, t) # {}
  BY DEF IInv, DraftShape
<1>3. \A i \in HumanAuthorities : i \in DOMAIN rows /\ HumanTrust(rows[i])
  BY DEF HumanAuthorities
<1>4. \A i \in HumanAuthorities : /\ i \in DOMAIN rows' /\ Valid(rows'[i])
                                  /\ SameRow(rows[i], rows'[i])
  BY <1>1, <1>2, <1>3 DEF SameRow
<1>5. \A i \in DOMAIN rows' : HumanTrust(rows'[i]) => i \in DOMAIN rows /\ HumanTrust(rows[i])
  BY <1>1, <1>2 DEF SameRow
<1>6. ASSUME NEW t \in Topic
      PROVE  Authorities(rows', t) = ValidRows(rows', t)
             /\ Authorities(draft, t) = ValidRows(draft, t)
  BY <1>1, <1>2, SoundMemories, CalmRead
<1> QED
  BY <1>1, <1>2, <1>4, <1>5, <1>6

\* A conflict is of two rows at least.
LEMMA ConflictOfTwo ==
    ASSUME NEW m, Sound(m), NEW t, Conflict(m, t) # {}
    PROVE  \E x, y \in Conflict(m, t) : x # y
<1>1. CASE HumansConflict(m, t)
  BY <1>1, DurableIs
<1>2. CASE ~HumansConflict(m, t)
  <2>1. Conflict(m, t) = AtLeastTwo(HumanPartners(m, t))
    BY <1>2, DurableIs
  <2> QED
    BY <2>1, PartnersFinite, AtLeastTwoIs
<1> QED
  BY <1>1, <1>2

\* The row that a human's request or promotion changes is not one of another
\* topic, and no human's authority of its own.
LEMMA OthersStand ==
    ASSUME TypeOK, IInv, NEW j \in DOMAIN rows, OneChanged(rows, rows', j),
           j \in Authorities(rows, rows[j].topic), ~HumanTrust(rows[j]),
           NEW i \in HumanAuthorities
    PROVE  i \in DOMAIN rows' /\ rows'[i] = rows[i] /\ i \in HumanAuthorities'
<1> DEFINE t == rows[i].topic
<1>1. i \in DOMAIN rows /\ HumanTrust(rows[i]) /\ i \in Authorities(rows, t)
  BY DEF HumanAuthorities
<1>2. Sound(rows) /\ Sound(rows') /\ t \in Topic
  BY <1>1, SoundMemories DEF OneChanged, Sound, IsMemory, Decision
<1>3. t # rows[j].topic
  BY <1>1, <1>2, AuthorityIs
<1>4. Shrunk(rows, rows', t)
  BY <1>2, <1>3 DEF OneChanged
<1>5. i \in Authorities(rows', t) /\ rows'[i] = rows[i]
  BY <1>1, <1>2, <1>4, ShrunkAuthority
<1>6. i \in DOMAIN rows'
  BY <1>2, <1>5, AuthorityIs
<1> QED
  BY <1>1, <1>5, <1>6 DEF HumanAuthorities

\* Neither the extractions nor the budget take a human's decision from its
\* topic, nor change a word of it, in any number of transactions; only a human
\* who supersedes does (the human guards of merge.ts, budget.ts's protection).
THEOREM HumansPrevail == Spec => HumanDecisionsStand
<1>1. TypeOK /\ IInv /\ [Next]_vars =>
        [~Superseding =>
            \A i \in HumanAuthorities :
                /\ i \in DOMAIN rows' /\ rows'[i].decision = rows[i].decision
                /\ i \in HumanAuthorities']_rows
  <2>1. SUFFICES ASSUME TypeOK, IInv, [Next]_vars, rows' # rows, ~Superseding,
                        NEW i \in HumanAuthorities
                 PROVE  /\ i \in DOMAIN rows' /\ rows'[i].decision = rows[i].decision
                        /\ i \in HumanAuthorities'
    OBVIOUS
  <2>2. CASE txn # "none" /\ rows' \in Fits(draft, {})
    <3> DEFINE t == rows[i].topic
    <3>1. Sound(rows') /\ i \in DOMAIN rows' /\ Valid(rows'[i]) /\ SameRow(rows[i], rows'[i])
      BY <2>1, <2>2, MergeOver
    <3>2. HumanTrust(rows[i]) /\ i \in DOMAIN rows
      BY DEF HumanAuthorities
    <3>3. t \in Topic /\ Sound(rows)
      BY <2>1, <3>2, SoundMemories DEF Sound, IsMemory, Decision
    <3>4. i \in ValidRows(rows', t)
      BY <3>1 DEF ValidRows, RowsOf, SameRow
    <3>5. Authorities(rows', t) = ValidRows(rows', t)
      BY <2>1, <2>2, <3>1, <3>3, MergeOver, CalmRead
    <3> QED
      BY <3>1, <3>2, <3>4, <3>5 DEF HumanAuthorities, SameRow
  <2>3. CASE OneRowActs
    BY <2>1, <2>3, OthersStand DEF OneRowActs
  <2> QED
    BY <2>1, <2>2, <2>3, RowsChange
<1> QED
  BY <1>1, Inductive, PTL DEF Spec, HumanDecisionsStand

\* The rows of humans who contradict each other stay in their conflict through
\* every merge, prune, request and promotion (resolveConflictingHumans).
THEOREM ConflictsHold == Spec => QuarantineHolds
<1>1. TypeOK /\ IInv /\ [Next]_vars =>
        [~Superseding =>
            \A t \in Topic :
                Conflict(rows, t) \subseteq Conflict(rows, t)' \/ HumansAgree(rows, t)]_rows
  <2>1. SUFFICES ASSUME TypeOK, IInv, [Next]_vars, rows' # rows, ~Superseding, NEW t \in Topic
                 PROVE  Conflict(rows, t) \subseteq Conflict(rows', t) \/ HumansAgree(rows, t)
    OBVIOUS
  <2>2. CASE txn # "none" /\ rows' \in Fits(draft, {})
    <3>1. /\ Sound(rows') /\ Calm(rows', t)
          /\ Conflict(rows, t) \subseteq Partners(rows', t)
      BY <2>1, <2>2, MergeOver
    <3>2. Conflict(rows', t) = AtLeastTwo(Partners(rows', t))
      BY <3>1, CalmRead
    <3>3. CASE Conflict(rows, t) = {}
      BY <3>3
    <3>4. CASE Conflict(rows, t) # {}
      <4>1. \E x, y \in Partners(rows', t) : x # y
        BY <2>1, <3>1, <3>4, SoundMemories, ConflictOfTwo
      <4>2. AtLeastTwo(Partners(rows', t)) = Partners(rows', t)
        BY <3>1, <4>1, PartnersFinite, AtLeastTwoIs
      <4> QED
        BY <3>1, <3>2, <4>2
    <3> QED
      BY <3>3, <3>4
  <2>3. CASE OneRowActs
    <3>1. PICK j \in DOMAIN rows :
             OneChanged(rows, rows', j) /\ j \in Authorities(rows, rows[j].topic)
      BY <2>3 DEF OneRowActs
    <3>2. Sound(rows) /\ Sound(rows')
      BY <2>1, <3>1, SoundMemories DEF OneChanged
    <3>3. CASE t = rows[j].topic
      BY <3>1, <3>2, <3>3, AuthorityIs
    <3>4. CASE t # rows[j].topic
      BY <3>1, <3>2, <3>4, ShrunkConflict DEF OneChanged
    <3> QED
      BY <3>3, <3>4
  <2> QED
    BY <2>1, <2>2, <2>3, RowsChange
<1> QED
  BY <1>1, Inductive, PTL DEF Spec, QuarantineHolds
\* A row that a step makes trusted is one that a human promoted, the authority
\* of its topic whose words the human was shown, or the new row of a
\* supersession, with the words of the candidate that the human was shown.
LEMMA NewlyTrusted ==
    ASSUME TypeOK, IInv, [Next]_vars, rows' # rows,
           NEW i \in DOMAIN rows', HumanTrust(rows'[i]),
           ~(i \in DOMAIN rows /\ HumanTrust(rows[i]))
    PROVE  /\ Sound(rows') /\ TrustedHuman(rows'[i])
           /\ \/ \E h \in Human :
                    /\ review[h].kind = "promote" /\ review[h].target = i
                    /\ review[h].shown = rows'[i].decision
                    /\ i \in Authorities(rows, rows[i].topic)
              \/ \E h \in Human :
                    /\ review[h].kind = "supersede"
                    /\ review[h].candidate = rows'[i].derived_from
                    /\ review[h].shown = rows'[i].decision
<1>1. CASE txn # "none" /\ rows' \in Fits(draft, {})
  BY <1>1, MergeOver
<1>2. CASE OneRowActs
  <2>1. PICK j \in DOMAIN rows :
           /\ OneChanged(rows, rows', j)
           /\ j \in Authorities(rows, rows[j].topic) /\ ~HumanTrust(rows[j])
           /\ HumanTrust(rows'[j]) =>
                 /\ TrustedHuman(rows'[j])
                 /\ \E h \in Human : /\ review[h].kind = "promote" /\ review[h].target = j
                                     /\ review[h].shown = rows[j].decision
    BY <1>2 DEF OneRowActs
  <2>2. i = j
    BY <2>1 DEF OneChanged
  <2> QED
    BY <2>1, <2>2 DEF OneChanged
<1>3. ASSUME NEW h \in Human, Supersede(h)
      PROVE  /\ Sound(rows') /\ TrustedHuman(rows'[i])
             /\ review[h].kind = "supersede"
             /\ review[h].candidate = rows'[i].derived_from
             /\ review[h].shown = rows'[i].decision
  <2> DEFINE c == review[h].candidate
  <2>1. /\ review[h].kind = "supersede" /\ review[h].shown = rows[c].decision
        /\ Sound(rows') /\ DOMAIN rows' \subseteq DOMAIN rows \cup {Fresh}
        /\ \A k \in DOMAIN rows' \ {Fresh} : HumanTrust(rows'[k]) => HumanTrust(rows[k])
        /\ TrustedHuman(rows'[Fresh])
        /\ rows'[Fresh].derived_from = c
        /\ rows'[Fresh].decision = rows[c].decision
    BY <1>3, SupersedeDoes
  <2>2. i = Fresh
    BY <2>1
  <2> QED
    BY <2>1, <2>2
<1> QED
  BY <1>1, <1>2, <1>3, RowsChange

\* Human trust is given by humans alone, each of whom saw the words that they
\* gave it to, whatever was committed between the look and the confirmation
\* (cmdPromote, cmdSupersede).
THEOREM TrustIsReviewed == Spec => OnlyReviewedIsTrusted
<1>1. TypeOK /\ IInv /\ [Next]_vars =>
        [\A i \in {j \in DOMAIN rows' : HumanTrust(rows'[j])} :
            \/ i \in DOMAIN rows /\ HumanTrust(rows[i])
            \/ \E h \in Human :
                  /\ review[h].kind = "promote" /\ review[h].target = i
                  /\ review[h].shown = rows'[i].decision
                  /\ i \in Authorities(rows, rows[i].topic)
            \/ \E h \in Human :
                  /\ review[h].kind = "supersede"
                  /\ review[h].candidate = rows'[i].derived_from
                  /\ review[h].shown = rows'[i].decision]_rows
  BY NewlyTrusted
<1> QED
  BY <1>1, Inductive, PTL DEF Spec, OnlyReviewedIsTrusted

\* What the CLI reports done is done: the row a human promoted or put in
\* another's place is its topic's authority, but for other humans' rows.
THEOREM ActsTakeEffect == Spec => HumanActsTakeEffect
<1>1. TypeOK /\ IInv /\ [Next]_vars =>
        [\A i \in DOMAIN rows' :
            HumanTrust(rows'[i]) /\ ~(i \in DOMAIN rows /\ HumanTrust(rows[i]))
            => i \in HumanAuthorities' \/ Partners(rows', rows'[i].topic) \ {i} # {}]_rows
  <2>1. SUFFICES ASSUME TypeOK, IInv, [Next]_vars, rows' # rows,
                        NEW i \in DOMAIN rows', HumanTrust(rows'[i]),
                        ~(i \in DOMAIN rows /\ HumanTrust(rows[i])),
                        Partners(rows', rows'[i].topic) \subseteq {i}
                 PROVE  i \in HumanAuthorities'
    OBVIOUS
  <2> DEFINE t == rows'[i].topic
  <2>2. Sound(rows') /\ TrustedHuman(rows'[i])
    BY <2>1, NewlyTrusted
  <2>3. i \in Humans(rows', t)
    BY <2>2 DEF Humans, ValidRows, RowsOf, TrustedHuman
  <2>4. i \in Authorities(rows', t)
    BY <2>1, <2>2, <2>3, LoneHuman
  <2> QED
    BY <2>1, <2>4 DEF HumanAuthorities
<1> QED
  BY <1>1, Inductive, PTL DEF Spec, HumanActsTakeEffect

\* The reader takes none of the rows that a merge commits to be invalid: the
\* merge persists the repair it began with (mergeDecisions).
THEOREM MergesPersistRepair == Spec => MergesSettle
<1>1. TypeOK /\ IInv /\ [Next]_vars =>
        [Merged => \A i \in DOMAIN rows' : Valid(rows'[i]) <=> Valid(Reconciled(rows')[i])]_rows
  <2>1. SUFFICES ASSUME TypeOK, IInv, [Next]_vars, rows' # rows, Merged, NEW i \in DOMAIN rows'
                 PROVE  Valid(rows'[i]) <=> Valid(Reconciled(rows')[i])
    OBVIOUS
  <2> DEFINE t == rows'[i].topic
  <2>2. txn # "none" /\ rows' \in Fits(draft, {})
    BY <2>1, RowsChange DEF Merged
  <2>3. Sound(rows')
    BY <2>1, <2>2, MergeOver
  <2>4. t \in Topic
    BY <2>3 DEF Sound, IsMemory, Decision
  <2>5. ValidRows(Reconciled(rows'), t) = ValidRows(rows', t)
    BY <2>1, <2>2, <2>3, <2>4, MergeOver, CalmRead
  <2>6. i \in DOMAIN Reconciled(rows') /\ Reconciled(rows')[i].topic = t
    BY <2>3, ReadSound, Read DEF SameRow
  <2> QED
    BY <2>5, <2>6 DEF ValidRows, RowsOf
<1> QED
  BY <1>1, Inductive, PTL DEF Spec, MergesSettle

\* No merge takes a topic's authority away and leaves it none, but where the
\* budget drops the row that the merge chose.
THEOREM TopicsKeepAuthority == Spec => TopicsStaySettled
<1>1. TypeOK /\ IInv /\ [Next]_vars =>
        [Merged => \A t \in Topic :
            Authorities(rows, t) # {} =>
                \/ Authorities(rows, t)' # {}
                \/ \E i \in Authorities(draft, t) : i \notin DOMAIN rows']_rows
  <2>1. SUFFICES ASSUME TypeOK, IInv, [Next]_vars, rows' # rows, Merged,
                        NEW t \in Topic, Authorities(rows, t) # {},
                        Authorities(draft, t) \subseteq DOMAIN rows'
                 PROVE  Authorities(rows', t) # {}
    OBVIOUS
  <2>2. txn # "none" /\ rows' \in Fits(draft, {})
    BY <2>1, RowsChange DEF Merged
  <2> QED
    BY <2>1, <2>2, MergeOver
<1> QED
  BY <1>1, Inductive, PTL DEF Spec, TopicsStaySettled
=============================================================================
