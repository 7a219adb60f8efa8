---------------------------- MODULE ItemsProofs -----------------------------
(***************************************************************************)
(* Proofs about Items: where the items are, for any players, items and     *)
(* bounds.                                                                 *)
(*                                                                         *)
(* That no item is in two places is inductive only together with the rows: *)
(* a reconciled bag takes rows from the session and from the character     *)
(* row, and must not take one twice.  It does not, as all the rows it has  *)
(* are of the character row.                                               *)
(***************************************************************************)
EXTENDS Items, FiniteSetTheorems, SequenceTheorems, TLAPS

-----------------------------------------------------------------------------
(* Ranks, and the rows that are kept *)

RankIn(I, k) == Cardinality({j \in I : j <= k})

(* A finite set of numbers has one number of each rank.                    *)
LEMMA RankOnto ==
    ASSUME NEW I \in SUBSET Nat, IsFiniteSet(I)
    PROVE  /\ Cardinality(I) \in Nat
           /\ \A k \in I : RankIn(I, k) \in 1..Cardinality(I)
           /\ \A k, l \in I : RankIn(I, k) = RankIn(I, l) => k = l
           /\ \A n \in 1..Cardinality(I) : \E k \in I : RankIn(I, k) = n
<1> DEFINE c == Cardinality(I)
           r == [k \in I |-> RankIn(I, k)]
           Below(k) == {j \in I : j <= k}
<1>1. c \in Nat
  BY FS_CardinalityType
<1>2. \A k \in I : /\ IsFiniteSet(Below(k))
                   /\ Cardinality(Below(k)) \in 1..c
  <2> SUFFICES ASSUME NEW k \in I
               PROVE  IsFiniteSet(Below(k)) /\ Cardinality(Below(k)) \in 1..c
    OBVIOUS
  <2>1. Below(k) \in SUBSET I
    OBVIOUS
  <2>2. IsFiniteSet(Below(k)) /\ Cardinality(Below(k)) <= c
    BY <2>1, FS_Subset
  <2>3. Cardinality(Below(k)) \in Nat
    BY <2>2, FS_CardinalityType
  <2>4. Below(k) # {}
    <3>1. k \in Below(k)
      OBVIOUS
    <3>2. QED
      BY <3>1
  <2>5. Cardinality(Below(k)) # 0
    BY <2>2, <2>4, FS_EmptySet
  <2> HIDE DEF Below, c
  <2>6. QED
    BY <1>1, <2>2, <2>3, <2>5
<1>3. ASSUME NEW k \in I, NEW l \in I, k < l
      PROVE  Cardinality(Below(k)) # Cardinality(Below(l))
  <2>1. Below(k) \in SUBSET Below(l)
    <3>1. k \in Nat /\ l \in Nat /\ \A j \in I : j \in Nat
      OBVIOUS
    <3>2. \A j \in I : j <= k => j <= l
      BY <1>3, <3>1
    <3>3. QED
      BY <3>2
  <2>2. l \in Below(l) /\ l \notin Below(k)
    BY <1>3
  <2>3. IsFiniteSet(Below(l))
    BY <1>2
  <2> HIDE DEF Below
  <2>4. QED
    BY <2>1, <2>2, <2>3, FS_Subset
<1>4. \A k, l \in I : RankIn(I, k) = RankIn(I, l) => k = l
  BY <1>3 DEF RankIn
<1>5. r \in Injection(I, 1..c)
  <2>1. r \in [I -> 1..c]
    BY <1>2 DEF RankIn
  <2>2. IsInjective(r)
    BY <1>4 DEF IsInjective
  <2> HIDE DEF r, c
  <2>3. QED
    BY <2>1, <2>2 DEF Injection
<1>6. IsFiniteSet(1..c) /\ Cardinality(1..c) = c
  <2> HIDE DEF c
  <2>1. QED
    BY <1>1, FS_Interval
<1>7. r \in Surjection(I, 1..c)
  <2> HIDE DEF r
  <2>1. QED
    BY <1>5, <1>6, FS_Injection
<1>8. \A n \in 1..c : \E k \in I : r[k] = n
  <2> HIDE DEF r, c
  <2>1. QED
    BY <1>7 DEF Surjection
<1>9. QED
  BY <1>1, <1>2, <1>4, <1>8 DEF RankIn

(* A set of numbers has a least one.                                       *)
LEMMA HasLeast ==
    ASSUME NEW I \in SUBSET Nat, IsFiniteSet(I), I # {}
    PROVE  \E k \in I : \A j \in I : k <= j
<1>1. Cardinality(I) \in Nat /\ Cardinality(I) # 0
  BY FS_CardinalityType, FS_EmptySet
<1>2. 1 \in 1..Cardinality(I)
  BY <1>1
<1>3. PICK k \in I : RankIn(I, k) = 1
  BY <1>2, RankOnto
<1> DEFINE B == {j \in I : j <= k}
<1>4. B \in SUBSET I /\ k \in B
  OBVIOUS
<1>5. IsFiniteSet(B) /\ Cardinality(B) = 1
  BY <1>3, <1>4, FS_Subset DEF RankIn
<1> HIDE DEF B
<1>6. B = {k}
  BY <1>4, <1>5, FS_Singleton
<1>7. \A j \in I : k <= j
  BY <1>6 DEF B
<1>8. QED
  BY <1>7

(* The row n of those kept was at the place at[n].                         *)
KeptFrom(rows, S, at) ==
    /\ \A n \in DOMAIN Kept(rows, S) :
          Kept(rows, S)[n] = rows[at[n]] /\ rows[at[n]] \in S
    /\ \A m, n \in DOMAIN Kept(rows, S) : at[m] = at[n] => m = n
    /\ \A k \in DOMAIN rows : rows[k] \in S =>
          \E n \in DOMAIN Kept(rows, S) : at[n] = k

(* The rows kept, each at a place of its own, are all those in S.          *)
LEMMA KeptShape ==
    ASSUME NEW R, NEW rows \in Seq(R), NEW S
    PROVE  /\ Kept(rows, S) \in Seq(R)
           /\ Len(Kept(rows, S)) = Cardinality({k \in DOMAIN rows : rows[k] \in S})
           /\ \E at \in [DOMAIN Kept(rows, S) -> DOMAIN rows] :
                 KeptFrom(rows, S, at)
<1> DEFINE I == {k \in DOMAIN rows : rows[k] \in S}
           c == Cardinality(I)
           at == [n \in 1..c |-> CHOOSE k \in I : RankIn(I, k) = n]
<1>1. I \in SUBSET Nat /\ IsFiniteSet(I) /\ I \subseteq DOMAIN rows
  <2>1. Len(rows) \in Nat /\ DOMAIN rows = 1..Len(rows)
    OBVIOUS
  <2>2. IsFiniteSet(1..Len(rows))
    BY <2>1, FS_Interval
  <2>3. I \in SUBSET (1..Len(rows))
    BY <2>1
  <2>4. QED
    BY <2>1, <2>2, <2>3, FS_Subset
<1>2. Kept(rows, S) = [n \in 1..c |-> rows[at[n]]]
  BY DEF Kept, RankIn
<1>3. \A k \in I : rows[k] \in R /\ rows[k] \in S
  OBVIOUS
<1>4. \A k \in DOMAIN rows : rows[k] \in S => k \in I
  OBVIOUS
<1> HIDE DEF I
<1>5. c \in Nat
  BY <1>1, RankOnto
<1>6. \A n \in 1..c : at[n] \in I /\ RankIn(I, at[n]) = n
  <2> SUFFICES ASSUME NEW n \in 1..c
               PROVE  at[n] \in I /\ RankIn(I, at[n]) = n
    OBVIOUS
  <2>1. \E k \in I : RankIn(I, k) = n
    BY <1>1, RankOnto
  <2>2. QED
    BY <2>1
<1>7. \A k \in I : RankIn(I, k) \in 1..c /\ at[RankIn(I, k)] = k
  <2> SUFFICES ASSUME NEW k \in I
               PROVE  RankIn(I, k) \in 1..c /\ at[RankIn(I, k)] = k
    OBVIOUS
  <2>1. RankIn(I, k) \in 1..c
    BY <1>1, RankOnto
  <2>2. at[RankIn(I, k)] \in I /\ RankIn(I, at[RankIn(I, k)]) = RankIn(I, k)
    BY <1>6, <2>1
  <2>3. \A j, l \in I : RankIn(I, j) = RankIn(I, l) => j = l
    BY <1>1, RankOnto
  <2> HIDE DEF at
  <2>4. QED
    BY <2>1, <2>2, <2>3
<1>8. at \in [1..c -> I]
  BY <1>6
<1> HIDE DEF c, at
<1>9. DOMAIN Kept(rows, S) = 1..c /\ \A n \in 1..c : Kept(rows, S)[n] = rows[at[n]]
  BY <1>2
<1>10. Kept(rows, S) \in [1..c -> R]
  BY <1>2, <1>3, <1>8
<1>11. Kept(rows, S) \in Seq(R) /\ Len(Kept(rows, S)) = c
  BY <1>5, <1>10
<1>12. at \in [DOMAIN Kept(rows, S) -> DOMAIN rows] /\ KeptFrom(rows, S, at)
  <2>1. at \in [DOMAIN Kept(rows, S) -> DOMAIN rows]
    BY <1>1, <1>8, <1>9
  <2>2. \A n \in DOMAIN Kept(rows, S) :
             Kept(rows, S)[n] = rows[at[n]] /\ rows[at[n]] \in S
    BY <1>3, <1>8, <1>9
  <2>3. \A m, n \in DOMAIN Kept(rows, S) : at[m] = at[n] => m = n
    BY <1>6, <1>9
  <2>4. \A k \in DOMAIN rows : rows[k] \in S =>
             \E n \in DOMAIN Kept(rows, S) : at[n] = k
    BY <1>4, <1>7, <1>9
  <2>5. QED
    BY <2>1, <2>2, <2>3, <2>4 DEF KeptFrom
<1>13. QED
  BY <1>11, <1>12 DEF c, I

LEMMA KeptRange ==
    ASSUME NEW R, NEW rows \in Seq(R), NEW S
    PROVE  Range(Kept(rows, S)) = Range(rows) \cap S
<1>1. PICK at \in [DOMAIN Kept(rows, S) -> DOMAIN rows] : KeptFrom(rows, S, at)
  BY KeptShape
<1>2. QED
  BY <1>1 DEF Range, KeptFrom

(* Keeping all the rows changes nothing, keeping none leaves none.         *)
LEMMA KeptAll ==
    ASSUME NEW R, NEW rows \in Seq(R), NEW S, Range(rows) \subseteq S
    PROVE  Kept(rows, S) = rows
<1> DEFINE I == {k \in DOMAIN rows : rows[k] \in S}
           c == Cardinality(I)
<1>1. Len(rows) \in Nat /\ DOMAIN rows = 1..Len(rows)
  OBVIOUS
<1>2. I = 1..Len(rows)
  BY <1>1 DEF Range
<1>3. c = Len(rows) /\ IsFiniteSet(I) /\ I \in SUBSET Nat
  <2>1. IsFiniteSet(1..Len(rows)) /\ Cardinality(1..Len(rows)) = Len(rows)
    BY <1>1, FS_Interval
  <2> HIDE DEF I
  <2>2. QED
    BY <1>1, <1>2, <2>1
<1>4. \A k \in I : RankIn(I, k) = k
  <2> SUFFICES ASSUME NEW k \in I PROVE RankIn(I, k) = k
    OBVIOUS
  <2>1. k \in Int /\ k >= 1 /\ {j \in I : j <= k} = 1..k
    BY <1>1, <1>2
  <2>2. Cardinality(1..k) = k
    <3>1. 1 \in Int /\ ~(1 > k)
      BY <2>1
    <3>2. QED
      BY <2>1, <3>1, FS_Interval
  <2> HIDE DEF I
  <2>3. QED
    BY <2>1, <2>2 DEF RankIn
<1>5. Kept(rows, S) = [n \in 1..c |-> rows[CHOOSE k \in I : RankIn(I, k) = n]]
  BY DEF Kept, RankIn
<1> HIDE DEF I, c
<1>6. \A n \in 1..c : (CHOOSE k \in I : RankIn(I, k) = n) = n
  <2> SUFFICES ASSUME NEW n \in 1..c
               PROVE  (CHOOSE k \in I : RankIn(I, k) = n) = n
    OBVIOUS
  <2>1. \E k \in I : RankIn(I, k) = n
    BY <1>2, <1>3, <1>4
  <2>2. QED
    BY <1>4, <2>1
<1>7. Kept(rows, S) = [n \in 1..c |-> rows[n]]
  BY <1>5, <1>6
<1>8. QED
  BY <1>1, <1>3, <1>7

LEMMA KeptNone ==
    ASSUME NEW R, NEW rows \in Seq(R), NEW S, Range(rows) \cap S = {}
    PROVE  Kept(rows, S) = <<>>
<1>1. {k \in DOMAIN rows : rows[k] \in S} = {}
  BY DEF Range
<1>2. Len(Kept(rows, S)) = 0 /\ Kept(rows, S) \in Seq(R)
  BY <1>1, KeptShape, FS_EmptySet
<1>3. QED
  BY <1>2

-----------------------------------------------------------------------------
(* Rows *)

(* No two rows share an item or a cell.                                    *)
RowsSound(rows) ==
    \A j, k \in DOMAIN rows : j # k =>
        rows[j].items \cap rows[k].items = {} /\ rows[j].cell # rows[k].cell

LEMMA NoRows == RowsSound(<<>>) /\ ItemsIn(<<>>) = {} /\ <<>> \in Seq(Row)
BY DEF RowsSound, ItemsIn, Range

LEMMA KeptSound ==
    ASSUME NEW rows \in Seq(Row), RowsSound(rows), NEW S
    PROVE  RowsSound(Kept(rows, S)) /\ Kept(rows, S) \in Seq(Row)
<1>1. PICK at \in [DOMAIN Kept(rows, S) -> DOMAIN rows] : KeptFrom(rows, S, at)
  BY KeptShape
<1>2. Kept(rows, S) \in Seq(Row)
  BY KeptShape
<1>3. RowsSound(Kept(rows, S))
  BY <1>1 DEF RowsSound, KeptFrom
<1>4. QED
  BY <1>2, <1>3

(* Different rows of a sound bag have nothing in common.                   *)
LEMMA RowsApart ==
    ASSUME NEW rows, RowsSound(rows), NEW r \in Range(rows), NEW s \in Range(rows),
           r # s
    PROVE  r.items \cap s.items = {} /\ r.cell # s.cell
BY DEF RowsSound, Range

LEMMA RowType ==
    ASSUME NEW rows \in Seq(Row), NEW r \in Range(rows)
    PROVE  /\ r \in Row /\ r.items \in Stack /\ r.cell \in Cell
           /\ r.items \subseteq Item /\ r.items # {} /\ r.items \subseteq ItemsIn(rows)
<1>1. r \in Row
  BY DEF Range
<1>2. r.items \subseteq ItemsIn(rows)
  BY DEF ItemsIn
<1>3. QED
  BY <1>1, <1>2 DEF Row, Stack

LEMMA ItemsInMember ==
    ASSUME NEW rows, NEW i
    PROVE  i \in ItemsIn(rows) <=> \E r \in Range(rows) : i \in r.items
BY DEF ItemsIn

LEMMA ItemsInIndex ==
    ASSUME NEW rows, NEW i
    PROVE  i \in ItemsIn(rows) <=> \E k \in DOMAIN rows : i \in rows[k].items
BY DEF ItemsIn, Range

LEMMA ItemsInType ==
    ASSUME NEW rows \in Seq(Row)
    PROVE  ItemsIn(rows) \subseteq Item
BY RowType, ItemsInMember

(* Two sound bags that have nothing in common are a sound bag together.    *)
LEMMA JoinedSound ==
    ASSUME NEW a \in Seq(Row), NEW b \in Seq(Row), RowsSound(a), RowsSound(b),
           \A r \in Range(a), s \in Range(b) :
               r.items \cap s.items = {} /\ r.cell # s.cell
    PROVE  RowsSound(a \o b) /\ a \o b \in Seq(Row)
<1> DEFINE ab == a \o b
<1>1. /\ ab \in Seq(Row)
      /\ Len(ab) = Len(a) + Len(b)
      /\ \A k \in DOMAIN ab : \/ k \in DOMAIN a /\ ab[k] = a[k]
                              \/ /\ k > Len(a) /\ k - Len(a) \in DOMAIN b
                                 /\ ab[k] = b[k - Len(a)]
  OBVIOUS
<1>2. \A k \in DOMAIN ab : k \in Int
  BY <1>1
<1>3. Len(a) \in Int /\ \A k \in DOMAIN a : k \in Int /\ k <= Len(a)
  OBVIOUS
<1> HIDE DEF ab
<1>4. ASSUME NEW j \in DOMAIN ab, NEW k \in DOMAIN ab, j # k
      PROVE  ab[j].items \cap ab[k].items = {} /\ ab[j].cell # ab[k].cell
  <2>1. CASE j \in DOMAIN a /\ ab[j] = a[j] /\ k \in DOMAIN a /\ ab[k] = a[k]
    BY <1>4, <2>1 DEF RowsSound
  <2>2. CASE /\ j > Len(a) /\ j - Len(a) \in DOMAIN b /\ ab[j] = b[j - Len(a)]
             /\ k > Len(a) /\ k - Len(a) \in DOMAIN b /\ ab[k] = b[k - Len(a)]
    <3>1. j - Len(a) # k - Len(a)
      BY <1>2, <1>3, <1>4
    <3>2. QED
      BY <2>2, <3>1 DEF RowsSound
  <2>3. CASE /\ j \in DOMAIN a /\ ab[j] = a[j]
             /\ k - Len(a) \in DOMAIN b /\ ab[k] = b[k - Len(a)]
    BY <2>3 DEF Range
  <2>4. CASE /\ k \in DOMAIN a /\ ab[k] = a[k]
             /\ j - Len(a) \in DOMAIN b /\ ab[j] = b[j - Len(a)]
    BY <2>4 DEF Range
  <2>5. QED
    BY <1>1, <2>1, <2>2, <2>3, <2>4
<1>5. RowsSound(ab)
  BY <1>4 DEF RowsSound
<1>6. QED
  BY <1>1, <1>5 DEF ab

LEMMA JoinedRange ==
    ASSUME NEW R, NEW a \in Seq(R), NEW b \in Seq(R)
    PROVE  Range(a \o b) = Range(a) \cup Range(b)
<1> DEFINE ab == a \o b
<1>1. /\ Len(ab) = Len(a) + Len(b) /\ DOMAIN ab = 1..(Len(a) + Len(b))
      /\ Len(a) \in Nat /\ Len(b) \in Nat
      /\ DOMAIN a = 1..Len(a) /\ DOMAIN b = 1..Len(b)
      /\ \A k \in DOMAIN ab : \/ k \in DOMAIN a /\ ab[k] = a[k]
                              \/ k - Len(a) \in DOMAIN b /\ ab[k] = b[k - Len(a)]
      /\ \A k \in DOMAIN a : ab[k] = a[k]
      /\ \A k \in DOMAIN b : ab[k + Len(a)] = b[k]
  OBVIOUS
<1> HIDE DEF ab
<1>2. Range(ab) \subseteq Range(a) \cup Range(b)
  BY <1>1 DEF Range
<1>3. Range(a) \subseteq Range(ab)
  <2>1. \A k \in DOMAIN a : k \in DOMAIN ab
    BY <1>1
  <2>2. QED
    BY <1>1, <2>1 DEF Range
<1>4. Range(b) \subseteq Range(ab)
  <2>1. \A k \in DOMAIN b : k + Len(a) \in DOMAIN ab
    BY <1>1
  <2>2. QED
    BY <1>1, <2>1 DEF Range
<1>5. QED
  BY <1>2, <1>3, <1>4 DEF ab

(* A reconciled bag has the rows of the character row, each once.          *)
LEMMA ReconciledSound ==
    ASSUME NEW p, bag[p] \in Seq(Row), saved[p] \in Seq(Row),
           RowsSound(bag[p]), RowsSound(saved[p])
    PROVE  /\ Reconciled(p) \in Seq(Row)
           /\ RowsSound(Reconciled(p))
           /\ Range(Reconciled(p)) = Range(saved[p])
           /\ ItemsIn(Reconciled(p)) = ItemsIn(saved[p])
<1> DEFINE a == Kept(bag[p], Range(saved[p]))
           b == Kept(saved[p], Range(saved[p]) \ Range(bag[p]))
<1>1. a \in Seq(Row) /\ RowsSound(a) /\ b \in Seq(Row) /\ RowsSound(b)
  BY KeptSound
<1>2. Range(a) = Range(bag[p]) \cap Range(saved[p])
  BY KeptRange
<1>3. Range(b) = Range(saved[p]) \cap (Range(saved[p]) \ Range(bag[p]))
  BY KeptRange
<1>4. Reconciled(p) = a \o b
  BY DEF Reconciled
<1> HIDE DEF a, b
<1>5. ASSUME NEW r \in Range(a), NEW s \in Range(b)
      PROVE  r.items \cap s.items = {} /\ r.cell # s.cell
  <2>1. r \in Range(saved[p]) /\ s \in Range(saved[p]) /\ r # s
    BY <1>2, <1>3
  <2>2. QED
    BY <2>1, RowsApart
<1>6. RowsSound(a \o b) /\ a \o b \in Seq(Row)
  BY <1>1, <1>5, JoinedSound
<1>7. Range(a \o b) = Range(saved[p])
  <2>1. Range(a \o b) = Range(a) \cup Range(b)
    BY <1>1, JoinedRange
  <2>2. QED
    BY <1>2, <1>3, <2>1
<1>8. ItemsIn(a \o b) = ItemsIn(saved[p])
  BY <1>7 DEF ItemsIn
<1>9. QED
  BY <1>4, <1>6, <1>7, <1>8

(* What the session and the row agree on, reconciling does not touch.      *)
LEMMA ReconciledSame ==
    ASSUME NEW p, saved[p] \in Seq(Row), bag[p] = saved[p]
    PROVE  Reconciled(p) = saved[p]
<1>1. Kept(bag[p], Range(saved[p])) = saved[p]
  BY KeptAll
<1>2. Kept(saved[p], Range(saved[p]) \ Range(bag[p])) = <<>>
  BY KeptNone
<1>3. saved[p] \o <<>> = saved[p]
  BY ConcatEmptySeq
<1>4. QED
  BY <1>1, <1>2, <1>3 DEF Reconciled

LEMMA WithoutSound ==
    ASSUME NEW rows \in Seq(Row), RowsSound(rows), NEW r \in Range(rows)
    PROVE  /\ Without(rows, r) \in Seq(Row)
           /\ RowsSound(Without(rows, r))
           /\ ItemsIn(Without(rows, r)) = ItemsIn(rows) \ r.items
<1>1. Without(rows, r) \in Seq(Row) /\ RowsSound(Without(rows, r))
  BY KeptSound DEF Without
<1>2. Range(Without(rows, r)) = Range(rows) \cap (Range(rows) \ {r})
  BY KeptRange DEF Without
<1>3. \A s \in Range(rows) : s # r => s.items \cap r.items = {}
  BY RowsApart
<1>4. QED
  BY <1>1, <1>2, <1>3 DEF ItemsIn

LEMMA AppendedSound ==
    ASSUME NEW rows \in Seq(Row), RowsSound(rows), NEW r \in Row,
           r.items \cap ItemsIn(rows) = {}, r.cell \notin CellsIn(rows)
    PROVE  /\ Append(rows, r) \in Seq(Row)
           /\ RowsSound(Append(rows, r))
           /\ ItemsIn(Append(rows, r)) = ItemsIn(rows) \cup r.items
<1> DEFINE more == Append(rows, r)
<1>1. /\ more \in Seq(Row) /\ Len(rows) \in Nat
      /\ DOMAIN rows = 1..Len(rows) /\ DOMAIN more = 1..(Len(rows) + 1)
      /\ more[Len(rows) + 1] = r
      /\ \A k \in DOMAIN rows : more[k] = rows[k]
  OBVIOUS
<1> HIDE DEF more
<1>2. \A k \in DOMAIN more : k \in DOMAIN rows \/ k = Len(rows) + 1
  BY <1>1
<1>3. \A k \in DOMAIN rows : k \in DOMAIN more
  BY <1>1
<1>4. Len(rows) + 1 \in DOMAIN more
  BY <1>1
<1>5. Range(more) = Range(rows) \cup {r}
  BY <1>1, <1>2, <1>3, <1>4 DEF Range
<1>6. \A k \in DOMAIN rows : /\ rows[k].items \cap r.items = {}
                             /\ rows[k].cell # r.cell
  BY DEF ItemsIn, CellsIn, Range
<1>7. RowsSound(more)
  BY <1>1, <1>2, <1>6 DEF RowsSound
<1>8. ItemsIn(more) = ItemsIn(rows) \cup r.items
  BY <1>5 DEF ItemsIn
<1>9. QED
  BY <1>1, <1>7, <1>8 DEF more

(* A row whose items become x, which no other row has any of.              *)
LEMMA ChangedSound ==
    ASSUME NEW rows \in Seq(Row), RowsSound(rows), NEW k \in DOMAIN rows,
           NEW x \in Stack,
           \A j \in DOMAIN rows : j # k => rows[j].items \cap x = {}
    PROVE  /\ [rows EXCEPT ![k].items = x] \in Seq(Row)
           /\ RowsSound([rows EXCEPT ![k].items = x])
           /\ ItemsIn([rows EXCEPT ![k].items = x])
                 = (ItemsIn(rows) \ rows[k].items) \cup x
<1> DEFINE new == [rows EXCEPT ![k].items = x]
<1>1. /\ DOMAIN new = DOMAIN rows
      /\ \A j \in DOMAIN rows : new[j] = IF j = k THEN [rows[k] EXCEPT !.items = x]
                                         ELSE rows[j]
  OBVIOUS
<1>2. \A j \in DOMAIN rows : rows[j] \in Row
  OBVIOUS
<1>3. Len(rows) \in Nat /\ DOMAIN rows = 1..Len(rows)
  OBVIOUS
<1>4. /\ [rows[k] EXCEPT !.items = x] \in Row
      /\ [rows[k] EXCEPT !.items = x].items = x
      /\ [rows[k] EXCEPT !.items = x].cell = rows[k].cell
  BY <1>2 DEF Row
<1>5. new \in [1..Len(rows) -> Row]
  BY <1>1, <1>2, <1>3, <1>4
<1>6. new \in Seq(Row)
  BY <1>3, <1>5
<1> HIDE DEF new
<1>7. /\ new[k].items = x /\ new[k].cell = rows[k].cell
      /\ \A j \in DOMAIN rows : j # k => new[j] = rows[j]
  BY <1>1, <1>4
<1>8. RowsSound(new)
  BY <1>1, <1>7 DEF RowsSound
<1>9. ASSUME NEW i
      PROVE  i \in ItemsIn(new) <=> i \in (ItemsIn(rows) \ rows[k].items) \cup x
  <2>1. i \in ItemsIn(new) <=> \E j \in DOMAIN rows : i \in new[j].items
    BY <1>1, ItemsInIndex
  <2>2. i \in ItemsIn(rows) <=> \E j \in DOMAIN rows : i \in rows[j].items
    BY ItemsInIndex
  <2>3. \A j \in DOMAIN rows : j # k => rows[j].items \cap rows[k].items = {}
    BY DEF RowsSound
  <2>4. QED
    BY <1>7, <2>1, <2>2, <2>3
<1>10. QED
  BY <1>6, <1>8, <1>9 DEF new

LEMMA FirstRowsSound ==
    ASSUME NEW rows \in Seq(Row), RowsSound(rows), NEW n \in 0..Len(rows)
    PROVE  /\ SubSeq(rows, 1, n) \in Seq(Row)
           /\ RowsSound(SubSeq(rows, 1, n))
           /\ ItemsIn(SubSeq(rows, 1, n)) \subseteq ItemsIn(rows)
           /\ n = Len(rows) => SubSeq(rows, 1, n) = rows
<1> DEFINE few == SubSeq(rows, 1, n)
<1>1. /\ few \in Seq(Row) /\ DOMAIN few = 1..n
      /\ DOMAIN rows = 1..Len(rows) /\ Len(rows) \in Nat
      /\ \A k \in 1..n : few[k] = rows[k]
  OBVIOUS
<1>2. n = Len(rows) => few = rows
  OBVIOUS
<1> HIDE DEF few
<1>3. \A k \in DOMAIN few : k \in DOMAIN rows /\ few[k] = rows[k]
  BY <1>1
<1>4. RowsSound(few)
  BY <1>3 DEF RowsSound
<1>5. ItemsIn(few) \subseteq ItemsIn(rows)
  BY <1>3, ItemsInIndex
<1>6. QED
  BY <1>1, <1>2, <1>4, <1>5 DEF few

LEMMA OneStack ==
    ASSUME NEW i \in Item
    PROVE  {i} \in Stack
<1>1. Cardinality({i}) = 1
  BY FS_Singleton
<1>2. QED
  BY <1>1 DEF Stack

LEMMA FirstFreeFits ==
    ASSUME NEW rows, FreeCells(rows) # {}
    PROVE  FirstFree(rows) \in FreeCells(rows)
<1>1. NCells \in Nat
  BY BoundAssumption
<1>2. IsFiniteSet(Cell)
  BY <1>1, FS_Interval DEF Cell
<1>3. FreeCells(rows) \in SUBSET Cell /\ FreeCells(rows) \in SUBSET Nat
  BY <1>1 DEF FreeCells, Cell
<1>4. IsFiniteSet(FreeCells(rows))
  BY <1>2, <1>3, FS_Subset
<1>5. \E c \in FreeCells(rows) : \A d \in FreeCells(rows) : c <= d
  BY <1>3, <1>4, HasLeast
<1>6. QED
  BY <1>5 DEF FirstFree

LEMMA FirstOpenFits ==
    ASSUME NEW rows \in Seq(Row), Open(rows) # {}
    PROVE  FirstOpen(rows) \in Open(rows)
<1>1. Len(rows) \in Nat /\ DOMAIN rows = 1..Len(rows)
  OBVIOUS
<1>2. IsFiniteSet(1..Len(rows))
  BY <1>1, FS_Interval
<1>3. Open(rows) \in SUBSET (1..Len(rows)) /\ Open(rows) \in SUBSET Nat
  BY <1>1 DEF Open
<1>4. IsFiniteSet(Open(rows))
  BY <1>2, <1>3, FS_Subset
<1>5. \E c \in Open(rows) : \A d \in Open(rows) : c <= d
  BY <1>3, <1>4, HasLeast
<1>6. QED
  BY <1>5 DEF FirstOpen

(* Adding a stack adds its items and nothing else.                         *)
LEMMA AddedSound ==
    ASSUME NEW rows \in Seq(Row), RowsSound(rows), NEW s \in Stack,
           s \cap ItemsIn(rows) = {}, Fits(rows, s)
    PROVE  /\ Added(rows, s) \in Seq(Row)
           /\ RowsSound(Added(rows, s))
           /\ ItemsIn(Added(rows, s)) = ItemsIn(rows) \cup s
<1>1. CASE s \subseteq Potion /\ Open(rows) # {}
  <2> DEFINE k == FirstOpen(rows)
             x == rows[k].items \cup s
  <2>1. k \in Open(rows)
    BY <1>1, FirstOpenFits
  <2>2. k \in DOMAIN rows /\ rows[k].items \subseteq Potion
    BY <2>1 DEF Open
  <2>3. Added(rows, s) = [rows EXCEPT ![k].items = x]
    BY <1>1, <2>2 DEF Added
  <2> HIDE DEF k
  <2>4. rows[k] \in Range(rows)
    BY <2>2 DEF Range
  <2>5. x \in Stack
    BY <1>1, <2>2 DEF Stack, Item
  <2>6. \A j \in DOMAIN rows : j # k => rows[j].items \cap x = {}
    BY <2>2, ItemsInIndex DEF RowsSound
  <2>7. rows[k].items \subseteq ItemsIn(rows)
    BY <2>4, RowType
  <2> HIDE DEF x
  <2>8. /\ [rows EXCEPT ![k].items = x] \in Seq(Row)
        /\ RowsSound([rows EXCEPT ![k].items = x])
        /\ ItemsIn([rows EXCEPT ![k].items = x])
              = (ItemsIn(rows) \ rows[k].items) \cup x
    BY <2>2, <2>5, <2>6, ChangedSound
  <2>9. (ItemsIn(rows) \ rows[k].items) \cup x = ItemsIn(rows) \cup s
    BY <2>7 DEF x
  <2>10. QED
    BY <2>3, <2>8, <2>9
<1>2. CASE ~(s \subseteq Potion /\ Open(rows) # {})
  <2> DEFINE r == [items |-> s, cell |-> FirstFree(rows)]
  <2>1. FirstFree(rows) \in FreeCells(rows)
    BY <1>2, FirstFreeFits DEF Fits
  <2>2. r \in Row /\ r.items = s /\ r.cell \notin CellsIn(rows)
    BY <2>1 DEF Row, FreeCells
  <2>3. Added(rows, s) = Append(rows, r)
    BY <1>2 DEF Added
  <2> HIDE DEF r
  <2>4. QED
    BY <2>2, <2>3, AppendedSound
<1>3. QED
  BY <1>1, <1>2

(* Using one potion of a stack takes it and nothing else.                  *)
LEMMA OneTaken ==
    ASSUME NEW rows \in Seq(Row), RowsSound(rows), NEW k \in DOMAIN rows,
           NEW i \in rows[k].items, rows[k].items \subseteq Potion, NEW left,
           left = IF rows[k].items = {i} THEN Without(rows, rows[k])
                  ELSE [rows EXCEPT ![k].items = @ \ {i}]
    PROVE  left \in Seq(Row) /\ RowsSound(left) /\ ItemsIn(left) = ItemsIn(rows) \ {i}
<1>1. rows[k] \in Range(rows)
  BY DEF Range
<1>2. CASE rows[k].items = {i}
  BY <1>1, <1>2, WithoutSound
<1>3. CASE rows[k].items # {i}
  <2> DEFINE x == rows[k].items \ {i}
  <2>1. x \in Stack
    BY <1>3 DEF Stack, Item
  <2>2. \A j \in DOMAIN rows : j # k => rows[j].items \cap x = {}
    BY DEF RowsSound
  <2>3. left = [rows EXCEPT ![k].items = x]
    BY <1>3
  <2>4. rows[k].items \subseteq ItemsIn(rows)
    BY <1>1, RowType
  <2> HIDE DEF x
  <2>5. /\ [rows EXCEPT ![k].items = x] \in Seq(Row)
        /\ RowsSound([rows EXCEPT ![k].items = x])
        /\ ItemsIn([rows EXCEPT ![k].items = x])
              = (ItemsIn(rows) \ rows[k].items) \cup x
    BY <2>1, <2>2, ChangedSound
  <2>6. (ItemsIn(rows) \ rows[k].items) \cup x = ItemsIn(rows) \ {i}
    BY <2>4 DEF x
  <2>7. QED
    BY <2>3, <2>5, <2>6
<1>4. QED
  BY <1>2, <1>3

-----------------------------------------------------------------------------
(* The invariant *)

BagsSound == \A p \in Player : RowsSound(bag[p]) /\ RowsSound(saved[p])

Single == \A i \in Item : \A x, y \in Places(i) : x = y

(* Who has no session has no bag in it and nothing on a cursor.            *)
OutOfWorld == \A p \in Player \ inWorld : bag[p] = <<>> /\ cursor[p] = {}

IInv ==
    /\ TypeOK
    /\ BagsSound
    /\ Single
    /\ BagIsSaved
    /\ HandsCompatible
    /\ OutOfWorld

(* What the bags of p hold, in the session and in the row.                 *)
Holds(p) == ItemsIn(bag[p]) \cup ItemsIn(saved[p])

(* The places of an item, one kind after the other.                        *)
LEMMA AtPlaces ==
    ASSUME NEW i
    PROVE  /\ \A p \in Player : <<"bag", p>> \in Places(i) <=> i \in Holds(p)
           /\ \A p \in Player : <<"cursor", p>> \in Places(i) <=> i \in cursor[p]
           /\ \A h \in Hand, p \in Player : <<h, p>> \in Places(i) <=> worn[p][h] = i
           /\ \A d \in Drop : <<"ground", d>> \in Places(i) <=> i \in ground[d]
           /\ <<"stock", 0>> \in Places(i) <=> i \in stock
           /\ <<"unborn", 0>> \in Places(i) <=> i \in unborn
BY DEF Places, Holds, Hand

(* Where an item is found, it is nowhere else.                             *)
LEMMA OnlyThere ==
    ASSUME Single, NEW i \in Item, NEW x \in Places(i)
    PROVE  /\ \A p \in Player : i \in Holds(p) => x = <<"bag", p>>
           /\ \A p \in Player : i \in cursor[p] => x = <<"cursor", p>>
           /\ \A h \in Hand, p \in Player : worn[p][h] = i => x = <<h, p>>
           /\ \A d \in Drop : i \in ground[d] => x = <<"ground", d>>
           /\ i \in stock => x = <<"stock", 0>>
           /\ i \in unborn => x = <<"unborn", 0>>
<1>1. \A y \in Places(i) : x = y
  BY DEF Single
<1>2. QED
  BY <1>1, AtPlaces

(* An item is after a step at no place but those of S, if at each place it *)
(* is then found at S has that place.                                      *)
LEMMA PlacesWithin ==
    ASSUME NEW i, NEW S,
           \A p \in Player : i \in Holds(p)' => <<"bag", p>> \in S,
           \A p \in Player : i \in cursor'[p] => <<"cursor", p>> \in S,
           \A h \in Hand, p \in Player : worn'[p][h] = i => <<h, p>> \in S,
           \A d \in Drop : i \in ground'[d] => <<"ground", d>> \in S,
           i \in stock' => <<"stock", 0>> \in S,
           i \in unborn' => <<"unborn", 0>> \in S
    PROVE  Places(i)' \subseteq S
<1> SUFFICES ASSUME NEW x \in Places(i)' PROVE x \in S
  OBVIOUS
<1>1. \/ \E p \in Player : x = <<"bag", p>> /\ i \in Holds(p)'
      \/ \E p \in Player : x = <<"cursor", p>> /\ i \in cursor'[p]
      \/ x \in Hand \X Player /\ worn'[x[2]][x[1]] = i
      \/ \E d \in Drop : x = <<"ground", d>> /\ i \in ground'[d]
      \/ i \in stock' /\ x = <<"stock", 0>>
      \/ i \in unborn' /\ x = <<"unborn", 0>>
  BY DEF Places, Holds
<1>2. CASE x \in Hand \X Player /\ worn'[x[2]][x[1]] = i
  <2>1. x[1] \in Hand /\ x[2] \in Player /\ x = <<x[1], x[2]>>
    BY <1>2
  <2>2. QED
    BY <1>2, <2>1
<1>3. QED
  BY <1>1, <1>2

LEMMA OnGround ==
    ASSUME NEW i, NEW e,
           \A p \in Player : i \notin Holds(p)' /\ i \notin cursor'[p],
           \A h \in Hand, p \in Player : worn'[p][h] # i,
           \A d \in Drop : i \in ground'[d] => d = e,
           i \notin stock', i \notin unborn'
    PROVE  \E x : Places(i)' \subseteq {x}
<1>1. Places(i)' \subseteq {<<"ground", e>>}
  BY PlacesWithin
<1>2. QED
  BY <1>1

LEMMA OnCursor ==
    ASSUME NEW i, NEW p,
           \A q \in Player : i \notin Holds(q)' /\ (i \in cursor'[q] => q = p),
           \A h \in Hand, q \in Player : worn'[q][h] # i,
           \A d \in Drop : i \notin ground'[d],
           i \notin stock', i \notin unborn'
    PROVE  \E x : Places(i)' \subseteq {x}
<1>1. Places(i)' \subseteq {<<"cursor", p>>}
  BY PlacesWithin
<1>2. QED
  BY <1>1

(* Every item keeps to its place or moves to one other.                    *)
LEMMA StaysSingle ==
    ASSUME Single,
           \A i \in Item : \/ Places(i)' \subseteq Places(i)
                           \/ \E x : Places(i)' \subseteq {x}
    PROVE  Single'
<1> SUFFICES ASSUME NEW i \in Item, NEW x \in Places(i)', NEW y \in Places(i)'
             PROVE  x = y
  BY DEF Single, Item
<1>1. CASE Places(i)' \subseteq Places(i)
  BY <1>1 DEF Single
<1>2. CASE \E z : Places(i)' \subseteq {z}
  BY <1>2
<1>3. QED
  BY <1>1, <1>2

LEMMA BagTypes ==
    ASSUME TypeOK, NEW p \in Player
    PROVE  bag[p] \in Seq(Row) /\ saved[p] \in Seq(Row)
BY DEF TypeOK

LEMMA HeldTypes ==
    ASSUME TypeOK, NEW p \in Player
    PROVE  Holds(p) \subseteq Item /\ cursor[p] \subseteq Item
<1>1. Holds(p) \subseteq Item
  BY BagTypes, ItemsInType DEF Holds
<1>2. cursor[p] \subseteq Item
  BY DEF TypeOK, Stack
<1>3. QED
  BY <1>1, <1>2

-----------------------------------------------------------------------------
(* What a handler makes of the bags *)

(* The bags after a step, as far as they go by themselves.                 *)
BagsLawful ==
    /\ bag \in [Player -> Seq(Row)]
    /\ saved \in [Player -> Seq(Row)]
    /\ BagsSound
    /\ BagIsSaved
    /\ \A p \in Player \ inWorld : bag[p] = <<>>

LEMMA PersistedBags ==
    ASSUME IInv, NEW p \in inWorld, NEW rows \in Seq(Row), RowsSound(rows),
           Persisted(p, rows), inWorld' = inWorld
    PROVE  /\ BagsLawful'
           /\ Holds(p)' = ItemsIn(rows)
           /\ \A q \in Player : q # p => Holds(q)' = Holds(q)
<1>1. p \in Player /\ bag \in [Player -> Seq(Row)] /\ saved \in [Player -> Seq(Row)]
  BY DEF IInv, TypeOK
<1>2. /\ bag' = [bag EXCEPT ![p] = rows]
      /\ saved' = [saved EXCEPT ![p] = rows]
  BY DEF Persisted
<1>3. bag' \in [Player -> Seq(Row)] /\ saved' \in [Player -> Seq(Row)]
  BY <1>1, <1>2
<1>4. /\ bag'[p] = rows /\ saved'[p] = rows
      /\ \A q \in Player : q # p => bag'[q] = bag[q] /\ saved'[q] = saved[q]
  BY <1>1, <1>2
<1>5. BagsSound'
  BY <1>4 DEF IInv, BagsSound
<1>6. BagIsSaved'
  BY <1>4 DEF IInv, TypeOK, BagIsSaved
<1>7. \A q \in Player \ inWorld' : bag'[q] = <<>>
  BY <1>4 DEF IInv, OutOfWorld
<1>8. QED
  BY <1>1, <1>3, <1>4, <1>5, <1>6, <1>7 DEF BagsLawful, Holds

(* Reconciling alone takes nothing into a bag, and takes nothing out of    *)
(* one that was saved.                                                     *)
LEMMA ReconciledBags ==
    ASSUME IInv, NEW p \in inWorld, ReconciledOnly(p), inWorld' = inWorld
    PROVE  /\ BagsLawful'
           /\ Holds(p)' = ItemsIn(saved[p])
           /\ \A q \in Player : q # p => Holds(q)' = Holds(q)
<1>1. p \in Player /\ bag \in [Player -> Seq(Row)] /\ saved \in [Player -> Seq(Row)]
  BY DEF IInv, TypeOK
<1>2. bag' = [bag EXCEPT ![p] = Reconciled(p)] /\ saved' = saved
  BY DEF ReconciledOnly
<1>3. /\ Reconciled(p) \in Seq(Row)
      /\ RowsSound(Reconciled(p))
      /\ ItemsIn(Reconciled(p)) = ItemsIn(saved[p])
  BY <1>1, ReconciledSound DEF IInv, BagsSound
<1>4. bag' \in [Player -> Seq(Row)] /\ saved' \in [Player -> Seq(Row)]
  BY <1>1, <1>2, <1>3
<1>5. /\ bag'[p] = Reconciled(p) /\ \A q \in Player : saved'[q] = saved[q]
      /\ \A q \in Player : q # p => bag'[q] = bag[q]
  BY <1>1, <1>2
<1>6. BagsSound'
  BY <1>3, <1>5 DEF IInv, BagsSound
<1>7. BagIsSaved'
  <2>1. ASSUME NEW q \in inWorld', Len(saved'[q]) <= LoadLimit
        PROVE  bag'[q] = saved'[q]
    <3>1. q \in Player /\ Len(saved[q]) <= LoadLimit /\ bag[q] = saved[q]
      BY <1>5, <2>1 DEF IInv, TypeOK, BagIsSaved
    <3>2. CASE q = p
      BY <1>1, <1>5, <3>1, <3>2, ReconciledSame
    <3>3. CASE q # p
      BY <1>5, <3>1, <3>3
    <3>4. QED
      BY <3>2, <3>3
  <2>2. QED
    BY <2>1 DEF BagIsSaved
<1>8. \A q \in Player \ inWorld' : bag'[q] = <<>>
  BY <1>5 DEF IInv, OutOfWorld
<1>9. QED
  BY <1>1, <1>3, <1>4, <1>5, <1>6, <1>7, <1>8 DEF BagsLawful, Holds

(* A step that touches no bag.                                             *)
LEMMA UntouchedBags ==
    ASSUME IInv, inWorld' = inWorld, bag' = bag, saved' = saved
    PROVE  BagsLawful' /\ \A q \in Player : Holds(q)' = Holds(q)
BY DEF IInv, TypeOK, BagsSound, BagIsSaved, OutOfWorld, BagsLawful, Holds

(* A step by which no place gets an item.                                  *)
LEMMA OnlyLost ==
    ASSUME IInv,
           \A p \in Player : Holds(p)' \subseteq Holds(p),
           \A p \in Player : cursor'[p] \subseteq cursor[p],
           \A p \in Player, h \in Hand : worn'[p][h] \in {worn[p][h], NoItem},
           \A d \in Drop : ground'[d] \subseteq ground[d],
           stock' \subseteq stock, unborn' \subseteq unborn
    PROVE  Single'
<1>1. ASSUME NEW i \in Item
      PROVE  Places(i)' \subseteq Places(i)
  <2>1. i # NoItem
    BY ItemAssumption DEF Item
  <2>2. QED
    BY <2>1, AtPlaces, PlacesWithin
<1>2. QED
  BY <1>1, StaysSingle DEF IInv

LEMMA SyncTypes ==
    ASSUME TypeOK, NEW p \in Player, Syncs(p)
    PROVE  unsynced' \in [Player -> BOOLEAN] /\ plain' \subseteq Gear
BY DEF TypeOK, Syncs

LEMMA SaveTypes ==
    ASSUME TypeOK, NEW p \in Player, NEW new, SavesUnsynced(p, new)
    PROVE  unsynced' \in [Player -> BOOLEAN] /\ plain' \subseteq Gear
BY DEF TypeOK, SavesUnsynced

-----------------------------------------------------------------------------
(* Every step keeps the invariant *)

LEMMA InitIInv == Init => IInv
<1> SUFFICES ASSUME Init PROVE IInv
  OBVIOUS
<1>1. TypeOK
  <2>1. 0 \in Drop
    BY BoundAssumption DEF Drop
  <2>2. <<>> \in Seq(Row)
    OBVIOUS
  <2>3. QED
    BY <2>1, <2>2 DEF Init, TypeOK
<1>2. BagsSound
  BY NoRows DEF Init, BagsSound
<1>3. Single
  <2>1. \A p \in Player : Holds(p) = {}
    BY NoRows DEF Init, Holds
  <2>2. ASSUME NEW i \in Item, NEW x \in Places(i)
        PROVE  x = <<"unborn", 0>>
    <3>1. i # NoItem
      BY ItemAssumption DEF Item
    <3>2. QED
      BY <2>1, <2>2, <3>1 DEF Init, Places, Holds
  <2>3. QED
    BY <2>2 DEF Single
<1>4. BagIsSaved /\ HandsCompatible /\ OutOfWorld
  BY DEF Init, BagIsSaved, HandsCompatible, OutOfWorld, Hand
<1>5. QED
  BY <1>1, <1>2, <1>3, <1>4 DEF IInv

LEMMA EnterZoneKeeps ==
    ASSUME IInv, NEW p \in Player, EnterZone(p)
    PROVE  /\ IInv'
           /\ Holds(p)' = ItemsIn(SubSeq(saved[p], 1,
                 IF Len(saved[p]) <= LoadLimit THEN Len(saved[p]) ELSE LoadLimit))
                 \cup ItemsIn(saved[p])
           /\ \A q \in Player : q # p => Holds(q)' = Holds(q)
<1> DEFINE n == IF Len(saved[p]) <= LoadLimit THEN Len(saved[p]) ELSE LoadLimit
           few == SubSeq(saved[p], 1, n)
<1>1. /\ bag \in [Player -> Seq(Row)] /\ saved \in [Player -> Seq(Row)]
      /\ RowsSound(saved[p])
  BY DEF IInv, TypeOK, BagsSound
<1>2. n \in 0..Len(saved[p])
  BY <1>1, BoundAssumption
<1>3. bag' = [bag EXCEPT ![p] = few] /\ inWorld' = inWorld \cup {p}
  BY DEF EnterZone
<1>4. /\ cursor' = [cursor EXCEPT ![p] = {}] /\ saved' = saved /\ worn' = worn
      /\ ground' = ground /\ nextDrop' = nextDrop /\ stock' = stock
      /\ plain' = plain /\ unborn' = unborn
      /\ unsynced' = [unsynced EXCEPT ![p] = TRUE]
  BY DEF EnterZone
<1>5. n = Len(saved[p]) \/ ~(Len(saved[p]) <= LoadLimit)
  OBVIOUS
<1> HIDE DEF n
<1>6. /\ few \in Seq(Row) /\ RowsSound(few)
      /\ ItemsIn(few) \subseteq ItemsIn(saved[p])
      /\ n = Len(saved[p]) => few = saved[p]
  BY <1>1, <1>2, FirstRowsSound
<1> HIDE DEF few
<1>7. /\ bag'[p] = few
      /\ \A q \in Player : q # p => bag'[q] = bag[q] /\ cursor'[q] = cursor[q]
      /\ cursor'[p] = {}
  BY <1>1, <1>3, <1>4 DEF IInv, TypeOK
<1>8. TypeOK'
  BY <1>1, <1>3, <1>4, <1>6 DEF IInv, TypeOK
<1>9. BagsSound'
  BY <1>4, <1>6, <1>7 DEF IInv, BagsSound
<1>10. /\ Holds(p)' = ItemsIn(few) \cup ItemsIn(saved[p])
       /\ \A q \in Player : q # p => Holds(q)' = Holds(q)
  BY <1>4, <1>7 DEF Holds
<1>11. \A q \in Player : Holds(q)' \subseteq Holds(q)
  BY <1>6, <1>10 DEF Holds
<1>12. Single'
  BY <1>4, <1>7, <1>11, OnlyLost
<1>13. BagIsSaved'
  BY <1>3, <1>4, <1>5, <1>6, <1>7 DEF IInv, TypeOK, BagIsSaved
<1>14. HandsCompatible'
  BY <1>4 DEF IInv, HandsCompatible
<1>15. OutOfWorld'
  BY <1>3, <1>7 DEF IInv, OutOfWorld
<1>16. QED
  BY <1>8, <1>9, <1>10, <1>12, <1>13, <1>14, <1>15 DEF IInv, few, n

LEMMA DisconnectKeeps ==
    ASSUME IInv, NEW p \in Player, Disconnect(p)
    PROVE  IInv' /\ \A q \in Player : q # p => Holds(q)' = Holds(q)
<1>1. /\ bag' = [bag EXCEPT ![p] = <<>>] /\ inWorld' = inWorld \ {p}
      /\ cursor' = [cursor EXCEPT ![p] = {}] /\ saved' = saved /\ worn' = worn
      /\ ground' = ground /\ nextDrop' = nextDrop /\ stock' = stock
      /\ plain' = plain /\ unborn' = unborn /\ unsynced' = unsynced
  BY DEF Disconnect
<1>2. /\ bag'[p] = <<>> /\ cursor'[p] = {}
      /\ \A q \in Player : q # p => bag'[q] = bag[q] /\ cursor'[q] = cursor[q]
  BY <1>1 DEF IInv, TypeOK
<1>3. TypeOK'
  BY <1>1, NoRows DEF IInv, TypeOK
<1>4. BagsSound'
  BY <1>1, <1>2, NoRows DEF IInv, BagsSound
<1>5. \A q \in Player : q # p => Holds(q)' = Holds(q)
  BY <1>1, <1>2 DEF Holds
<1>6. Holds(p)' \subseteq Holds(p)
  BY <1>1, <1>2, NoRows DEF Holds
<1>7. Single'
  BY <1>1, <1>2, <1>5, <1>6, OnlyLost
<1>8. BagIsSaved'
  BY <1>1, <1>2 DEF IInv, TypeOK, BagIsSaved
<1>9. HandsCompatible'
  BY <1>1 DEF IInv, HandsCompatible
<1>10. OutOfWorld'
  BY <1>1, <1>2 DEF IInv, OutOfWorld
<1>11. QED
  BY <1>3, <1>4, <1>5, <1>7, <1>8, <1>9, <1>10 DEF IInv

LEMMA CrashKeeps ==
    ASSUME IInv, Crash
    PROVE  IInv'
<1>1. /\ bag' = [p \in Player |-> <<>>] /\ inWorld' = {}
      /\ cursor' = [p \in Player |-> {}] /\ saved' = saved /\ worn' = worn
      /\ ground' = [d \in Drop |-> {}] /\ nextDrop' = 0 /\ stock' = {}
      /\ plain' = plain /\ unborn' = unborn \cup stock /\ unsynced' = unsynced
  BY DEF Crash
<1>2. TypeOK'
  <2>1. 0 \in Drop
    BY BoundAssumption DEF Drop
  <2>2. QED
    BY <1>1, <2>1, NoRows DEF IInv, TypeOK
<1>3. BagsSound'
  BY <1>1, NoRows DEF IInv, BagsSound
<1>4. \A q \in Player : Holds(q)' \subseteq Holds(q)
  BY <1>1, NoRows DEF Holds
<1>5. Single'
  <2>1. ASSUME NEW i \in Item
        PROVE  \/ Places(i)' \subseteq Places(i)
               \/ \E x : Places(i)' \subseteq {x}
    <3>1. CASE i \in stock
      <4>1. <<"stock", 0>> \in Places(i)
        BY <3>1, AtPlaces
      <4>2. /\ \A q \in Player : i \notin Holds(q)
            /\ \A q \in Player, h \in Hand : worn[q][h] # i
        BY <4>1, OnlyThere DEF IInv, Hand
      <4>3. Places(i)' \subseteq {<<"unborn", 0>>}
        BY <1>1, <1>4, <4>2, PlacesWithin
      <4>4. QED
        BY <4>3
    <3>2. CASE i \notin stock
      BY <1>1, <1>4, <3>2, AtPlaces, PlacesWithin
    <3>3. QED
      BY <3>1, <3>2
  <2>2. QED
    BY <2>1, StaysSingle DEF IInv
<1>6. BagIsSaved' /\ HandsCompatible' /\ OutOfWorld'
  BY <1>1 DEF IInv, BagIsSaved, HandsCompatible, OutOfWorld
<1>7. QED
  BY <1>2, <1>3, <1>5, <1>6 DEF IInv

(* A handler that reconciles and then refuses.                             *)
LEMMA RefusedKeeps ==
    ASSUME IInv, NEW p \in inWorld, Syncs(p), ReconciledOnly(p), inWorld' = inWorld
    PROVE  IInv'
<1>1. p \in Player
  BY DEF IInv, TypeOK
<1>2. /\ BagsLawful' /\ Holds(p)' = ItemsIn(saved[p])
      /\ \A q \in Player : q # p => Holds(q)' = Holds(q)
  BY ReconciledBags
<1>3. /\ cursor' = cursor /\ worn' = worn /\ ground' = ground
      /\ nextDrop' = nextDrop /\ stock' = stock /\ unborn' = unborn
  BY DEF ReconciledOnly
<1>4. \A q \in Player : Holds(q)' \subseteq Holds(q)
  BY <1>2 DEF Holds
<1>5. Single'
  BY <1>3, <1>4, OnlyLost
<1>6. TypeOK'
  BY <1>1, <1>2, <1>3, SyncTypes DEF IInv, TypeOK, BagsLawful
<1>7. HandsCompatible' /\ OutOfWorld'
  BY <1>2, <1>3 DEF IInv, HandsCompatible, OutOfWorld, BagsLawful
<1>8. QED
  BY <1>2, <1>5, <1>6, <1>7 DEF IInv, BagsLawful

LEMMA BagFacts ==
    ASSUME IInv, NEW p \in inWorld
    PROVE  /\ p \in Player
           /\ bag[p] \in Seq(Row) /\ RowsSound(bag[p])
           /\ saved[p] \in Seq(Row) /\ RowsSound(saved[p])
           /\ Reconciled(p) \in Seq(Row)
           /\ RowsSound(Reconciled(p))
           /\ Range(Reconciled(p)) = Range(saved[p])
           /\ ItemsIn(Reconciled(p)) = ItemsIn(saved[p])
           /\ ItemsIn(Reconciled(p)) \subseteq Holds(p)
           /\ ItemsIn(bag[p]) \subseteq Holds(p)
<1>1. /\ p \in Player /\ bag[p] \in Seq(Row) /\ RowsSound(bag[p])
      /\ saved[p] \in Seq(Row) /\ RowsSound(saved[p])
  BY DEF IInv, TypeOK, BagsSound
<1>2. QED
  BY <1>1, ReconciledSound DEF Holds

LEMMA TakeUpKeeps ==
    ASSUME IInv, NEW p \in Player, TakeUp(p)
    PROVE  IInv'
<1>1. p \in inWorld /\ Syncs(p) /\ inWorld' = inWorld
  BY DEF TakeUp
<1>2. CASE ReconciledOnly(p)
  BY <1>1, <1>2, RefusedKeeps
<1>3. ASSUME NEW r \in Range(Reconciled(p)),
             cursor[p] = {},
             Persisted(p, Without(Reconciled(p), r)),
             cursor' = [cursor EXCEPT ![p] = r.items],
             UNCHANGED <<worn, ground, nextDrop, stock, unborn>>
      PROVE  IInv'
  <2> DEFINE rows == Without(Reconciled(p), r)
  <2>1. /\ r.items \in Stack /\ r.items \subseteq Item
        /\ r.items \subseteq ItemsIn(Reconciled(p))
    BY <1>1, BagFacts, RowType
  <2>2. /\ rows \in Seq(Row) /\ RowsSound(rows)
        /\ ItemsIn(rows) = ItemsIn(Reconciled(p)) \ r.items
    BY <1>1, BagFacts, WithoutSound
  <2> HIDE DEF rows
  <2>3. /\ BagsLawful' /\ Holds(p)' = ItemsIn(rows)
        /\ \A q \in Player : q # p => Holds(q)' = Holds(q)
    BY <1>1, <1>3, <2>2, PersistedBags DEF rows
  <2>4. cursor'[p] = r.items /\ \A q \in Player : q # p => cursor'[q] = cursor[q]
    BY <1>3 DEF IInv, TypeOK
  <2>5. Single'
    <3>1. ASSUME NEW i \in Item
          PROVE  \/ Places(i)' \subseteq Places(i)
                 \/ \E x : Places(i)' \subseteq {x}
      <4>1. CASE i \in r.items
        <5>1. <<"bag", p>> \in Places(i)
          BY <1>1, <2>1, <4>1, AtPlaces, BagFacts
        <5>2. /\ \A q \in Player : i \in Holds(q) => q = p
              /\ \A q \in Player : i \notin cursor[q]
              /\ \A q \in Player, h \in Hand : worn[q][h] # i
              /\ \A d \in Drop : i \notin ground[d]
              /\ i \notin stock /\ i \notin unborn
          BY <5>1, OnlyThere DEF IInv, Hand
        <5>3. /\ \A q \in Player : i \notin Holds(q)'
              /\ \A q \in Player : i \in cursor'[q] => q = p
          BY <2>2, <2>3, <2>4, <4>1, <5>2
        <5>4. Places(i)' \subseteq {<<"cursor", p>>}
          BY <1>3, <5>2, <5>3, PlacesWithin
        <5>5. QED
          BY <5>4
      <4>2. CASE i \notin r.items
        <5>1. \A q \in Player : i \in Holds(q)' => i \in Holds(q)
          BY <1>1, <2>2, <2>3, BagFacts
        <5>2. QED
          BY <1>3, <2>4, <4>2, <5>1, AtPlaces, PlacesWithin
      <4>3. QED
        BY <4>1, <4>2
    <3>2. QED
      BY <3>1, StaysSingle DEF IInv
  <2>6. TypeOK'
    BY <1>1, <1>3, <2>1, <2>3, SyncTypes DEF IInv, TypeOK, BagsLawful
  <2>7. HandsCompatible' /\ OutOfWorld'
    BY <1>1, <1>3, <2>3, <2>4 DEF IInv, HandsCompatible, OutOfWorld, BagsLawful
  <2>8. QED
    BY <2>3, <2>5, <2>6, <2>7 DEF IInv, BagsLawful
<1>4. QED
  BY <1>2, <1>3 DEF TakeUp

LEMMA PlaceKeeps ==
    ASSUME IInv, NEW p \in Player, NEW c \in Cell, Place(p, c)
    PROVE  IInv'
<1>1. p \in inWorld /\ Syncs(p) /\ inWorld' = inWorld
  BY DEF Place
<1>2. CASE ReconciledOnly(p)
  BY <1>1, <1>2, RefusedKeeps
<1>3. ASSUME cursor[p] # {},
             c \in Placeable(Reconciled(p)),
             Persisted(p, Append(Reconciled(p), [items |-> cursor[p], cell |-> c])),
             cursor' = [cursor EXCEPT ![p] = {}],
             UNCHANGED <<worn, ground, nextDrop, stock, unborn>>
      PROVE  IInv'
  <2> DEFINE r == [items |-> cursor[p], cell |-> c]
             rows == Append(Reconciled(p), r)
  <2>1. cursor[p] \in Stack /\ cursor[p] \subseteq Item
    BY <1>3 DEF IInv, TypeOK, Stack
  <2>2. \A i \in cursor[p] : i \notin Holds(p)
    <3>1. \A i \in cursor[p] : <<"cursor", p>> \in Places(i)
      BY AtPlaces
    <3>2. QED
      BY <2>1, <3>1, OnlyThere DEF IInv
  <2>3. /\ r \in Row /\ r.items = cursor[p]
        /\ r.items \cap ItemsIn(Reconciled(p)) = {}
        /\ r.cell \notin CellsIn(Reconciled(p))
    BY <1>1, <1>3, <2>1, <2>2, BagFacts DEF Row, Placeable, FreeCells
  <2> HIDE DEF r
  <2>4. /\ rows \in Seq(Row) /\ RowsSound(rows)
        /\ ItemsIn(rows) = ItemsIn(Reconciled(p)) \cup cursor[p]
    BY <1>1, <2>3, BagFacts, AppendedSound
  <2> HIDE DEF rows
  <2>5. /\ BagsLawful' /\ Holds(p)' = ItemsIn(rows)
        /\ \A q \in Player : q # p => Holds(q)' = Holds(q)
    BY <1>1, <1>3, <2>4, PersistedBags DEF rows, r
  <2>6. cursor'[p] = {} /\ \A q \in Player : q # p => cursor'[q] = cursor[q]
    BY <1>3 DEF IInv, TypeOK
  <2>7. Single'
    <3>1. ASSUME NEW i \in Item
          PROVE  \/ Places(i)' \subseteq Places(i)
                 \/ \E x : Places(i)' \subseteq {x}
      <4>1. CASE i \in cursor[p]
        <5>1. <<"cursor", p>> \in Places(i)
          BY <4>1, AtPlaces
        <5>2. /\ \A q \in Player : i \notin Holds(q)
              /\ \A q \in Player : i \in cursor[q] => q = p
              /\ \A q \in Player, h \in Hand : worn[q][h] # i
              /\ \A d \in Drop : i \notin ground[d]
              /\ i \notin stock /\ i \notin unborn
          BY <5>1, OnlyThere DEF IInv, Hand
        <5>3. /\ \A q \in Player : i \in Holds(q)' => q = p
              /\ \A q \in Player : i \notin cursor'[q]
          BY <2>5, <2>6, <5>2
        <5>4. Places(i)' \subseteq {<<"bag", p>>}
          BY <1>3, <5>2, <5>3, PlacesWithin
        <5>5. QED
          BY <5>4
      <4>2. CASE i \notin cursor[p]
        <5>1. \A q \in Player : i \in Holds(q)' => i \in Holds(q)
          BY <1>1, <2>4, <2>5, <4>2, BagFacts
        <5>2. QED
          BY <1>3, <2>6, <5>1, AtPlaces, PlacesWithin
      <4>3. QED
        BY <4>1, <4>2
    <3>2. QED
      BY <3>1, StaysSingle DEF IInv
  <2>8. TypeOK'
    BY <1>1, <1>3, <2>5, SyncTypes DEF IInv, TypeOK, BagsLawful
  <2>9. HandsCompatible' /\ OutOfWorld'
    BY <1>1, <1>3, <2>5, <2>6 DEF IInv, HandsCompatible, OutOfWorld, BagsLawful
  <2>10. QED
    BY <2>5, <2>7, <2>8, <2>9 DEF IInv, BagsLawful
<1>4. QED
  BY <1>2, <1>3 DEF Place

LEMMA UsePotionKeeps ==
    ASSUME IInv, NEW p \in Player, UsePotion(p)
    PROVE  IInv'
<1>1. p \in inWorld /\ Syncs(p) /\ inWorld' = inWorld
  BY DEF UsePotion
<1>2. /\ cursor' = cursor /\ worn' = worn /\ ground' = ground
      /\ nextDrop' = nextDrop /\ stock' = stock /\ unborn' = unborn
  BY DEF UsePotion
<1> DEFINE rows == Reconciled(p)
<1>3. PICK k \in DOMAIN rows : /\ rows[k].items \subseteq Potion
          /\ \E i \in rows[k].items :
                Persisted(p, IF rows[k].items = {i} THEN Without(rows, rows[k])
                             ELSE [rows EXCEPT ![k].items = @ \ {i}])
  BY DEF UsePotion
<1>4. PICK i \in rows[k].items :
                Persisted(p, IF rows[k].items = {i} THEN Without(rows, rows[k])
                             ELSE [rows EXCEPT ![k].items = @ \ {i}])
  BY <1>3
<1> DEFINE left == IF rows[k].items = {i} THEN Without(rows, rows[k])
                   ELSE [rows EXCEPT ![k].items = @ \ {i}]
<1>5. rows \in Seq(Row) /\ RowsSound(rows) /\ ItemsIn(rows) \subseteq Holds(p)
  BY <1>1, BagFacts
<1> HIDE DEF rows
<1>6. left \in Seq(Row) /\ RowsSound(left) /\ ItemsIn(left) = ItemsIn(rows) \ {i}
  BY <1>3, <1>5, OneTaken
<1>7. Persisted(p, left)
  BY <1>4
<1> HIDE DEF left
<1>8. /\ BagsLawful' /\ Holds(p)' = ItemsIn(left)
      /\ \A q \in Player : q # p => Holds(q)' = Holds(q)
  BY <1>1, <1>6, <1>7, PersistedBags
<1>9. Single'
  BY <1>2, <1>5, <1>6, <1>8, OnlyLost
<1>10. TypeOK'
  BY <1>1, <1>2, <1>8, SyncTypes DEF IInv, TypeOK, BagsLawful
<1>11. HandsCompatible' /\ OutOfWorld'
  BY <1>1, <1>2, <1>8 DEF IInv, HandsCompatible, OutOfWorld, BagsLawful
<1>12. QED
  BY <1>8, <1>9, <1>10, <1>11 DEF IInv, BagsLawful

LEMMA SellKeeps ==
    ASSUME IInv, NEW p \in Player, Sell(p)
    PROVE  IInv'
<1>1. p \in inWorld /\ Syncs(p) /\ inWorld' = inWorld
  BY DEF Sell
<1>2. /\ worn' = worn /\ ground' = ground
      /\ nextDrop' = nextDrop /\ stock' = stock /\ unborn' = unborn
  BY DEF Sell
<1>3. PICK rows \in Seq(Row) :
         /\ RowsSound(rows) /\ ItemsIn(rows) \subseteq Holds(p)
         /\ Persisted(p, rows)
         /\ cursor' = [cursor EXCEPT ![p] = {}] \/ cursor' = cursor
  <2>1. CASE Persisted(p, Reconciled(p)) /\ cursor' = [cursor EXCEPT ![p] = {}]
    BY <1>1, <2>1, BagFacts
  <2>2. ASSUME NEW r \in Range(Reconciled(p)),
               Persisted(p, Without(Reconciled(p), r)), cursor' = cursor
        PROVE  \E rows \in Seq(Row) :
                  /\ RowsSound(rows) /\ ItemsIn(rows) \subseteq Holds(p)
                  /\ Persisted(p, rows)
                  /\ cursor' = [cursor EXCEPT ![p] = {}] \/ cursor' = cursor
    BY <1>1, <2>2, BagFacts, WithoutSound
  <2>3. QED
    BY <2>1, <2>2 DEF Sell
<1>4. /\ BagsLawful' /\ Holds(p)' = ItemsIn(rows)
      /\ \A q \in Player : q # p => Holds(q)' = Holds(q)
  BY <1>1, <1>3, PersistedBags
<1>5. \A q \in Player : cursor'[q] \in {cursor[q], {}}
  BY <1>3 DEF IInv, TypeOK
<1>6. cursor' \in [Player -> Stack \cup {{}}]
  BY <1>3 DEF IInv, TypeOK
<1>7. Single'
  BY <1>2, <1>3, <1>4, <1>5, OnlyLost
<1>8. TypeOK'
  BY <1>1, <1>2, <1>4, <1>6, SyncTypes DEF IInv, TypeOK, BagsLawful
<1>9. HandsCompatible' /\ OutOfWorld'
  BY <1>1, <1>2, <1>4, <1>5 DEF IInv, HandsCompatible, OutOfWorld, BagsLawful
<1>10. QED
  BY <1>4, <1>7, <1>8, <1>9 DEF IInv, BagsLawful

LEMMA BuyKeeps ==
    ASSUME IInv, NEW p \in Player, Buy(p)
    PROVE  IInv'
<1>1. p \in inWorld /\ Syncs(p) /\ inWorld' = inWorld
  BY DEF Buy
<1>2. CASE ReconciledOnly(p)
  BY <1>1, <1>2, RefusedKeeps
<1>3. ASSUME NEW i \in stock,
             Fits(Reconciled(p), {i}),
             stock' = stock \ {i},
             Persisted(p, Added(Reconciled(p), {i})),
             UNCHANGED <<cursor, worn, ground, nextDrop, unborn>>
      PROVE  IInv'
  <2> DEFINE rows == Added(Reconciled(p), {i})
  <2>1. i \in Item /\ {i} \in Stack
    BY OneStack DEF IInv, TypeOK
  <2>2. <<"stock", 0>> \in Places(i)
    BY AtPlaces
  <2>3. /\ \A q \in Player : i \notin Holds(q)
        /\ \A q \in Player : i \notin cursor[q]
        /\ \A q \in Player, h \in Hand : worn[q][h] # i
        /\ \A d \in Drop : i \notin ground[d]
        /\ i \notin unborn
    BY <2>1, <2>2, OnlyThere DEF IInv, Hand
  <2>4. /\ rows \in Seq(Row) /\ RowsSound(rows)
        /\ ItemsIn(rows) = ItemsIn(Reconciled(p)) \cup {i}
    <3>1. {i} \cap ItemsIn(Reconciled(p)) = {}
      BY <1>1, <2>3, BagFacts
    <3>2. QED
      BY <1>1, <1>3, <2>1, <3>1, BagFacts, AddedSound
  <2> HIDE DEF rows
  <2>5. /\ BagsLawful' /\ Holds(p)' = ItemsIn(rows)
        /\ \A q \in Player : q # p => Holds(q)' = Holds(q)
    BY <1>1, <1>3, <2>4, PersistedBags DEF rows
  <2>6. Single'
    <3>1. ASSUME NEW j \in Item
          PROVE  \/ Places(j)' \subseteq Places(j)
                 \/ \E x : Places(j)' \subseteq {x}
      <4>1. CASE j = i
        <5>1. \A q \in Player : i \in Holds(q)' => q = p
          BY <2>3, <2>5
        <5>2. Places(i)' \subseteq {<<"bag", p>>}
          BY <1>3, <2>3, <5>1, PlacesWithin
        <5>3. QED
          BY <4>1, <5>2
      <4>2. CASE j # i
        <5>1. \A q \in Player : j \in Holds(q)' => j \in Holds(q)
          BY <1>1, <2>4, <2>5, <4>2, BagFacts
        <5>2. QED
          BY <1>3, <5>1, AtPlaces, PlacesWithin
      <4>3. QED
        BY <4>1, <4>2
    <3>2. QED
      BY <3>1, StaysSingle DEF IInv
  <2>7. TypeOK'
    BY <1>1, <1>3, <2>5, SyncTypes DEF IInv, TypeOK, BagsLawful
  <2>8. HandsCompatible' /\ OutOfWorld'
    BY <1>1, <1>3, <2>5 DEF IInv, HandsCompatible, OutOfWorld, BagsLawful
  <2>9. QED
    BY <2>5, <2>6, <2>7, <2>8 DEF IInv, BagsLawful
<1>4. QED
  BY <1>2, <1>3 DEF Buy

LEMMA RestockKeeps ==
    ASSUME IInv, NEW i \in Item, Restock(i)
    PROVE  IInv'
<1>1. /\ i \in unborn /\ stock' = {i} /\ unborn' = (unborn \ {i}) \cup stock
      /\ inWorld' = inWorld /\ bag' = bag /\ saved' = saved
      /\ unsynced' = unsynced /\ cursor' = cursor /\ worn' = worn
      /\ ground' = ground /\ nextDrop' = nextDrop /\ plain' = plain
  BY DEF Restock
<1>2. BagsLawful' /\ \A q \in Player : Holds(q)' = Holds(q)
  BY <1>1, UntouchedBags
<1>3. i \notin stock
  <2>1. <<"unborn", 0>> \in Places(i)
    BY <1>1, AtPlaces
  <2>2. QED
    BY <2>1, OnlyThere DEF IInv
<1>4. Single'
  <2>1. ASSUME NEW j \in Item
        PROVE  \/ Places(j)' \subseteq Places(j)
               \/ \E x : Places(j)' \subseteq {x}
    <3>1. CASE j = i
      <4>1. <<"unborn", 0>> \in Places(i)
        BY <1>1, AtPlaces
      <4>2. /\ \A q \in Player : i \notin Holds(q)
            /\ \A q \in Player : i \notin cursor[q]
            /\ \A q \in Player, h \in Hand : worn[q][h] # i
            /\ \A d \in Drop : i \notin ground[d]
        BY <4>1, OnlyThere DEF IInv, Hand
      <4>3. Places(i)' \subseteq {<<"stock", 0>>}
        BY <1>1, <1>2, <1>3, <4>2, PlacesWithin
      <4>4. QED
        BY <3>1, <4>3
    <3>2. CASE j # i /\ j \in stock
      <4>1. <<"stock", 0>> \in Places(j)
        BY <3>2, AtPlaces
      <4>2. /\ \A q \in Player : j \notin Holds(q)
            /\ \A q \in Player : j \notin cursor[q]
            /\ \A q \in Player, h \in Hand : worn[q][h] # j
            /\ \A d \in Drop : j \notin ground[d]
        BY <4>1, OnlyThere DEF IInv, Hand
      <4>3. Places(j)' \subseteq {<<"unborn", 0>>}
        BY <1>1, <1>2, <3>2, <4>2, PlacesWithin
      <4>4. QED
        BY <4>3
    <3>3. CASE j # i /\ j \notin stock
      BY <1>1, <1>2, <3>3, AtPlaces, PlacesWithin
    <3>4. QED
      BY <3>1, <3>2, <3>3
  <2>2. QED
    BY <2>1, StaysSingle DEF IInv
<1>5. TypeOK'
  BY <1>1, <1>2 DEF IInv, TypeOK, BagsLawful
<1>6. HandsCompatible' /\ OutOfWorld'
  BY <1>1, <1>2 DEF IInv, HandsCompatible, OutOfWorld, BagsLawful
<1>7. QED
  BY <1>2, <1>4, <1>5, <1>6 DEF IInv, BagsLawful

LEMMA TurnInItemKeeps ==
    ASSUME IInv, NEW p \in Player, TurnInItem(p)
    PROVE  IInv'
<1>1. p \in inWorld /\ inWorld' = inWorld /\ SavesUnsynced(p, {})
  BY DEF TurnInItem
<1>2. /\ cursor' = cursor /\ worn' = worn /\ ground' = ground
      /\ nextDrop' = nextDrop /\ stock' = stock /\ unborn' = unborn
  BY DEF TurnInItem
<1> DEFINE rows == bag[p]
<1>3. PICK k \in DOMAIN rows : /\ rows[k].items \subseteq Potion
          /\ \E i \in rows[k].items :
                Persisted(p, IF rows[k].items = {i} THEN Without(rows, rows[k])
                             ELSE [rows EXCEPT ![k].items = @ \ {i}])
  BY DEF TurnInItem
<1>4. PICK i \in rows[k].items :
                Persisted(p, IF rows[k].items = {i} THEN Without(rows, rows[k])
                             ELSE [rows EXCEPT ![k].items = @ \ {i}])
  BY <1>3
<1> DEFINE left == IF rows[k].items = {i} THEN Without(rows, rows[k])
                   ELSE [rows EXCEPT ![k].items = @ \ {i}]
<1>5. rows \in Seq(Row) /\ RowsSound(rows) /\ ItemsIn(rows) \subseteq Holds(p)
  BY <1>1, BagFacts
<1> HIDE DEF rows
<1>6. left \in Seq(Row) /\ RowsSound(left) /\ ItemsIn(left) = ItemsIn(rows) \ {i}
  BY <1>3, <1>5, OneTaken
<1>7. Persisted(p, left)
  BY <1>4
<1> HIDE DEF left
<1>8. /\ BagsLawful' /\ Holds(p)' = ItemsIn(left)
      /\ \A q \in Player : q # p => Holds(q)' = Holds(q)
  BY <1>1, <1>6, <1>7, PersistedBags
<1>9. Single'
  BY <1>2, <1>5, <1>6, <1>8, OnlyLost
<1>10. TypeOK'
  BY <1>1, <1>2, <1>8, SaveTypes DEF IInv, TypeOK, BagsLawful
<1>11. HandsCompatible' /\ OutOfWorld'
  BY <1>1, <1>2, <1>8 DEF IInv, HandsCompatible, OutOfWorld, BagsLawful
<1>12. QED
  BY <1>8, <1>9, <1>10, <1>11 DEF IInv, BagsLawful

LEMMA NextDropType == \A n \in Drop : (n + 1) % NDrops \in Drop
BY BoundAssumption DEF Drop

LEMMA RewardKeeps ==
    ASSUME IInv, NEW p \in Player, NEW i \in Item, Reward(p, i)
    PROVE  IInv'
<1>1. /\ p \in inWorld /\ inWorld' = inWorld /\ i \in unborn
      /\ unborn' = unborn \ {i} /\ cursor' = cursor /\ worn' = worn
      /\ stock' = stock
  BY DEF Reward
<1>2. {i} \in Stack
  BY OneStack
<1>3. <<"unborn", 0>> \in Places(i)
  BY <1>1, AtPlaces
<1>4. /\ \A q \in Player : i \notin Holds(q)
      /\ \A q \in Player : i \notin cursor[q]
      /\ \A q \in Player, h \in Hand : worn[q][h] # i
      /\ \A d \in Drop : i \notin ground[d]
      /\ i \notin stock
  BY <1>3, OnlyThere DEF IInv, Hand
<1>5. ASSUME Fits(bag[p], {i}), Persisted(p, Added(bag[p], {i})),
             SavesUnsynced(p, {i}), ground' = ground, nextDrop' = nextDrop
      PROVE  IInv'
  <2> DEFINE rows == Added(bag[p], {i})
  <2>1. {i} \cap ItemsIn(bag[p]) = {}
    BY <1>1, <1>4, BagFacts
  <2>2. rows \in Seq(Row) /\ RowsSound(rows) /\ ItemsIn(rows) = ItemsIn(bag[p]) \cup {i}
    BY <1>1, <1>2, <1>5, <2>1, BagFacts, AddedSound
  <2> HIDE DEF rows
  <2>3. /\ BagsLawful' /\ Holds(p)' = ItemsIn(rows)
        /\ \A q \in Player : q # p => Holds(q)' = Holds(q)
    BY <1>1, <1>5, <2>2, PersistedBags DEF rows
  <2>4. Single'
    <3>1. ASSUME NEW j \in Item
          PROVE  \/ Places(j)' \subseteq Places(j)
                 \/ \E x : Places(j)' \subseteq {x}
      <4>1. CASE j = i
        <5>1. \A q \in Player : i \in Holds(q)' => q = p
          BY <1>4, <2>3
        <5>2. Places(i)' \subseteq {<<"bag", p>>}
          BY <1>1, <1>4, <1>5, <5>1, PlacesWithin
        <5>3. QED
          BY <4>1, <5>2
      <4>2. CASE j # i
        <5>1. \A q \in Player : j \in Holds(q)' => j \in Holds(q)
          BY <1>1, <2>2, <2>3, <4>2, BagFacts
        <5>2. QED
          BY <1>1, <1>5, <5>1, AtPlaces, PlacesWithin
      <4>3. QED
        BY <4>1, <4>2
    <3>2. QED
      BY <3>1, StaysSingle DEF IInv
  <2>5. TypeOK'
    BY <1>1, <1>5, <2>3, SaveTypes DEF IInv, TypeOK, BagsLawful
  <2>6. HandsCompatible' /\ OutOfWorld'
    BY <1>1, <2>3 DEF IInv, HandsCompatible, OutOfWorld, BagsLawful
  <2>7. QED
    BY <2>3, <2>4, <2>5, <2>6 DEF IInv, BagsLawful
<1>6. ASSUME ground' = [ground EXCEPT ![nextDrop] = {i}],
             nextDrop' = (nextDrop + 1) % NDrops,
             UNCHANGED <<bag, saved, unsynced, plain>>
      PROVE  IInv'
  <2>1. BagsLawful' /\ \A q \in Player : Holds(q)' = Holds(q)
    BY <1>1, <1>6, UntouchedBags
  <2>2. \A d \in Drop : ground'[d] = IF d = nextDrop THEN {i} ELSE ground[d]
    BY <1>6 DEF IInv, TypeOK
  <2>3. Single'
    <3>1. ASSUME NEW j \in Item
          PROVE  \/ Places(j)' \subseteq Places(j)
                 \/ \E x : Places(j)' \subseteq {x}
      <4>1. CASE j = i
        <5>1. \A d \in Drop : i \in ground'[d] => d = nextDrop
          BY <1>4, <2>2
        <5>2. QED
          BY <1>1, <1>4, <2>1, <4>1, <5>1, OnGround
      <4>2. CASE j # i
        BY <1>1, <2>1, <2>2, <4>2, AtPlaces, PlacesWithin
      <4>3. QED
        BY <4>1, <4>2
    <3>2. QED
      BY <3>1, StaysSingle DEF IInv
  <2>4. TypeOK'
    BY <1>1, <1>2, <1>6, <2>1, NextDropType DEF IInv, TypeOK, BagsLawful
  <2>5. HandsCompatible' /\ OutOfWorld'
    BY <1>1, <2>1 DEF IInv, HandsCompatible, OutOfWorld, BagsLawful
  <2>6. QED
    BY <2>1, <2>3, <2>4, <2>5 DEF IInv, BagsLawful
<1>7. QED
  BY <1>5, <1>6 DEF Reward

LEMMA LootDropKeeps ==
    ASSUME IInv, NEW i \in Item, LootDrop(i)
    PROVE  IInv'
<1>1. /\ i \in unborn /\ unborn' = unborn \ {i}
      /\ ground' = [ground EXCEPT ![nextDrop] = {i}]
      /\ nextDrop' = (nextDrop + 1) % NDrops
      /\ inWorld' = inWorld /\ bag' = bag /\ saved' = saved /\ stock' = stock
      /\ unsynced' = unsynced /\ cursor' = cursor /\ worn' = worn /\ plain' = plain
  BY DEF LootDrop
<1>2. {i} \in Stack
  BY OneStack
<1>3. <<"unborn", 0>> \in Places(i)
  BY <1>1, AtPlaces
<1>4. /\ \A q \in Player : i \notin Holds(q)
      /\ \A q \in Player : i \notin cursor[q]
      /\ \A q \in Player, h \in Hand : worn[q][h] # i
      /\ \A d \in Drop : i \notin ground[d]
      /\ i \notin stock
  BY <1>3, OnlyThere DEF IInv, Hand
<1>5. BagsLawful' /\ \A q \in Player : Holds(q)' = Holds(q)
  BY <1>1, UntouchedBags
<1>6. \A d \in Drop : ground'[d] = IF d = nextDrop THEN {i} ELSE ground[d]
  BY <1>1 DEF IInv, TypeOK
<1>7. Single'
  <2>1. ASSUME NEW j \in Item
        PROVE  \/ Places(j)' \subseteq Places(j)
               \/ \E x : Places(j)' \subseteq {x}
    <3>1. CASE j = i
      <4>1. \A d \in Drop : i \in ground'[d] => d = nextDrop
        BY <1>4, <1>6
      <4>2. /\ \A q \in Player : i \notin Holds(q)' /\ i \notin cursor'[q]
            /\ \A h \in Hand, q \in Player : worn'[q][h] # i
            /\ i \notin stock' /\ i \notin unborn'
        BY <1>1, <1>4, <1>5
      <4>3. \E x : Places(i)' \subseteq {x}
        BY <4>1, <4>2, OnGround
      <4>4. QED
        BY <3>1, <4>3
    <3>2. CASE j # i
      BY <1>1, <1>5, <1>6, <3>2, AtPlaces, PlacesWithin
    <3>3. QED
      BY <3>1, <3>2
  <2>2. QED
    BY <2>1, StaysSingle DEF IInv
<1>8. TypeOK'
  BY <1>1, <1>2, <1>5, NextDropType DEF IInv, TypeOK, BagsLawful
<1>9. HandsCompatible' /\ OutOfWorld'
  BY <1>1, <1>5 DEF IInv, HandsCompatible, OutOfWorld, BagsLawful
<1>10. QED
  BY <1>5, <1>7, <1>8, <1>9 DEF IInv, BagsLawful

LEMMA DropHeldKeeps ==
    ASSUME IInv, NEW p \in Player, DropHeld(p)
    PROVE  IInv'
<1>1. /\ p \in inWorld /\ cursor[p] # {}
      /\ ground' = [ground EXCEPT ![nextDrop] = cursor[p]]
      /\ nextDrop' = (nextDrop + 1) % NDrops
      /\ cursor' = [cursor EXCEPT ![p] = {}]
      /\ plain' = plain \cup (cursor[p] \cap Gear)
      /\ inWorld' = inWorld /\ bag' = bag /\ saved' = saved /\ stock' = stock
      /\ unsynced' = unsynced /\ unborn' = unborn /\ worn' = worn
  BY DEF DropHeld
<1>2. BagsLawful' /\ \A q \in Player : Holds(q)' = Holds(q)
  BY <1>1, UntouchedBags
<1>3. /\ \A d \in Drop : ground'[d] = IF d = nextDrop THEN cursor[p] ELSE ground[d]
      /\ \A q \in Player : cursor'[q] = IF q = p THEN {} ELSE cursor[q]
  BY <1>1 DEF IInv, TypeOK
<1>4. Single'
  <2>1. ASSUME NEW i \in Item
        PROVE  \/ Places(i)' \subseteq Places(i)
               \/ \E x : Places(i)' \subseteq {x}
    <3>1. CASE i \in cursor[p]
      <4>1. <<"cursor", p>> \in Places(i)
        BY <3>1, AtPlaces
      <4>2. /\ \A q \in Player : i \notin Holds(q)
            /\ \A q \in Player : i \in cursor[q] => q = p
            /\ \A q \in Player, h \in Hand : worn[q][h] # i
            /\ \A d \in Drop : i \notin ground[d]
            /\ i \notin stock /\ i \notin unborn
        BY <4>1, OnlyThere DEF IInv, Hand
      <4>3. /\ \A d \in Drop : i \in ground'[d] => d = nextDrop
            /\ \A q \in Player : i \notin cursor'[q]
        BY <1>3, <4>2
      <4>4. /\ \A q \in Player : i \notin Holds(q)' /\ i \notin cursor'[q]
            /\ \A h \in Hand, q \in Player : worn'[q][h] # i
            /\ i \notin stock' /\ i \notin unborn'
        BY <1>1, <1>2, <4>2, <4>3
      <4>5. QED
        BY <4>3, <4>4, OnGround
    <3>2. CASE i \notin cursor[p]
      BY <1>1, <1>2, <1>3, <3>2, AtPlaces, PlacesWithin
    <3>3. QED
      BY <3>1, <3>2
  <2>2. QED
    BY <2>1, StaysSingle DEF IInv
<1>5. TypeOK'
  BY <1>1, <1>2, NextDropType DEF IInv, TypeOK, BagsLawful
<1>6. HandsCompatible' /\ OutOfWorld'
  BY <1>1, <1>2, <1>3 DEF IInv, HandsCompatible, OutOfWorld, BagsLawful
<1>7. QED
  BY <1>2, <1>4, <1>5, <1>6 DEF IInv, BagsLawful

LEMMA GnomeEatsKeeps ==
    ASSUME IInv, NEW d \in Drop, GnomeEats(d)
    PROVE  IInv'
<1>1. /\ ground' = [ground EXCEPT ![d] = {}] /\ nextDrop' = nextDrop
      /\ inWorld' = inWorld /\ bag' = bag /\ saved' = saved /\ stock' = stock
      /\ unsynced' = unsynced /\ unborn' = unborn /\ worn' = worn
      /\ cursor' = cursor /\ plain' = plain
  BY DEF GnomeEats, Claim
<1>2. BagsLawful' /\ \A q \in Player : Holds(q)' = Holds(q)
  BY <1>1, UntouchedBags
<1>3. \A e \in Drop : ground'[e] \subseteq ground[e]
  BY <1>1 DEF IInv, TypeOK
<1>4. Single'
  BY <1>1, <1>2, <1>3, OnlyLost
<1>5. TypeOK'
  BY <1>1, <1>2 DEF IInv, TypeOK, BagsLawful
<1>6. HandsCompatible' /\ OutOfWorld'
  BY <1>1, <1>2 DEF IInv, HandsCompatible, OutOfWorld, BagsLawful
<1>7. QED
  BY <1>2, <1>4, <1>5, <1>6 DEF IInv, BagsLawful

LEMMA PickUpDropKeeps ==
    ASSUME IInv, NEW p \in Player, NEW d \in Drop, PickUpDrop(p, d)
    PROVE  IInv'
<1>1. p \in inWorld /\ Syncs(p) /\ inWorld' = inWorld /\ ground[d] # {}
  BY DEF PickUpDrop
<1>2. CASE ReconciledOnly(p)
  BY <1>1, <1>2, RefusedKeeps
<1>3. ASSUME Fits(Reconciled(p), ground[d]),
             ground' = [ground EXCEPT ![d] = {}],
             Persisted(p, Added(Reconciled(p), ground[d])),
             UNCHANGED <<cursor, worn, nextDrop, stock, unborn>>
      PROVE  IInv'
  <2> DEFINE rows == Added(Reconciled(p), ground[d])
  <2>1. ground[d] \in Stack /\ ground[d] \subseteq Item
    BY <1>1 DEF IInv, TypeOK, Stack
  <2>2. \A i \in ground[d] : i \notin Holds(p)
    <3>1. \A i \in ground[d] : <<"ground", d>> \in Places(i)
      BY AtPlaces
    <3>2. QED
      BY <2>1, <3>1, OnlyThere DEF IInv
  <2>3. /\ rows \in Seq(Row) /\ RowsSound(rows)
        /\ ItemsIn(rows) = ItemsIn(Reconciled(p)) \cup ground[d]
    <3>1. ground[d] \cap ItemsIn(Reconciled(p)) = {}
      BY <1>1, <2>2, BagFacts
    <3>2. QED
      BY <1>1, <1>3, <2>1, <3>1, BagFacts, AddedSound
  <2> HIDE DEF rows
  <2>4. /\ BagsLawful' /\ Holds(p)' = ItemsIn(rows)
        /\ \A q \in Player : q # p => Holds(q)' = Holds(q)
    BY <1>1, <1>3, <2>3, PersistedBags DEF rows
  <2>5. \A e \in Drop : ground'[e] = IF e = d THEN {} ELSE ground[e]
    BY <1>3 DEF IInv, TypeOK
  <2>6. Single'
    <3>1. ASSUME NEW i \in Item
          PROVE  \/ Places(i)' \subseteq Places(i)
                 \/ \E x : Places(i)' \subseteq {x}
      <4>1. CASE i \in ground[d]
        <5>1. <<"ground", d>> \in Places(i)
          BY <4>1, AtPlaces
        <5>2. /\ \A q \in Player : i \notin Holds(q)
              /\ \A q \in Player : i \notin cursor[q]
              /\ \A q \in Player, h \in Hand : worn[q][h] # i
              /\ \A e \in Drop : i \in ground[e] => e = d
              /\ i \notin stock /\ i \notin unborn
          BY <5>1, OnlyThere DEF IInv, Hand
        <5>3. /\ \A q \in Player : i \in Holds(q)' => q = p
              /\ \A e \in Drop : i \notin ground'[e]
          BY <2>4, <2>5, <5>2
        <5>4. Places(i)' \subseteq {<<"bag", p>>}
          BY <1>3, <5>2, <5>3, PlacesWithin
        <5>5. QED
          BY <5>4
      <4>2. CASE i \notin ground[d]
        <5>1. \A q \in Player : i \in Holds(q)' => i \in Holds(q)
          BY <1>1, <2>3, <2>4, <4>2, BagFacts
        <5>2. QED
          BY <1>3, <2>5, <5>1, AtPlaces, PlacesWithin
      <4>3. QED
        BY <4>1, <4>2
    <3>2. QED
      BY <3>1, StaysSingle DEF IInv
  <2>7. TypeOK'
    BY <1>1, <1>3, <2>4, SyncTypes DEF IInv, TypeOK, BagsLawful
  <2>8. HandsCompatible' /\ OutOfWorld'
    BY <1>1, <1>3, <2>4 DEF IInv, HandsCompatible, OutOfWorld, BagsLawful
  <2>9. QED
    BY <2>4, <2>6, <2>7, <2>8 DEF IInv, BagsLawful
<1>4. QED
  BY <1>2, <1>3 DEF PickUpDrop, Claim

LEMMA EquipKeeps ==
    ASSUME IInv, NEW p \in Player, NEW h \in Hand, Equip(p, h)
    PROVE  IInv'
<1>1. /\ p \in inWorld /\ inWorld' = inWorld /\ bag' = bag /\ saved' = saved
      /\ unsynced' = unsynced /\ ground' = ground /\ nextDrop' = nextDrop
      /\ stock' = stock /\ plain' = plain /\ unborn' = unborn
  BY DEF Equip
<1>2. PICK i \in Gear : /\ cursor[p] = {i}
                        /\ h \in Hands(i)
                        /\ ~Blocked(p, i, h)
                        /\ worn' = [worn EXCEPT ![p][h] = i]
                        /\ cursor' = [cursor EXCEPT ![p] = SwappedOut(p, i, h)]
  BY DEF Equip
<1>3. /\ worn' \in [Player -> [Hand -> Gear \cup {NoItem}]]
      /\ worn'[p][h] = i
      /\ \A q \in Player, g \in Hand : q # p \/ g # h => worn'[q][g] = worn[q][g]
  BY <1>2 DEF IInv, TypeOK
<1> DEFINE o == worn[p][h]
<1>4. o \in Gear \cup {NoItem} /\ SwappedOut(p, i, h) = {o} \ {NoItem}
  BY DEF IInv, TypeOK, SwappedOut
<1>5. i \in Item /\ NoItem \notin Item /\ \A j \in Gear : j \in Item
  BY ItemAssumption DEF Item
<1>6. /\ cursor'[p] = {o} \ {NoItem}
      /\ \A q \in Player : q # p => cursor'[q] = cursor[q]
  BY <1>2, <1>4 DEF IInv, TypeOK
<1>7. <<"cursor", p>> \in Places(i)
  BY <1>2, AtPlaces
<1>8. /\ \A q \in Player : i \notin Holds(q)
      /\ \A q \in Player : i \in cursor[q] => q = p
      /\ \A q \in Player, g \in Hand : worn[q][g] # i
      /\ \A d \in Drop : i \notin ground[d]
      /\ i \notin stock /\ i \notin unborn
  BY <1>5, <1>7, OnlyThere DEF IInv, Hand
<1>9. <<h, p>> \in Places(o)
  BY AtPlaces
<1>10. ASSUME o # NoItem
       PROVE  /\ \A q \in Player : o \notin Holds(q)
              /\ \A q \in Player : o \notin cursor[q]
              /\ \A q \in Player, g \in Hand : worn[q][g] = o => q = p /\ g = h
              /\ \A d \in Drop : o \notin ground[d]
              /\ o \notin stock /\ o \notin unborn
  <2>1. o \in Item
    BY <1>4, <1>5, <1>10
  <2> HIDE DEF o
  <2>2. QED
    BY <1>9, <2>1, OnlyThere DEF IInv, Hand
<1>11. o # i
  BY <1>8
<1> HIDE DEF o
<1>12. BagsLawful' /\ \A q \in Player : Holds(q)' = Holds(q)
  BY <1>1, UntouchedBags
<1>13. Single'
  <2>1. ASSUME NEW j \in Item
        PROVE  \/ Places(j)' \subseteq Places(j)
               \/ \E x : Places(j)' \subseteq {x}
    <3>1. CASE j = i
      <4>1. /\ \A q \in Player : i \notin cursor'[q]
            /\ \A q \in Player, g \in Hand : worn'[q][g] = i => q = p /\ g = h
        BY <1>3, <1>6, <1>8, <1>11
      <4>2. /\ \A q \in Player : j \notin Holds(q)' /\ j \notin cursor'[q]
            /\ \A g \in Hand, q \in Player : worn'[q][g] = j => q = p /\ g = h
            /\ \A d \in Drop : j \notin ground'[d]
            /\ j \notin stock' /\ j \notin unborn'
        BY <1>1, <1>8, <1>12, <3>1, <4>1
      <4> DEFINE S == {<<h, p>>}
      <4>3. \A g \in Hand, q \in Player : worn'[q][g] = j => <<g, q>> \in S
        BY <4>2
      <4> HIDE DEF S
      <4>4. Places(j)' \subseteq S
        BY <4>2, <4>3, PlacesWithin
      <4>5. QED
        BY <4>4 DEF S
    <3>2. CASE j = o
      <4>1. o # NoItem
        BY <1>5, <3>2
      <4>2. /\ \A q \in Player : o \in cursor'[q] => q = p
            /\ \A q \in Player, g \in Hand : worn'[q][g] # o
        BY <1>3, <1>6, <1>10, <1>11, <4>1
      <4>3. /\ \A q \in Player : j \notin Holds(q)' /\ (j \in cursor'[q] => q = p)
            /\ \A g \in Hand, q \in Player : worn'[q][g] # j
            /\ \A d \in Drop : j \notin ground'[d]
            /\ j \notin stock' /\ j \notin unborn'
        BY <1>1, <1>10, <1>12, <3>2, <4>1, <4>2
      <4>4. QED
        BY <4>3, OnCursor
    <3>3. CASE j # i /\ j # o
      <4>1. /\ \A q \in Player : j \in cursor'[q] => j \in cursor[q]
            /\ \A q \in Player, g \in Hand : worn'[q][g] = j => worn[q][g] = j
        BY <1>3, <1>6, <3>3
      <4>2. QED
        BY <1>1, <1>12, <4>1, AtPlaces, PlacesWithin
    <3>4. QED
      BY <3>1, <3>2, <3>3
  <2>2. QED
    BY <2>1, StaysSingle DEF IInv
<1>14. cursor' \in [Player -> Stack \cup {{}}]
  <2>1. {o} \ {NoItem} \in Stack \cup {{}}
    <3>1. CASE o = NoItem
      BY <3>1
    <3>2. CASE o # NoItem
      <4>1. {o} \in Stack /\ {o} \ {NoItem} = {o}
        BY <1>4, <1>5, <3>2, OneStack
      <4>2. QED
        BY <4>1
    <3>3. QED
      BY <3>1, <3>2
  <2>2. QED
    BY <1>2, <1>4, <2>1 DEF IInv, TypeOK
<1>15. TypeOK'
  BY <1>1, <1>3, <1>12, <1>14 DEF IInv, TypeOK, BagsLawful
<1>16. HandsCompatible'
  <2>1. ASSUME NEW q \in Player, worn'[q]["weapon"] \in TwoHanded
        PROVE  worn'[q]["shield"] = NoItem
    <3>1. "weapon" \in Hand /\ "shield" \in Hand
      BY DEF Hand
    <3>2. CASE q = p /\ h = "weapon"
      BY <1>2, <1>3, <2>1, <3>1, <3>2 DEF Blocked
    <3>3. CASE q = p /\ h = "shield"
      BY <1>2, <1>3, <2>1, <3>1, <3>3 DEF Blocked
    <3>4. CASE q # p
      BY <1>3, <2>1, <3>1, <3>4 DEF IInv, HandsCompatible
    <3>5. QED
      BY <3>2, <3>3, <3>4 DEF Hand
  <2>2. QED
    BY <2>1 DEF HandsCompatible
<1>17. OutOfWorld'
  BY <1>1, <1>6, <1>12 DEF IInv, OutOfWorld, BagsLawful
<1>18. QED
  BY <1>12, <1>13, <1>15, <1>16, <1>17 DEF IInv, BagsLawful

LEMMA UnequipKeeps ==
    ASSUME IInv, NEW p \in Player, NEW h \in Hand, Unequip(p, h)
    PROVE  IInv'
<1>1. /\ p \in inWorld /\ inWorld' = inWorld /\ bag' = bag /\ saved' = saved
      /\ unsynced' = unsynced /\ ground' = ground /\ nextDrop' = nextDrop
      /\ stock' = stock /\ plain' = plain /\ unborn' = unborn
  BY DEF Unequip
<1>2. /\ worn' = [worn EXCEPT ![p][h] = NoItem]
      /\ cursor' = [cursor EXCEPT ![p] = {worn[p][h]}]
      /\ worn[p][h] # NoItem
  BY DEF Unequip
<1>3. /\ worn' \in [Player -> [Hand -> Gear \cup {NoItem}]]
      /\ worn'[p][h] = NoItem
      /\ \A q \in Player, g \in Hand : q # p \/ g # h => worn'[q][g] = worn[q][g]
  BY <1>2 DEF IInv, TypeOK
<1> DEFINE o == worn[p][h]
<1>4. o \in Gear /\ o \in Item /\ NoItem \notin Item /\ NoItem \notin TwoHanded
  BY <1>2, ItemAssumption DEF IInv, TypeOK, Item
<1>5. /\ cursor'[p] = {o}
      /\ \A q \in Player : q # p => cursor'[q] = cursor[q]
  BY <1>2 DEF IInv, TypeOK
<1>6. <<h, p>> \in Places(o)
  BY AtPlaces
<1> HIDE DEF o
<1>7. /\ \A q \in Player : o \notin Holds(q)
      /\ \A q \in Player : o \notin cursor[q]
      /\ \A q \in Player, g \in Hand : worn[q][g] = o => q = p /\ g = h
      /\ \A d \in Drop : o \notin ground[d]
      /\ o \notin stock /\ o \notin unborn
  BY <1>4, <1>6, OnlyThere DEF IInv, Hand
<1>8. BagsLawful' /\ \A q \in Player : Holds(q)' = Holds(q)
  BY <1>1, UntouchedBags
<1>9. Single'
  <2>1. ASSUME NEW j \in Item
        PROVE  \/ Places(j)' \subseteq Places(j)
               \/ \E x : Places(j)' \subseteq {x}
    <3>1. CASE j = o
      <4>1. /\ \A q \in Player : o \in cursor'[q] => q = p
            /\ \A q \in Player, g \in Hand : worn'[q][g] # o
        BY <1>3, <1>4, <1>5, <1>7
      <4>2. /\ \A q \in Player : j \notin Holds(q)' /\ (j \in cursor'[q] => q = p)
            /\ \A g \in Hand, q \in Player : worn'[q][g] # j
            /\ \A d \in Drop : j \notin ground'[d]
            /\ j \notin stock' /\ j \notin unborn'
        BY <1>1, <1>7, <1>8, <3>1, <4>1
      <4>3. QED
        BY <4>2, OnCursor
    <3>2. CASE j # o
      <4>1. /\ \A q \in Player : j \in cursor'[q] => j \in cursor[q]
            /\ \A q \in Player, g \in Hand : worn'[q][g] = j => worn[q][g] = j
        BY <1>3, <1>4, <1>5, <3>2
      <4>2. QED
        BY <1>1, <1>8, <4>1, AtPlaces, PlacesWithin
    <3>3. QED
      BY <3>1, <3>2
  <2>2. QED
    BY <2>1, StaysSingle DEF IInv
<1>10. cursor' \in [Player -> Stack \cup {{}}]
  <2>1. {o} \in Stack
    BY <1>4, OneStack
  <2>2. QED
    BY <1>2, <2>1 DEF IInv, TypeOK, o
<1>11. TypeOK'
  BY <1>1, <1>3, <1>8, <1>10 DEF IInv, TypeOK, BagsLawful
<1>12. HandsCompatible'
  <2>1. ASSUME NEW q \in Player, worn'[q]["weapon"] \in TwoHanded
        PROVE  worn'[q]["shield"] = NoItem
    <3>1. "weapon" \in Hand /\ "shield" \in Hand
      BY DEF Hand
    <3>2. CASE q = p /\ h = "weapon"
      BY <1>3, <1>4, <2>1, <3>2
    <3>3. CASE q = p /\ h = "shield"
      BY <1>3, <3>3
    <3>4. CASE q # p
      BY <1>3, <2>1, <3>1, <3>4 DEF IInv, HandsCompatible
    <3>5. QED
      BY <3>2, <3>3, <3>4 DEF Hand
  <2>2. QED
    BY <2>1 DEF HandsCompatible
<1>13. OutOfWorld'
  BY <1>1, <1>5, <1>8 DEF IInv, OutOfWorld, BagsLawful
<1>14. QED
  BY <1>8, <1>9, <1>11, <1>12, <1>13 DEF IInv, BagsLawful

LEMMA StepIInv == IInv /\ [Next]_vars => IInv'
<1> SUFFICES ASSUME IInv, [Next]_vars PROVE IInv'
  OBVIOUS
<1>1. CASE Next
  <2>1. CASE \E p \in Player : EnterZone(p) \/ Disconnect(p)
    BY <2>1, EnterZoneKeeps, DisconnectKeeps
  <2>2. CASE Crash
    BY <2>2, CrashKeeps
  <2>3. CASE \E p \in Player : TakeUp(p) \/ UsePotion(p) \/ Sell(p) \/ Buy(p)
    BY <2>3, TakeUpKeeps, UsePotionKeeps, SellKeeps, BuyKeeps
  <2>4. CASE \E p \in Player : TurnInItem(p) \/ DropHeld(p)
    BY <2>4, TurnInItemKeeps, DropHeldKeeps
  <2>5. CASE \E p \in Player, c \in Cell : Place(p, c)
    BY <2>5, PlaceKeeps
  <2>6. CASE \E p \in Player, i \in Item : Reward(p, i)
    BY <2>6, RewardKeeps
  <2>7. CASE \E p \in Player, h \in Hand : Equip(p, h) \/ Unequip(p, h)
    BY <2>7, EquipKeeps, UnequipKeeps
  <2>8. CASE \E p \in Player, d \in Drop : PickUpDrop(p, d)
    BY <2>8, PickUpDropKeeps
  <2>9. CASE \E d \in Drop : GnomeEats(d)
    BY <2>9, GnomeEatsKeeps
  <2>10. CASE \E i \in Item : Restock(i) \/ LootDrop(i)
    BY <2>10, RestockKeeps, LootDropKeeps
  <2>11. QED
    BY <1>1, <2>1, <2>2, <2>3, <2>4, <2>5, <2>6, <2>7, <2>8, <2>9, <2>10 DEF Next
<1>2. CASE UNCHANGED vars
  <2>1. TypeOK'
    BY <1>2 DEF vars, IInv, TypeOK
  <2>2. BagsSound' /\ BagIsSaved' /\ HandsCompatible' /\ OutOfWorld'
    BY <1>2 DEF vars, IInv, BagsSound, BagIsSaved, HandsCompatible, OutOfWorld
  <2>3. \A i : Places(i)' = Places(i)
    BY <1>2 DEF vars, Places
  <2>4. Single'
    BY <2>3, StaysSingle DEF IInv
  <2>5. QED
    BY <2>1, <2>2, <2>4 DEF IInv
<1>3. QED
  BY <1>1, <1>2

(* The inductive invariant holds for any players, items and bounds.        *)
THEOREM InvariantHolds == Spec => []IInv
BY InitIInv, StepIInv, PTL DEF Spec

LEMMA SingleMeans ==
    ASSUME IInv
    PROVE  NothingDuplicated
<1>1. ASSUME NEW i \in Item
      PROVE  Cardinality(Places(i)) <= 1
  <2>1. CASE Places(i) = {}
    BY <2>1, FS_EmptySet
  <2>2. ASSUME NEW x \in Places(i)
        PROVE  Cardinality(Places(i)) <= 1
    <3>1. Places(i) = {x}
      BY <2>2 DEF IInv, Single
    <3>2. Cardinality({x}) = 1
      BY FS_Singleton
    <3>3. QED
      BY <3>1, <3>2
  <2>3. QED
    BY <2>1, <2>2
<1>2. ASSUME NEW p \in Player, NEW rows \in {bag[p], saved[p]},
             NEW j \in DOMAIN rows, NEW k \in DOMAIN rows,
             rows[j].items \cap rows[k].items # {}
      PROVE  j = k
  <2>1. RowsSound(rows)
    BY DEF IInv, BagsSound
  <2>2. QED
    BY <1>2, <2>1 DEF RowsSound
<1>3. QED
  BY <1>1, <1>2 DEF NothingDuplicated

LEMMA SoundMeans ==
    ASSUME IInv
    PROVE  PlacesLawful
<1>1. ASSUME NEW p \in Player, NEW rows \in {bag[p], saved[p]}
      PROVE  RowsSound(rows)
  BY DEF IInv, BagsSound
<1>2. CellsApart
  BY <1>1 DEF CellsApart, RowsSound
<1>3. QED
  BY <1>2 DEF IInv, PlacesLawful

-----------------------------------------------------------------------------
(* What a player has, it keeps *)

Wears(p) == {worn[p][h] : h \in Hand} \ {NoItem}

(* What KeepsItems says of one player and one step.                        *)
KeepsFor(p) ==
    LET lost == Owned(p) \ Owned(p)' IN
    \/ Len(saved[p]) > LoadLimit
    \/ lost = {}
    \/ /\ lost = cursor[p]
       /\ \/ EnterZone(p) \/ Disconnect(p) \/ Crash \/ DropHeld(p) \/ Sell(p)
          \/ \E h \in Hand : Unequip(p, h)
    \/ /\ UsePotion(p) \/ Sell(p) \/ TurnInItem(p)
       /\ \E r \in Range(saved[p]) : lost \subseteq r.items

LEMMA OwnedParts ==
    \A p : /\ Owned(p) = Holds(p) \cup cursor[p] \cup Wears(p)
           /\ Owned(p)' = Holds(p)' \cup cursor'[p] \cup Wears(p)'
BY DEF Owned, Holds, Wears

LEMMA SameWear ==
    ASSUME NEW p, worn'[p] = worn[p]
    PROVE  Wears(p)' = Wears(p)
BY DEF Wears

(* A step that leaves a player alone, or only gives it something.          *)
LEMMA GainsKeep ==
    ASSUME NEW p, Holds(p) \subseteq Holds(p)', cursor[p] \subseteq cursor'[p],
           worn'[p] = worn[p]
    PROVE  KeepsFor(p)
BY OwnedParts, SameWear DEF KeepsFor

(* What is on the cursor is neither in a bag nor worn.                     *)
LEMMA CursorApart ==
    ASSUME IInv, NEW p \in Player
    PROVE  cursor[p] \cap (Holds(p) \cup Wears(p)) = {}
<1>1. ASSUME NEW i \in cursor[p]
      PROVE  i \notin Holds(p) /\ \A h \in Hand : worn[p][h] # i
  <2>1. <<"cursor", p>> \in Places(i)
    BY AtPlaces
  <2>2. i \in Item
    BY HeldTypes DEF IInv
  <2>3. QED
    BY <2>1, <2>2, OnlyThere DEF IInv, Hand
<1>2. QED
  BY <1>1 DEF Wears

(* A bag that a spawn loads whole is in the session as it is in the row.   *)
LEMMA WholeBag ==
    ASSUME IInv, NEW p \in Player, Len(saved[p]) <= LoadLimit
    PROVE  /\ Holds(p) = ItemsIn(saved[p])
           /\ p \in inWorld => bag[p] = saved[p] /\ Reconciled(p) = saved[p]
<1>1. saved[p] \in Seq(Row)
  BY BagTypes DEF IInv
<1>2. CASE p \in inWorld
  <2>1. bag[p] = saved[p]
    BY <1>2 DEF IInv, BagIsSaved
  <2>2. QED
    BY <1>1, <2>1, ReconciledSame DEF Holds
<1>3. CASE p \notin inWorld
  <2>1. bag[p] = <<>>
    BY <1>3 DEF IInv, OutOfWorld
  <2>2. QED
    BY <1>3, <2>1, NoRows DEF Holds
<1>4. QED
  BY <1>2, <1>3

(* The bags stay and the cursor is emptied: what was on it is lost.        *)
LEMMA EmptiedCursor ==
    ASSUME IInv, NEW p \in Player, Holds(p)' = Holds(p), cursor'[p] = {},
           worn'[p] = worn[p]
    PROVE  Owned(p) \ Owned(p)' = cursor[p]
BY OwnedParts, SameWear, CursorApart

(* The first case of KeepsFor put away.                                    *)
LEMMA KeepsIfWhole ==
    ASSUME IInv, NEW p \in Player, Len(saved[p]) <= LoadLimit => KeepsFor(p)
    PROVE  KeepsFor(p)
<1>1. Len(saved[p]) \in Nat /\ LoadLimit \in Nat
  BY BagTypes, BoundAssumption DEF IInv
<1>2. CASE Len(saved[p]) <= LoadLimit
  BY <1>2
<1>3. CASE ~(Len(saved[p]) <= LoadLimit)
  <2>1. Len(saved[p]) > LoadLimit
    BY <1>1, <1>3
  <2>2. QED
    BY <2>1 DEF KeepsFor
<1>4. QED
  BY <1>2, <1>3

LEMMA EnterZoneLoses ==
    ASSUME IInv, NEW p \in Player, EnterZone(p), NEW q \in Player
    PROVE  KeepsFor(q)
<1>1. saved[p] \in Seq(Row)
  BY BagTypes DEF IInv
<1>2. /\ Holds(p)' = ItemsIn(SubSeq(saved[p], 1,
            IF Len(saved[p]) <= LoadLimit THEN Len(saved[p]) ELSE LoadLimit))
            \cup ItemsIn(saved[p])
      /\ \A r \in Player : r # p => Holds(r)' = Holds(r)
  BY EnterZoneKeeps
<1>3. /\ cursor'[p] = {} /\ worn' = worn
      /\ \A r \in Player : r # p => cursor'[r] = cursor[r]
  BY DEF EnterZone, IInv, TypeOK
<1>4. CASE q # p
  BY <1>2, <1>3, <1>4, GainsKeep
<1>5. CASE q = p
  <2>1. ASSUME Len(saved[p]) <= LoadLimit
        PROVE  KeepsFor(p)
    <3>1. SubSeq(saved[p], 1, Len(saved[p])) = saved[p]
      BY <1>1
    <3>2. Holds(p)' = Holds(p)
      BY <1>2, <2>1, <3>1, WholeBag
    <3>3. Owned(p) \ Owned(p)' = cursor[p]
      BY <1>3, <3>2, EmptiedCursor
    <3>4. QED
      BY <3>3 DEF KeepsFor
  <2>2. QED
    BY <1>5, <2>1, KeepsIfWhole
<1>6. QED
  BY <1>4, <1>5

LEMMA DisconnectLoses ==
    ASSUME IInv, NEW p \in Player, Disconnect(p), NEW q \in Player
    PROVE  KeepsFor(q)
<1>1. /\ \A r \in Player : r # p => Holds(r)' = Holds(r)
      /\ bag'[p] = <<>> /\ saved' = saved /\ cursor'[p] = {} /\ worn' = worn
      /\ \A r \in Player : r # p => cursor'[r] = cursor[r]
  BY DisconnectKeeps DEF Disconnect, IInv, TypeOK
<1>2. CASE q # p
  BY <1>1, <1>2, GainsKeep
<1>3. CASE q = p
  <2>1. ASSUME Len(saved[p]) <= LoadLimit
        PROVE  KeepsFor(p)
    <3>1. Holds(p)' = Holds(p)
      BY <1>1, <2>1, WholeBag, NoRows DEF Holds
    <3>2. Owned(p) \ Owned(p)' = cursor[p]
      BY <1>1, <3>1, EmptiedCursor
    <3>3. QED
      BY <3>2 DEF KeepsFor
  <2>2. QED
    BY <1>3, <2>1, KeepsIfWhole
<1>4. QED
  BY <1>2, <1>3

LEMMA CrashLoses ==
    ASSUME IInv, Crash, NEW p \in Player
    PROVE  KeepsFor(p)
<1>1. bag'[p] = <<>> /\ saved' = saved /\ cursor'[p] = {} /\ worn' = worn
  BY DEF Crash
<1>2. ASSUME Len(saved[p]) <= LoadLimit
      PROVE  KeepsFor(p)
  <2>1. Holds(p)' = Holds(p)
    BY <1>1, <1>2, WholeBag, NoRows DEF Holds
  <2>2. Owned(p) \ Owned(p)' = cursor[p]
    BY <1>1, <2>1, EmptiedCursor
  <2>3. QED
    BY <2>2 DEF KeepsFor
<1>3. QED
  BY <1>2, KeepsIfWhole

(* Reconciling alone costs nothing a row has.                              *)
LEMMA RefusedLoses ==
    ASSUME IInv, NEW p \in inWorld, ReconciledOnly(p), inWorld' = inWorld,
           NEW q \in Player
    PROVE  KeepsFor(q)
<1>1. p \in Player
  BY DEF IInv, TypeOK
<1>2. /\ Holds(p)' = ItemsIn(saved[p])
      /\ \A r \in Player : r # p => Holds(r)' = Holds(r)
  BY ReconciledBags
<1>3. cursor' = cursor /\ worn' = worn
  BY DEF ReconciledOnly
<1>4. CASE q # p
  BY <1>2, <1>3, <1>4, GainsKeep
<1>5. CASE q = p
  <2>1. ASSUME Len(saved[p]) <= LoadLimit
        PROVE  KeepsFor(p)
    BY <1>1, <1>2, <1>3, <2>1, WholeBag, GainsKeep
  <2>2. QED
    BY <1>1, <1>5, <2>1, KeepsIfWhole
<1>6. QED
  BY <1>4, <1>5

(* The bag of p becomes rows that have all that was saved.                 *)
LEMMA GrownKeeps ==
    ASSUME IInv, NEW p \in inWorld, NEW rows \in Seq(Row), RowsSound(rows),
           Persisted(p, rows), inWorld' = inWorld, worn' = worn, cursor' = cursor,
           \/ ItemsIn(saved[p]) \subseteq ItemsIn(rows)
           \/ ItemsIn(bag[p]) \subseteq ItemsIn(rows),
           NEW q \in Player
    PROVE  KeepsFor(q)
<1>1. p \in Player
  BY DEF IInv, TypeOK
<1>2. Holds(p)' = ItemsIn(rows) /\ \A r \in Player : r # p => Holds(r)' = Holds(r)
  BY PersistedBags
<1>3. CASE q # p
  BY <1>2, <1>3, GainsKeep
<1>4. CASE q = p
  <2>1. ASSUME Len(saved[p]) <= LoadLimit
        PROVE  KeepsFor(p)
    <3>1. Holds(p) = ItemsIn(saved[p]) /\ bag[p] = saved[p]
      BY <1>1, <2>1, WholeBag
    <3>2. Holds(p) \subseteq Holds(p)'
      BY <1>2, <3>1
    <3>3. QED
      BY <3>2, GainsKeep
  <2>2. QED
    BY <1>1, <1>4, <2>1, KeepsIfWhole
<1>5. QED
  BY <1>3, <1>4

LEMMA TakeUpLoses ==
    ASSUME IInv, NEW p \in Player, TakeUp(p), NEW q \in Player
    PROVE  KeepsFor(q)
<1>1. p \in inWorld /\ inWorld' = inWorld
  BY DEF TakeUp
<1>2. CASE ReconciledOnly(p)
  BY <1>1, <1>2, RefusedLoses
<1>3. ASSUME NEW r \in Range(Reconciled(p)),
             cursor[p] = {},
             Persisted(p, Without(Reconciled(p), r)),
             cursor' = [cursor EXCEPT ![p] = r.items],
             worn' = worn
      PROVE  KeepsFor(q)
  <2> DEFINE rows == Without(Reconciled(p), r)
  <2>1. /\ rows \in Seq(Row) /\ RowsSound(rows)
        /\ ItemsIn(rows) = ItemsIn(Reconciled(p)) \ r.items
    BY <1>1, BagFacts, WithoutSound
  <2> HIDE DEF rows
  <2>2. /\ Holds(p)' = ItemsIn(rows)
        /\ \A o \in Player : o # p => Holds(o)' = Holds(o)
    BY <1>1, <1>3, <2>1, PersistedBags DEF rows
  <2>3. cursor'[p] = r.items /\ \A o \in Player : o # p => cursor'[o] = cursor[o]
    BY <1>3 DEF IInv, TypeOK
  <2>4. CASE q # p
    BY <1>3, <2>2, <2>3, <2>4, GainsKeep
  <2>5. CASE q = p
    <3>1. ASSUME Len(saved[p]) <= LoadLimit
          PROVE  KeepsFor(p)
      <4>1. Holds(p) = ItemsIn(Reconciled(p))
        BY <1>1, <3>1, WholeBag
      <4>2. Owned(p) \subseteq Owned(p)'
        BY <1>3, <2>1, <2>2, <2>3, <4>1, OwnedParts, SameWear
      <4>3. QED
        BY <4>2 DEF KeepsFor
    <3>2. QED
      BY <2>5, <3>1, KeepsIfWhole
  <2>6. QED
    BY <2>4, <2>5
<1>4. QED
  BY <1>2, <1>3 DEF TakeUp

LEMMA PlaceLoses ==
    ASSUME IInv, NEW p \in Player, NEW c \in Cell, Place(p, c), NEW q \in Player
    PROVE  KeepsFor(q)
<1>1. p \in inWorld /\ inWorld' = inWorld
  BY DEF Place
<1>2. CASE ReconciledOnly(p)
  BY <1>1, <1>2, RefusedLoses
<1>3. ASSUME cursor[p] # {},
             c \in Placeable(Reconciled(p)),
             Persisted(p, Append(Reconciled(p), [items |-> cursor[p], cell |-> c])),
             cursor' = [cursor EXCEPT ![p] = {}],
             worn' = worn
      PROVE  KeepsFor(q)
  <2> DEFINE r == [items |-> cursor[p], cell |-> c]
             rows == Append(Reconciled(p), r)
  <2>1. r \in Row /\ r.items = cursor[p] /\ r.cell \notin CellsIn(Reconciled(p))
    BY <1>3 DEF IInv, TypeOK, Row, Placeable, FreeCells
  <2>2. r.items \cap ItemsIn(Reconciled(p)) = {}
    BY <1>1, <2>1, CursorApart, BagFacts
  <2> HIDE DEF r
  <2>3. /\ rows \in Seq(Row) /\ RowsSound(rows)
        /\ ItemsIn(rows) = ItemsIn(Reconciled(p)) \cup cursor[p]
    BY <1>1, <2>1, <2>2, BagFacts, AppendedSound
  <2> HIDE DEF rows
  <2>4. /\ Holds(p)' = ItemsIn(rows)
        /\ \A o \in Player : o # p => Holds(o)' = Holds(o)
    BY <1>1, <1>3, <2>3, PersistedBags DEF rows, r
  <2>5. cursor'[p] = {} /\ \A o \in Player : o # p => cursor'[o] = cursor[o]
    BY <1>3 DEF IInv, TypeOK
  <2>6. CASE q # p
    BY <1>3, <2>4, <2>5, <2>6, GainsKeep
  <2>7. CASE q = p
    <3>1. ASSUME Len(saved[p]) <= LoadLimit
          PROVE  KeepsFor(p)
      <4>1. Holds(p) = ItemsIn(Reconciled(p))
        BY <1>1, <3>1, WholeBag
      <4>2. Owned(p) \subseteq Owned(p)'
        BY <1>3, <2>3, <2>4, <4>1, OwnedParts, SameWear
      <4>3. QED
        BY <4>2 DEF KeepsFor
    <3>2. QED
      BY <2>7, <3>1, KeepsIfWhole
  <2>8. QED
    BY <2>6, <2>7
<1>4. QED
  BY <1>2, <1>3 DEF Place

(* Some items of one row of p go, nothing else does.                       *)
LEMMA LostOfRow ==
    ASSUME NEW p, NEW r \in Range(saved[p]), Holds(p) \ r.items \subseteq Holds(p)',
           cursor'[p] = cursor[p], worn'[p] = worn[p],
           UsePotion(p) \/ Sell(p) \/ TurnInItem(p)
    PROVE  KeepsFor(p)
<1>1. Owned(p) \ Owned(p)' \subseteq r.items
  BY OwnedParts, SameWear
<1>2. QED
  BY <1>1 DEF KeepsFor

LEMMA UsePotionLoses ==
    ASSUME IInv, NEW p \in Player, UsePotion(p), NEW q \in Player
    PROVE  KeepsFor(q)
<1>1. p \in inWorld /\ inWorld' = inWorld /\ cursor' = cursor /\ worn' = worn
  BY DEF UsePotion
<1> DEFINE rows == Reconciled(p)
<1>2. PICK k \in DOMAIN rows : /\ rows[k].items \subseteq Potion
          /\ \E i \in rows[k].items :
                Persisted(p, IF rows[k].items = {i} THEN Without(rows, rows[k])
                             ELSE [rows EXCEPT ![k].items = @ \ {i}])
  BY DEF UsePotion
<1>3. PICK i \in rows[k].items :
                Persisted(p, IF rows[k].items = {i} THEN Without(rows, rows[k])
                             ELSE [rows EXCEPT ![k].items = @ \ {i}])
  BY <1>2
<1> DEFINE left == IF rows[k].items = {i} THEN Without(rows, rows[k])
                   ELSE [rows EXCEPT ![k].items = @ \ {i}]
<1>4. /\ rows \in Seq(Row) /\ RowsSound(rows)
      /\ Range(rows) = Range(saved[p]) /\ ItemsIn(rows) = ItemsIn(saved[p])
  BY <1>1, BagFacts
<1> HIDE DEF rows
<1>5. left \in Seq(Row) /\ RowsSound(left) /\ ItemsIn(left) = ItemsIn(rows) \ {i}
  <2>1. rows \in Seq(Row) /\ RowsSound(rows) /\ rows[k].items \subseteq Potion
    BY <1>2, <1>4
  <2>2. QED
    BY <2>1, OneTaken
<1>6. Persisted(p, left)
  BY <1>3
<1> HIDE DEF left
<1>7. Holds(p)' = ItemsIn(left) /\ \A r \in Player : r # p => Holds(r)' = Holds(r)
  BY <1>1, <1>5, <1>6, PersistedBags
<1>8. CASE q # p
  BY <1>1, <1>7, <1>8, GainsKeep
<1>9. CASE q = p
  <2>1. ASSUME Len(saved[p]) <= LoadLimit
        PROVE  KeepsFor(p)
    <3>1. rows[k] \in Range(saved[p])
      BY <1>4 DEF Range
    <3>2. Holds(p) \ rows[k].items \subseteq Holds(p)'
      BY <1>3, <1>4, <1>5, <1>7, <2>1, WholeBag
    <3>3. QED
      BY <1>1, <3>1, <3>2, LostOfRow
  <2>2. QED
    BY <1>9, <2>1, KeepsIfWhole
<1>10. QED
  BY <1>8, <1>9

LEMMA TurnInItemLoses ==
    ASSUME IInv, NEW p \in Player, TurnInItem(p), NEW q \in Player
    PROVE  KeepsFor(q)
<1>1. p \in inWorld /\ inWorld' = inWorld /\ cursor' = cursor /\ worn' = worn
  BY DEF TurnInItem
<1> DEFINE rows == bag[p]
<1>2. PICK k \in DOMAIN rows : /\ rows[k].items \subseteq Potion
          /\ \E i \in rows[k].items :
                Persisted(p, IF rows[k].items = {i} THEN Without(rows, rows[k])
                             ELSE [rows EXCEPT ![k].items = @ \ {i}])
  BY DEF TurnInItem
<1>3. PICK i \in rows[k].items :
                Persisted(p, IF rows[k].items = {i} THEN Without(rows, rows[k])
                             ELSE [rows EXCEPT ![k].items = @ \ {i}])
  BY <1>2
<1> DEFINE left == IF rows[k].items = {i} THEN Without(rows, rows[k])
                   ELSE [rows EXCEPT ![k].items = @ \ {i}]
<1>4. rows \in Seq(Row) /\ RowsSound(rows) /\ rows = bag[p]
  BY <1>1, BagFacts
<1> HIDE DEF rows
<1>5. left \in Seq(Row) /\ RowsSound(left) /\ ItemsIn(left) = ItemsIn(rows) \ {i}
  <2>1. rows \in Seq(Row) /\ RowsSound(rows) /\ rows[k].items \subseteq Potion
    BY <1>2, <1>4
  <2>2. QED
    BY <2>1, OneTaken
<1>6. Persisted(p, left)
  BY <1>3
<1> HIDE DEF left
<1>7. Holds(p)' = ItemsIn(left) /\ \A r \in Player : r # p => Holds(r)' = Holds(r)
  BY <1>1, <1>5, <1>6, PersistedBags
<1>8. CASE q # p
  BY <1>1, <1>7, <1>8, GainsKeep
<1>9. CASE q = p
  <2>1. ASSUME Len(saved[p]) <= LoadLimit
        PROVE  KeepsFor(p)
    <3>1. rows = saved[p] /\ Holds(p) = ItemsIn(rows)
      BY <1>1, <1>4, <2>1, WholeBag
    <3>2. rows[k] \in Range(saved[p])
      BY <3>1 DEF Range
    <3>3. Holds(p) \ rows[k].items \subseteq Holds(p)'
      BY <1>3, <1>5, <1>7, <3>1
    <3>4. QED
      BY <1>1, <3>2, <3>3, LostOfRow
  <2>2. QED
    BY <1>9, <2>1, KeepsIfWhole
<1>10. QED
  BY <1>8, <1>9

LEMMA SellLoses ==
    ASSUME IInv, NEW p \in Player, Sell(p), NEW q \in Player
    PROVE  KeepsFor(q)
<1>1. p \in inWorld /\ inWorld' = inWorld /\ worn' = worn
  BY DEF Sell
<1>2. CASE Persisted(p, Reconciled(p)) /\ cursor' = [cursor EXCEPT ![p] = {}]
  <2>1. /\ Holds(p)' = ItemsIn(saved[p])
        /\ \A r \in Player : r # p => Holds(r)' = Holds(r)
    BY <1>1, <1>2, BagFacts, PersistedBags
  <2>2. cursor'[p] = {} /\ \A r \in Player : r # p => cursor'[r] = cursor[r]
    BY <1>2 DEF IInv, TypeOK
  <2>3. CASE q # p
    BY <1>1, <2>1, <2>2, <2>3, GainsKeep
  <2>4. CASE q = p
    <3>1. ASSUME Len(saved[p]) <= LoadLimit
          PROVE  KeepsFor(p)
      <4>1. Owned(p) \ Owned(p)' = cursor[p]
        BY <1>1, <2>1, <2>2, <3>1, WholeBag, EmptiedCursor
      <4>2. QED
        BY <4>1 DEF KeepsFor
    <3>2. QED
      BY <2>4, <3>1, KeepsIfWhole
  <2>5. QED
    BY <2>3, <2>4
<1>3. ASSUME NEW r \in Range(Reconciled(p)),
             Persisted(p, Without(Reconciled(p), r)), cursor' = cursor
      PROVE  KeepsFor(q)
  <2> DEFINE rows == Without(Reconciled(p), r)
  <2>1. /\ rows \in Seq(Row) /\ RowsSound(rows) /\ r \in Range(saved[p])
        /\ ItemsIn(rows) = ItemsIn(saved[p]) \ r.items
    BY <1>1, BagFacts, WithoutSound
  <2> HIDE DEF rows
  <2>2. /\ Holds(p)' = ItemsIn(rows)
        /\ \A o \in Player : o # p => Holds(o)' = Holds(o)
    BY <1>1, <1>3, <2>1, PersistedBags DEF rows
  <2>3. CASE q # p
    BY <1>1, <1>3, <2>2, <2>3, GainsKeep
  <2>4. CASE q = p
    <3>1. ASSUME Len(saved[p]) <= LoadLimit
          PROVE  KeepsFor(p)
      <4>1. Holds(p) \ r.items \subseteq Holds(p)'
        BY <2>1, <2>2, <3>1, WholeBag
      <4>2. QED
        BY <1>1, <1>3, <2>1, <4>1, LostOfRow
    <3>2. QED
      BY <2>4, <3>1, KeepsIfWhole
  <2>5. QED
    BY <2>3, <2>4
<1>4. QED
  BY <1>2, <1>3 DEF Sell

LEMMA BuyLoses ==
    ASSUME IInv, NEW p \in Player, Buy(p), NEW q \in Player
    PROVE  KeepsFor(q)
<1>1. p \in inWorld /\ inWorld' = inWorld
  BY DEF Buy
<1>2. CASE ReconciledOnly(p)
  BY <1>1, <1>2, RefusedLoses
<1>3. ASSUME NEW i \in stock, Fits(Reconciled(p), {i}),
             Persisted(p, Added(Reconciled(p), {i})),
             cursor' = cursor, worn' = worn
      PROVE  KeepsFor(q)
  <2>1. i \in Item /\ {i} \in Stack
    BY OneStack DEF IInv, TypeOK
  <2>2. <<"stock", 0>> \in Places(i)
    BY AtPlaces
  <2>3. {i} \cap ItemsIn(Reconciled(p)) = {}
    BY <1>1, <2>1, <2>2, OnlyThere, BagFacts DEF IInv
  <2> DEFINE rows == Added(Reconciled(p), {i})
  <2>4. /\ rows \in Seq(Row) /\ RowsSound(rows)
        /\ ItemsIn(rows) = ItemsIn(saved[p]) \cup {i}
    BY <1>1, <1>3, <2>1, <2>3, BagFacts, AddedSound
  <2> HIDE DEF rows
  <2>5. Persisted(p, rows) /\ ItemsIn(saved[p]) \subseteq ItemsIn(rows)
    BY <1>3, <2>4 DEF rows
  <2>6. QED
    BY <1>1, <1>3, <2>4, <2>5, GrownKeeps
<1>4. QED
  BY <1>2, <1>3 DEF Buy

LEMMA PickUpDropLoses ==
    ASSUME IInv, NEW p \in Player, NEW d \in Drop, PickUpDrop(p, d), NEW q \in Player
    PROVE  KeepsFor(q)
<1>1. p \in inWorld /\ inWorld' = inWorld /\ ground[d] # {}
  BY DEF PickUpDrop
<1>2. CASE ReconciledOnly(p)
  BY <1>1, <1>2, RefusedLoses
<1>3. ASSUME Fits(Reconciled(p), ground[d]),
             Persisted(p, Added(Reconciled(p), ground[d])),
             cursor' = cursor, worn' = worn
      PROVE  KeepsFor(q)
  <2>1. ground[d] \in Stack /\ ground[d] \subseteq Item
    BY <1>1 DEF IInv, TypeOK, Stack
  <2>2. \A i \in ground[d] : <<"ground", d>> \in Places(i)
    BY AtPlaces
  <2>3. \A i \in ground[d] : i \notin Holds(p)
    BY <2>1, <2>2, OnlyThere DEF IInv
  <2>4. ground[d] \cap ItemsIn(Reconciled(p)) = {}
    BY <1>1, <2>3, BagFacts
  <2> DEFINE rows == Added(Reconciled(p), ground[d])
  <2>5. /\ rows \in Seq(Row) /\ RowsSound(rows)
        /\ ItemsIn(rows) = ItemsIn(saved[p]) \cup ground[d]
    BY <1>1, <1>3, <2>1, <2>4, BagFacts, AddedSound
  <2> HIDE DEF rows
  <2>6. Persisted(p, rows) /\ ItemsIn(saved[p]) \subseteq ItemsIn(rows)
    BY <1>3, <2>5 DEF rows
  <2>7. QED
    BY <1>1, <1>3, <2>5, <2>6, GrownKeeps
<1>4. QED
  BY <1>2, <1>3 DEF PickUpDrop

LEMMA RewardLoses ==
    ASSUME IInv, NEW p \in Player, NEW i \in Item, Reward(p, i), NEW q \in Player
    PROVE  KeepsFor(q)
<1>1. /\ p \in inWorld /\ inWorld' = inWorld /\ i \in unborn
      /\ cursor' = cursor /\ worn' = worn
  BY DEF Reward
<1>2. ASSUME Fits(bag[p], {i}), Persisted(p, Added(bag[p], {i}))
      PROVE  KeepsFor(q)
  <2>1. <<"unborn", 0>> \in Places(i)
    BY <1>1, AtPlaces
  <2>2. {i} \cap ItemsIn(bag[p]) = {}
    BY <1>1, <2>1, OnlyThere, BagFacts DEF IInv
  <2> DEFINE rows == Added(bag[p], {i})
  <2>3. rows \in Seq(Row) /\ RowsSound(rows) /\ ItemsIn(rows) = ItemsIn(bag[p]) \cup {i}
    BY <1>1, <1>2, <2>2, OneStack, BagFacts, AddedSound
  <2> HIDE DEF rows
  <2>4. Persisted(p, rows) /\ ItemsIn(bag[p]) \subseteq ItemsIn(rows)
    BY <1>2, <2>3 DEF rows
  <2>5. QED
    BY <1>1, <2>3, <2>4, GrownKeeps
<1>3. CASE bag' = bag /\ saved' = saved
  <2>1. Holds(q)' = Holds(q)
    BY <1>3 DEF Holds
  <2>2. QED
    BY <1>1, <2>1, GainsKeep
<1>4. QED
  BY <1>2, <1>3 DEF Reward

LEMMA DropHeldLoses ==
    ASSUME IInv, NEW p \in Player, DropHeld(p), NEW q \in Player
    PROVE  KeepsFor(q)
<1>1. /\ bag' = bag /\ saved' = saved /\ worn' = worn
      /\ cursor'[p] = {} /\ \A r \in Player : r # p => cursor'[r] = cursor[r]
  BY DEF DropHeld, IInv, TypeOK
<1>2. \A r \in Player : Holds(r)' = Holds(r)
  BY <1>1 DEF Holds
<1>3. CASE q # p
  BY <1>1, <1>2, <1>3, GainsKeep
<1>4. CASE q = p
  <2>1. Owned(p) \ Owned(p)' = cursor[p]
    BY <1>1, <1>2, EmptiedCursor
  <2>2. QED
    BY <1>4, <2>1 DEF KeepsFor
<1>5. QED
  BY <1>3, <1>4

LEMMA WornLoses ==
    ASSUME IInv, NEW p \in Player, NEW h \in Hand, Equip(p, h) \/ Unequip(p, h),
           NEW q \in Player
    PROVE  KeepsFor(q)
<1>1. bag' = bag /\ saved' = saved
  BY DEF Equip, Unequip
<1>2. \A r \in Player : Holds(r)' = Holds(r)
  BY <1>1 DEF Holds
<1>3. CASE q # p
  <2>1. cursor'[q] = cursor[q] /\ worn'[q] = worn[q]
    BY <1>3 DEF Equip, Unequip, IInv, TypeOK
  <2>2. QED
    BY <1>2, <2>1, GainsKeep
<1>4. CASE q = p /\ Equip(p, h)
  <2>1. PICK i \in Gear : /\ cursor[p] = {i}
                          /\ worn' = [worn EXCEPT ![p][h] = i]
                          /\ cursor' = [cursor EXCEPT ![p] = SwappedOut(p, i, h)]
    BY <1>4 DEF Equip
  <2>2. /\ worn'[p][h] = i
        /\ \A g \in Hand : g # h => worn'[p][g] = worn[p][g]
    <3>1. worn' = [worn EXCEPT ![p][h] = i] /\ i \in Gear \cup {NoItem}
      BY <2>1
    <3>2. TypeOK
      BY DEF IInv
    <3>3. /\ worn'[p][h] = i
          /\ \A r \in Player, g \in Hand :
                r # p \/ g # h => worn'[r][g] = worn[r][g]
      <4>1. i \in Gear \cup {NoItem} /\ worn' = [worn EXCEPT ![p][h] = i] /\ TypeOK
        BY <3>1, <3>2
      <4>2. QED
        BY <4>1 DEF TypeOK
    <3>4. QED
      BY <3>3
  <2>3. cursor'[p] = {worn[p][h]} \ {NoItem}
    BY <2>1 DEF IInv, TypeOK, SwappedOut
  <2>4. i # NoItem
    BY ItemAssumption
  <2>5. i \in Wears(p)'
    BY <2>2, <2>4 DEF Wears
  <2>6. Wears(p) \subseteq Wears(p)' \cup cursor'[p]
    BY <2>2, <2>3 DEF Wears
  <2>7. Owned(p) \subseteq Owned(p)'
    BY <1>2, <2>1, <2>5, <2>6, OwnedParts
  <2>8. QED
    BY <1>4, <2>7 DEF KeepsFor
<1>5. CASE q = p /\ Unequip(p, h)
  <2>1. /\ worn' = [worn EXCEPT ![p][h] = NoItem]
        /\ cursor' = [cursor EXCEPT ![p] = {worn[p][h]}]
        /\ worn[p][h] # NoItem
    BY <1>5 DEF Unequip
  <2>2. /\ worn'[p][h] = NoItem
        /\ \A g \in Hand : g # h => worn'[p][g] = worn[p][g]
    <3>1. NoItem \in Gear \cup {NoItem} /\ worn' = [worn EXCEPT ![p][h] = NoItem] /\ TypeOK
      BY <2>1 DEF IInv
    <3>2. /\ worn'[p][h] = NoItem
          /\ \A r \in Player, g \in Hand :
                r # p \/ g # h => worn'[r][g] = worn[r][g]
      BY <3>1 DEF TypeOK
    <3>3. QED
      BY <3>2
  <2>3. cursor'[p] = {worn[p][h]}
    BY <2>1 DEF IInv, TypeOK
  <2>4. Wears(p) = Wears(p)' \cup cursor'[p]
    BY <2>1, <2>2, <2>3 DEF Wears
  <2>5. cursor[p] \cap (Holds(p) \cup Wears(p)) = {}
    BY CursorApart
  <2>6. Owned(p) \ Owned(p)' = cursor[p]
    BY <1>2, <2>4, <2>5, OwnedParts
  <2>7. QED
    BY <1>5, <2>6 DEF KeepsFor
<1>6. QED
  BY <1>3, <1>4, <1>5

LEMMA OthersLose ==
    ASSUME NEW q \in Player, UNCHANGED <<bag, saved, cursor, worn>>
    PROVE  KeepsFor(q)
<1>1. Holds(q)' = Holds(q)
  BY DEF Holds
<1>2. QED
  BY <1>1, GainsKeep

LEMMA StepKeepsFor ==
    ASSUME IInv, [Next]_vars, NEW q \in Player
    PROVE  KeepsFor(q)
<1>1. CASE Next
  <2>1. CASE \E p \in Player : EnterZone(p) \/ Disconnect(p)
    BY <2>1, EnterZoneLoses, DisconnectLoses
  <2>2. CASE Crash
    BY <2>2, CrashLoses
  <2>3. CASE \E p \in Player : TakeUp(p) \/ UsePotion(p) \/ Sell(p) \/ Buy(p)
    BY <2>3, TakeUpLoses, UsePotionLoses, SellLoses, BuyLoses
  <2>4. CASE \E p \in Player : TurnInItem(p) \/ DropHeld(p)
    BY <2>4, TurnInItemLoses, DropHeldLoses
  <2>5. CASE \E p \in Player, c \in Cell : Place(p, c)
    BY <2>5, PlaceLoses
  <2>6. CASE \E p \in Player, i \in Item : Reward(p, i)
    BY <2>6, RewardLoses
  <2>7. CASE \E p \in Player, h \in Hand : Equip(p, h) \/ Unequip(p, h)
    BY <2>7, WornLoses
  <2>8. CASE \E p \in Player, d \in Drop : PickUpDrop(p, d)
    BY <2>8, PickUpDropLoses
  <2>9. CASE \E d \in Drop : GnomeEats(d)
    BY <2>9, OthersLose DEF GnomeEats
  <2>10. CASE \E i \in Item : Restock(i) \/ LootDrop(i)
    BY <2>10, OthersLose DEF Restock, LootDrop
  <2>11. QED
    BY <1>1, <2>1, <2>2, <2>3, <2>4, <2>5, <2>6, <2>7, <2>8, <2>9, <2>10 DEF Next
<1>2. CASE UNCHANGED vars
  BY <1>2, OthersLose DEF vars
<1>3. QED
  BY <1>1, <1>2

-----------------------------------------------------------------------------
(* Theorems *)

(* No item is ever in two places or in two rows of a bag, whoever clicks   *)
(* the same drop or buys the same item, swaps equipment, reconnects with a *)
(* bag longer than a spawn loads, or meets a crash of the server           *)
(* (net/inventory.py, net/equipment.py, managers/loot.py: remove_drop).    *)
THEOREM Duplicated == Spec => []NothingDuplicated
BY InvariantHolds, SingleMeans, PTL

(* Every item is where it may be: in a cell no other row has, or in a hand *)
(* that is free, no two-handed weapon beside an off-hand item              *)
(* (_find_free_slot, handle_add_equipped_item).                            *)
THEOREM Lawful == Spec => []PlacesLawful
BY InvariantHolds, SoundMeans, PTL

(* A bag that a spawn loads whole is the same in the session and in the    *)
(* character row after every handler, so that a crash costs nothing of it  *)
(* (inventory_model.py: "every mutation is also persisted").               *)
THEOREM Saved == Spec => []BagIsSaved
<1>1. IInv => BagIsSaved
  BY DEF IInv
<1>2. QED
  BY <1>1, InvariantHolds, PTL

(* Through every step a player keeps what it has, but for the potion it    *)
(* uses or turns in, the row it sells, and the one item on its cursor that *)
(* a sale, a drop, taking off equipment or the end of a session takes      *)
(* (net/inventory.py, net/equipment.py).                                   *)
THEOREM Keeps == Spec => KeepsItems
<1>1. IInv /\ [Next]_vars => [\A p \in Player : KeepsFor(p)]_vars
  BY StepKeepsFor
<1>2. Spec => [][\A p \in Player : KeepsFor(p)]_vars
  BY <1>1, InvariantHolds, PTL DEF Spec
<1>3. QED
  BY <1>2 DEF KeepsItems, KeepsFor
=============================================================================
