--------------------------- MODULE CharacterProofs ---------------------------
(***************************************************************************)
(* Proofs about the four parts of Character, each for every behaviour of    *)
(* the whole: its other parts leave its state alone.                        *)
(*                                                                          *)
(* Hero: Playing says that the answers under way, taken in order, lead the  *)
(* panel of the client to the points of the row (Leads), and that the row   *)
(* affords them.  Pets: Following says that who is gone has no units left,  *)
(* that a client met what it is sent updates of, and what a sweep may still *)
(* find; Paid adds the ledger of claims.  Shop: Trading keeps the stock on  *)
(* cells of its own under ids that are never used twice, which is shown of  *)
(* one item placed and then, along the order in which they are placed, of a *)
(* whole stock.  Skills: Casting relates the map of the session to the      *)
(* saved bar and the gold to the ranks.                                     *)
(*                                                                          *)
(* What is computed along numbers (experience, stocks, sums) is reasoned    *)
(* about with Induct, Stays and Recurs, which follow from the numbers being *)
(* well founded.                                                            *)
(***************************************************************************)
EXTENDS Character, Sums, FiniteSetTheorems, WellFoundedInduction, TLAPS
-----------------------------------------------------------------------------
(* Numbers, and what is computed along them *)

LEMMA BelowIsWellFounded ==
    \E R : IsWellFoundedOn(R, Nat) /\ \A x, y \in Nat : x < y => <<x, y>> \in R
<1>1. IsWellFoundedOn(OpToRel(<, Nat), Nat)
  BY NatLessThanWellFounded
<1>2. ASSUME NEW x \in Nat, NEW y \in Nat, x < y PROVE <<x, y>> \in OpToRel(<, Nat)
  BY <1>2, Zenon DEF OpToRel
<1>3. QED
  BY <1>1, <1>2, Zenon

(* A set of numbers has a least one.                                       *)
LEMMA HasLeast ==
    ASSUME NEW I \in SUBSET Nat, I # {}
    PROVE  \E k \in I : \A j \in I : k <= j
<1>1. PICK R : IsWellFoundedOn(R, Nat) /\ \A x, y \in Nat : x < y => <<x, y>> \in R
  BY BelowIsWellFounded
<1>2. IsWellFoundedOn(R, Nat) /\ I \subseteq Nat /\ I # {}
  BY <1>1
<1>3. PICK k \in I : \A j \in I : ~ (<<j, k>> \in R)
  BY <1>2, WFMin, Zenon
<1>4. ASSUME NEW j \in I PROVE k <= j
  <2>1. j \in Nat /\ k \in Nat
    OBVIOUS
  <2>2. ~(j < k)
    BY <1>1, <1>3, <2>1, Zenon
  <2>3. QED
    BY <2>1, <2>2
<1>5. QED
  BY <1>4

(* A set of numbers that goes on from 0 holds them all.                    *)
LEMMA Induct ==
    ASSUME NEW P \in SUBSET Nat, 0 \in P, \A k \in P : k + 1 \in P
    PROVE  P = Nat
<1> SUFFICES ASSUME NEW m \in Nat \ P
             PROVE  FALSE
  OBVIOUS
<1>1. Nat \ P \in SUBSET Nat /\ Nat \ P # {}
  OBVIOUS
<1>2. PICK k \in Nat \ P : \A j \in Nat \ P : k <= j
  BY <1>1, HasLeast
<1>3. k # 0 /\ k - 1 \in Nat
  BY <1>2
<1>4. k - 1 \in P
  BY <1>2, <1>3
<1>5. (k - 1) + 1 \in P /\ (k - 1) + 1 = k
  BY <1>3, <1>4
<1>6. QED
  BY <1>5

(* What a step never leads out of S is in S after any number of steps.     *)
LEMMA Stays ==
    ASSUME NEW S, NEW n \in Nat, NEW f, f[0] \in S,
           \A k \in 1..n : f[k - 1] \in S => f[k] \in S
    PROVE  \A k \in 0..n : f[k] \in S
<1> DEFINE P == {k \in Nat : k <= n => f[k] \in S}
<1>1. P \in SUBSET Nat /\ 0 \in P
  OBVIOUS
<1>2. ASSUME NEW k \in P PROVE k + 1 \in P
  <2> SUFFICES ASSUME k + 1 <= n PROVE f[k + 1] \in S
    OBVIOUS
  <2>1. k \in Nat /\ k <= n /\ f[k] \in S
    OBVIOUS
  <2>2. k + 1 \in 1..n /\ (k + 1) - 1 = k
    BY <2>1
  <2>3. f[(k + 1) - 1] \in S
    BY <2>1, <2>2
  <2>4. QED
    BY <2>2, <2>3
<1> HIDE DEF P
<1>3. P = Nat
  BY <1>1, <1>2, Induct
<1>4. QED
  BY <1>3 DEF P

(* A recursion over 0..n has a solution.                                   *)
Goes(f, a, n, g) == f[0] = a /\ \A k \in 1..n : f[k] = g[<<f[k - 1], k>>]

LEMMA Recurs ==
    ASSUME NEW S, NEW a \in S, NEW n \in Nat, NEW g \in [S \X (1..n) -> S]
    PROVE  \E f \in [0..n -> S] : Goes(f, a, n, g)
<1> USE DEF Goes
<1> DEFINE P == {m \in Nat : m <= n =>
                    \E f \in [0..m -> S] : f[0] = a /\ \A k \in 1..m : f[k] = g[<<f[k - 1], k>>]}
<1>1. P \in SUBSET Nat
  OBVIOUS
<1>2. 0 \in P
  <2> DEFINE f == [k \in 0..0 |-> a]
  <2>1. f \in [0..0 -> S] /\ f[0] = a /\ \A k \in 1..0 : f[k] = g[<<f[k - 1], k>>]
    OBVIOUS
  <2>2. QED
    BY <2>1
<1>3. ASSUME NEW m \in P PROVE m + 1 \in P
  <2> SUFFICES ASSUME m + 1 <= n
               PROVE  \E f \in [0..(m + 1) -> S] :
                        f[0] = a /\ \A k \in 1..(m + 1) : f[k] = g[<<f[k - 1], k>>]
    OBVIOUS
  <2>1. m \in Nat /\ m <= n
    OBVIOUS
  <2>2. PICK f \in [0..m -> S] : f[0] = a /\ \A k \in 1..m : f[k] = g[<<f[k - 1], k>>]
    BY <2>1
  <2> DEFINE h == [k \in 0..(m + 1) |-> IF k \in 0..m THEN f[k] ELSE g[<<f[m], m + 1>>]]
  <2>3. <<f[m], m + 1>> \in S \X (1..n)
    BY <2>1, <2>2
  <2>4. g[<<f[m], m + 1>>] \in S
    BY <2>3
  <2>5. h \in [0..(m + 1) -> S]
    BY <2>2, <2>4
  <2>6. h[0] = a
    BY <2>1, <2>2
  <2>7. ASSUME NEW k \in 1..(m + 1) PROVE h[k] = g[<<h[k - 1], k>>]
    <3>1. k - 1 \in 0..m /\ k - 1 \in 0..(m + 1) /\ k \in 0..(m + 1)
      BY <2>1
    <3>2. h[k - 1] = f[k - 1]
      BY <3>1
    <3>3. CASE k \in 1..m
      <4>1. k \in 0..m
        BY <2>1, <3>3
      <4>2. h[k] = f[k]
        BY <3>1, <4>1
      <4>3. QED
        BY <2>2, <3>2, <3>3, <4>2
    <3>4. CASE k = m + 1
      <4>1. k \notin 0..m /\ k - 1 = m
        BY <2>1, <3>4
      <4>2. h[k] = g[<<f[m], m + 1>>]
        BY <3>1, <4>1
      <4>3. QED
        BY <3>2, <3>4, <4>1, <4>2
    <3>5. QED
      BY <2>1, <3>3, <3>4
  <2> HIDE DEF h
  <2>8. QED
    BY <2>5, <2>6, <2>7
<1> HIDE DEF P
<1>4. n \in P
  BY <1>1, <1>2, <1>3, Induct
<1>5. QED
  BY <1>4 DEF P


-----------------------------------------------------------------------------
(* Sums *)

(* The sum is computed along the weights.                                  *)
LEMMA SumGoes ==
    ASSUME NEW n \in Nat, NEW w, \A k \in 1..n : w[k] \in Int
    PROVE  \E f : /\ \A k \in 0..n : f[k] \in Int
                  /\ f[0] = 0 /\ \A k \in 1..n : f[k] = f[k - 1] + w[k]
                  /\ SumTo(w, n) = f[n]
<1> DEFINE g == [p \in Int \X (1..n) |-> p[1] + w[p[2]]]
           L(f) == [k \in 0..n |-> IF k = 0 THEN 0 ELSE f[k - 1] + w[k]]
           sum == CHOOSE f : f = L(f)
<1>1. SumTo(w, n) = sum[n]
  BY DEF SumTo
<1>2. g \in [Int \X (1..n) -> Int] /\ \A x \in Int, k \in 1..n : g[<<x, k>>] = x + w[k]
  OBVIOUS
<1> HIDE DEF g
<1>3. PICK h \in [0..n -> Int] : Goes(h, 0, n, g)
  <2>1. 0 \in Int
    OBVIOUS
  <2>2. QED
    BY <1>2, <2>1, Recurs
<1>4. \A k \in 0..n : h[k] = IF k = 0 THEN 0 ELSE h[k - 1] + w[k]
  <2>1. ASSUME NEW k \in 1..n PROVE h[k] = h[k - 1] + w[k]
    <3>1. k - 1 \in 0..n
      OBVIOUS
    <3>2. h[k - 1] \in Int
      BY <3>1
    <3>3. QED
      BY <1>2, <1>3, <3>2 DEF Goes
  <2>2. QED
    BY <1>3, <2>1 DEF Goes
<1>5. h = L(h)
  BY <1>4
<1> HIDE DEF L
<1>6. sum = L(sum)
  BY <1>5
<1> HIDE DEF sum
<1>7. sum[0] = 0 /\ \A k \in 1..n : sum[k] = sum[k - 1] + w[k]
  BY <1>6 DEF L
<1>8. \A k \in 0..n : sum[k] \in Int
  <2>1. ASSUME NEW k \in 1..n, sum[k - 1] \in Int PROVE sum[k] \in Int
    <3>1. sum[k] = sum[k - 1] + w[k] /\ w[k] \in Int
      BY <1>7
    <3>2. QED
      BY <2>1, <3>1
  <2>2. sum[0] \in Int
    BY <1>7
  <2>3. QED
    BY <2>1, <2>2, Stays
<1>9. QED
  BY <1>1, <1>7, <1>8

(* Whatever goes along the weights ends in the sum.                        *)
LEMMA SumIs ==
    ASSUME NEW n \in Nat, NEW w, \A k \in 1..n : w[k] \in Int,
           NEW f, \A k \in 0..n : f[k] \in Int,
           f[0] = 0, \A k \in 1..n : f[k] = f[k - 1] + w[k]
    PROVE  SumTo(w, n) = f[n]
<1>1. PICK h : /\ \A k \in 0..n : h[k] \in Int
               /\ h[0] = 0 /\ \A k \in 1..n : h[k] = h[k - 1] + w[k]
               /\ SumTo(w, n) = h[n]
  BY SumGoes
<1> DEFINE d == [k \in 0..n |-> f[k] - h[k]]
           Nil == {0}
<1>2. d[0] \in Nil
  BY <1>1
<1>3. ASSUME NEW k \in 1..n, d[k - 1] \in Nil PROVE d[k] \in Nil
  <2>1. k - 1 \in 0..n /\ k \in 0..n
    OBVIOUS
  <2>2. f[k - 1] = h[k - 1]
    BY <1>1, <1>3, <2>1
  <2>3. f[k] = h[k] /\ h[k] \in Int
    BY <1>1, <2>1, <2>2
  <2>4. QED
    BY <2>1, <2>3
<1> HIDE DEF d, Nil
<1>4. \A k \in 0..n : d[k] \in Nil
  BY <1>2, <1>3, Stays
<1>5. n \in 0..n
  OBVIOUS
<1>6. f[n] = h[n]
  <2>1. d[n] = 0 /\ f[n] \in Int /\ h[n] \in Int
    BY <1>1, <1>4, <1>5 DEF Nil
  <2>2. d[n] = f[n] - h[n]
    BY <1>5 DEF d
  <2>3. QED
    BY <2>1, <2>2
<1>7. QED
  BY <1>1, <1>6

LEMMA SumInt ==
    ASSUME NEW n \in Nat, NEW w, \A k \in 1..n : w[k] \in Int
    PROVE  SumTo(w, n) \in Int
BY SumGoes

LEMMA SumZero ==
    ASSUME NEW n \in Nat, NEW w, \A k \in 1..n : w[k] = 0
    PROVE  SumTo(w, n) = 0
<1> DEFINE f == [k \in 0..n |-> 0]
<1>1. /\ \A k \in 0..n : f[k] \in Int
      /\ f[0] = 0 /\ \A k \in 1..n : f[k] = f[k - 1] + w[k]
  OBVIOUS
<1>2. f[n] = 0
  OBVIOUS
<1> HIDE DEF f
<1>3. \A k \in 1..n : w[k] \in Int
  OBVIOUS
<1>4. QED
  BY <1>1, <1>2, <1>3, SumIs

LEMMA SumNext ==
    ASSUME NEW n \in Nat, NEW w, \A k \in 1..(n + 1) : w[k] \in Int
    PROVE  SumTo(w, n + 1) = SumTo(w, n) + w[n + 1]
<1>1. PICK f : /\ \A k \in 0..(n + 1) : f[k] \in Int
               /\ f[0] = 0 /\ \A k \in 1..(n + 1) : f[k] = f[k - 1] + w[k]
               /\ SumTo(w, n + 1) = f[n + 1]
  <2>1. n + 1 \in Nat
    OBVIOUS
  <2>2. QED
    BY <2>1, SumGoes
<1>2. SumTo(w, n) = f[n]
  <2>1. /\ \A k \in 1..n : w[k] \in Int
        /\ \A k \in 0..n : f[k] \in Int
        /\ \A k \in 1..n : f[k] = f[k - 1] + w[k]
    BY <1>1
  <2>2. QED
    BY <1>1, <2>1, SumIs
<1>3. f[n + 1] = f[(n + 1) - 1] + w[n + 1] /\ (n + 1) - 1 = n
  BY <1>1
<1>4. QED
  BY <1>1, <1>2, <1>3

(* One weight that grows by c makes the sum grow by c.                     *)
LEMMA SumGrows ==
    ASSUME NEW n \in Nat, NEW w, \A k \in 1..n : w[k] \in Int, NEW c \in Int,
           NEW i \in 1..n, NEW v, \A k \in 1..n : v[k] = IF k = i THEN w[k] + c ELSE w[k]
    PROVE  SumTo(v, n) = SumTo(w, n) + c
<1>1. PICK f : /\ \A k \in 0..n : f[k] \in Int
               /\ f[0] = 0 /\ \A k \in 1..n : f[k] = f[k - 1] + w[k]
               /\ SumTo(w, n) = f[n]
  BY SumGoes
<1> DEFINE h == [k \in 0..n |-> IF k < i THEN f[k] ELSE f[k] + c]
<1>2. \A k \in 0..n : h[k] \in Int
  BY <1>1
<1>3. h[0] = 0 /\ h[n] = f[n] + c
  BY <1>1
<1>4. ASSUME NEW k \in 1..n PROVE h[k] = h[k - 1] + v[k]
  <2>1. k - 1 \in 0..n /\ k \in 0..n
    OBVIOUS
  <2>2. f[k] = f[k - 1] + w[k] /\ f[k - 1] \in Int /\ f[k] \in Int /\ w[k] \in Int
    BY <1>1, <2>1
  <2>3. h[k - 1] = IF k <= i THEN f[k - 1] ELSE f[k - 1] + c
    BY <2>1
  <2>4. QED
    BY <2>1, <2>2, <2>3
<1> HIDE DEF h
<1>5. \A k \in 1..n : v[k] \in Int
  OBVIOUS
<1>6. SumTo(v, n) = h[n]
  BY <1>2, <1>3, <1>4, <1>5, SumIs
<1>7. QED
  BY <1>1, <1>3, <1>6

(* A finite set is listed once each.                                       *)
LEMMA Listed ==
    ASSUME NEW S, IsFiniteSet(S)
    PROVE  /\ Cardinality(S) \in Nat
           /\ SetToSeq(S) \in [1..Cardinality(S) -> S]
           /\ \A i, j \in 1..Cardinality(S) : SetToSeq(S)[i] = SetToSeq(S)[j] => i = j
           /\ \A s \in S : \E i \in 1..Cardinality(S) : SetToSeq(S)[i] = s
<1> DEFINE N == Cardinality(S)
           Fits(f) == f \in [1..N -> S] /\ \A i, j \in 1..N : f[i] = f[j] => i = j
<1>1. N \in Nat /\ ExistsBijection(1..N, S)
  BY FS_CardinalityType
<1>2. \E f : Fits(f)
  BY <1>1 DEF ExistsBijection, Bijection, Injection, IsInjective
<1>3. SetToSeq(S) = CHOOSE f \in [1..N -> S] : IsInjective(f)
  BY DEF SetToSeq
<1>4. \A f \in [1..N -> S] : IsInjective(f) <=> \A i, j \in 1..N : f[i] = f[j] => i = j
  BY DEF IsInjective
<1> DEFINE l == SetToSeq(S)
<1>5. Fits(l)
  BY <1>2, <1>3, <1>4
<1> HIDE DEF l
<1>6. \A s \in S : \E i \in 1..N : l[i] = s
  <2>1. l \in Injection(1..N, S)
    BY <1>5 DEF Injection, IsInjective
  <2>2. Cardinality(1..N) = N
    BY <1>1, FS_Interval
  <2>3. l \in Surjection(1..N, S)
    BY <2>1, <2>2, FS_Injection
  <2>4. QED
    BY <2>3 DEF Surjection
<1> HIDE DEF Fits
<1>7. QED
  BY <1>1, <1>5, <1>6 DEF Fits, l

LEMMA OverInt ==
    ASSUME NEW S, IsFiniteSet(S), NEW f, \A s \in S : f[s] \in Int
    PROVE  SumOver(f, S) \in Int
<1> DEFINE n == Cardinality(S)
           w == [i \in 1..n |-> f[SetToSeq(S)[i]]]
<1>1. n \in Nat /\ \A k \in 1..n : w[k] \in Int
  BY Listed
<1>2. SumOver(f, S) = SumTo(w, n)
  BY DEF SumOver
<1> HIDE DEF n, w
<1>3. QED
  BY <1>1, <1>2, SumInt

LEMMA OverZero ==
    ASSUME NEW S, IsFiniteSet(S), NEW f, \A s \in S : f[s] = 0
    PROVE  SumOver(f, S) = 0
<1> DEFINE n == Cardinality(S)
           w == [i \in 1..n |-> f[SetToSeq(S)[i]]]
<1>1. n \in Nat /\ \A k \in 1..n : w[k] = 0
  BY Listed
<1>2. SumOver(f, S) = SumTo(w, n)
  BY DEF SumOver
<1> HIDE DEF n, w
<1>3. QED
  BY <1>1, <1>2, SumZero

(* One value that grows by c makes the sum grow by c.                      *)
LEMMA OverGrows ==
    ASSUME NEW S, IsFiniteSet(S), NEW f, \A s \in S : f[s] \in Int,
           NEW c \in Int, NEW e \in S, NEW g,
           \A s \in S : g[s] = IF s = e THEN f[s] + c ELSE f[s]
    PROVE  SumOver(g, S) = SumOver(f, S) + c
<1> DEFINE n == Cardinality(S)
           l == SetToSeq(S)
           w == [i \in 1..n |-> f[l[i]]]
           v == [i \in 1..n |-> g[l[i]]]
<1>1. /\ n \in Nat /\ l \in [1..n -> S]
      /\ \A i, j \in 1..n : l[i] = l[j] => i = j
      /\ \A s \in S : \E i \in 1..n : l[i] = s
  BY Listed
<1>2. SumOver(f, S) = SumTo(w, n) /\ SumOver(g, S) = SumTo(v, n)
  BY DEF SumOver
<1> HIDE DEF n, l
<1>3. \A k \in 1..n : w[k] \in Int
  BY <1>1
<1>4. PICK i \in 1..n : l[i] = e
  BY <1>1
<1>5. \A k \in 1..n : v[k] = IF k = i THEN w[k] + c ELSE w[k]
  BY <1>1, <1>4
<1> HIDE DEF w, v
<1>6. SumTo(v, n) = SumTo(w, n) + c
  <2>1. n \in Nat /\ i \in 1..n
    BY <1>1, <1>4
  <2>2. QED
    BY <1>3, <1>5, <2>1, SumGrows
<1>7. QED
  BY <1>2, <1>6

(* The instances have sums of their own.                                   *)
LEMMA SameSums ==
    ASSUME NEW f, NEW S, NEW n
    PROVE  /\ Ability!SumTo(f, n) = SumTo(f, n) /\ Progress!SumTo(f, n) = SumTo(f, n)
           /\ Ability!SumOver(f, S) = SumOver(f, S) /\ Progress!SumOver(f, S) = SumOver(f, S)
<1>1. Ability!SumTo(f, n) = SumTo(f, n) /\ Progress!SumTo(f, n) = SumTo(f, n)
  BY DEF Ability!SumTo, Progress!SumTo, SumTo
<1>2. /\ Ability!Cardinality(S) = Cardinality(S) /\ Progress!Cardinality(S) = Cardinality(S)
      /\ Ability!SetToSeq(S) = SetToSeq(S) /\ Progress!SetToSeq(S) = SetToSeq(S)
  BY DEF Ability!Cardinality, Progress!Cardinality, Cardinality, Ability!SetToSeq, Progress!SetToSeq, SetToSeq,
         Ability!IsInjective, Progress!IsInjective, IsInjective
<1>3. Ability!SumOver(f, S) = SumOver(f, S)
  <2>1. \A w : Ability!SumTo(w, Cardinality(S)) = SumTo(w, Cardinality(S))
    BY DEF Ability!SumTo, SumTo
  <2>2. QED
    BY <1>2, <2>1 DEF Ability!SumOver, SumOver
<1>4. Progress!SumOver(f, S) = SumOver(f, S)
  <2>1. \A w : Progress!SumTo(w, Cardinality(S)) = SumTo(w, Cardinality(S))
    BY DEF Progress!SumTo, SumTo
  <2>2. QED
    BY <1>2, <2>1 DEF Progress!SumOver, SumOver
<1>5. QED
  BY <1>1, <1>3, <1>4

-----------------------------------------------------------------------------
(* The level and the attribute points *)

Row == [level : Progress!Level, exp : Nat, gold : 0..Funds, stats : [Stat -> Nat]]
Kills == [kill : 1..MaxKills, level : Progress!Level, exp : Nat]
Top == Progress!TopLevel

LEMMA Levels ==
    /\ Top \in Nat /\ 1 <= Top /\ Progress!Level = 1..Top
    /\ \A l \in 2..Top : Need[l] \in Nat
    /\ PerLevel \in Nat /\ RespecCost \in Nat /\ Funds \in Nat /\ MaxKills \in Nat
    /\ Endurance \in Stat /\ IsFiniteSet(Stat) /\ Progress!None = -1
<1> DEFINE D == DOMAIN Need
           N == Cardinality(D) + 1
<1>1. /\ Progress!IsFiniteSet(D) /\ D = 2..(Progress!Cardinality(D) + 1) /\ Need \in [D -> Nat]
      /\ PerLevel \in Nat /\ RespecCost \in Nat /\ Funds \in Nat /\ MaxKills \in Nat
      /\ Endurance \in Stat /\ Progress!IsFiniteSet(Stat)
  BY HeroAssumption DEF Progress!NeedAssumption, Progress!StatAssumption
<1>2. IsFiniteSet(D) /\ IsFiniteSet(Stat) /\ Progress!Cardinality(D) = Cardinality(D)
  BY <1>1 DEF Progress!IsFiniteSet, IsFiniteSet, Progress!Cardinality, Cardinality
<1>3. N \in Nat /\ 1 <= N /\ D = 2..N
  <2>1. Cardinality(D) \in Nat
    BY <1>2, FS_CardinalityType
  <2>2. QED
    BY <1>1, <1>2, <2>1
<1>4. \A l \in 2..N : Need[l] \in Nat
  BY <1>1, <1>3
<1> HIDE DEF N
<1>5. Progress!Level = 1..N
  BY <1>3 DEF Progress!Level
<1>6. Top = N
  <2>1. Top = CHOOSE x \in 1..N : \A y \in 1..N : x >= y
    BY <1>5 DEF Top, Progress!TopLevel, Progress!Max
  <2>2. N \in 1..N /\ \A y \in 1..N : N >= y
    BY <1>3
  <2>3. Top \in 1..N /\ \A y \in 1..N : Top >= y
    BY <2>1, <2>2
  <2>4. QED
    BY <1>3, <2>2, <2>3
<1>7. QED
  BY <1>1, <1>2, <1>3, <1>4, <1>5, <1>6 DEF Progress!None

LEMMA SumSame ==
    ASSUME NEW n \in Nat, NEW w, \A k \in 1..n : w[k] \in Int,
           NEW v, \A k \in 1..n : v[k] = w[k]
    PROVE  SumTo(v, n) = SumTo(w, n)
<1>1. PICK f : /\ \A k \in 0..n : f[k] \in Int
               /\ f[0] = 0 /\ \A k \in 1..n : f[k] = f[k - 1] + w[k]
               /\ SumTo(w, n) = f[n]
  BY SumGoes
<1>2. /\ \A k \in 1..n : v[k] \in Int
      /\ \A k \in 1..n : f[k] = f[k - 1] + v[k]
  BY <1>1
<1>3. SumTo(v, n) = f[n]
  BY <1>1, <1>2, SumIs
<1>4. QED
  BY <1>1, <1>3

(* What the levels up to one take is what those below take, and its own.   *)
LEMMA OwedNext ==
    ASSUME NEW from \in 1..Top, NEW to \in from..Top
    PROVE  /\ Progress!Owed(from, from) = 0 /\ Progress!Owed(from, to) \in Int
           /\ to < Top => Progress!Owed(from, to + 1) = Progress!Owed(from, to) + Need[to + 1]
<1> DEFINE w(n) == [i \in 1..n |-> Need[from + i]]
<1>1. \A t \in Nat : Progress!Owed(from, t) = SumTo(w(t - from), t - from)
  <2> SUFFICES ASSUME NEW t \in Nat PROVE Progress!Owed(from, t) = SumTo(w(t - from), t - from)
    OBVIOUS
  <2>1. Progress!Owed(from, t) = Progress!SumTo(w(t - from), t - from)
    BY DEF Progress!Owed
  <2> DEFINE u == w(t - from)
             n == t - from
  <2>2. Progress!SumTo(u, n) = SumTo(u, n)
    BY SameSums
  <2>3. QED
    BY <2>1, <2>2
<1>2. Top \in Nat /\ from \in Nat /\ to \in Nat /\ to - from \in Nat
  BY Levels
<1>3. ASSUME NEW n \in Nat, from + n <= Top PROVE \A k \in 1..n : w(n)[k] = Need[from + k] /\ w(n)[k] \in Int
  <2> SUFFICES ASSUME NEW k \in 1..n PROVE w(n)[k] = Need[from + k] /\ w(n)[k] \in Int
    OBVIOUS
  <2>1. from + k \in 2..Top
    BY <1>2, <1>3
  <2>2. QED
    BY <2>1, Levels
<1> HIDE DEF w
<1>4. Progress!Owed(from, from) = 0
  <2>1. from - from = 0 /\ 0 \in Nat /\ \A k \in 1..0 : w(0)[k] = 0
    BY <1>2
  <2>2. SumTo(w(0), 0) = 0
    BY <2>1, SumZero
  <2>3. QED
    BY <1>1, <1>2, <2>1, <2>2
<1> DEFINE n == to - from
<1>5. n \in Nat /\ from + n = to /\ from + n <= Top
  BY <1>2
<1> HIDE DEF n
<1>6. Progress!Owed(from, to) = SumTo(w(n), n)
  BY <1>1, <1>2 DEF n
<1>7. \A k \in 1..n : w(n)[k] \in Int
  BY <1>3, <1>5
<1>8. Progress!Owed(from, to) \in Int
  BY <1>5, <1>6, <1>7, SumInt
<1>9. ASSUME to < Top PROVE Progress!Owed(from, to + 1) = Progress!Owed(from, to) + Need[to + 1]
  <2>1. to + 1 \in Nat /\ (to + 1) - from = n + 1 /\ n + 1 \in Nat /\ from + (n + 1) <= Top
    BY <1>2, <1>5, <1>9 DEF n
  <2>2. Progress!Owed(from, to + 1) = SumTo(w(n + 1), n + 1)
    <3>1. Progress!Owed(from, to + 1) = SumTo(w((to + 1) - from), (to + 1) - from)
      BY <1>1, <2>1
    <3>2. QED
      BY <2>1, <3>1
  <2>3. \A k \in 1..(n + 1) : w(n + 1)[k] = Need[from + k] /\ w(n + 1)[k] \in Int
    BY <1>3, <2>1
  <2>4. SumTo(w(n + 1), n + 1) = SumTo(w(n + 1), n) + w(n + 1)[n + 1]
    BY <1>5, <2>3, SumNext
  <2>5. SumTo(w(n + 1), n) = SumTo(w(n), n)
    <3>1. \A k \in 1..n : k \in 1..(n + 1)
      BY <1>5
    <3>2. \A k \in 1..n : w(n + 1)[k] = w(n)[k]
      BY <1>3, <1>5, <2>3, <3>1
    <3> DEFINE v == w(n + 1)
               u == w(n)
    <3>3. \A k \in 1..n : u[k] \in Int /\ v[k] = u[k]
      BY <1>7, <3>2
    <3> HIDE DEF v, u
    <3>4. SumTo(v, n) = SumTo(u, n)
      BY <1>5, <3>3, SumSame
    <3>5. QED
      BY <3>4 DEF v, u
  <2>6. w(n + 1)[n + 1] = Need[to + 1]
    <3>1. n + 1 \in 1..(n + 1) /\ from + (n + 1) = to + 1
      BY <1>2, <1>5
    <3>2. QED
      BY <2>3, <3>1
  <2>7. QED
    BY <1>6, <2>2, <2>4, <2>5, <2>6
<1>10. QED
  BY <1>4, <1>8, <1>9

(* The level reached is the first whose successor is out of reach.         *)
LEMMA XpApplied ==
    ASSUME NEW from \in Progress!Level, NEW exp \in Nat, NEW cap \in from..Top
    PROVE  /\ Progress!apply_xp(from, exp, cap).level \in from..cap
           /\ Progress!apply_xp(from, exp, cap).exp \in Nat
<1>1. /\ Top \in Nat /\ from \in 1..Top /\ from \in Nat /\ cap \in Nat /\ cap <= Top
      /\ from <= cap
  BY Levels
<1> DEFINE S == {l \in from..cap : l = cap \/ exp - Progress!Owed(from, l) < Need[l + 1]}
           to == Progress!Min(S)
<1>2. Progress!apply_xp(from, exp, cap) = [level |-> to, exp |-> exp - Progress!Owed(from, to)]
  BY DEF Progress!apply_xp
<1>3. S \in SUBSET Nat /\ S # {} /\ S \subseteq from..cap
  BY <1>1
<1>4. PICK k \in S : \A j \in S : k <= j
  BY <1>3, HasLeast
<1>5. to \in S /\ \A j \in S : to <= j
  BY <1>4 DEF Progress!Min
<1>6. to \in from..cap
  BY <1>3, <1>5
<1>7. ASSUME NEW l \in from..cap, l < to PROVE l # cap /\ Need[l + 1] <= exp - Progress!Owed(from, l)
  <2>1. l \notin S
    BY <1>1, <1>5, <1>6, <1>7
  <2>2. l \in from..Top /\ l + 1 \in 2..Top
    BY <1>1, <1>6, <1>7
  <2>3. Progress!Owed(from, l) \in Int /\ Need[l + 1] \in Nat
    BY <1>1, <2>2, OwedNext, Levels
  <2>4. QED
    BY <2>1, <2>3
<1> HIDE DEF S, to
<1> DEFINE n == to - from
           f == [i \in 0..n |-> exp - Progress!Owed(from, from + i)]
<1>8. n \in Nat /\ from + n = to /\ from + 0 = from
  BY <1>1, <1>6
<1>9. f[0] \in Nat
  BY <1>1, <1>8, OwedNext
<1>10. ASSUME NEW i \in 1..n, f[i - 1] \in Nat PROVE f[i] \in Nat
  <2> DEFINE l == from + (i - 1)
  <2>1. l \in from..cap /\ l < to /\ l + 1 = from + i /\ l \in from..Top /\ l < Top
        /\ i - 1 \in 0..n /\ i \in 0..n /\ l + 1 \in 2..Top
    BY <1>1, <1>6, <1>8
  <2>2. f[i - 1] = exp - Progress!Owed(from, l) /\ f[i] = exp - Progress!Owed(from, from + i)
    BY <2>1
  <2> HIDE DEF l, f
  <2>3. Need[l + 1] <= exp - Progress!Owed(from, l)
    BY <1>7, <2>1
  <2>4. Progress!Owed(from, l + 1) = Progress!Owed(from, l) + Need[l + 1] /\ Progress!Owed(from, l) \in Int
    BY <1>1, <2>1, OwedNext
  <2>5. Need[l + 1] \in Nat
    BY <2>1, Levels
  <2>6. f[i] = exp - Progress!Owed(from, l + 1)
    BY <2>1, <2>2
  <2>7. QED
    BY <2>3, <2>4, <2>5, <2>6
<1> HIDE DEF f
<1>11. \A i \in 0..n : f[i] \in Nat
  BY <1>8, <1>9, <1>10, Stays
<1>12. n \in 0..n
  BY <1>8
<1>13. f[n] = exp - Progress!Owed(from, to)
  BY <1>8, <1>12 DEF f
<1>14. f[n] \in Nat
  BY <1>11, <1>12
<1>15. QED
  BY <1>2, <1>6, <1>13, <1>14

LEMMA RowParts ==
    ASSUME NEW r \in Row
    PROVE  r.level \in Progress!Level /\ r.exp \in Nat /\ r.gold \in 0..Funds /\ r.stats \in [Stat -> Nat]
BY DEF Row

(* A row at another level.                                                 *)
LEMMA RowLevelled ==
    ASSUME NEW r \in Row, NEW l \in Progress!Level, NEW e \in Nat
    PROVE  /\ [r EXCEPT !.level = l, !.exp = e] \in Row
           /\ [r EXCEPT !.level = l, !.exp = e].level = l
           /\ [r EXCEPT !.level = l, !.exp = e].stats = r.stats
BY DEF Row

(* The greater of two numbers, and the lesser.                             *)
LEMMA Higher ==
    ASSUME NEW a \in Int, NEW b \in Int
    PROVE  Progress!Max({a, b}) \in {a, b} /\ Progress!Max({a, b}) >= a /\ Progress!Max({a, b}) >= b
<1>1. \E x \in {a, b} : \A y \in {a, b} : x >= y
  <2>1. CASE a >= b
    BY <2>1
  <2>2. CASE b >= a
    BY <2>2
  <2>3. QED
    BY <2>1, <2>2
<1>2. Progress!Max({a, b}) \in {a, b} /\ \A y \in {a, b} : Progress!Max({a, b}) >= y
  BY <1>1 DEF Progress!Max
<1>3. QED
  BY <1>2

LEMMA Lower ==
    ASSUME NEW a \in Nat, NEW b \in Nat
    PROVE  Progress!Min({a, b}) \in Nat
<1>1. \E x \in {a, b} : \A y \in {a, b} : x =< y
  <2>1. CASE a <= b
    BY <2>1
  <2>2. CASE b <= a
    BY <2>2
  <2>3. QED
    BY <2>1, <2>2
<1>2. Progress!Min({a, b}) \in {a, b}
  BY <1>1 DEF Progress!Min
<1>3. QED
  BY <1>2

(* A kill pays a row of the same points, at no lower level.                *)
LEMMA GrantedRow ==
    ASSUME NEW r \in Row, NEW accrueOnly \in BOOLEAN
    PROVE  /\ Progress!Granted(r, accrueOnly) \in Row
           /\ Progress!Granted(r, accrueOnly).level >= r.level
           /\ Progress!Granted(r, accrueOnly).stats = r.stats
<1> DEFINE cap == IF accrueOnly THEN r.level ELSE Top
           to == Progress!apply_xp(r.level, r.exp + 1, cap)
           l == to.level
           e == to.exp
<1>1. Progress!Granted(r, accrueOnly) = [r EXCEPT !.level = l, !.exp = e]
  BY DEF Progress!Granted, Top
<1>2. r.level \in 1..Top /\ r.exp \in Nat /\ Top \in Nat /\ r.level \in Progress!Level
  BY RowParts, Levels
<1>3. cap \in r.level..Top /\ r.exp + 1 \in Nat
  BY <1>2
<1> HIDE DEF cap
<1>4. l \in r.level..cap /\ e \in Nat
  BY <1>2, <1>3, XpApplied
<1> HIDE DEF l, e
<1>5. l \in Progress!Level /\ l >= r.level
  BY <1>2, <1>3, <1>4, Levels
<1>6. /\ [r EXCEPT !.level = l, !.exp = e] \in Row
      /\ [r EXCEPT !.level = l, !.exp = e].level = l
      /\ [r EXCEPT !.level = l, !.exp = e].stats = r.stats
  BY <1>4, <1>5, RowLevelled
<1>7. QED
  BY <1>1, <1>5, <1>6

(* A report snaps the row to no lower level, with its points.              *)
LEMMA SyncedRow ==
    ASSUME NEW r \in Row, NEW kill \in Kills
    PROVE  /\ Progress!sync_client_level(r, kill) \in Row
           /\ Progress!sync_client_level(r, kill).level >= r.level
           /\ Progress!sync_client_level(r, kill).stats = r.stats
<1> DEFINE up2 == Progress!Max({r.level, kill.level})
           L(c) == [l \in r.level..up2 |->
                        IF l = r.level THEN r.exp ELSE Progress!Max({0, c[l - 1] - Need[l]})]
           carried == CHOOSE c : c = L(c)
           e == IF ExactXp THEN kill.exp ELSE carried[up2]
<1>1. Progress!sync_client_level(r, kill) = [r EXCEPT !.level = up2, !.exp = e]
  BY DEF Progress!sync_client_level
<1>2. /\ r.level \in 1..Top /\ r.exp \in Nat /\ Top \in Nat /\ kill.level \in 1..Top
      /\ kill.exp \in Nat
  BY RowParts, Levels DEF Kills
<1>3. up2 \in 1..Top /\ up2 >= r.level
  <2>1. r.level \in Int /\ kill.level \in Int
    BY <1>2
  <2>2. up2 \in {r.level, kill.level} /\ up2 >= r.level
    BY <2>1, Higher
  <2> HIDE DEF up2
  <2>3. QED
    BY <1>2, <2>2
<1> HIDE DEF up2
<1>4. carried[up2] \in Nat
  <2> DEFINE n == up2 - r.level
             g == [p \in Nat \X (1..n) |-> Progress!Max({0, p[1] - Need[r.level + p[2]]})]
  <2>1. n \in Nat /\ r.level + n = up2 /\ r.level \in Nat /\ up2 \in Nat
    BY <1>2, <1>3
  <2>2. ASSUME NEW x \in Nat, NEW k \in 1..n
        PROVE  Progress!Max({0, x - Need[r.level + k]}) \in Nat
    <3>1. r.level + k \in 2..Top
      BY <1>2, <1>3, <2>1
    <3> DEFINE d == x - Need[r.level + k]
               o == 0
    <3>2. d \in Int /\ o \in Int
      BY <3>1, Levels
    <3> HIDE DEF d
    <3>3. Progress!Max({o, d}) \in {o, d} /\ Progress!Max({o, d}) >= o
      <4> HIDE DEF o
      <4>1. QED
        BY <3>2, Higher
    <3>4. Progress!Max({o, d}) \in Nat
      BY <3>2, <3>3
    <3>5. QED
      BY <3>4 DEF d
  <2>3. g \in [Nat \X (1..n) -> Nat]
        /\ \A x \in Nat, k \in 1..n : g[<<x, k>>] = Progress!Max({0, x - Need[r.level + k]})
    BY <2>2
  <2> HIDE DEF g, n
  <2>4. PICK h \in [0..n -> Nat] : Goes(h, r.exp, n, g)
    BY <1>2, <2>1, <2>3, Recurs
  <2> DEFINE c == [l \in r.level..up2 |-> h[l - r.level]]
  <2>5. ASSUME NEW l \in r.level..up2
        PROVE  c[l] = IF l = r.level THEN r.exp ELSE Progress!Max({0, c[l - 1] - Need[l]})
    <3>1. CASE l = r.level
      <4>1. l - r.level = 0
        BY <2>1, <3>1
      <4>2. QED
        BY <2>4, <3>1, <4>1 DEF Goes
    <3>2. CASE l # r.level
      <4> DEFINE k == l - r.level
      <4>1. k \in 1..n /\ k - 1 = (l - 1) - r.level /\ l - 1 \in r.level..up2 /\ r.level + k = l
            /\ k - 1 \in 0..n
        BY <2>1, <3>2
      <4>2. c[l] = h[k] /\ c[l - 1] = h[k - 1]
        BY <4>1
      <4> HIDE DEF k, c
      <4>3. h[k] = g[<<h[k - 1], k>>] /\ h[k - 1] \in Nat
        BY <2>4, <4>1 DEF Goes
      <4>4. h[k] = Progress!Max({0, h[k - 1] - Need[r.level + k]})
        BY <2>3, <4>1, <4>3
      <4>5. QED
        BY <3>2, <4>1, <4>2, <4>4
    <3>3. QED
      BY <3>1, <3>2
  <2>6. c = L(c)
    BY <2>5
  <2> HIDE DEF c, L
  <2>7. carried = L(carried)
    BY <2>6
  <2> HIDE DEF carried
  <2>8. carried[r.level] = r.exp
    <3>1. r.level \in r.level..up2
      BY <1>2, <1>3, <2>1
    <3>2. QED
      BY <2>7, <3>1 DEF L
  <2>8a. ASSUME NEW l \in (r.level + 1)..up2
         PROVE  carried[l] = Progress!Max({0, carried[l - 1] - Need[l]})
    <3>1. l \in r.level..up2 /\ l # r.level
      BY <2>1
    <3>2. QED
      BY <2>7, <3>1 DEF L
  <2> DEFINE f == [k \in 0..n |-> carried[r.level + k]]
  <2>9. f[0] \in Nat
    BY <1>2, <2>1, <2>8
  <2>10. ASSUME NEW k \in 1..n, f[k - 1] \in Nat PROVE f[k] \in Nat
    <3>1. k \in 0..n /\ k - 1 \in 0..n /\ r.level + (k - 1) = (r.level + k) - 1
          /\ r.level + k \in (r.level + 1)..up2
      BY <2>1
    <3>2. f[k] = carried[r.level + k] /\ f[k - 1] = carried[(r.level + k) - 1]
      BY <3>1
    <3> HIDE DEF f
    <3>3. f[k] = Progress!Max({0, f[k - 1] - Need[r.level + k]})
      BY <2>8a, <3>1, <3>2
    <3>4. QED
      BY <2>2, <2>10, <3>3
  <2> HIDE DEF f
  <2>11. \A k \in 0..n : f[k] \in Nat
    BY <2>1, <2>9, <2>10, Stays
  <2>12. n \in 0..n
    BY <2>1
  <2>13. f[n] = carried[up2]
    BY <2>1, <2>12 DEF f
  <2>14. QED
    BY <2>11, <2>12, <2>13
<1> HIDE DEF carried
<1>5. e \in Nat
  BY <1>2, <1>4
<1> HIDE DEF e
<1>6. up2 \in Progress!Level
  BY <1>3, Levels
<1>7. /\ [r EXCEPT !.level = up2, !.exp = e] \in Row
      /\ [r EXCEPT !.level = up2, !.exp = e].level = up2
      /\ [r EXCEPT !.level = up2, !.exp = e].stats = r.stats
  BY <1>5, <1>6, RowLevelled
<1>8. QED
  BY <1>1, <1>3, <1>7

(* What a level earns grows with it.                                       *)
LEMMA EarnsMore ==
    ASSUME NEW a \in 1..Top, NEW b \in a..Top
    PROVE  Progress!earned(a) \in Nat /\ Progress!earned(b) \in Nat /\ Progress!earned(a) <= Progress!earned(b)
<1>1. PerLevel \in Nat /\ a - 1 \in Nat /\ b - 1 \in Nat /\ b - a \in Nat
  BY Levels
<1>2. \A x, y \in Nat : x * y \in Nat
  OBVIOUS
<1>3. (a - 1) * PerLevel \in Nat /\ (b - 1) * PerLevel \in Nat /\ (b - a) * PerLevel \in Nat
  BY <1>1, <1>2
<1>4. (b - 1) * PerLevel = (a - 1) * PerLevel + (b - a) * PerLevel
  BY <1>1
<1>5. QED
  BY <1>3, <1>4 DEF Progress!earned

(* Health is above nothing.                                                *)
Hp == Nat \ {0}

LEMMA Healthy ==
    ASSUME NEW l \in Progress!Level, NEW stats \in [Stat -> Nat]
    PROVE  Progress!MaxHp(l, stats) \in Hp
<1>1. l \in Nat /\ stats[Endurance] \in Nat
  BY Levels
<1>2. QED
  BY <1>1 DEF Progress!MaxHp, Hp

LEMMA SynchHealthy ==
    ASSUME NEW max \in Hp, NEW reported
    PROVE  reported \in Hp \cup {Progress!None} => Progress!resolve_synch_hp_wire(max, reported) \in Hp
<1> SUFFICES ASSUME reported \in Hp \cup {Progress!None}
             PROVE  Progress!resolve_synch_hp_wire(max, reported) \in Hp
  OBVIOUS
<1>1. Progress!None = -1
  BY Levels
<1>2. QED
  BY <1>1 DEF Hp, Progress!resolve_synch_hp_wire

(* The points of a row.                                                    *)
Points(stats) == Progress!allocated_total(stats)
Afforded(r) == Points(r.stats) <= Progress!earned(r.level)

LEMMA PointsAre ==
    ASSUME NEW stats \in [Stat -> Nat]
    PROVE  Points(stats) = SumOver(stats, Stat) /\ Points(stats) \in Int
<1>1. Points(stats) = SumOver(stats, Stat)
  BY SameSums DEF Points, Progress!allocated_total
<1>2. IsFiniteSet(Stat) /\ \A s \in Stat : stats[s] \in Int
  BY Levels
<1>3. QED
  BY <1>1, <1>2, OverInt

LEMMA NoPointsAre ==
    Progress!NoPoints \in [Stat -> Nat] /\ Points(Progress!NoPoints) = 0
<1>1. Progress!NoPoints \in [Stat -> Nat] /\ \A s \in Stat : Progress!NoPoints[s] = 0
  BY DEF Progress!NoPoints
<1>2. SumOver(Progress!NoPoints, Stat) = 0
  BY <1>1, Levels, OverZero
<1>3. QED
  BY <1>1, <1>2, PointsAre

(* One point more or less, of a single attribute.                          *)
LEMMA PointMoves ==
    ASSUME NEW stats \in [Stat -> Nat], NEW s \in Stat, NEW c \in Int, stats[s] + c \in Nat
    PROVE  /\ [stats EXCEPT ![s] = @ + c] \in [Stat -> Nat]
           /\ Points([stats EXCEPT ![s] = @ + c]) = Points(stats) + c
<1> DEFINE g == [stats EXCEPT ![s] = @ + c]
<1>1. g \in [Stat -> Nat] /\ \A x \in Stat : g[x] = IF x = s THEN stats[x] + c ELSE stats[x]
  OBVIOUS
<1> HIDE DEF g
<1>2. IsFiniteSet(Stat) /\ \A x \in Stat : stats[x] \in Int
  BY Levels
<1>3. SumOver(g, Stat) = SumOver(stats, Stat) + c
  BY <1>1, <1>2, OverGrows
<1>4. Points(g) = Points(stats) + c
  BY <1>1, <1>3, PointsAre
<1>5. QED
  BY <1>1, <1>4 DEF g

(* The same points at a higher level are still afforded.                   *)
LEMMA StillAfforded ==
    ASSUME NEW r \in Row, Afforded(r), NEW q \in Row, q.level >= r.level, q.stats = r.stats
    PROVE  Afforded(q)
<1>1. r.level \in 1..Top /\ q.level \in r.level..Top /\ Points(r.stats) \in Int
  BY RowParts, Levels, PointsAre
<1>2. /\ Progress!earned(r.level) \in Nat /\ Progress!earned(q.level) \in Nat
      /\ Progress!earned(r.level) <= Progress!earned(q.level)
  BY <1>1, EarnsMore
<1>3. QED
  BY <1>1, <1>2 DEF Afforded

(* Whatever is under way to the client, taken in order, leads its panel to *)
(* the points of the row: f goes through the answers.                      *)
Panel == [Stat -> Nat]
Cli == [level : Progress!Level, exp : Nat, hp : Nat, stats : Panel, in : BOOLEAN]
Tally == [kills : Nat, hurts : Nat, moves : Nat, spends : Nat]
Requests ==
    [t : {"hp", "travel", "respawn", "join"}, n : Nat]
        \cup [t : {"spend", "return", "respec"}, n : Stat]
Replies ==
    [t : {"points"}, s : Stat, n : {1, -1}] \cup [t : {"cleared", "load", "revive"}]
        \cup [t : {"avatar"}, r : Row]

After(stats, m) ==
    IF m.t = "points" THEN [stats EXCEPT ![m.s] = @ + m.n]
    ELSE IF m.t = "cleared" THEN Progress!NoPoints
    ELSE IF m.t = "avatar" THEN m.r.stats ELSE stats

Leads(stats, d, end) ==
    \E f \in [0..Len(d) -> Panel] :
        /\ f[0] = stats /\ f[Len(d)] = end
        /\ \A k \in 1..Len(d) : f[k] = After(f[k - 1], d[k])

HeroTypes ==
    /\ row \in Row /\ cooling \in BOOLEAN /\ hooked \in BOOLEAN
    /\ hpWire \in Hp /\ clientHp \in Hp \cup {Progress!None}
    /\ unpaid \subseteq 1..MaxKills /\ cli \in Cli /\ tally \in Tally
Mail == hook \in Seq(Kills) /\ sent \in Seq(Requests) /\ down \in Seq(Replies)
Answered == Leads(cli.stats, down, row.stats)

Playing == HeroTypes /\ Mail /\ Afforded(row) /\ Answered

LEMMA LeadsNowhere ==
    ASSUME NEW stats \in Panel, NEW end \in Panel
    PROVE  Leads(stats, <<>>, end) <=> stats = end
<1>1. Len(<<>>) = 0 /\ 0..0 = {0}
  OBVIOUS
<1>2. ASSUME Leads(stats, <<>>, end) PROVE stats = end
  BY <1>1, <1>2 DEF Leads
<1>3. ASSUME stats = end PROVE Leads(stats, <<>>, end)
  <2> DEFINE f == [k \in 0..0 |-> stats]
  <2>1. f \in [0..0 -> Panel] /\ f[0] = stats /\ f[0] = end
    BY <1>3
  <2> HIDE DEF f
  <2>2. \A k \in 1..0 : f[k] = After(f[k - 1], <<>>[k])
    OBVIOUS
  <2>3. QED
    BY <1>1, <2>1, <2>2 DEF Leads
<1>4. QED
  BY <1>2, <1>3

LEMMA LeadsOn ==
    ASSUME NEW stats \in Panel, NEW d \in Seq(Replies), NEW end \in Panel,
           Leads(stats, d, end), NEW m \in Replies, After(end, m) \in Panel
    PROVE  Leads(stats, Append(d, m), After(end, m))
<1> DEFINE n == Len(d)
           e == Append(d, m)
<1>1. n \in Nat /\ Len(e) = n + 1 /\ e[n + 1] = m /\ \A k \in 1..n : e[k] = d[k]
  OBVIOUS
<1>2. PICK f \in [0..n -> Panel] :
        /\ f[0] = stats /\ f[n] = end
        /\ \A k \in 1..n : f[k] = After(f[k - 1], d[k])
  BY DEF Leads
<1> HIDE DEF n, e
<1> DEFINE g == [k \in 0..(n + 1) |-> IF k = n + 1 THEN After(end, m) ELSE f[k]]
<1>3. g \in [0..(n + 1) -> Panel]
  <2>1. ASSUME NEW k \in 0..(n + 1), k # n + 1 PROVE f[k] \in Panel
    <3>1. k \in 0..n
      BY <1>1, <2>1
    <3>2. QED
      BY <3>1
  <2>2. QED
    BY <2>1
<1>4. g[0] = stats /\ g[n + 1] = After(end, m)
  BY <1>1, <1>2
<1>5. ASSUME NEW k \in 1..(n + 1) PROVE g[k] = After(g[k - 1], e[k])
  <2>1. CASE k = n + 1
    <3>1. k - 1 = n /\ n \in 0..(n + 1) /\ n # n + 1 /\ k \in 0..(n + 1)
      BY <1>1, <2>1
    <3>2. g[k - 1] = end
      BY <1>2, <3>1
    <3>3. QED
      BY <1>1, <1>4, <2>1, <3>2
  <2>2. CASE k # n + 1
    <3>1. k \in 1..n /\ k - 1 \in 0..(n + 1) /\ k - 1 # n + 1 /\ k \in 0..(n + 1)
      BY <1>1, <2>2
    <3>2. g[k] = f[k] /\ g[k - 1] = f[k - 1] /\ e[k] = d[k]
      BY <1>1, <2>2, <3>1
    <3>3. QED
      BY <1>2, <3>1, <3>2
  <2>3. QED
    BY <2>1, <2>2
<1> HIDE DEF g
<1>6. Leads(stats, e, After(end, m))
  BY <1>1, <1>3, <1>4, <1>5 DEF Leads
<1>7. QED
  BY <1>6 DEF e

LEMMA LeadsThrough ==
    ASSUME NEW stats \in Panel, NEW d \in Seq(Replies), d # <<>>, NEW end \in Panel,
           Leads(stats, d, end)
    PROVE  /\ After(stats, Head(d)) \in Panel
           /\ Leads(After(stats, Head(d)), Tail(d), end)
<1> DEFINE n == Len(d)
           e == Tail(d)
<1>1. /\ n \in Nat /\ n >= 1 /\ Len(e) = n - 1 /\ n - 1 \in Nat /\ Head(d) = d[1]
      /\ \A k \in 1..(n - 1) : e[k] = d[k + 1]
  OBVIOUS
<1>2. PICK f \in [0..n -> Panel] :
        /\ f[0] = stats /\ f[n] = end
        /\ \A k \in 1..n : f[k] = After(f[k - 1], d[k])
  BY DEF Leads
<1> HIDE DEF n, e
<1> DEFINE g == [k \in 0..(n - 1) |-> f[k + 1]]
<1>3. f[1] = After(stats, Head(d)) /\ f[1] \in Panel
  <2>1. 1 \in 1..n /\ 1 \in 0..n /\ 1 - 1 = 0
    BY <1>1
  <2>2. f[1] = After(f[1 - 1], d[1])
    BY <1>2, <2>1
  <2>3. QED
    BY <1>1, <1>2, <2>1, <2>2
<1>4. g \in [0..(n - 1) -> Panel]
  <2>1. \A k \in 0..(n - 1) : k + 1 \in 0..n
    BY <1>1
  <2>2. QED
    BY <2>1
<1>5. g[0] = f[1] /\ g[n - 1] = end
  <2>1. 0 \in 0..(n - 1) /\ n - 1 \in 0..(n - 1) /\ 0 + 1 = 1 /\ (n - 1) + 1 = n
    BY <1>1
  <2>2. QED
    BY <1>2, <2>1
<1>6. ASSUME NEW k \in 1..(n - 1) PROVE g[k] = After(g[k - 1], e[k])
  <2>1. /\ k \in 0..(n - 1) /\ k - 1 \in 0..(n - 1) /\ k + 1 \in 1..n
        /\ (k - 1) + 1 = k /\ (k + 1) - 1 = k
    BY <1>1
  <2>2. g[k] = f[k + 1] /\ g[k - 1] = f[k]
    BY <2>1
  <2>3. f[k + 1] = After(f[(k + 1) - 1], d[k + 1])
    BY <1>2, <2>1
  <2>4. QED
    BY <1>1, <2>1, <2>2, <2>3
<1> HIDE DEF g
<1>7. Leads(f[1], e, end)
  BY <1>1, <1>4, <1>5, <1>6 DEF Leads
<1>8. QED
  BY <1>3, <1>7 DEF e

LEMMA PlayingInit == Init => Playing
<1> SUFFICES ASSUME Init PROVE Playing
  OBVIOUS
<1>1. Progress!Init
  BY DEF Init
<1>2. /\ row = [level |-> 1, exp |-> 0, gold |-> Funds, stats |-> Progress!NoPoints]
      /\ cooling = FALSE /\ hooked \in BOOLEAN
      /\ hpWire = Progress!MaxHp(1, Progress!NoPoints) /\ clientHp = Progress!None
      /\ unpaid = {} /\ hook = <<>> /\ sent = <<>> /\ down = <<>>
      /\ cli = [level |-> 1, exp |-> 0, hp |-> Progress!MaxHp(1, Progress!NoPoints),
                stats |-> Progress!NoPoints, in |-> TRUE]
      /\ tally = [kills |-> 0, hurts |-> 0, moves |-> 0, spends |-> 0]
  BY <1>1 DEF Progress!Init
<1>3. Progress!NoPoints \in Panel /\ Points(Progress!NoPoints) = 0
  BY NoPointsAre DEF Panel
<1>4. 1 \in Progress!Level /\ 1 \in 1..Top /\ Funds \in Nat
  BY Levels
<1>5. Progress!MaxHp(1, Progress!NoPoints) \in Hp
  BY <1>3, <1>4, Healthy DEF Panel
<1>6. Progress!MaxHp(1, Progress!NoPoints) \in Nat
  BY <1>5 DEF Hp
<1>7. row \in Row /\ row.level = 1 /\ row.stats = Progress!NoPoints
  BY <1>2, <1>3, <1>4 DEF Row, Panel
<1>8. cli \in Cli /\ cli.stats = Progress!NoPoints
  BY <1>2, <1>3, <1>4, <1>6 DEF Cli
<1>9. HeroTypes
  BY <1>2, <1>5, <1>7, <1>8 DEF HeroTypes, Tally
<1>10. Mail
  BY <1>2 DEF Mail
<1>11. Afforded(row)
  <2>1. 1 \in 1..Top /\ 1 \in 1..1 /\ Top >= 1 /\ 1 \in 1..Top
    BY <1>4
  <2>2. Progress!earned(1) \in Nat
    BY <1>4, EarnsMore
  <2>3. QED
    BY <1>3, <1>7, <2>2 DEF Afforded
<1>12. Answered
  BY <1>2, <1>3, <1>7, <1>8, LeadsNowhere DEF Answered
<1>13. QED
  BY <1>9, <1>10, <1>11, <1>12 DEF Playing

-----------------------------------------------------------------------------
(* Kills *)

(* A level-up keeps what the client reported.                              *)
LEMMA LevelledPlays ==
    ASSUME Playing, NEW r \in Row, r.level >= row.level, r.stats = row.stats, Progress!Levelled(r)
    PROVE  /\ row' = r /\ hpWire' \in Hp /\ clientHp' \in Hp \cup {Progress!None}
           /\ Afforded(r)
<1>1. row \in Row /\ hpWire \in Hp /\ clientHp \in Hp \cup {Progress!None} /\ Afforded(row)
  BY DEF Playing, HeroTypes
<1>2. row' = r
  BY DEF Progress!Levelled
<1>3. Afforded(r)
  BY <1>1, StillAfforded
<1>4. CASE r.level # row.level
  <2>1. /\ clientHp' = clientHp
        /\ hpWire' = Progress!resolve_synch_hp_wire(Progress!MaxHp(r.level, r.stats), clientHp')
    BY <1>4 DEF Progress!Levelled, Progress!RefreshAvatarHp
  <2>2. Progress!MaxHp(r.level, r.stats) \in Hp
    BY RowParts, Healthy
  <2>3. QED
    BY <1>1, <1>2, <1>3, <2>1, <2>2, SynchHealthy
<1>5. CASE r.level = row.level
  BY <1>1, <1>2, <1>3, <1>5 DEF Progress!Levelled
<1>6. QED
  BY <1>4, <1>5

LEMMA HookKillPlays ==
    ASSUME Playing, Progress!HookKill
    PROVE  Playing'
<1> DEFINE kill == Head(hook)
           synced == Progress!sync_client_level(row, kill)
           q == IF kill.kill \in unpaid THEN Progress!Granted(synced, TRUE) ELSE synced
<1>1. /\ hook # <<>> /\ hook' = Tail(hook) /\ Progress!Levelled(q) /\ unpaid' = unpaid \ {kill.kill}
      /\ UNCHANGED <<cooling, hooked, sent, down, cli, tally>>
  BY DEF Progress!HookKill
<1>2. row \in Row /\ hook \in Seq(Kills) /\ kill \in Kills /\ Tail(hook) \in Seq(Kills)
  BY <1>1 DEF Playing, HeroTypes, Mail
<1>3. synced \in Row /\ synced.level >= row.level /\ synced.stats = row.stats
  BY <1>2, SyncedRow
<1> HIDE DEF synced
<1>4. /\ Progress!Granted(synced, TRUE) \in Row /\ Progress!Granted(synced, TRUE).level >= synced.level
      /\ Progress!Granted(synced, TRUE).stats = synced.stats
  BY <1>3, GrantedRow
<1>5. q \in Row /\ q.level >= row.level /\ q.stats = row.stats
  <2>1. ASSUME NEW x \in Row PROVE x.level \in Int
    BY RowParts, Levels
  <2> DEFINE g == Progress!Granted(synced, TRUE)
  <2>2. g \in Row /\ g.level >= synced.level /\ g.stats = synced.stats
    BY <1>4
  <2>3. q = g \/ q = synced
    OBVIOUS
  <2> HIDE DEF g, q
  <2>4. g.level >= row.level
    <3>1. g.level \in Int /\ synced.level \in Int /\ row.level \in Int
      BY <1>2, <1>3, <2>1, <2>2
    <3>2. QED
      BY <1>3, <2>2, <3>1
  <2>5. QED
    BY <1>3, <2>2, <2>3, <2>4
<1> HIDE DEF q
<1>6. /\ row' = q /\ hpWire' \in Hp /\ clientHp' \in Hp \cup {Progress!None} /\ Afforded(q)
  BY <1>1, <1>5, LevelledPlays
<1>7. HeroTypes'
  BY <1>1, <1>5, <1>6 DEF Playing, HeroTypes
<1>8. Mail' /\ Afforded(row)' /\ Answered'
  BY <1>1, <1>2, <1>5, <1>6 DEF Playing, Mail, Answered, Afforded
<1>9. QED
  BY <1>7, <1>8 DEF Playing

LEMMA ReplayedKillPlays ==
    ASSUME Playing, Progress!ReplayedKill
    PROVE  Playing'
<1> DEFINE q == Progress!Granted(row, FALSE)
<1>1. /\ Progress!Levelled(q) /\ unpaid' \subseteq unpaid
      /\ UNCHANGED <<cooling, hooked, hook, sent, down, cli, tally>>
  BY DEF Progress!ReplayedKill, Progress!netVars
<1>2. row \in Row
  BY DEF Playing, HeroTypes
<1>3. q \in Row /\ q.level >= row.level /\ q.stats = row.stats
  BY <1>2, GrantedRow
<1> HIDE DEF q
<1>4. /\ row' = q /\ hpWire' \in Hp /\ clientHp' \in Hp \cup {Progress!None} /\ Afforded(q)
  BY <1>1, <1>3, LevelledPlays
<1>5. HeroTypes'
  BY <1>1, <1>3, <1>4 DEF Playing, HeroTypes
<1>6. Mail' /\ Afforded(row)' /\ Answered'
  BY <1>1, <1>3, <1>4 DEF Playing, Mail, Answered, Afforded
<1>7. QED
  BY <1>5, <1>6 DEF Playing

LEMMA CountedIn ==
    ASSUME tally \in Tally, NEW what \in {"kills", "hurts", "moves", "spends"}, Progress!Counted(what)
    PROVE  tally' \in Tally
BY DEF Progress!Counted, Tally

(* What the client does on its own leaves its panel alone.                 *)
LEMMA ClientKillsPlays ==
    ASSUME Playing, Progress!ClientKills
    PROVE  Playing'
<1> DEFINE to == Progress!apply_xp(cli.level, cli.exp + 1, Top)
           k == tally.kills + 1
           h == IF to.level > cli.level THEN Progress!MaxHp(to.level, cli.stats) ELSE cli.hp
           kill == [kill |-> k, level |-> to.level, exp |-> to.exp]
<1>1. /\ tally.kills < MaxKills /\ cli.level < Top
      /\ cli' = [cli EXCEPT !.level = to.level, !.exp = to.exp, !.hp = h]
      /\ unpaid' = unpaid \cup {k}
      /\ hook' = IF hooked THEN Append(hook, kill) ELSE hook
      /\ Progress!Counted("kills")
      /\ UNCHANGED <<row, cooling, hpWire, clientHp, hooked, sent, down>>
  BY DEF Progress!ClientKills, Top
<1>2. /\ cli \in Cli /\ tally \in Tally /\ hook \in Seq(Kills) /\ row \in Row
      /\ unpaid \subseteq 1..MaxKills
  BY DEF Playing, HeroTypes, Mail
<1>3. cli.level \in Progress!Level /\ cli.exp \in Nat /\ cli.hp \in Nat /\ cli.stats \in [Stat -> Nat]
  BY <1>2 DEF Cli, Panel
<1>4. to.level \in cli.level..Top /\ to.exp \in Nat
  <2>1. cli.exp + 1 \in Nat /\ Top \in cli.level..Top
    BY <1>3, Levels
  <2>2. QED
    BY <1>3, <2>1, XpApplied
<1> HIDE DEF to
<1>5. to.level \in Progress!Level
  BY <1>3, <1>4, Levels
<1>6. k \in 1..MaxKills
  <2>1. tally.kills \in Nat /\ MaxKills \in Nat
    BY <1>2, Levels DEF Tally
  <2>2. QED
    BY <1>1, <2>1
<1> HIDE DEF k
<1>7. h \in Nat
  <2>1. Progress!MaxHp(to.level, cli.stats) \in Hp
    BY <1>3, <1>5, Healthy
  <2>2. QED
    BY <1>3, <2>1 DEF Hp
<1> HIDE DEF h
<1>8. kill \in Kills
  BY <1>4, <1>5, <1>6 DEF Kills
<1> HIDE DEF kill
<1>9. hook' \in Seq(Kills)
  BY <1>1, <1>2, <1>8
<1>10. cli' \in Cli /\ cli'.stats = cli.stats
  <2> DEFINE l == to.level
             e == to.exp
  <2>1. l \in Progress!Level /\ e \in Nat /\ cli' = [cli EXCEPT !.level = l, !.exp = e, !.hp = h]
    BY <1>1, <1>4, <1>5
  <2> HIDE DEF l, e
  <2>2. \A c \in Cli : /\ [c EXCEPT !.level = l, !.exp = e, !.hp = h] \in Cli
                       /\ [c EXCEPT !.level = l, !.exp = e, !.hp = h].stats = c.stats
    BY <1>7, <2>1 DEF Cli
  <2>3. QED
    BY <1>2, <2>1, <2>2
<1>11. tally' \in Tally
  BY <1>1, <1>2, CountedIn
<1>12. HeroTypes'
  BY <1>1, <1>2, <1>6, <1>10, <1>11 DEF Playing, HeroTypes
<1>13. Mail' /\ Afforded(row)' /\ Answered'
  BY <1>1, <1>9, <1>10 DEF Playing, Mail, Answered, Afforded
<1>14. QED
  BY <1>12, <1>13 DEF Playing

LEMMA HookChangesPlays ==
    ASSUME Playing, Progress!HookChanges
    PROVE  Playing'
<1>1. /\ Progress!Counted("moves") /\ hooked' = ~hooked /\ hook' = IF hooked THEN <<>> ELSE hook
      /\ UNCHANGED <<row, cooling, hpWire, clientHp, unpaid, sent, down, cli>>
  BY DEF Progress!HookChanges
<1>2. tally' \in Tally
  BY <1>1, CountedIn DEF Playing, HeroTypes
<1>3. HeroTypes'
  BY <1>1, <1>2 DEF Playing, HeroTypes
<1>4. Mail' /\ Afforded(row)' /\ Answered'
  BY <1>1 DEF Playing, HeroTypes, Mail, Answered, Afforded
<1>5. QED
  BY <1>3, <1>4 DEF Playing

-----------------------------------------------------------------------------
(* The client of the character *)

(* The health of the client changes, and nothing it shows.                 *)
LEMMA CliHurts ==
    ASSUME NEW c \in Cli, NEW h \in Nat
    PROVE  [c EXCEPT !.hp = h] \in Cli /\ [c EXCEPT !.hp = h].stats = c.stats
BY DEF Cli

LEMMA ClientHurtPlays ==
    ASSUME Playing, Progress!ClientHurt
    PROVE  Playing'
<1> DEFINE h == cli.hp - 1
<1>1. /\ cli.hp > 0 /\ Progress!Counted("hurts") /\ cli' = [cli EXCEPT !.hp = h]
      /\ UNCHANGED <<row, cooling, hpWire, clientHp, hooked, unpaid, hook, sent, down>>
  BY DEF Progress!ClientHurt, Progress!netVars
<1>2. cli \in Cli /\ tally' \in Tally
  BY <1>1, CountedIn DEF Playing, HeroTypes
<1>3. h \in Nat
  <2>1. cli.hp \in Nat
    BY <1>2 DEF Cli
  <2>2. QED
    BY <1>1, <2>1
<1> HIDE DEF h
<1>4. cli' \in Cli /\ cli'.stats = cli.stats
  BY <1>1, <1>2, <1>3, CliHurts
<1>5. HeroTypes'
  BY <1>1, <1>2, <1>4 DEF Playing, HeroTypes
<1>6. Mail' /\ Afforded(row)' /\ Answered'
  BY <1>1, <1>4 DEF Playing, Mail, Answered, Afforded
<1>7. QED
  BY <1>5, <1>6 DEF Playing

LEMMA ClientRegainsPlays ==
    ASSUME Playing, Progress!ClientRegains
    PROVE  Playing'
<1> DEFINE h == Progress!MaxHp(cli.level, cli.stats)
<1>1. /\ cli' = [cli EXCEPT !.hp = h]
      /\ UNCHANGED <<row, cooling, hpWire, clientHp, hooked, unpaid, hook, sent, down, tally>>
  BY DEF Progress!ClientRegains, Progress!netVars
<1>2. cli \in Cli
  BY DEF Playing, HeroTypes
<1>3. h \in Nat
  <2>1. cli.level \in Progress!Level /\ cli.stats \in [Stat -> Nat]
    BY <1>2 DEF Cli, Panel
  <2>2. QED
    BY <2>1, Healthy DEF Hp
<1> HIDE DEF h
<1>4. cli' \in Cli /\ cli'.stats = cli.stats
  BY <1>1, <1>2, <1>3, CliHurts
<1>5. HeroTypes'
  BY <1>1, <1>4 DEF Playing, HeroTypes
<1>6. Mail' /\ Afforded(row)' /\ Answered'
  BY <1>1, <1>4 DEF Playing, Mail, Answered, Afforded
<1>7. QED
  BY <1>5, <1>6 DEF Playing

(* A request joins the queue to the server.                                *)
LEMMA SendsPlays ==
    ASSUME Playing, NEW m \in Requests, Progress!ClientSends(m), tally' \in Tally,
           UNCHANGED <<row, cooling, hpWire, clientHp, hooked, unpaid, hook, cli>>
    PROVE  Playing'
<1>1. sent' = Append(sent, m) /\ down' = down
  BY DEF Progress!ClientSends
<1>2. sent' \in Seq(Requests)
  BY <1>1 DEF Playing, Mail
<1>3. HeroTypes'
  BY DEF Playing, HeroTypes
<1>4. Mail' /\ Afforded(row)' /\ Answered'
  BY <1>1, <1>2 DEF Playing, Mail, Answered, Afforded
<1>5. QED
  BY <1>3, <1>4 DEF Playing

LEMMA ClientReportsPlays ==
    ASSUME Playing, Progress!ClientReports
    PROVE  Playing'
<1> DEFINE m == [t |-> "hp", n |-> cli.hp]
<1>1. /\ Progress!ClientSends(m)
      /\ UNCHANGED <<row, cooling, hpWire, clientHp, hooked, unpaid, hook, cli, tally>>
  BY DEF Progress!ClientReports
<1>2. cli.hp \in Nat /\ tally' \in Tally
  BY <1>1 DEF Playing, HeroTypes, Cli
<1>3. m \in Requests
  BY <1>2 DEF Requests
<1> HIDE DEF m
<1>4. QED
  BY <1>1, <1>2, <1>3, SendsPlays

LEMMA ClientAsksPlays ==
    ASSUME Playing, Progress!ClientAsks
    PROVE  Playing'
<1>1. PICK s \in Stat, what \in {"spend", "return", "respec"} :
        Progress!ClientSends([t |-> what, n |-> s])
  BY DEF Progress!ClientAsks
<1> DEFINE m == [t |-> what, n |-> s]
<1>2. /\ Progress!Counted("spends")
      /\ UNCHANGED <<row, cooling, hpWire, clientHp, hooked, unpaid, hook, cli>>
  BY DEF Progress!ClientAsks
<1>3. tally' \in Tally
  BY <1>2, CountedIn DEF Playing, HeroTypes
<1>4. m \in Requests /\ Progress!ClientSends(m)
  BY <1>1 DEF Requests
<1> HIDE DEF m
<1>5. QED
  BY <1>2, <1>3, <1>4, SendsPlays

LEMMA ClientMovesPlays ==
    ASSUME Playing, Progress!ClientMoves
    PROVE  Playing'
<1>1. PICK what \in {"travel", "respawn"} : Progress!ClientSends([t |-> what, n |-> 0])
  BY DEF Progress!ClientMoves
<1> DEFINE m == [t |-> what, n |-> 0]
<1>2. /\ Progress!Counted("moves")
      /\ UNCHANGED <<row, cooling, hpWire, clientHp, hooked, unpaid, hook, cli>>
  BY DEF Progress!ClientMoves
<1>3. tally' \in Tally
  BY <1>2, CountedIn DEF Playing, HeroTypes
<1>4. m \in Requests /\ Progress!ClientSends(m)
  BY <1>1 DEF Requests
<1> HIDE DEF m
<1>5. QED
  BY <1>2, <1>3, <1>4, SendsPlays

(* What the client shows changes, and the health it leaves.                *)
LEMMA CliShows ==
    ASSUME NEW c \in Cli, NEW q \in Panel, NEW h \in Nat
    PROVE  [c EXCEPT !.stats = q, !.hp = h] \in Cli /\ [c EXCEPT !.stats = q, !.hp = h].stats = q
BY DEF Cli

LEMMA RepliesAre ==
    ASSUME NEW m \in Replies
    PROVE  /\ m.t \in {"points", "cleared", "load", "revive", "avatar"}
           /\ m.t = "points" => m.s \in Stat /\ m.n \in Int
           /\ m.t = "avatar" => m.r \in Row
BY DEF Replies

(* A packet does to the panel what After says, and leaves the client one.  *)
LEMMA ClientTakesPlays ==
    ASSUME Playing, Progress!ClientTakes
    PROVE  Playing'
<1> DEFINE m == Head(down)
<1>1. /\ down # <<>> /\ down' = Tail(down)
      /\ cli' = CASE m.t = "points" ->
                        [cli EXCEPT !.stats[m.s] = @ + m.n,
                                    !.hp = Progress!Min({@, Progress!MaxHp(cli.level,
                                                [cli.stats EXCEPT ![m.s] = @ + m.n])})]
                    [] m.t = "cleared" ->
                        [cli EXCEPT !.stats = Progress!NoPoints,
                                    !.hp = Progress!Min({@, Progress!MaxHp(cli.level, Progress!NoPoints)})]
                    [] m.t = "load" -> [cli EXCEPT !.in = FALSE]
                    [] m.t = "avatar" ->
                        [level |-> m.r.level, exp |-> m.r.exp, stats |-> m.r.stats,
                         hp |-> Progress!MaxHp(m.r.level, m.r.stats), in |-> TRUE]
                    [] m.t = "revive" ->
                        [cli EXCEPT !.hp = Progress!MaxHp(cli.level, cli.stats)]
      /\ sent' = IF m.t = "load" THEN Append(sent, [t |-> "join", n |-> 0]) ELSE sent
      /\ UNCHANGED <<row, cooling, hpWire, clientHp, hooked, unpaid, hook, tally>>
  BY DEF Progress!ClientTakes
<1>2. /\ cli \in Cli /\ row \in Row /\ down \in Seq(Replies) /\ sent \in Seq(Requests)
      /\ Answered
  BY DEF Playing, HeroTypes, Mail
<1>3. m \in Replies /\ Tail(down) \in Seq(Replies)
  BY <1>1, <1>2
<1>4. cli.level \in Progress!Level /\ cli.stats \in Panel /\ cli.hp \in Nat /\ row.stats \in Panel
  BY <1>2 DEF Cli, Row, Panel
<1>5. /\ After(cli.stats, m) \in Panel
      /\ Leads(After(cli.stats, m), Tail(down), row.stats)
  BY <1>1, <1>2, <1>4, LeadsThrough DEF Answered
<1>6. /\ m.t \in {"points", "cleared", "load", "revive", "avatar"}
      /\ m.t = "points" => m.s \in Stat /\ m.n \in Int
      /\ m.t = "avatar" => m.r \in Row
  BY <1>3, RepliesAre
<1> HIDE DEF m
<1>7. ASSUME NEW q \in Panel, NEW l \in Progress!Level
      PROVE  Progress!MaxHp(l, q) \in Nat /\ Progress!Min({cli.hp, Progress!MaxHp(l, q)}) \in Nat
  <2> DEFINE x == Progress!MaxHp(l, q)
             y == cli.hp
  <2>1. x \in Nat /\ y \in Nat
    BY <1>4, Healthy DEF Panel, Hp
  <2> HIDE DEF x, y
  <2>2. Progress!Min({y, x}) \in Nat
    BY <2>1, Lower
  <2>3. QED
    BY <2>1, <2>2 DEF x, y
<1>8. cli' \in Cli /\ cli'.stats = After(cli.stats, m)
  <2>1. CASE m.t = "points"
    <3> DEFINE q == [cli.stats EXCEPT ![m.s] = @ + m.n]
               h == Progress!Min({cli.hp, Progress!MaxHp(cli.level, q)})
    <3>1. cli' = [cli EXCEPT !.stats[m.s] = @ + m.n, !.hp = h]
      BY <1>1, <2>1
    <3>2. After(cli.stats, m) = q /\ q \in Panel
      BY <1>5, <2>1 DEF After
    <3> HIDE DEF q
    <3>3. h \in Nat
      BY <1>4, <1>7, <3>2
    <3> HIDE DEF h
    <3>4. /\ [cli EXCEPT !.stats[m.s] = @ + m.n, !.hp = h] \in Cli
          /\ [cli EXCEPT !.stats[m.s] = @ + m.n, !.hp = h].stats = q
      <4>1. [cli EXCEPT !.stats[m.s] = @ + m.n, !.hp = h] = [cli EXCEPT !.stats = q, !.hp = h]
        BY <1>2 DEF Cli, q
      <4>2. [cli EXCEPT !.stats = q, !.hp = h] \in Cli /\ [cli EXCEPT !.stats = q, !.hp = h].stats = q
        BY <1>2, <3>2, <3>3, CliShows
      <4>3. QED
        BY <4>1, <4>2
    <3>5. QED
      BY <3>1, <3>2, <3>4
  <2>2. CASE m.t = "cleared"
    <3> DEFINE h == Progress!Min({cli.hp, Progress!MaxHp(cli.level, Progress!NoPoints)})
               q == Progress!NoPoints
    <3>1. cli' = [cli EXCEPT !.stats = q, !.hp = h]
      BY <1>1, <2>2
    <3>2. After(cli.stats, m) = q /\ q \in Panel
      BY <1>5, <2>2 DEF After
    <3>3. h \in Nat
      BY <1>4, <1>7, <3>2
    <3> HIDE DEF h, q
    <3>4. [cli EXCEPT !.stats = q, !.hp = h] \in Cli /\ [cli EXCEPT !.stats = q, !.hp = h].stats = q
      BY <1>2, <3>2, <3>3, CliShows
    <3>5. QED
      BY <3>1, <3>2, <3>4
  <2>3. CASE m.t = "load"
    <3>1. cli' = [cli EXCEPT !.in = FALSE] /\ After(cli.stats, m) = cli.stats
      BY <1>1, <2>3 DEF After
    <3>2. \A c \in Cli : [c EXCEPT !.in = FALSE] \in Cli /\ [c EXCEPT !.in = FALSE].stats = c.stats
      BY DEF Cli
    <3>3. QED
      BY <1>2, <3>1, <3>2
  <2>4. CASE m.t = "avatar"
    <3> DEFINE r == m.r
               h == Progress!MaxHp(r.level, r.stats)
    <3>1. cli' = [level |-> r.level, exp |-> r.exp, stats |-> r.stats, hp |-> h, in |-> TRUE]
      BY <1>1, <2>4
    <3>2. r \in Row /\ After(cli.stats, m) = r.stats
      BY <1>6, <2>4 DEF After
    <3> HIDE DEF r
    <3>3. r.level \in Progress!Level /\ r.exp \in Nat /\ r.stats \in Panel
      BY <3>2, RowParts DEF Panel
    <3>4. h \in Nat
      BY <1>7, <3>3
    <3> HIDE DEF h
    <3>5. QED
      BY <3>1, <3>2, <3>3, <3>4 DEF Cli
  <2>5. CASE m.t = "revive"
    <3> DEFINE h == Progress!MaxHp(cli.level, cli.stats)
    <3>1. cli' = [cli EXCEPT !.hp = h] /\ After(cli.stats, m) = cli.stats
      BY <1>1, <2>5 DEF After
    <3>2. h \in Nat
      BY <1>4, <1>7
    <3> HIDE DEF h
    <3>3. QED
      BY <1>2, <3>1, <3>2, CliHurts
  <2>6. QED
    BY <1>6, <2>1, <2>2, <2>3, <2>4, <2>5
<1>9. sent' \in Seq(Requests)
  <2> DEFINE j == [t |-> "join", n |-> 0]
  <2>1. j \in Requests
    BY DEF Requests
  <2> HIDE DEF j
  <2>2. sent' = Append(sent, j) \/ sent' = sent
    BY <1>1 DEF j
  <2>3. QED
    BY <1>2, <2>1, <2>2
<1>10. HeroTypes'
  <2>1. UNCHANGED <<row, cooling, hpWire, clientHp, hooked, unpaid, tally>>
    BY <1>1
  <2>2. QED
    BY <1>8, <2>1 DEF Playing, HeroTypes
<1>11. Mail' /\ Afforded(row)' /\ Answered'
  <2>1. UNCHANGED <<row, hook>> /\ down' = Tail(down)
    BY <1>1
  <2>2. QED
    BY <1>3, <1>5, <1>8, <1>9, <2>1 DEF Playing, Mail, Answered, Afforded
<1>12. QED
  BY <1>10, <1>11 DEF Playing

-----------------------------------------------------------------------------
(* The handlers *)

(* Taking a request leaves requests.                                       *)
LEMMA TakenFrom ==
    ASSUME Playing, NEW t, Progress!Takes(t)
    PROVE  sent' \in Seq(Requests) /\ Head(sent) \in Requests /\ Head(sent).t = t
BY DEF Playing, Mail, Progress!Takes

(* An answer that does to the panel what the handler did to the row.       *)
LEMMA AnswersPlays ==
    ASSUME Playing, NEW m \in Replies, Progress!Answers(m), row' \in Row,
           row'.stats = After(row.stats, m)
    PROVE  down' \in Seq(Replies) /\ Leads(cli.stats, down', row'.stats)
<1>1. down' = Append(down, m)
  BY DEF Progress!Answers
<1>2. /\ cli.stats \in Panel /\ row.stats \in Panel /\ row'.stats \in Panel
      /\ down \in Seq(Replies) /\ Leads(cli.stats, down, row.stats)
  BY DEF Playing, HeroTypes, Cli, Row, Panel, Mail, Answered
<1>3. Leads(cli.stats, Append(down, m), After(row.stats, m))
  BY <1>2, LeadsOn
<1>4. QED
  BY <1>1, <1>2, <1>3

LEMMA AdoptHpPlays ==
    ASSUME Playing, Progress!AdoptHp
    PROVE  Playing'
<1> DEFINE hp == Head(sent).n
<1>1. /\ Progress!Takes("hp") /\ down' = down
      /\ IF hp > 0 THEN hpWire' = hp /\ clientHp' = hp ELSE UNCHANGED <<hpWire, clientHp>>
      /\ UNCHANGED <<row, cooling, hooked, unpaid, hook, cli, tally>>
  BY DEF Progress!AdoptHp
<1>2. sent' \in Seq(Requests) /\ hp \in Nat
  <2>1. sent' \in Seq(Requests) /\ Head(sent) \in Requests /\ Head(sent).t = "hp"
    BY <1>1, TakenFrom
  <2>2. QED
    BY <2>1 DEF Requests
<1> HIDE DEF hp
<1>3. hpWire' \in Hp /\ clientHp' \in Hp \cup {Progress!None}
  BY <1>1, <1>2 DEF Playing, HeroTypes, Hp
<1>4. HeroTypes'
  BY <1>1, <1>3 DEF Playing, HeroTypes
<1>5. Mail' /\ Afforded(row)' /\ Answered'
  BY <1>1, <1>2 DEF Playing, Mail, Answered, Afforded
<1>6. QED
  BY <1>4, <1>5 DEF Playing

LEMMA SpendsAre ==
    ASSUME NEW m \in Requests, m.t \in {"spend", "return", "respec"}
    PROVE  m.n \in Stat
BY DEF Requests

(* The row with other points.                                              *)
LEMMA RowSpent ==
    ASSUME NEW r \in Row, NEW q \in Panel
    PROVE  /\ [r EXCEPT !.stats = q] \in Row
           /\ [r EXCEPT !.stats = q].stats = q /\ [r EXCEPT !.stats = q].level = r.level
BY DEF Row, Panel

(* What is left to spend is what is earned and not allocated.              *)
LEMMA Available ==
    ASSUME NEW r \in Row, Progress!points_available(r) >= 1
    PROVE  Points(r.stats) + 1 <= Progress!earned(r.level)
<1> DEFINE a == Progress!earned(r.level)
           b == Points(r.stats)
           d == a - b
           o == 0
<1>1. a \in Int /\ b \in Int
  <2>1. r.level \in 1..Top /\ r.level \in r.level..Top
    BY RowParts, Levels
  <2>2. Progress!earned(r.level) \in Nat
    BY <2>1, EarnsMore
  <2>3. QED
    BY <2>2, RowParts, PointsAre
<1>2. Progress!points_available(r) = Progress!Max({o, d})
  BY DEF Progress!points_available, Points
<1> HIDE DEF a, b
<1>3. d \in Int /\ o \in Int
  BY <1>1
<1> HIDE DEF d, o
<1>4. Progress!Max({o, d}) \in {o, d} /\ Progress!Max({o, d}) >= 1
  BY <1>2, <1>3, Higher
<1>5. d >= 1
  BY <1>3, <1>4 DEF o
<1>6. b + 1 <= a
  BY <1>1, <1>5 DEF d
<1>7. QED
  BY <1>6 DEF a, b

LEMMA StatSpendPlays ==
    ASSUME Playing, Progress!StatSpend
    PROVE  Playing'
<1> DEFINE s == Head(sent).n
           m == [t |-> "points", s |-> s, n |-> 1]
<1>1. /\ Progress!Takes("spend")
      /\ IF Progress!points_available(row) >= 1
         THEN row' = [row EXCEPT !.stats[s] = @ + 1] /\ Progress!Answers(m)
         ELSE UNCHANGED <<row, down>>
      /\ UNCHANGED <<cooling, hpWire, clientHp, hooked, unpaid, hook, cli, tally>>
  BY DEF Progress!StatSpend
<1>2. row \in Row /\ Afforded(row) /\ row.stats \in Panel /\ row.stats \in [Stat -> Nat]
  BY DEF Playing, HeroTypes, Row, Panel
<1>3. sent' \in Seq(Requests) /\ s \in Stat
  <2>1. sent' \in Seq(Requests) /\ Head(sent) \in Requests /\ Head(sent).t = "spend"
    BY <1>1, TakenFrom
  <2>2. QED
    BY <2>1, SpendsAre
<1>4. m \in Replies
  BY <1>3 DEF Replies
<1> HIDE DEF s
<1>5. CASE Progress!points_available(row) >= 1
  <2> DEFINE q == [row.stats EXCEPT ![s] = @ + 1]
  <2>1. row' = [row EXCEPT !.stats = q] /\ Progress!Answers(m)
    BY <1>1, <1>2, <1>5 DEF Row
  <2>2. After(row.stats, m) = q
    BY DEF After
  <2>3. q \in [Stat -> Nat] /\ Points(q) = Points(row.stats) + 1
    <3>1. row.stats[s] + 1 \in Nat /\ 1 \in Int
      BY <1>2, <1>3
    <3>2. QED
      BY <1>2, <1>3, <3>1, PointMoves
  <2> HIDE DEF q, m
  <2>4. q \in Panel
    BY <2>3 DEF Panel
  <2>5. row' \in Row /\ row'.stats = q /\ row'.level = row.level
    BY <1>2, <2>1, <2>4, RowSpent
  <2>6. down' \in Seq(Replies) /\ Leads(cli.stats, down', row'.stats)
    BY <1>4, <2>1, <2>2, <2>5, AnswersPlays
  <2>7. Points(row.stats) + 1 <= Progress!earned(row.level)
    BY <1>2, <1>5, Available
  <2>8. Afforded(row')
    BY <2>3, <2>5, <2>7 DEF Afforded
  <2>9. HeroTypes'
    BY <1>1, <2>5 DEF Playing, HeroTypes
  <2>10. Mail' /\ Afforded(row)' /\ Answered'
    BY <1>1, <1>3, <2>6, <2>8 DEF Playing, Mail, Answered, Afforded
  <2>11. QED
    BY <2>9, <2>10 DEF Playing
<1>6. CASE ~ (Progress!points_available(row) >= 1)
  <2>1. UNCHANGED <<row, down>>
    BY <1>1, <1>6
  <2>2. HeroTypes'
    BY <1>1, <2>1 DEF Playing, HeroTypes
  <2>3. Mail' /\ Afforded(row)' /\ Answered'
    BY <1>1, <1>3, <2>1 DEF Playing, Mail, Answered, Afforded
  <2>4. QED
    BY <2>2, <2>3 DEF Playing
<1>7. QED
  BY <1>5, <1>6

LEMMA StatReturnPlays ==
    ASSUME Playing, Progress!StatReturn
    PROVE  Playing'
<1> DEFINE s == Head(sent).n
           m == [t |-> "points", s |-> s, n |-> -1]
<1>1. /\ Progress!Takes("return")
      /\ IF row.stats[s] >= 1
         THEN row' = [row EXCEPT !.stats[s] = @ - 1] /\ Progress!Answers(m)
         ELSE UNCHANGED <<row, down>>
      /\ UNCHANGED <<cooling, hpWire, clientHp, hooked, unpaid, hook, cli, tally>>
  BY DEF Progress!StatReturn
<1>2. row \in Row /\ Afforded(row) /\ row.stats \in Panel /\ row.stats \in [Stat -> Nat]
  BY DEF Playing, HeroTypes, Row, Panel
<1>3. sent' \in Seq(Requests) /\ s \in Stat
  <2>1. sent' \in Seq(Requests) /\ Head(sent) \in Requests /\ Head(sent).t = "return"
    BY <1>1, TakenFrom
  <2>2. QED
    BY <2>1, SpendsAre
<1>4. m \in Replies
  BY <1>3 DEF Replies
<1> HIDE DEF s
<1>5. CASE row.stats[s] >= 1
  <2> DEFINE q == [row.stats EXCEPT ![s] = @ + (-1)]
  <2>0. q = [row.stats EXCEPT ![s] = @ - 1]
    BY <1>2, <1>3
  <2>1. row' = [row EXCEPT !.stats = q] /\ Progress!Answers(m)
    BY <1>1, <1>2, <1>5, <2>0 DEF Row
  <2>2. After(row.stats, m) = q
    BY DEF After
  <2>3. q \in [Stat -> Nat] /\ Points(q) = Points(row.stats) + (-1)
    <3>1. row.stats[s] + (-1) \in Nat /\ -1 \in Int
      BY <1>2, <1>3, <1>5
    <3>2. QED
      BY <1>2, <1>3, <3>1, PointMoves
  <2> HIDE DEF q, m
  <2>4. q \in Panel
    BY <2>3 DEF Panel
  <2>5. row' \in Row /\ row'.stats = q /\ row'.level = row.level
    BY <1>2, <2>1, <2>4, RowSpent
  <2>6. down' \in Seq(Replies) /\ Leads(cli.stats, down', row'.stats)
    BY <1>4, <2>1, <2>2, <2>5, AnswersPlays
  <2>8. Afforded(row')
    <3>1. Points(row.stats) \in Int /\ Progress!earned(row.level) \in Nat
      <4>1. row.level \in 1..Top /\ row.level \in row.level..Top
        BY <1>2, RowParts, Levels
      <4>2. QED
        BY <1>2, <4>1, EarnsMore, PointsAre
    <3>2. QED
      BY <1>2, <2>3, <2>5, <3>1 DEF Afforded
  <2>9. HeroTypes'
    BY <1>1, <2>5 DEF Playing, HeroTypes
  <2>10. Mail' /\ Afforded(row)' /\ Answered'
    BY <1>1, <1>3, <2>6, <2>8 DEF Playing, Mail, Answered, Afforded
  <2>11. QED
    BY <2>9, <2>10 DEF Playing
<1>6. CASE ~ (row.stats[s] >= 1)
  <2>1. UNCHANGED <<row, down>>
    BY <1>1, <1>6
  <2>2. HeroTypes'
    BY <1>1, <2>1 DEF Playing, HeroTypes
  <2>3. Mail' /\ Afforded(row)' /\ Answered'
    BY <1>1, <1>3, <2>1 DEF Playing, Mail, Answered, Afforded
  <2>4. QED
    BY <2>2, <2>3 DEF Playing
<1>7. QED
  BY <1>5, <1>6

LEMMA RespecPlays ==
    ASSUME Playing, Progress!Respec
    PROVE  Playing'
<1> DEFINE m == [t |-> "cleared"]
           g == row.gold - RespecCost
           q == Progress!NoPoints
<1>1. /\ Progress!Takes("respec")
      /\ IF ~cooling /\ row.gold >= RespecCost
         THEN /\ row' = [row EXCEPT !.gold = g, !.stats = q]
              /\ cooling' = TRUE /\ Progress!Answers(m)
         ELSE UNCHANGED <<row, cooling, down>>
      /\ UNCHANGED <<hpWire, clientHp, hooked, unpaid, hook, cli, tally>>
  BY DEF Progress!Respec
<1>2. row \in Row /\ Afforded(row) /\ row.gold \in 0..Funds /\ row.level \in 1..Top
  BY RowParts, Levels DEF Playing, HeroTypes
<1>3. sent' \in Seq(Requests)
  BY <1>1, TakenFrom
<1>4. CASE ~cooling /\ row.gold >= RespecCost
  <2>1. row' = [row EXCEPT !.gold = g, !.stats = q] /\ cooling' = TRUE /\ Progress!Answers(m)
    BY <1>1, <1>4
  <2>2. g \in 0..Funds
    BY <1>2, <1>4, Levels
  <2>3. q \in Panel /\ Points(q) = 0 /\ q = After(row.stats, m) /\ m \in Replies
    BY NoPointsAre DEF Panel, After, Replies
  <2> HIDE DEF g, q, m
  <2>4. \A r \in Row : /\ [r EXCEPT !.gold = g, !.stats = q] \in Row
                       /\ [r EXCEPT !.gold = g, !.stats = q].stats = q
                       /\ [r EXCEPT !.gold = g, !.stats = q].level = r.level
    BY <2>2, <2>3 DEF Row, Panel
  <2>5. row' \in Row /\ row'.stats = q /\ row'.level = row.level
    BY <1>2, <2>1, <2>4
  <2>6. down' \in Seq(Replies) /\ Leads(cli.stats, down', row'.stats)
    BY <2>1, <2>3, <2>5, AnswersPlays
  <2>7. Afforded(row')
    <3>1. row.level \in row.level..Top
      BY <1>2
    <3>2. Progress!earned(row.level) \in Nat
      BY <1>2, <3>1, EarnsMore
    <3>3. QED
      BY <2>3, <2>5, <3>2 DEF Afforded
  <2>8. HeroTypes'
    BY <1>1, <2>1, <2>5 DEF Playing, HeroTypes
  <2>9. Mail' /\ Afforded(row)' /\ Answered'
    BY <1>1, <1>3, <2>6, <2>7 DEF Playing, Mail, Answered, Afforded
  <2>10. QED
    BY <2>8, <2>9 DEF Playing
<1>5. CASE ~ (~cooling /\ row.gold >= RespecCost)
  <2>1. UNCHANGED <<row, cooling, down>>
    BY <1>1, <1>5
  <2>2. HeroTypes'
    BY <1>1, <2>1 DEF Playing, HeroTypes
  <2>3. Mail' /\ Afforded(row)' /\ Answered'
    BY <1>1, <1>3, <2>1 DEF Playing, Mail, Answered, Afforded
  <2>4. QED
    BY <2>2, <2>3 DEF Playing
<1>6. QED
  BY <1>4, <1>5

LEMMA CooldownEndsPlays ==
    ASSUME Playing, Progress!CooldownEnds
    PROVE  Playing'
<1>1. cooling' = FALSE
      /\ UNCHANGED <<row, hpWire, clientHp, hooked, unpaid, hook, sent, down, cli, tally>>
  BY DEF Progress!CooldownEnds, Progress!netVars
<1>2. HeroTypes' /\ Mail' /\ Afforded(row)' /\ Answered'
  BY <1>1 DEF Playing, HeroTypes, Mail, Answered, Afforded
<1>3. QED
  BY <1>2 DEF Playing

(* An answer that leaves the row alone and shows its points, or none.      *)
LEMMA AnsweredAsIs ==
    ASSUME Playing, NEW m \in Replies, Progress!Answers(m), row.stats = After(row.stats, m),
           sent' \in Seq(Requests), hpWire' \in Hp, clientHp' \in Hp \cup {Progress!None},
           UNCHANGED <<row, cooling, hooked, unpaid, hook, cli, tally>>
    PROVE  Playing'
<1>1. row' \in Row /\ row'.stats = After(row.stats, m)
  BY DEF Playing, HeroTypes
<1>2. down' \in Seq(Replies) /\ Leads(cli.stats, down', row'.stats)
  BY <1>1, AnswersPlays
<1>3. HeroTypes'
  BY DEF Playing, HeroTypes
<1>4. Mail' /\ Afforded(row)' /\ Answered'
  BY <1>2 DEF Playing, Mail, Answered, Afforded
<1>5. QED
  BY <1>3, <1>4 DEF Playing

(* A fresh trailer is that of a living avatar.                             *)
LEMMA Refreshed ==
    ASSUME Playing, Progress!RefreshAvatarHp(row, TRUE)
    PROVE  hpWire' \in Hp /\ clientHp' \in Hp \cup {Progress!None}
<1>1. /\ clientHp' = Progress!None
      /\ hpWire' = Progress!resolve_synch_hp_wire(Progress!MaxHp(row.level, row.stats), clientHp')
  BY DEF Progress!RefreshAvatarHp
<1>2. Progress!MaxHp(row.level, row.stats) \in Hp
  BY RowParts, Healthy DEF Playing, HeroTypes
<1>3. QED
  BY <1>1, <1>2, SynchHealthy

LEMMA TravelPlays ==
    ASSUME Playing, Progress!Travel
    PROVE  Playing'
<1> DEFINE m == [t |-> "load"]
<1>1. /\ Progress!Takes("travel") /\ Progress!Answers(m)
      /\ UNCHANGED <<row, cooling, hpWire, clientHp, hooked, unpaid, hook, cli, tally>>
  BY DEF Progress!Travel
<1>2. sent' \in Seq(Requests) /\ hpWire' \in Hp /\ clientHp' \in Hp \cup {Progress!None}
  BY <1>1, TakenFrom DEF Playing, HeroTypes
<1>3. m \in Replies /\ row.stats = After(row.stats, m)
  BY DEF Replies, After
<1> HIDE DEF m
<1>4. QED
  BY <1>1, <1>2, <1>3, AnsweredAsIs

LEMMA EnterZonePlays ==
    ASSUME Playing, Progress!EnterZone
    PROVE  Playing'
<1> DEFINE m == [t |-> "avatar", r |-> row]
<1>1. /\ Progress!Takes("join") /\ Progress!Answers(m) /\ Progress!RefreshAvatarHp(row, TRUE)
      /\ UNCHANGED <<row, cooling, hooked, unpaid, hook, cli, tally>>
  BY DEF Progress!EnterZone
<1>2. sent' \in Seq(Requests) /\ hpWire' \in Hp /\ clientHp' \in Hp \cup {Progress!None}
  BY <1>1, TakenFrom, Refreshed
<1>3. m \in Replies /\ row.stats = After(row.stats, m)
  BY DEF Playing, HeroTypes, Replies, After
<1> HIDE DEF m
<1>4. QED
  BY <1>1, <1>2, <1>3, AnsweredAsIs

LEMMA RespawnInPlacePlays ==
    ASSUME Playing, Progress!RespawnInPlace
    PROVE  Playing'
<1> DEFINE m == [t |-> "revive"]
<1>1. /\ Progress!Takes("respawn") /\ Progress!Answers(m) /\ Progress!RefreshAvatarHp(row, TRUE)
      /\ UNCHANGED <<row, cooling, hooked, unpaid, hook, cli, tally>>
  BY DEF Progress!RespawnInPlace
<1>2. sent' \in Seq(Requests) /\ hpWire' \in Hp /\ clientHp' \in Hp \cup {Progress!None}
  BY <1>1, TakenFrom, Refreshed
<1>3. m \in Replies /\ row.stats = After(row.stats, m)
  BY DEF Replies, After
<1> HIDE DEF m
<1>4. QED
  BY <1>1, <1>2, <1>3, AnsweredAsIs

LEMMA PlayingStep ==
    ASSUME Playing, Progress!Next \/ UNCHANGED heroVars
    PROVE  Playing'
<1>1. CASE UNCHANGED heroVars
  BY <1>1 DEF heroVars, Playing, HeroTypes, Mail, Answered, Afforded
<1>2. CASE Progress!Serve
  BY <1>2, AdoptHpPlays, StatSpendPlays, StatReturnPlays, RespecPlays, TravelPlays,
     EnterZonePlays, RespawnInPlacePlays DEF Progress!Serve
<1>3. QED
  BY <1>1, <1>2, ClientKillsPlays, HookKillPlays, ReplayedKillPlays, HookChangesPlays,
     ClientHurtPlays, ClientRegainsPlays, ClientReportsPlays, ClientAsksPlays,
     ClientMovesPlays, ClientTakesPlays, CooldownEndsPlays DEF Progress!Next

LEMMA PlayingAlways == Spec => []Playing
<1>1. Playing /\ [Next]_vars => Playing'
  <2> SUFFICES ASSUME Playing, [Next]_vars PROVE Playing'
    OBVIOUS
  <2>1. Progress!Next \/ UNCHANGED heroVars
    BY DEF Next, vars, heroVars
  <2>2. QED
    BY <2>1, PlayingStep
<1>2. QED
  BY <1>1, PlayingInit, PTL DEF Spec

(* Whatever is spent, returned, cleared and reported in whichever order,   *)
(* the row holds no more points than its level earns, and a client that    *)
(* has taken every answer shows them (net/attributes.py).                  *)
THEOREM PanelCorrect == Spec => []PanelAgrees
<1>1. Playing => PanelAgrees
  <2> SUFFICES ASSUME Playing PROVE Progress!PanelAgrees
    BY DEF PanelAgrees
  <2>1. row \in Row /\ cli \in Cli /\ row.stats \in Panel /\ cli.stats \in Panel
    BY DEF Playing, HeroTypes, Row, Cli, Panel
  <2>2. cli.level \in Progress!Level /\ cli.hp \in Nat /\ cli.stats \in [Stat -> Nat]
    BY <2>1 DEF Cli, Panel
  <2>3. Progress!TypeOK
    BY <2>2 DEF Playing, HeroTypes, Row, Hp, Progress!TypeOK
  <2>4. Progress!PointsEarned
    BY <2>3 DEF Playing, Afforded, Points, Progress!PointsEarned
  <2>5. ASSUME down = <<>> PROVE cli.stats = row.stats
    BY <2>1, <2>5, LeadsNowhere DEF Playing, Answered
  <2>6. QED
    BY <2>4, <2>5 DEF Progress!PanelAgrees
<1>2. QED
  BY <1>1, PlayingAlways, PTL
-----------------------------------------------------------------------------
(* The gnomes and the summons *)

Units == [owner : Player, kind : {"gnome", "bait", "snowman"}, id : Nat \ {0}]

PetTypes ==
    /\ Follower!TypeOK /\ unitId # 0
    /\ screen \in [Player -> [units : SUBSET Units, met : SUBSET Nat]]

(* Who is not in a zone has no units and shows none.                       *)
Absent ==
    \A p \in Player :
        /\ present[p] => home[p] # Follower!Away
        /\ ~present[p] =>
            /\ gnome[p] = Follower!NoGnome /\ screen[p] = Follower!Blank
            /\ \A k \in {Follower!Bait, Follower!Snowman} : summons[p][k] = 0

(* Whoever is where a gnome is was sent its component, if it has one.      *)
Met ==
    \A p, q \in Player :
        gnome[p].made /\ present[q] /\ home[p] = home[q]
            => gnome[p].id # 0 /\ gnome[p].id \in screen[q].met

(* Only a gnome with components sweeps, and what it has in view lies where *)
(* its owner is unless somebody was faster.                                *)
Sweeping ==
    \A p \in Player :
        /\ sweep[p] # Follower!NoSweep => gnome[p].made
        /\ \A d \in Drop : d \in sweep[p].cands \cup {sweep[p].item}
                => lies[d] = home[p] \/ lies[d] \in Player

Claims(p) == {d \in Drop : lies[d] = p}
Paid == \A p \in Player : IsFiniteSet(Claims(p)) /\ purse[p] = Cardinality(Claims(p))

Following == PetTypes /\ Absent /\ Met /\ Sweeping /\ Follower!NoGhosts /\ Follower!UpdatesKnown

LEMMA Names ==
    /\ "away" \notin Player \cup Copy \cup Drop
    /\ "unfallen" \notin Player \cup Copy \cup Drop
    /\ "none" \notin Player \cup Copy \cup Drop
    /\ Player \cap Copy = {}
BY PetsAssumption DEF Follower!NameAssumption, Follower!Away, Follower!Unfallen, Follower!None

LEMMA FollowingInit == Init => Following
<1> SUFFICES ASSUME Init
             PROVE  Following
  OBVIOUS
<1>1. Follower!Init
  BY DEF Init
<1>2. PetTypes
  BY <1>1 DEF PetTypes, Follower!Init, Follower!TypeOK, Follower!NoGnome, Follower!NoSweep, Follower!Blank, Follower!None, Follower!Unfallen, Follower!Away
<1>3. Absent
  BY <1>1 DEF Follower!Init, Absent
<1>4. Met
  BY <1>1 DEF Follower!Init, Met, Follower!NoGnome
<1>5. Sweeping
  BY <1>1, Names DEF Follower!Init, Sweeping, Follower!NoSweep, Follower!None
<1>6. Follower!NoGhosts /\ Follower!UpdatesKnown
  BY <1>1 DEF Follower!Init, Follower!NoGhosts, Follower!UpdatesKnown, Follower!Blank
<1>7. QED
  BY <1>2, <1>3, <1>4, <1>5, <1>6 DEF Following

(* A login and the way out leave nothing behind.                           *)
LEMMA LoginFollows ==
    ASSUME Following, NEW p \in Player, NEW c \in Copy, Follower!Login(p, c)
    PROVE  Following'
<1> USE DEF Follower!Login, Follower!Away
<1>1. PetTypes'
  BY DEF PetTypes, Follower!TypeOK, Following
<1>2. ~present[p] /\ gnome[p] = Follower!NoGnome /\ screen[p] = Follower!Blank
  BY DEF Absent, Following
<1>3. home \in [Player -> Copy \cup {"away"}] /\ home' = [home EXCEPT ![p] = c]
  BY DEF PetTypes, Follower!TypeOK, Following
<1>4. Absent'
  BY <1>2, <1>3, Names DEF Absent, Following
<1>5. Met'
  BY <1>2, <1>3 DEF Met, Following, Follower!NoGnome
<1>6. Sweeping'
  <2>1. sweep[p] = Follower!NoSweep
    BY <1>2 DEF Sweeping, Following, Follower!NoGnome
  <2>2. QED
    BY <1>3, <2>1, Names DEF Sweeping, Following, Follower!NoSweep, Follower!None
<1>7. Follower!NoGhosts'
  BY <1>2, <1>3 DEF Follower!NoGhosts, Following, Follower!Blank, PetTypes, Units
<1>8. Follower!UpdatesKnown'
  BY DEF Follower!UpdatesKnown, Following
<1>9. QED
  BY <1>1, <1>4, <1>5, <1>6, <1>7, <1>8 DEF Following

LEMMA EnterFollows ==
    ASSUME Following, NEW p \in Player, Follower!Enter(p)
    PROVE  Following'
<1> USE DEF Follower!Enter, Follower!Away
<1> DEFINE others == {q \in Follower!Peers(p) : gnome[q].id # 0}
<1>1. Follower!TypeOK /\ screen \in [Player -> [units : SUBSET Units, met : SUBSET Nat]]
  BY DEF PetTypes, Following
<1>2. Follower!LateJoin(p) \in [units : SUBSET Units, met : SUBSET Nat]
  BY <1>1 DEF Follower!LateJoin, Follower!Peers, Follower!GnomeOf, Follower!Unit, Units, Follower!TypeOK
<1>3. PetTypes'
  BY <1>1, <1>2 DEF PetTypes, Follower!TypeOK, Following
<1>4. /\ present \in [Player -> BOOLEAN] /\ present' = [present EXCEPT ![p] = TRUE]
      /\ screen' = [screen EXCEPT ![p] = Follower!LateJoin(p)]
      /\ UNCHANGED <<home, gnome, sweep, summons, lies>>
  BY <1>1 DEF Follower!TypeOK
<1>5. gnome[p] = Follower!NoGnome /\ screen[p] = Follower!Blank
  BY DEF Absent, Following
<1>6. Absent'
  BY <1>1, <1>4 DEF Absent, Following
<1>7. Met'
  <2>1. \A q \in Player : q # p /\ gnome[q].made /\ home[q] = home[p]
            => gnome[q].id # 0 /\ gnome[q].id \in Follower!LateJoin(p).met
    <3>1. \A q \in Player : gnome[q].made => present[q]
      BY DEF Absent, Following, Follower!NoGnome
    <3>2. \A q \in Player : gnome[q].made => gnome[q].id # 0
      BY <3>1 DEF Met, Following
    <3>3. QED
      BY <3>1, <3>2 DEF Follower!LateJoin, Follower!Peers
  <2>2. QED
    BY <1>1, <1>4, <1>5, <2>1 DEF Met, Following, Follower!NoGnome
<1>8. Sweeping'
  BY <1>4 DEF Sweeping, Following
<1>9. Follower!NoGhosts'
  <2>1. \A u \in Follower!LateJoin(p).units :
            /\ u.owner \in Player /\ present[u.owner] /\ home[u.owner] = home[p]
            /\ u.kind = "gnome" /\ u.id = gnome[u.owner].id
    BY DEF Follower!LateJoin, Follower!Peers, Follower!GnomeOf, Follower!Unit
  <2>2. \A q \in Player : \A u \in screen'[q].units :
            present[u.owner] /\ home[u.owner] = home[q]
            /\ u.id = (IF u.kind = "gnome" THEN gnome[u.owner].id ELSE summons[u.owner][u.kind])
    BY <1>1, <1>4, <2>1 DEF Follower!NoGhosts, Following
  <2>3. \A q \in Player : \A u \in screen'[q].units : u.owner \in Player
    BY <1>3 DEF PetTypes, Units
  <2>4. QED
    BY <1>4, <2>2, <2>3 DEF Follower!NoGhosts
<1>10. Follower!UpdatesKnown'
  BY <1>1, <1>4 DEF Follower!UpdatesKnown, Following, Follower!TypeOK
<1>11. QED
  BY <1>3, <1>6, <1>7, <1>8, <1>9, <1>10 DEF Following

(* What is unchanged as long as units, screens and queues are.             *)
LEMMA ClaimFollows ==
    ASSUME Following, NEW p \in Player, NEW d \in Drop,
           lies' = [lies EXCEPT ![d] = p], purse' = [purse EXCEPT ![p] = @ + 1],
           sweep' = sweep \/ sweep' = [sweep EXCEPT ![p].item = Follower!None],
           UNCHANGED <<home, present, gnome, summons, screen, queue, unitId, jumps>>
    PROVE  Following'
<1>1. /\ lies \in [Drop -> Copy \cup Player \cup {"unfallen"}] /\ purse \in [Player -> Nat]
      /\ sweep \in [Player -> [step : {"none", "started", "converting"},
                               cands : SUBSET Drop, item : Drop \cup {"none"}]]
  BY DEF Following, PetTypes, Follower!TypeOK, Follower!Unfallen, Follower!None
<1>2. /\ lies' \in [Drop -> Copy \cup Player \cup {"unfallen"}] /\ purse' \in [Player -> Nat]
      /\ sweep' \in [Player -> [step : {"none", "started", "converting"},
                                cands : SUBSET Drop, item : Drop \cup {"none"}]]
  BY <1>1 DEF Follower!None
<1>3. PetTypes'
  BY <1>2 DEF Following, PetTypes, Follower!TypeOK, Follower!Unfallen, Follower!None
<1>4. Absent' /\ Met' /\ Follower!NoGhosts' /\ Follower!UpdatesKnown'
  BY DEF Following, Absent, Met, Follower!NoGhosts, Follower!UpdatesKnown
<1>5. Sweeping'
  <2>1. ASSUME NEW q \in Player, sweep[q] = Follower!NoSweep PROVE sweep'[q] = Follower!NoSweep
    <3>1. [Follower!NoSweep EXCEPT !.item = Follower!None] = Follower!NoSweep
      BY DEF Follower!NoSweep, Follower!None
    <3>2. sweep'[q] = sweep[q] \/ sweep'[q] = [sweep[q] EXCEPT !.item = Follower!None]
      BY <1>1
    <3>3. QED
      BY <2>1, <3>1, <3>2
  <2>2. \A q \in Player : \A e \in Drop :
            e \in sweep'[q].cands \cup {sweep'[q].item} => e \in sweep[q].cands \cup {sweep[q].item}
    BY <1>1, Names DEF Follower!None
  <2>3. \A e \in Drop : lies'[e] = lies[e] \/ lies'[e] \in Player
    BY <1>1
  <2>4. QED
    BY <2>1, <2>2, <2>3 DEF Following, Sweeping
<1>6. QED
  BY <1>3, <1>4, <1>5 DEF Following

LEMMA DropFallsFollows ==
    ASSUME Following, NEW d \in Drop, NEW c \in Copy, Follower!DropFalls(d, c)
    PROVE  Following'
<1> USE DEF Follower!DropFalls
<1>1. PetTypes'
  BY DEF Following, PetTypes, Follower!TypeOK
<1>2. Absent' /\ Met' /\ Follower!NoGhosts' /\ Follower!UpdatesKnown'
  BY DEF Following, Absent, Met, Follower!NoGhosts, Follower!UpdatesKnown
<1>3. Sweeping'
  BY Names DEF Following, Sweeping, PetTypes, Follower!TypeOK, Follower!Unfallen, Follower!Away
<1>4. QED
  BY <1>1, <1>2, <1>3 DEF Following

(* A new unit is shown where its owner is, in place of his former one.     *)
LEMMA SpawnFollows ==
    ASSUME Following, NEW p \in Player, Follower!Spawn(p)
    PROVE  Following'
<1> USE DEF Follower!Spawn
<1>1. /\ gnome \in [Player -> [id : Nat, made : BOOLEAN]] /\ unitId \in Nat \ {0}
      /\ screen \in [Player -> [units : SUBSET Units, met : SUBSET Nat]]
  BY DEF Following, PetTypes, Follower!TypeOK
<1>2. /\ gnome' = [gnome EXCEPT ![p] = [id |-> unitId, made |-> FALSE]]
      /\ \A q \in Player : /\ screen'[q].met = screen[q].met
                           /\ q \notin Follower!Peers(p) \cup {p} => screen'[q] = screen[q]
                           /\ screen'[q].units \subseteq screen[q].units \cup {Follower!Unit(p, "gnome", unitId)}
      /\ screen' \in [Player -> [units : SUBSET Units, met : SUBSET Nat]]
  <2>1. Follower!Unit(p, "gnome", unitId) \in Units
    BY <1>1 DEF Units, Follower!Unit
  <2>2. QED
    BY <1>1, <2>1 DEF Follower!Shown
<1>3. PetTypes'
  <2>1. [id |-> unitId, made |-> FALSE] \in [id : Nat, made : BOOLEAN]
    BY <1>1
  <2>2. gnome' \in [Player -> [id : Nat, made : BOOLEAN]] /\ unitId' \in Nat \ {0}
    BY <1>1, <1>2, <2>1
  <2>3. QED
    BY <1>2, <2>2 DEF Following, PetTypes, Follower!TypeOK
<1>4. Absent'
  BY <1>1, <1>2 DEF Following, Absent, Follower!Peers
<1>5. Met'
  <2>1. \A q \in Player : gnome'[q].made => gnome'[q] = gnome[q]
    BY <1>1, <1>2
  <2>2. QED
    BY <1>2, <2>1 DEF Following, Met
<1>6. Sweeping'
  <2>1. ~gnome[p].made
    BY DEF Following, Met, Absent, Follower!NoGnome
  <2>2. QED
    BY <1>1, <1>2, <2>1 DEF Following, Sweeping
<1>7. Follower!NoGhosts'
  <2> SUFFICES ASSUME NEW q \in Player, NEW u \in screen'[q].units
               PROVE  /\ present'[u.owner] /\ home'[u.owner] = home'[q]
                      /\ u.id = (IF u.kind = "gnome" THEN gnome'[u.owner].id
                                 ELSE summons'[u.owner][u.kind])
    BY DEF Follower!NoGhosts
  <2>1. u \in Units
    BY <1>2
  <2>2. CASE u \in screen[q].units
    <3>1. ~(u.owner = p /\ u.kind = "gnome")
      BY <2>1, <2>2 DEF Following, Follower!NoGhosts, Units
    <3>2. QED
      BY <1>1, <2>1, <2>2, <3>1 DEF Following, Follower!NoGhosts, Units
  <2>3. CASE u \notin screen[q].units
    <3>1. u = Follower!Unit(p, "gnome", unitId) /\ q \in Follower!Peers(p) \cup {p}
      BY <1>2, <2>3
    <3>2. QED
      BY <1>1, <1>2, <3>1 DEF Follower!Unit, Follower!Peers
  <2>4. QED
    BY <2>2, <2>3
<1>8. Follower!UpdatesKnown'
  BY <1>2 DEF Following, Follower!UpdatesKnown
<1>9. QED
  BY <1>3, <1>4, <1>5, <1>6, <1>7, <1>8 DEF Following

LEMMA TryCastFollows ==
    ASSUME Following, NEW p \in Player, NEW k \in {Follower!Bait, Follower!Snowman}, Follower!TryCast(p, k)
    PROVE  Following'
<1>1. /\ summons \in [Player -> [{"bait", "snowman"} -> Nat]] /\ unitId \in Nat \ {0}
      /\ screen \in [Player -> [units : SUBSET Units, met : SUBSET Nat]]
      /\ k \in {"bait", "snowman"}
  BY DEF Following, PetTypes, Follower!TypeOK, Follower!Bait, Follower!Snowman
<1>2. Follower!Unit(p, k, unitId) \in Units
  BY <1>1 DEF Units, Follower!Unit
<1>3. /\ present[p] /\ unitId' = unitId + 1
      /\ UNCHANGED <<home, present, gnome, sweep, lies, purse, queue, jumps>>
      /\ summons' = [summons EXCEPT ![p][k] = unitId]
      /\ \A q \in Player : /\ screen'[q].met = screen[q].met
                           /\ q \notin Follower!Peers(p) \cup {p} => screen'[q] = screen[q]
                           /\ q \in Follower!Peers(p) \cup {p} =>
                                screen'[q].units = (screen[q].units \ {Follower!SummonOf(p, k)})
                                                    \cup {Follower!Unit(p, k, unitId)}
      /\ screen' \in [Player -> [units : SUBSET Units, met : SUBSET Nat]]
  BY <1>1, <1>2 DEF Follower!TryCast
<1>4. PetTypes'
  <2>1. summons' \in [Player -> [{"bait", "snowman"} -> Nat]] /\ unitId' \in Nat \ {0}
    BY <1>1, <1>3
  <2>2. QED
    BY <1>1, <1>3, <2>1 DEF Following, PetTypes, Follower!TypeOK, Follower!Bait, Follower!Snowman
<1>5. Absent'
  <2>1. \A q \in Player : q # p => summons'[q] = summons[q]
    BY <1>1, <1>3
  <2>2. \A q \in Player : ~present[q] => q # p /\ screen'[q] = screen[q]
    BY <1>3 DEF Follower!Peers
  <2>3. QED
    BY <1>3, <2>1, <2>2 DEF Following, Absent
<1>6. Met'
  BY <1>3 DEF Following, Met
<1>7. Sweeping'
  BY <1>3 DEF Following, Sweeping
<1>8. Follower!NoGhosts'
  <2> SUFFICES ASSUME NEW q \in Player, NEW u \in screen'[q].units
               PROVE  /\ present'[u.owner] /\ home'[u.owner] = home'[q]
                      /\ u.id = (IF u.kind = "gnome" THEN gnome'[u.owner].id
                                 ELSE summons'[u.owner][u.kind])
    BY DEF Follower!NoGhosts
  <2>1. u \in Units
    BY <1>3
  <2>2. CASE u = Follower!Unit(p, k, unitId) /\ q \in Follower!Peers(p) \cup {p}
    BY <1>1, <1>3, <2>2 DEF Follower!Unit, Follower!Peers
  <2>3. CASE ~(u = Follower!Unit(p, k, unitId) /\ q \in Follower!Peers(p) \cup {p})
    <3>1. /\ u \in screen[q].units
          /\ q \in Follower!Peers(p) \cup {p} => u # Follower!SummonOf(p, k)
      BY <1>3, <2>3
    <3>2. /\ present[u.owner] /\ home[u.owner] = home[q]
          /\ u.id = (IF u.kind = "gnome" THEN gnome[u.owner].id ELSE summons[u.owner][u.kind])
      BY <3>1 DEF Following, Follower!NoGhosts
    <3>3. CASE u.owner = p /\ u.kind = k
      <4>1. u = Follower!SummonOf(p, k)
        BY <1>1, <2>1, <3>2, <3>3 DEF Follower!SummonOf, Follower!Unit, Units
      <4>2. q \in Follower!Peers(p) \cup {p}
        <5>1. present[q]
          BY <3>1 DEF Following, Absent, Follower!Blank
        <5>2. QED
          BY <3>2, <3>3, <5>1 DEF Follower!Peers
      <4>3. QED
        BY <3>1, <4>1, <4>2
    <3>4. CASE ~(u.owner = p /\ u.kind = k)
      <4>1. u.owner \in Player /\ u.kind \in {"gnome", "bait", "snowman"}
        BY <2>1 DEF Units
      <4>2. u.kind # "gnome" => summons'[u.owner][u.kind] = summons[u.owner][u.kind]
        BY <1>1, <1>3, <3>4, <4>1
      <4>3. QED
        BY <1>3, <3>2, <4>2
    <3>5. QED
      BY <3>3, <3>4
  <2>4. QED
    BY <2>2, <2>3
<1>9. Follower!UpdatesKnown'
  BY <1>3 DEF Following, Follower!UpdatesKnown
<1>10. QED
  BY <1>4, <1>5, <1>6, <1>7, <1>8, <1>9 DEF Following

(* Units that end are taken off every screen that shows them.              *)
LEMMA Erased ==
    ASSUME Following, NEW p \in Player, NEW q \in Player, NEW u \in screen[q].units,
           u.owner = p
    PROVE  /\ q \in Follower!Peers(p) \cup {p}
           /\ u = Follower!GnomeOf(p) \/ \E k \in {"bait", "snowman"} : u.kind = k /\ u = Follower!SummonOf(p, k)
<1>1. u \in Units
  BY DEF Following, PetTypes
<1>2. present[p] /\ home[p] = home[q] /\ present[q]
  BY <1>1 DEF Following, Follower!NoGhosts, Absent, Follower!Blank
<1>3. u.id = (IF u.kind = "gnome" THEN gnome[p].id ELSE summons[p][u.kind])
  BY <1>1 DEF Following, Follower!NoGhosts
<1>4. u = [owner |-> p, kind |-> u.kind, id |-> u.id] /\ u.kind \in {"gnome", "bait", "snowman"}
  BY <1>1 DEF Units
<1>5. QED
  BY <1>2, <1>3, <1>4 DEF Follower!Peers, Follower!GnomeOf, Follower!SummonOf, Follower!Unit

LEMMA LeaveFollows ==
    ASSUME Following, NEW p \in Player, NEW c \in Copy \cup {Follower!Away}, Follower!Leave(p, c)
    PROVE  Following'
<1>1. /\ gnome \in [Player -> [id : Nat, made : BOOLEAN]]
      /\ screen \in [Player -> [units : SUBSET Units, met : SUBSET Nat]]
      /\ summons \in [Player -> [{"bait", "snowman"} -> Nat]]
      /\ home \in [Player -> Copy \cup {"away"}] /\ present \in [Player -> BOOLEAN]
      /\ sweep \in [Player -> [step : {"none", "started", "converting"},
                               cands : SUBSET Drop, item : Drop \cup {"none"}]]
  BY DEF Following, PetTypes, Follower!TypeOK, Follower!Bait, Follower!Snowman, Follower!Away, Follower!None
<1>2. /\ present[p] /\ jumps' = jumps + 1 /\ UNCHANGED purse
      /\ home' = [home EXCEPT ![p] = c] /\ present' = [present EXCEPT ![p] = FALSE]
      /\ gnome' = [gnome EXCEPT ![p] = Follower!NoGnome] /\ sweep' = [sweep EXCEPT ![p] = Follower!NoSweep]
      /\ summons' = [summons EXCEPT ![p] = [k \in {"bait", "snowman"} |-> 0]]
      /\ UNCHANGED <<lies, queue, unitId>>
  BY DEF Follower!Leave, Follower!Cleanup, Follower!Bait, Follower!Snowman
<1>3. /\ screen'[p] = Follower!Blank
      /\ \A q \in Player : q # p /\ q \notin Follower!Peers(p) => screen'[q] = screen[q]
      /\ \A q \in Player : q # p /\ q \in Follower!Peers(p) =>
            /\ screen'[q].met = screen[q].met
            /\ screen'[q].units = screen[q].units
                    \ {Follower!GnomeOf(p), Follower!SummonOf(p, "bait"), Follower!SummonOf(p, "snowman")}
      /\ screen' \in [Player -> [units : SUBSET Units, met : SUBSET Nat]]
  <2> DEFINE us == {Follower!GnomeOf(p), Follower!SummonOf(p, "bait"), Follower!SummonOf(p, "snowman")}
  <2>1. screen' = [Follower!Removed(Follower!Peers(p), us) EXCEPT ![p] = Follower!Blank]
    BY DEF Follower!Leave, Follower!Cleanup, Follower!Bait, Follower!Snowman
  <2>2. Follower!Blank \in [units : SUBSET Units, met : SUBSET Nat]
    BY DEF Follower!Blank
  <2> HIDE DEF us
  <2>3. \A q \in Player : q # p => screen'[q] = Follower!Removed(Follower!Peers(p), us)[q]
    BY <2>1 DEF Follower!Removed
  <2>4. \A q \in Player :
            /\ q \notin Follower!Peers(p) => Follower!Removed(Follower!Peers(p), us)[q] = screen[q]
            /\ q \in Follower!Peers(p) => Follower!Removed(Follower!Peers(p), us)[q] = [screen[q] EXCEPT !.units = @ \ us]
    BY DEF Follower!Removed
  <2>5. screen'[p] = Follower!Blank /\ screen' = [q \in Player |-> screen'[q]]
    BY <2>1 DEF Follower!Removed
  <2>6. ASSUME NEW q \in Player, q # p, q \in Follower!Peers(p)
        PROVE  /\ screen'[q].met = screen[q].met /\ screen'[q].units = screen[q].units \ us
               /\ screen'[q] \in [units : SUBSET Units, met : SUBSET Nat]
    <3>1. screen'[q] = [screen[q] EXCEPT !.units = @ \ us]
      BY <2>3, <2>4, <2>6
    <3>2. screen[q] \in [units : SUBSET Units, met : SUBSET Nat]
      BY <1>1
    <3>3. QED
      BY <3>1, <3>2
  <2>7. \A q \in Player : screen'[q] \in [units : SUBSET Units, met : SUBSET Nat]
    <3>1. \A q \in Player : q # p /\ q \notin Follower!Peers(p) => screen'[q] = screen[q]
      BY <2>3, <2>4
    <3>2. QED
      BY <1>1, <2>2, <2>5, <2>6, <3>1
  <2>8. screen' \in [Player -> [units : SUBSET Units, met : SUBSET Nat]]
    BY <2>5, <2>7
  <2>9. QED
    BY <2>3, <2>4, <2>5, <2>6, <2>8 DEF us
<1>4. PetTypes'
  <2>1. /\ gnome' \in [Player -> [id : Nat, made : BOOLEAN]]
        /\ home' \in [Player -> Copy \cup {"away"}] /\ present' \in [Player -> BOOLEAN]
    BY <1>1, <1>2 DEF Follower!NoGnome, Follower!Away
  <2>4. summons' \in [Player -> [{"bait", "snowman"} -> Nat]]
    BY <1>1, <1>2
  <2>2. sweep' \in [Player -> [step : {"none", "started", "converting"},
                               cands : SUBSET Drop, item : Drop \cup {"none"}]]
    BY <1>1, <1>2 DEF Follower!NoSweep, Follower!None
  <2>3. QED
    BY <1>2, <1>3, <2>1, <2>2, <2>4
       DEF Following, PetTypes, Follower!TypeOK, Follower!Bait, Follower!Snowman, Follower!Away, Follower!None
<1>5. Absent'
  <2> SUFFICES ASSUME NEW q \in Player
               PROVE  /\ present'[q] => home'[q] # Follower!Away
                      /\ ~present'[q] =>
                            /\ gnome'[q] = Follower!NoGnome /\ screen'[q] = Follower!Blank
                            /\ \A k \in {Follower!Bait, Follower!Snowman} : summons'[q][k] = 0
    BY DEF Absent
  <2>1. CASE q = p
    BY <1>1, <1>2, <1>3, <2>1 DEF Follower!Bait, Follower!Snowman
  <2>2. CASE q # p
    <3>1. /\ home'[q] = home[q] /\ present'[q] = present[q] /\ gnome'[q] = gnome[q]
          /\ summons'[q] = summons[q] /\ (~present[q] => screen'[q] = screen[q])
      BY <1>1, <1>2, <1>3, <2>2 DEF Follower!Peers
    <3>2. QED
      BY <3>1 DEF Following, Absent
  <2>3. QED
    BY <2>1, <2>2
<1>6. Met'
  <2>1. \A q \in Player : gnome'[q].made => q # p /\ gnome'[q] = gnome[q]
    BY <1>1, <1>2 DEF Follower!NoGnome
  <2>2. \A q \in Player : present'[q] => q # p /\ present[q] /\ screen'[q].met = screen[q].met
    BY <1>1, <1>2, <1>3
  <2>3. \A q \in Player : q # p => home'[q] = home[q]
    BY <1>1, <1>2
  <2>4. QED
    BY <2>1, <2>2, <2>3 DEF Following, Met
<1>7. Sweeping'
  <2>1. \A q \in Player : q # p => /\ home'[q] = home[q] /\ gnome'[q] = gnome[q]
                                   /\ sweep'[q] = sweep[q]
    BY <1>1, <1>2
  <2>2. sweep'[p] = Follower!NoSweep
    BY <1>1, <1>2
  <2>3. QED
    BY <1>2, <2>1, <2>2, Names DEF Following, Sweeping, Follower!NoSweep, Follower!None
<1>8. Follower!NoGhosts'
  <2> SUFFICES ASSUME NEW q \in Player, NEW u \in screen'[q].units
               PROVE  /\ present'[u.owner] /\ home'[u.owner] = home'[q]
                      /\ u.id = (IF u.kind = "gnome" THEN gnome'[u.owner].id
                                 ELSE summons'[u.owner][u.kind])
    BY DEF Follower!NoGhosts
  <2>1. q # p /\ u \in screen[q].units
    BY <1>3 DEF Follower!Blank
  <2>2. u.owner # p
    <3>1. SUFFICES ASSUME u.owner = p PROVE FALSE
      OBVIOUS
    <3>2. /\ q \in Follower!Peers(p)
          /\ u = Follower!GnomeOf(p) \/ \E k \in {"bait", "snowman"} : u = Follower!SummonOf(p, k)
      BY <2>1, <3>1, Erased
    <3>3. QED
      BY <1>3, <2>1, <3>2
  <2>3. u.owner \in Player
    BY <1>1, <2>1 DEF Units
  <2>4. /\ present[u.owner] /\ home[u.owner] = home[q]
        /\ u.id = (IF u.kind = "gnome" THEN gnome[u.owner].id ELSE summons[u.owner][u.kind])
    BY <2>1 DEF Following, Follower!NoGhosts
  <2>5. QED
    BY <1>1, <1>2, <2>1, <2>2, <2>3, <2>4
<1>9. Follower!UpdatesKnown'
  BY <1>1, <1>2, <1>3 DEF Following, Follower!UpdatesKnown
<1>10. QED
  BY <1>4, <1>5, <1>6, <1>7, <1>8, <1>9 DEF Following

LEMMA DespawnFollows ==
    ASSUME Following, NEW p \in Player, Follower!Despawn(p)
    PROVE  Following'
<1>1. /\ gnome \in [Player -> [id : Nat, made : BOOLEAN]]
      /\ screen \in [Player -> [units : SUBSET Units, met : SUBSET Nat]]
      /\ sweep \in [Player -> [step : {"none", "started", "converting"},
                               cands : SUBSET Drop, item : Drop \cup {"none"}]]
  BY DEF Following, PetTypes, Follower!TypeOK, Follower!None
<1>2. /\ gnome' = [gnome EXCEPT ![p] = Follower!NoGnome] /\ sweep' = [sweep EXCEPT ![p] = Follower!NoSweep]
      /\ gnome[p].id # 0
      /\ UNCHANGED <<home, present, summons, lies, purse, queue, unitId, jumps>>
  BY DEF Follower!Despawn
<1>3. /\ \A q \in Player :
            /\ q \notin Follower!Peers(p) \cup {p} => screen'[q] = screen[q]
            /\ q \in Follower!Peers(p) \cup {p} => screen'[q].units = screen[q].units \ {Follower!GnomeOf(p)}
            /\ screen'[q].met = screen[q].met
      /\ screen' \in [Player -> [units : SUBSET Units, met : SUBSET Nat]]
  BY <1>1 DEF Follower!Removed, Follower!Despawn
<1>4. PetTypes'
  <2>1. gnome' \in [Player -> [id : Nat, made : BOOLEAN]]
    BY <1>1, <1>2 DEF Follower!NoGnome
  <2>2. sweep' \in [Player -> [step : {"none", "started", "converting"},
                               cands : SUBSET Drop, item : Drop \cup {"none"}]]
    BY <1>1, <1>2 DEF Follower!NoSweep, Follower!None
  <2>3. QED
    BY <1>2, <1>3, <2>1, <2>2 DEF Following, PetTypes, Follower!TypeOK, Follower!None
<1>5. Absent'
  <2>1. present[p]
    BY <1>2 DEF Following, Absent, Follower!NoGnome
  <2>2. \A q \in Player : ~present[q] => gnome'[q] = gnome[q] /\ screen'[q] = screen[q]
    BY <1>1, <1>2, <1>3, <2>1 DEF Follower!Peers
  <2>3. QED
    BY <1>2, <2>2 DEF Following, Absent
<1>6. Met'
  <2>1. \A q \in Player : gnome'[q].made => q # p /\ gnome'[q] = gnome[q]
    BY <1>1, <1>2 DEF Follower!NoGnome
  <2>2. QED
    BY <1>2, <1>3, <2>1 DEF Following, Met
<1>7. Sweeping'
  <2>1. \A q \in Player : q # p => gnome'[q] = gnome[q] /\ sweep'[q] = sweep[q]
    BY <1>1, <1>2
  <2>2. sweep'[p] = Follower!NoSweep
    BY <1>1, <1>2
  <2>3. QED
    BY <1>2, <2>1, <2>2, Names DEF Following, Sweeping, Follower!NoSweep, Follower!None
<1>8. Follower!NoGhosts'
  <2> SUFFICES ASSUME NEW q \in Player, NEW u \in screen'[q].units
               PROVE  /\ present'[u.owner] /\ home'[u.owner] = home'[q]
                      /\ u.id = (IF u.kind = "gnome" THEN gnome'[u.owner].id
                                 ELSE summons'[u.owner][u.kind])
    BY DEF Follower!NoGhosts
  <2>1. u \in screen[q].units /\ u \in Units
    BY <1>1, <1>3
  <2>2. ~(u.owner = p /\ u.kind = "gnome")
    <3>1. SUFFICES ASSUME u.owner = p, u.kind = "gnome" PROVE FALSE
      OBVIOUS
    <3>2. \A k \in {"bait", "snowman"} : u.kind # k
      BY <3>1
    <3>3. q \in Follower!Peers(p) \cup {p} /\ u = Follower!GnomeOf(p)
      BY <2>1, <3>1, <3>2, Erased
    <3>4. QED
      BY <1>3, <3>3
  <2>3. u.owner \in Player
    BY <2>1 DEF Units
  <2>4. /\ present[u.owner] /\ home[u.owner] = home[q]
        /\ u.id = (IF u.kind = "gnome" THEN gnome[u.owner].id ELSE summons[u.owner][u.kind])
    BY <2>1 DEF Following, Follower!NoGhosts
  <2>5. QED
    BY <1>1, <1>2, <2>2, <2>3, <2>4
<1>9. Follower!UpdatesKnown'
  BY <1>2, <1>3 DEF Following, Follower!UpdatesKnown
<1>10. QED
  BY <1>4, <1>5, <1>6, <1>7, <1>8, <1>9 DEF Following

LEMMA BaitEndsFollows ==
    ASSUME Following, NEW p \in Player, Follower!BaitEnds(p)
    PROVE  Following'
<1> USE DEF Follower!BaitEnds
<1>1. /\ summons \in [Player -> [{"bait", "snowman"} -> Nat]]
      /\ screen \in [Player -> [units : SUBSET Units, met : SUBSET Nat]]
  BY DEF Following, PetTypes, Follower!TypeOK, Follower!Bait, Follower!Snowman
<1>2. /\ summons' = [summons EXCEPT ![p]["bait"] = 0] /\ summons[p]["bait"] # 0
      /\ UNCHANGED <<home, present, gnome, sweep, lies, queue, unitId>>
  BY DEF Follower!Bait
<1>3. /\ \A q \in Player :
            /\ q \notin Follower!Peers(p) \cup {p} => screen'[q] = screen[q]
            /\ q \in Follower!Peers(p) \cup {p} => screen'[q].units = screen[q].units \ {Follower!SummonOf(p, "bait")}
            /\ screen'[q].met = screen[q].met
      /\ screen' \in [Player -> [units : SUBSET Units, met : SUBSET Nat]]
  BY <1>1 DEF Follower!Removed, Follower!Bait
<1>4. PetTypes'
  <2>1. summons' \in [Player -> [{"bait", "snowman"} -> Nat]]
    BY <1>1, <1>2
  <2>2. QED
    BY <1>2, <1>3, <2>1 DEF Following, PetTypes, Follower!TypeOK, Follower!Bait, Follower!Snowman
<1>5. Absent'
  <2>1. present[p]
    BY <1>2 DEF Following, Absent, Follower!Bait
  <2>2. \A q \in Player : q # p => summons'[q] = summons[q]
    BY <1>1, <1>2
  <2>3. \A q \in Player : ~present[q] => q # p /\ screen'[q] = screen[q]
    BY <1>3, <2>1 DEF Follower!Peers
  <2>4. QED
    BY <1>2, <2>2, <2>3 DEF Following, Absent
<1>6. Met'
  BY <1>2, <1>3 DEF Following, Met
<1>7. Sweeping'
  BY <1>2 DEF Following, Sweeping
<1>8. Follower!NoGhosts'
  <2> SUFFICES ASSUME NEW q \in Player, NEW u \in screen'[q].units
               PROVE  /\ present'[u.owner] /\ home'[u.owner] = home'[q]
                      /\ u.id = (IF u.kind = "gnome" THEN gnome'[u.owner].id
                                 ELSE summons'[u.owner][u.kind])
    BY DEF Follower!NoGhosts
  <2>1. u \in screen[q].units /\ u \in Units
    BY <1>1, <1>3
  <2>2. ~(u.owner = p /\ u.kind = "bait")
    <3>1. SUFFICES ASSUME u.owner = p, u.kind = "bait" PROVE FALSE
      OBVIOUS
    <3>2. u # Follower!GnomeOf(p)
      BY <3>1 DEF Follower!GnomeOf, Follower!Unit
    <3>3. q \in Follower!Peers(p) \cup {p} /\ u = Follower!SummonOf(p, "bait")
      BY <2>1, <3>1, <3>2, Erased
    <3>4. QED
      BY <1>3, <3>3
  <2>3. u.owner \in Player /\ u.kind \in {"gnome", "bait", "snowman"}
    BY <2>1 DEF Units
  <2>4. /\ present[u.owner] /\ home[u.owner] = home[q]
        /\ u.id = (IF u.kind = "gnome" THEN gnome[u.owner].id ELSE summons[u.owner][u.kind])
    BY <2>1 DEF Following, Follower!NoGhosts
  <2>5. u.kind # "gnome" => summons'[u.owner][u.kind] = summons[u.owner][u.kind]
    BY <1>1, <1>2, <2>2, <2>3
  <2>6. QED
    BY <1>2, <2>4, <2>5
<1>9. Follower!UpdatesKnown'
  BY <1>2, <1>3 DEF Following, Follower!UpdatesKnown
<1>10. QED
  BY <1>4, <1>5, <1>6, <1>7, <1>8, <1>9 DEF Following

(* The components are announced before the first update.                   *)
LEMMA CreateBehaviorFollows ==
    ASSUME Following, NEW p \in Player, Follower!CreateBehavior(p)
    PROVE  Following'
<1>1. /\ gnome \in [Player -> [id : Nat, made : BOOLEAN]]
      /\ screen \in [Player -> [units : SUBSET Units, met : SUBSET Nat]]
  BY DEF Following, PetTypes, Follower!TypeOK
<1>2. /\ gnome' = [gnome EXCEPT ![p].made = TRUE] /\ gnome[p].id # 0
      /\ UNCHANGED <<home, present, sweep, summons, lies, purse, queue, unitId, jumps>>
  BY DEF Follower!CreateBehavior
<1>3. /\ \A q \in Player :
            /\ q \notin Follower!Peers(p) \cup {p} => screen'[q] = screen[q]
            /\ q \in Follower!Peers(p) \cup {p} => screen'[q].met = screen[q].met \cup {gnome[p].id}
            /\ screen'[q].units = screen[q].units
      /\ screen' \in [Player -> [units : SUBSET Units, met : SUBSET Nat]]
  BY <1>1 DEF Follower!Components, Follower!CreateBehavior
<1>4. /\ gnome' \in [Player -> [id : Nat, made : BOOLEAN]]
      /\ \A q \in Player : gnome'[q].id = gnome[q].id /\ (q # p => gnome'[q] = gnome[q])
  BY <1>1, <1>2
<1>5. PetTypes'
  BY <1>2, <1>3, <1>4 DEF Following, PetTypes, Follower!TypeOK
<1>6. present[p]
  BY <1>2 DEF Following, Absent, Follower!NoGnome
<1>7. Absent'
  <2>1. \A q \in Player : ~present[q] => q # p /\ screen'[q] = screen[q]
    BY <1>3, <1>6 DEF Follower!Peers
  <2>2. \A q \in Player : ~present[q] => gnome'[q] = gnome[q]
    BY <1>4, <2>1
  <2>3. QED
    BY <1>2, <2>1, <2>2 DEF Following, Absent
<1>8. Met'
  BY <1>2, <1>3, <1>4, <1>6 DEF Following, Met, Follower!Peers
<1>9. Sweeping'
  BY <1>1, <1>2, <1>4 DEF Following, Sweeping
<1>10. Follower!NoGhosts'
  <2>1. \A q \in Player : \A u \in screen'[q].units : u \in screen[q].units /\ u.owner \in Player
    BY <1>1, <1>3 DEF Units
  <2>2. QED
    BY <1>2, <1>4, <2>1 DEF Following, Follower!NoGhosts
<1>11. Follower!UpdatesKnown'
  BY <1>2, <1>3 DEF Following, Follower!UpdatesKnown
<1>12. QED
  BY <1>5, <1>7, <1>8, <1>9, <1>10, <1>11 DEF Following

(* What a gnome with components queues is known to all who get it.         *)
LEMMA EnqueuedKnown ==
    ASSUME Following, NEW p \in Player, gnome[p].made
    PROVE  /\ Follower!Enqueued(p, gnome[p].id) \in [Player -> SUBSET Nat]
           /\ \A q \in Player : present[q] =>
                    Follower!Enqueued(p, gnome[p].id)[q] \subseteq screen[q].met
<1>1. /\ gnome \in [Player -> [id : Nat, made : BOOLEAN]] /\ queue \in [Player -> SUBSET Nat]
  BY DEF Following, PetTypes, Follower!TypeOK
<1>2. \A q \in Follower!Peers(p) \cup {p} : present[q] => gnome[p].id \in screen[q].met
  BY DEF Following, Met, Follower!Peers
<1>3. QED
  BY <1>1, <1>2 DEF Follower!Enqueued, Following, Follower!UpdatesKnown

LEMMA QueueFollows ==
    ASSUME Following,
           queue' \in [Player -> SUBSET Nat],
           \A q \in Player : present[q] => queue'[q] \subseteq screen[q].met,
           UNCHANGED <<home, present, gnome, sweep, summons, lies, purse, screen, unitId, jumps>>
    PROVE  Following'
<1>1. PetTypes'
  BY DEF Following, PetTypes, Follower!TypeOK
<1>2. Absent' /\ Met' /\ Sweeping'
  BY DEF Following, Absent, Met, Sweeping
<1>3. Follower!NoGhosts' /\ Follower!UpdatesKnown'
  BY DEF Following, Follower!NoGhosts, Follower!UpdatesKnown
<1>4. QED
  BY <1>1, <1>2, <1>3 DEF Following

(* The sweep of a gnome with components moves on.                          *)
LEMMA SweepFollows ==
    ASSUME Following, NEW p \in Player, gnome[p].made,
           NEW w \in [step : {"none", "started", "converting"},
                      cands : SUBSET Drop, item : Drop \cup {"none"}],
           \A d \in Drop : d \in w.cands \cup {w.item} => lies[d] = home[p] \/ lies[d] \in Player,
           sweep' = [sweep EXCEPT ![p] = w],
           queue' = queue \/ queue' = Follower!Enqueued(p, gnome[p].id),
           UNCHANGED <<home, present, gnome, summons, lies, purse, screen, unitId, jumps>>
    PROVE  Following'
<1>1. sweep \in [Player -> [step : {"none", "started", "converting"},
                            cands : SUBSET Drop, item : Drop \cup {"none"}]]
  BY DEF Following, PetTypes, Follower!TypeOK, Follower!None
<1>2. /\ queue' \in [Player -> SUBSET Nat]
      /\ \A q \in Player : present[q] => queue'[q] \subseteq screen[q].met
  BY EnqueuedKnown DEF Following, PetTypes, Follower!TypeOK, Follower!UpdatesKnown
<1>3. sweep' \in [Player -> [step : {"none", "started", "converting"},
                             cands : SUBSET Drop, item : Drop \cup {"none"}]]
  BY <1>1
<1>4. PetTypes'
  BY <1>2, <1>3 DEF Following, PetTypes, Follower!TypeOK, Follower!None
<1>5. Absent' /\ Met' /\ Follower!NoGhosts' /\ Follower!UpdatesKnown'
  BY <1>2 DEF Following, Absent, Met, Follower!NoGhosts, Follower!UpdatesKnown
<1>6. Sweeping'
  BY <1>1 DEF Following, Sweeping
<1>7. QED
  BY <1>4, <1>5, <1>6 DEF Following

LEMMA ActivateFollows ==
    ASSUME Following, NEW p \in Player, Follower!Activate(p)
    PROVE  Following'
<1> DEFINE w == [Follower!NoSweep EXCEPT !.step = "started"]
<1>1. w = [step |-> "started", cands |-> {}, item |-> "none"]
  BY DEF Follower!NoSweep, Follower!None
<1>2. w \in [step : {"none", "started", "converting"}, cands : SUBSET Drop,
             item : Drop \cup {"none"}]
  BY <1>1
<1>3. \A d \in Drop : d \in w.cands \cup {w.item} => lies[d] = home[p] \/ lies[d] \in Player
  BY <1>1, Names
<1>4. /\ gnome[p].made /\ sweep' = [sweep EXCEPT ![p] = w]
      /\ queue' = Follower!Enqueued(p, gnome[p].id)
      /\ UNCHANGED <<home, present, gnome, summons, lies, purse, screen, unitId, jumps>>
  BY DEF Follower!Activate
<1> HIDE DEF w
<1>5. QED
  BY <1>2, <1>3, <1>4, SweepFollows

LEMMA CollectFollows ==
    ASSUME Following, NEW p \in Player, Follower!Collect(p)
    PROVE  Following'
<1> DEFINE w == [step |-> "converting", item |-> Follower!None,
                 cands |-> {d \in Convertible : lies[d] = home[p]}]
<1>1. Convertible \subseteq Drop
  BY PetsAssumption DEF Follower!DropAssumption
<1>2. w \in [step : {"none", "started", "converting"}, cands : SUBSET Drop,
             item : Drop \cup {"none"}]
  BY <1>1 DEF Follower!None
<1>3. \A d \in Drop : d \in w.cands \cup {w.item} => lies[d] = home[p] \/ lies[d] \in Player
  BY Names DEF Follower!None
<1>4. /\ sweep[p].step = "started" /\ sweep' = [sweep EXCEPT ![p] = w] /\ queue' = queue
      /\ UNCHANGED <<home, present, gnome, summons, lies, purse, screen, unitId, jumps>>
  BY DEF Follower!Collect
<1> HIDE DEF w
<1>5. gnome[p].made
  BY <1>4 DEF Following, Sweeping, Follower!NoSweep
<1>6. QED
  BY <1>2, <1>3, <1>4, <1>5, SweepFollows

LEMMA NextItemFollows ==
    ASSUME Following, NEW p \in Player, NEW d \in Drop, Follower!NextItem(p, d)
    PROVE  Following'
<1> DEFINE w == [sweep[p] EXCEPT !.item = d, !.cands = @ \ {d}]
<1>1. sweep \in [Player -> [step : {"none", "started", "converting"},
                            cands : SUBSET Drop, item : Drop \cup {"none"}]]
  BY DEF Following, PetTypes, Follower!TypeOK, Follower!None
<1>2. d \in sweep[p].cands
  BY DEF Follower!NextItem
<1>3. gnome[p].made
  BY <1>2 DEF Following, Sweeping, Follower!NoSweep
<1>4. gnome[p].id # 0
  <2>1. present[p]
    BY <1>3 DEF Following, Absent, Follower!NoGnome
  <2>2. QED
    BY <1>3, <2>1 DEF Following, Met
<1>5. w = [step |-> sweep[p].step, cands |-> sweep[p].cands \ {d}, item |-> d]
  <2>1. sweep[p] \in [step : {"none", "started", "converting"}, cands : SUBSET Drop,
                      item : Drop \cup {"none"}]
    BY <1>1
  <2>2. ASSUME NEW r \in [step : {"none", "started", "converting"}, cands : SUBSET Drop,
                          item : Drop \cup {"none"}]
        PROVE  [r EXCEPT !.item = d, !.cands = @ \ {d}]
                    = [step |-> r.step, cands |-> r.cands \ {d}, item |-> d]
    <3> DEFINE v == [r EXCEPT !.item = d]
    <3>1. v = [step |-> r.step, cands |-> r.cands, item |-> d]
      OBVIOUS
    <3>2. v \in [step : {"none", "started", "converting"}, cands : SUBSET Drop,
                 item : Drop \cup {"none"}]
      BY <3>1
    <3>3. [r EXCEPT !.item = d, !.cands = @ \ {d}] = [v EXCEPT !.cands = @ \ {d}]
      OBVIOUS
    <3> HIDE DEF v
    <3>4. [v EXCEPT !.cands = @ \ {d}] = [step |-> v.step, cands |-> v.cands \ {d}, item |-> v.item]
      BY <3>2
    <3>5. QED
      BY <3>1, <3>3, <3>4
  <2>3. QED
    BY <2>1, <2>2
<1>6. w \in [step : {"none", "started", "converting"}, cands : SUBSET Drop,
             item : Drop \cup {"none"}]
  BY <1>1, <1>5
<1>7. \A e \in Drop : e \in w.cands \cup {w.item} => lies[e] = home[p] \/ lies[e] \in Player
  <2>1. \A e \in w.cands \cup {w.item} : e \in sweep[p].cands
    BY <1>2, <1>5
  <2>2. QED
    BY <2>1 DEF Following, Sweeping
<1>8. /\ sweep' = [sweep EXCEPT ![p] = w] /\ queue' = Follower!Enqueued(p, gnome[p].id)
      /\ UNCHANGED <<home, present, gnome, summons, lies, purse, screen, unitId, jumps>>
  BY <1>1, <1>4 DEF Follower!NextItem
<1> HIDE DEF w
<1>9. QED
  BY <1>3, <1>6, <1>7, <1>8, SweepFollows

LEMMA ConvertFollows ==
    ASSUME Following, NEW p \in Player, Follower!Convert(p)
    PROVE  Following'
<1> DEFINE w == [sweep[p] EXCEPT !.item = Follower!None]
<1>1. sweep \in [Player -> [step : {"none", "started", "converting"},
                            cands : SUBSET Drop, item : Drop \cup {"none"}]]
  BY DEF Following, PetTypes, Follower!TypeOK, Follower!None
<1>2. /\ sweep[p].item # "none" /\ sweep' = [sweep EXCEPT ![p].item = Follower!None]
      /\ UNCHANGED <<home, present, gnome, summons, screen, queue, unitId, jumps>>
      /\ \/ Follower!RemoveDrop(p, sweep[p].item)
         \/ UNCHANGED <<lies, purse>>
  BY DEF Follower!Convert, Follower!None
<1>3. CASE Follower!RemoveDrop(p, sweep[p].item)
  <2>1. sweep[p].item \in Drop
    BY <1>1, <1>2
  <2>2. QED
    BY <1>2, <1>3, <2>1, ClaimFollows DEF Follower!RemoveDrop
<1>4. CASE UNCHANGED <<lies, purse>>
  <2>1. gnome[p].made
    BY <1>2 DEF Following, Sweeping, Follower!NoSweep, Follower!None
  <2>2. w = [step |-> sweep[p].step, cands |-> sweep[p].cands, item |-> "none"]
    BY <1>1 DEF Follower!None
  <2>3. w \in [step : {"none", "started", "converting"}, cands : SUBSET Drop,
               item : Drop \cup {"none"}]
    BY <1>1, <2>2
  <2>4. \A e \in Drop : e \in w.cands \cup {w.item} => lies[e] = home[p] \/ lies[e] \in Player
    BY <2>2, Names DEF Following, Sweeping
  <2>5. sweep' = [sweep EXCEPT ![p] = w] /\ queue' = queue
    BY <1>1, <1>2
  <2> HIDE DEF w
  <2>6. QED
    BY <1>2, <1>4, <2>1, <2>3, <2>4, <2>5, SweepFollows
<1>5. QED
  BY <1>2, <1>3, <1>4

LEMMA FollowingStep ==
    ASSUME Following, Follower!Next \/ UNCHANGED petVars
    PROVE  Following'
<1>1. CASE UNCHANGED petVars
  <2>1. PetTypes' /\ Absent' /\ Met' /\ Sweeping'
    BY <1>1 DEF Following, petVars, PetTypes, Follower!TypeOK, Absent, Met, Sweeping
  <2>2. Follower!NoGhosts' /\ Follower!UpdatesKnown'
    BY <1>1 DEF Following, petVars, Follower!NoGhosts, Follower!UpdatesKnown
  <2>3. QED
    BY <2>1, <2>2 DEF Following
<1>2. ASSUME NEW d \in Drop, NEW c \in Copy, Follower!DropFalls(d, c) PROVE Following'
  BY <1>2, DropFallsFollows
<1>3. ASSUME NEW p \in Player, NEW c \in Copy, Follower!Login(p, c) PROVE Following'
  BY <1>3, LoginFollows
<1>4. ASSUME NEW p \in Player, NEW c \in Copy \cup {Follower!Away}, Follower!Leave(p, c) PROVE Following'
  BY <1>4, LeaveFollows
<1>5. ASSUME NEW p \in Player, Follower!Enter(p) \/ Follower!Spawn(p) \/ Follower!CreateBehavior(p) \/ Follower!Despawn(p)
      PROVE  Following'
  BY <1>5, EnterFollows, SpawnFollows, CreateBehaviorFollows, DespawnFollows
<1>6. ASSUME NEW p \in Player, Follower!Activate(p) \/ Follower!Collect(p) \/ Follower!Convert(p) \/ Follower!BaitEnds(p)
      PROVE  Following'
  BY <1>6, ActivateFollows, CollectFollows, ConvertFollows, BaitEndsFollows
<1>7. ASSUME NEW p \in Player, Follower!FollowTick(p) PROVE Following'
  BY <1>7, EnqueuedKnown, QueueFollows DEF Follower!FollowTick
<1>8. ASSUME NEW p \in Player, Follower!Flush(p) PROVE Following'
  <2>1. /\ queue' \in [Player -> SUBSET Nat]
        /\ \A q \in Player : present[q] => queue'[q] \subseteq screen[q].met
    BY <1>8 DEF Follower!Flush, Following, PetTypes, Follower!TypeOK, Follower!UpdatesKnown
  <2>2. QED
    BY <1>8, <2>1, QueueFollows DEF Follower!Flush
<1>9. ASSUME NEW p \in Player, NEW d \in Drop, Follower!PickUp(p, d) \/ Follower!PickupGold(p, d)
      PROVE  Following'
  BY <1>9, ClaimFollows DEF Follower!PickUp, Follower!PickupGold, Follower!RemoveDrop
<1>10. ASSUME NEW p \in Player, NEW d \in Drop, Follower!NextItem(p, d) PROVE Following'
  BY <1>10, NextItemFollows
<1>11. ASSUME NEW p \in Player, NEW k \in {Follower!Bait, Follower!Snowman}, Follower!TryCast(p, k) PROVE Following'
  BY <1>11, TryCastFollows
<1>12. QED
  BY <1>1, <1>2, <1>3, <1>4, <1>5, <1>6, <1>7, <1>8, <1>9, <1>10, <1>11 DEF Follower!Next

(* Each drop is claimed by at most one step, which pays for it.            *)
LEMMA SameSize == \A S : Follower!Cardinality(S) = Cardinality(S)
BY DEF Follower!Cardinality, Cardinality

LEMMA ClaimPaid ==
    ASSUME Paid, NEW p \in Player, NEW d \in Drop, lies \in [Drop -> Copy \cup Player \cup {"unfallen"}],
           purse \in [Player -> Nat], Follower!RemoveDrop(p, d)
    PROVE  Paid'
<1>1. lies[d] \notin Player
  BY Names DEF Follower!RemoveDrop
<1>2. /\ lies' = [lies EXCEPT ![d] = p] /\ purse' = [purse EXCEPT ![p] = @ + 1]
  BY DEF Follower!RemoveDrop
<1>3. Claims(p)' = Claims(p) \cup {d} /\ d \notin Claims(p)
  BY <1>1, <1>2 DEF Claims
<1>4. IsFiniteSet(Claims(p)') /\ Cardinality(Claims(p)') = Cardinality(Claims(p)) + 1
  BY <1>3, FS_AddElement DEF Paid
<1>5. ASSUME NEW q \in Player, q # p
      PROVE  Claims(q)' = Claims(q) /\ purse'[q] = purse[q]
  BY <1>1, <1>2, <1>5 DEF Claims
<1>6. purse'[p] = purse[p] + 1
  BY <1>2
<1>7. QED
  BY <1>4, <1>5, <1>6 DEF Paid

LEMMA PaidStep ==
    ASSUME Following, Paid, Follower!Next \/ UNCHANGED petVars
    PROVE  Paid'
<1>1. lies \in [Drop -> Copy \cup Player \cup {"unfallen"}] /\ purse \in [Player -> Nat]
  BY DEF Following, PetTypes, Follower!TypeOK, Follower!Unfallen
<1>2. ASSUME UNCHANGED <<lies, purse>> PROVE Paid'
  BY <1>2 DEF Paid, Claims
<1>3. ASSUME NEW d \in Drop, NEW c \in Copy, Follower!DropFalls(d, c) PROVE Paid'
  <2>1. lies' = [lies EXCEPT ![d] = c] /\ lies[d] = "unfallen" /\ purse' = purse
    BY <1>3 DEF Follower!DropFalls, Follower!Unfallen
  <2>2. \A q \in Player : Claims(q)' = Claims(q)
    BY <1>1, <2>1, Names DEF Claims
  <2>3. QED
    BY <2>1, <2>2 DEF Paid
<1>4. ASSUME NEW p \in Player, NEW d \in Drop, Follower!PickUp(p, d) \/ Follower!PickupGold(p, d) PROVE Paid'
  BY <1>1, <1>4, ClaimPaid DEF Follower!PickUp, Follower!PickupGold
<1>5. ASSUME NEW p \in Player, Follower!Convert(p) PROVE Paid'
  <2>1. sweep[p].item \in Drop
    BY <1>5 DEF Follower!Convert, Following, PetTypes, Follower!TypeOK
  <2>2. QED
    BY <1>1, <1>2, <1>5, <2>1, ClaimPaid DEF Follower!Convert
<1>6. ASSUME NEW p \in Player,
             \/ \E c \in Copy : Follower!Login(p, c)
             \/ Follower!Enter(p) \/ \E c \in Copy \cup {Follower!Away} : Follower!Leave(p, c)
             \/ Follower!Spawn(p) \/ Follower!CreateBehavior(p) \/ Follower!FollowTick(p) \/ Follower!Despawn(p)
             \/ Follower!Activate(p) \/ Follower!Collect(p)
             \/ \E d \in Drop : Follower!NextItem(p, d)
             \/ \E k \in {Follower!Bait, Follower!Snowman} : Follower!TryCast(p, k)
             \/ Follower!BaitEnds(p) \/ Follower!Flush(p)
      PROVE  Paid'
  <2>1. UNCHANGED <<lies, purse>>
    BY <1>6 DEF Follower!Login, Follower!Enter, Follower!Leave, Follower!Spawn, Follower!CreateBehavior, Follower!FollowTick, Follower!Despawn,
                Follower!Activate, Follower!Collect, Follower!NextItem, Follower!TryCast, Follower!BaitEnds, Follower!Flush
  <2>2. QED
    BY <1>2, <2>1
<1>7. CASE UNCHANGED petVars
  BY <1>2, <1>7 DEF petVars
<1>8. QED
  BY <1>3, <1>4, <1>5, <1>6, <1>7 DEF Follower!Next

(* A claim is made where the claimant is.                                  *)
LEMMA HomeStep ==
    ASSUME Following, Follower!Next, NEW p \in Player, NEW d \in Drop, lies[d] # p, lies'[d] = p
    PROVE  present[p] /\ lies[d] = home[p]
<1>1. lies \in [Drop -> Copy \cup Player \cup {"unfallen"}]
  BY DEF Following, PetTypes, Follower!TypeOK, Follower!Unfallen
<1>2. \A q \in Player : gnome[q].made => present[q]
  BY DEF Following, Absent, Follower!NoGnome
<1>3. ASSUME NEW q \in Player, NEW e \in Drop, Follower!RemoveDrop(q, e)
      PROVE  q = p /\ e = d /\ lies[d] \in Copy
  BY <1>1, <1>3 DEF Follower!RemoveDrop
<1>4. ASSUME NEW e \in Drop, NEW c \in Copy, Follower!DropFalls(e, c) PROVE FALSE
  BY <1>1, <1>4, Names DEF Follower!DropFalls
<1>5. ASSUME NEW q \in Player, NEW e \in Drop, Follower!PickUp(q, e)
      PROVE  present[p] /\ lies[d] = home[p]
  BY <1>3, <1>5 DEF Follower!PickUp
<1>6. ASSUME NEW q \in Player, NEW e \in Drop, Follower!PickupGold(q, e)
      PROVE  present[p] /\ lies[d] = home[p]
  BY <1>2, <1>3, <1>6 DEF Follower!PickupGold
<1>7. ASSUME NEW q \in Player, Follower!Convert(q)
      PROVE  present[p] /\ lies[d] = home[p]
  <2>1. sweep[q].item \in Drop /\ gnome[q].made
    BY <1>7 DEF Follower!Convert, Following, PetTypes, Follower!TypeOK, Sweeping, Follower!NoSweep
  <2>2. Follower!RemoveDrop(q, sweep[q].item)
    BY <1>7 DEF Follower!Convert
  <2>3. q = p /\ sweep[q].item = d /\ lies[d] \in Copy
    BY <1>3, <2>1, <2>2
  <2>4. lies[d] = home[p] \/ lies[d] \in Player
    BY <2>3 DEF Following, Sweeping
  <2>5. QED
    BY <1>2, <2>1, <2>3, <2>4, Names
<1>8. ASSUME NEW q \in Player,
             \/ \E c \in Copy : Follower!Login(q, c)
             \/ Follower!Enter(q) \/ \E c \in Copy \cup {Follower!Away} : Follower!Leave(q, c)
             \/ Follower!Spawn(q) \/ Follower!CreateBehavior(q) \/ Follower!FollowTick(q) \/ Follower!Despawn(q)
             \/ Follower!Activate(q) \/ Follower!Collect(q)
             \/ \E e \in Drop : Follower!NextItem(q, e)
             \/ \E k \in {Follower!Bait, Follower!Snowman} : Follower!TryCast(q, k)
             \/ Follower!BaitEnds(q) \/ Follower!Flush(q)
      PROVE  FALSE
  <2>1. lies' = lies
    BY <1>8 DEF Follower!Login, Follower!Enter, Follower!Leave, Follower!Spawn, Follower!CreateBehavior, Follower!FollowTick, Follower!Despawn,
                Follower!Activate, Follower!Collect, Follower!NextItem, Follower!TryCast, Follower!BaitEnds, Follower!Flush
  <2>2. QED
    BY <2>1
<1>9. QED
  BY <1>4, <1>5, <1>6, <1>7, <1>8 DEF Follower!Next

LEMMA FollowingAlways == Spec => [](Following /\ Paid)
<1>1. Init => Following /\ Paid
  <2> SUFFICES ASSUME Init PROVE Paid
    BY FollowingInit
  <2>1. lies = [d \in Drop |-> "unfallen"] /\ purse = [p \in Player |-> 0]
    BY DEF Init, Follower!Init, Follower!Unfallen
  <2>2. \A p \in Player : Claims(p) = {}
    BY <2>1, Names DEF Claims
  <2>3. QED
    BY <2>1, <2>2, FS_EmptySet DEF Paid
<1>2. Following /\ Paid /\ [Next]_vars => (Following /\ Paid)'
  <2> SUFFICES ASSUME Following, Paid, [Next]_vars PROVE (Following /\ Paid)'
    OBVIOUS
  <2>1. Follower!Next \/ UNCHANGED petVars
    BY DEF Next, vars, petVars
  <2>2. QED
    BY <2>1, FollowingStep, PaidStep
<1>3. QED
  BY <1>1, <1>2, PTL DEF Spec

(* Every unit on a screen is alive and its owner's one, over any crossing  *)
(* of travels, summons and the gnomes' own tasks, and no update reaches a  *)
(* client before the component it is about.                                *)
THEOREM GhostsCorrect == Spec => []NoGhosts
<1>1. Following => NoGhosts
  BY DEF Following, PetTypes, NoGhosts
<1>2. QED
  BY <1>1, FollowingAlways, PTL

LEMMA ClaimsAlways == Spec => [](part = "follower" => Follower!PaidForClaims)
<1>1. Paid => (part = "follower" => Follower!PaidForClaims)
  BY SameSize DEF Paid, Claims, Follower!PaidForClaims
<1>2. QED
  BY <1>1, FollowingAlways, PTL

LEMMA HomeAlways == Spec => Follower!ConvertsAtHome
<1>1. Following /\ [Next]_vars =>
        [\A p \in Player, d \in Drop :
            lies[d] # p /\ lies'[d] = p => present[p] /\ lies[d] = home[p]]_petVars
  <2> SUFFICES ASSUME Following, [Next]_vars, petVars' # petVars,
                      NEW p \in Player, NEW d \in Drop, lies[d] # p, lies'[d] = p
               PROVE  present[p] /\ lies[d] = home[p]
    OBVIOUS
  <2>1. Follower!Next
    BY DEF Next, vars, petVars
  <2>2. QED
    BY <2>1, HomeStep
<1>2. Spec => [][\A p \in Player, d \in Drop :
            lies[d] # p /\ lies'[d] = p => present[p] /\ lies[d] = home[p]]_petVars
  BY <1>1, FollowingAlways, PTL DEF Spec
<1>3. QED
  BY <1>2 DEF Follower!ConvertsAtHome, Follower!vars, petVars

(* Gold is credited once for every drop claimed, by hand, by a gnome or by *)
(* a sweep that comes late; and what a sweep takes lies where its owner is, *)
(* though it was chosen before a sleep: whoever leaves takes it along.     *)
THEOREM ClaimsCorrect == Spec => PaidForClaims
BY ClaimsAlways, HomeAlways DEF PaidForClaims
-----------------------------------------------------------------------------
(* The stock of the vendor *)

Goods == [id : Nat, kind : Kind, x : 1..Width, y : 1..Height]
Grid == (1..Width) \X (1..Height)

(* Tabs of goods that fill cells of their own and bear ids of their own,   *)
(* namely those of old or ones from n on.                                  *)
SoundTabs(old, n) ==
    {t \in [items : SUBSET Goods, next : Nat, taken : SUBSET Grid] :
        /\ t.next >= n
        /\ t.taken = Vendor!Taken(t.items)
        /\ \A i \in t.items : i.id < t.next /\ i.id # 0 /\ (i \in old \/ i.id >= n)
        /\ \A i, j \in t.items : i.id = j.id => i = j
        /\ \A i, j \in t.items : Vendor!CellsOf(i) \cap Vendor!CellsOf(j) # {} => i = j}

LEMMA Sizes ==
    ASSUME NEW k \in Kind
    PROVE  /\ Width \in Nat /\ Height \in Nat
           /\ Size[k][1] \in 1..Width /\ Size[k][2] \in 1..Height
BY ShopAssumption DEF Vendor!GridAssumption

(* The first free spot is one of the free spots.                           *)
LEMMA FirstIsSpot ==
    ASSUME NEW spots \in SUBSET (Nat \X Nat), spots # {}
    PROVE  Vendor!First(spots) \in spots
<1> DEFINE X == {s[1] : s \in spots}
<1>1. X \in SUBSET Nat /\ X # {}
  OBVIOUS
<1>2. PICK a \in X : \A b \in X : a <= b
  BY <1>1, HasLeast
<1> DEFINE Y == {s[2] : s \in {t \in spots : t[1] = a}}
<1>3. Y \in SUBSET Nat /\ Y # {}
  BY <1>2
<1>4. PICK c \in Y : \A d \in Y : c <= d
  BY <1>3, HasLeast
<1>5. PICK s \in spots : s[1] = a /\ s[2] = c
  BY <1>4
<1>6. ASSUME NEW t \in spots PROVE s[1] < t[1] \/ (s[1] = t[1] /\ s[2] <= t[2])
  <2>1. t[1] \in X /\ t[1] \in Nat /\ s[1] \in Nat /\ t[2] \in Nat /\ s[2] \in Nat
    OBVIOUS
  <2>2. a <= t[1]
    BY <1>2, <2>1
  <2>3. CASE t[1] = a
    <3>1. t[2] \in Y
      BY <2>3
    <3>2. QED
      BY <1>4, <1>5, <2>3, <3>1
  <2>4. QED
    BY <1>5, <2>1, <2>2, <2>3
<1>7. QED
  BY <1>5, <1>6 DEF Vendor!First

(* One more item keeps a tab sound.                                        *)
LEMMA PlacedSound ==
    ASSUME NEW old, NEW n \in Nat \ {0}, NEW t \in SoundTabs(old, n), NEW k \in Kind
    PROVE  Vendor!Placed(t, k) \in SoundTabs(old, n)
<1> DEFINE spots == Vendor!Spots(k, t.taken)
<1>1. CASE Vendor!Cardinality(t.items) >= Ceiling \/ spots = {}
  BY <1>1 DEF Vendor!Placed
<1>2. CASE ~(Vendor!Cardinality(t.items) >= Ceiling \/ spots = {})
  <2> DEFINE s == Vendor!First(spots)
             i == [id |-> t.next, kind |-> k, x |-> s[1], y |-> s[2]]
             u == [items |-> t.items \cup {i}, next |-> t.next + 1,
                   taken |-> t.taken \cup Vendor!CellsOf(i)]
  <2>1. Vendor!Placed(t, k) = u
    BY <1>2 DEF Vendor!Placed
  <2>2. s \in spots
    <3>1. spots \in SUBSET (Nat \X Nat)
      BY Sizes DEF Vendor!Spots
    <3>2. QED
      BY <1>2, <3>1, FirstIsSpot
  <2> HIDE DEF s
  <2>3. /\ s[1] \in 1..(Width - Size[k][1] + 1) /\ s[2] \in 1..(Height - Size[k][2] + 1)
        /\ Vendor!CellsAt(k, s[1], s[2]) \cap t.taken = {}
    BY <2>2 DEF Vendor!Spots
  <2>4. /\ t \in [items : SUBSET Goods, next : Nat, taken : SUBSET Grid]
        /\ t.next >= n
        /\ t.taken = Vendor!Taken(t.items)
        /\ \A j \in t.items : j.id < t.next /\ j.id # 0 /\ (j \in old \/ j.id >= n)
        /\ \A j, l \in t.items : j.id = l.id => j = l
        /\ \A j, l \in t.items : Vendor!CellsOf(j) \cap Vendor!CellsOf(l) # {} => j = l
    BY DEF SoundTabs
  <2>5. i \in Goods
    BY <2>3, <2>4, Sizes DEF Goods
  <2>6. Vendor!CellsOf(i) = Vendor!CellsAt(k, s[1], s[2])
    BY DEF Vendor!CellsOf
  <2>7. Vendor!CellsOf(i) \subseteq Grid
    BY <2>3, <2>6, Sizes DEF Vendor!CellsAt, Grid
  <2>8. i.id = t.next
    OBVIOUS
  <2> HIDE DEF i
  <2>9. u \in [items : SUBSET Goods, next : Nat, taken : SUBSET Grid]
    BY <2>4, <2>5, <2>7
  <2>10. u.items = t.items \cup {i} /\ u.next = t.next + 1 /\ u.taken = t.taken \cup Vendor!CellsOf(i)
    OBVIOUS
  <2> HIDE DEF u
  <2>11. u.taken = Vendor!Taken(u.items)
    BY <2>4, <2>10 DEF Vendor!Taken
  <2>12. u.next >= n
    BY <2>4, <2>10
  <2>13. \A j \in u.items : j.id < u.next /\ j.id # 0 /\ (j \in old \/ j.id >= n)
    BY <2>4, <2>8, <2>10 DEF Goods
  <2>14. \A j, l \in u.items : j.id = l.id => j = l
    BY <2>4, <2>8, <2>10 DEF Goods
  <2>15. \A j \in t.items : Vendor!CellsOf(i) \cap Vendor!CellsOf(j) = {}
    BY <2>3, <2>4, <2>6 DEF Vendor!Taken
  <2>16. \A j, l \in u.items : Vendor!CellsOf(j) \cap Vendor!CellsOf(l) # {} => j = l
    BY <2>4, <2>10, <2>15
  <2>17. QED
    BY <2>1, <2>9, <2>11, <2>12, <2>13, <2>14, <2>16 DEF SoundTabs
<1>3. QED
  BY <1>1, <1>2

LEMMA PlacedIfNewSound ==
    ASSUME NEW old, NEW n \in Nat \ {0}, NEW t \in SoundTabs(old, n), NEW k \in Kind
    PROVE  Vendor!PlacedIfNew(t, k) \in SoundTabs(old, n)
BY PlacedSound DEF Vendor!PlacedIfNew

(* An order of the item generator lists kinds.                             *)
LEMMA Orders ==
    ASSUME NEW order \in Vendor!Candidates
    PROVE  Len(order) \in Nat /\ \A k \in 1..Len(order) : order[k] \in Kind
<1>1. IsFiniteSet(Kind)
  BY ShopAssumption DEF Vendor!PriceAssumption, Vendor!IsFiniteSet, IsFiniteSet
<1>2. PICK ks \in SUBSET Kind : order \in Vendor!SetToSeqs(ks)
  BY DEF Vendor!Candidates
<1>3. Vendor!Cardinality(ks) = Cardinality(ks)
  BY DEF Vendor!Cardinality, Cardinality
<1>4. Cardinality(ks) \in Nat
  BY <1>1, FS_Subset, FS_CardinalityType
<1>5. order \in [1..Cardinality(ks) -> ks]
  BY <1>2, <1>3, Zenon DEF Vendor!SetToSeqs
<1>6. order \in Seq(Kind) /\ Len(order) = Cardinality(ks)
  BY <1>4, <1>5
<1>7. QED
  BY <1>4, <1>5, <1>6

(* What placing a list of kinds one by one computes.                       *)
LEMMA PlacesAll ==
    ASSUME NEW S, NEW a \in S, NEW order, Len(order) \in Nat,
           \A t \in S : \A k \in 1..Len(order) : Vendor!Placed(t, order[k]) \in S
    PROVE  LET tab[n \in 0..Len(order)] == IF n = 0 THEN a ELSE Vendor!Placed(tab[n - 1], order[n])
           IN  tab[Len(order)] \in S
<1> DEFINE L == Len(order)
           g == [x \in S \X (1..L) |-> Vendor!Placed(x[1], order[x[2]])]
           Solves(h) == h = [n \in 0..L |-> IF n = 0 THEN a ELSE Vendor!Placed(h[n - 1], order[n])]
           tab == CHOOSE h : Solves(h)
<1>1. g \in [S \X (1..L) -> S] /\ L \in Nat
  OBVIOUS
<1> HIDE DEF g, L
<1>2. PICK f \in [0..L -> S] : Goes(f, a, L, g)
  BY <1>1, Recurs
<1> USE DEF Goes, g, L
<1>3. Solves(f)
  <2>1. ASSUME NEW k \in 0..L
        PROVE  f[k] = IF k = 0 THEN a ELSE Vendor!Placed(f[k - 1], order[k])
    <3>1. CASE k = 0
      BY <1>2, <3>1
    <3>2. CASE k # 0
      <4>1. k \in 1..L /\ k - 1 \in 0..L
        BY <3>2
      <4>2. <<f[k - 1], k>> \in S \X (1..L)
        BY <4>1
      <4>3. g[<<f[k - 1], k>>] = Vendor!Placed(f[k - 1], order[k])
        BY <4>2
      <4>4. QED
        BY <1>2, <3>2, <4>1, <4>3
    <3>3. QED
      BY <3>1, <3>2
  <2> HIDE DEF g
  <2>2. QED
    BY <2>1
<1>4. Solves(tab)
  BY <1>3
<1> HIDE DEF tab, g, Goes
<1>5. tab[0] = a /\ \A k \in 1..L : tab[k] = Vendor!Placed(tab[k - 1], order[k])
  BY <1>4
<1>6. \A k \in 0..L : tab[k] \in S
  <2>1. \A k \in 1..L : tab[k - 1] \in S => tab[k] \in S
    BY <1>5
  <2>2. QED
    BY <1>5, <2>1, Stays
<1>7. tab[L] \in S
  BY <1>6
<1>8. QED
  BY <1>7 DEF tab

LEMMA PlacesNew ==
    ASSUME NEW S, NEW a \in S, NEW order, Len(order) \in Nat,
           \A t \in S : \A k \in 1..Len(order) : Vendor!PlacedIfNew(t, order[k]) \in S
    PROVE  LET tab[n \in 0..Len(order)] == IF n = 0 THEN a ELSE Vendor!PlacedIfNew(tab[n - 1], order[n])
           IN  tab[Len(order)] \in S
<1> DEFINE L == Len(order)
           g == [x \in S \X (1..L) |-> Vendor!PlacedIfNew(x[1], order[x[2]])]
           Solves(h) == h = [n \in 0..L |-> IF n = 0 THEN a ELSE Vendor!PlacedIfNew(h[n - 1], order[n])]
           tab == CHOOSE h : Solves(h)
<1>1. g \in [S \X (1..L) -> S] /\ L \in Nat
  OBVIOUS
<1> HIDE DEF g, L
<1>2. PICK f \in [0..L -> S] : Goes(f, a, L, g)
  BY <1>1, Recurs
<1> USE DEF Goes, g, L
<1>3. Solves(f)
  <2>1. ASSUME NEW k \in 0..L
        PROVE  f[k] = IF k = 0 THEN a ELSE Vendor!PlacedIfNew(f[k - 1], order[k])
    <3>1. CASE k = 0
      BY <1>2, <3>1
    <3>2. CASE k # 0
      <4>1. k \in 1..L /\ k - 1 \in 0..L
        BY <3>2
      <4>2. <<f[k - 1], k>> \in S \X (1..L)
        BY <4>1
      <4>3. g[<<f[k - 1], k>>] = Vendor!PlacedIfNew(f[k - 1], order[k])
        BY <4>2
      <4>4. QED
        BY <1>2, <3>2, <4>1, <4>3
    <3>3. QED
      BY <3>1, <3>2
  <2> HIDE DEF g
  <2>2. QED
    BY <2>1
<1>4. Solves(tab)
  BY <1>3
<1> HIDE DEF tab, g, Goes
<1>5. tab[0] = a /\ \A k \in 1..L : tab[k] = Vendor!PlacedIfNew(tab[k - 1], order[k])
  BY <1>4
<1>6. \A k \in 0..L : tab[k] \in S
  <2>1. \A k \in 1..L : tab[k - 1] \in S => tab[k] \in S
    BY <1>5
  <2>2. QED
    BY <1>5, <2>1, Stays
<1>7. tab[L] \in S
  BY <1>6
<1>8. QED
  BY <1>7 DEF tab

LEMMA GeneratedSound ==
    ASSUME NEW n \in Nat \ {0}, NEW order \in Vendor!Candidates
    PROVE  Vendor!Generated(order, n) \in SoundTabs({}, n)
<1>1. Vendor!EmptyTab(n) \in SoundTabs({}, n)
  BY DEF Vendor!EmptyTab, SoundTabs, Vendor!Taken
<1>2. Len(order) \in Nat /\ \A k \in 1..Len(order) : order[k] \in Kind
  BY Orders
<1>3. \A t \in SoundTabs({}, n) : \A k \in 1..Len(order) :
        Vendor!Placed(t, order[k]) \in SoundTabs({}, n)
  BY <1>2, PlacedSound
<1>4. QED
  BY <1>1, <1>2, <1>3, PlacesAll DEF Vendor!Generated

LEMMA ToppedUpSound ==
    ASSUME NEW n \in Nat \ {0}, NEW order \in Vendor!Candidates, NEW items \in SUBSET Goods,
           Vendor!Taken(items) \subseteq Grid,
           \A i \in items : i.id < n /\ i.id # 0,
           \A i, j \in items : i.id = j.id => i = j,
           \A i, j \in items : Vendor!CellsOf(i) \cap Vendor!CellsOf(j) # {} => i = j
    PROVE  Vendor!ToppedUp(order, items, n) \in SoundTabs(items, n)
<1> DEFINE a == [items |-> items, next |-> n, taken |-> Vendor!Occupied(items)]
<1>1. a \in SoundTabs(items, n)
  BY DEF Vendor!Occupied, SoundTabs
<1>2. Len(order) \in Nat /\ \A k \in 1..Len(order) : order[k] \in Kind
  BY Orders
<1>3. \A t \in SoundTabs(items, n) : \A k \in 1..Len(order) :
        /\ Vendor!Placed(t, order[k]) \in SoundTabs(items, n)
        /\ Vendor!PlacedIfNew(t, order[k]) \in SoundTabs(items, n)
  BY <1>2, PlacedSound, PlacedIfNewSound
<1> DEFINE lacked[m \in 0..Len(order)] ==
                IF m = 0 THEN a ELSE Vendor!PlacedIfNew(lacked[m - 1], order[m])
           b == lacked[Len(order)]
<1>4. b \in SoundTabs(items, n)
  BY <1>1, <1>2, <1>3, PlacesNew
<1> HIDE DEF b
<1>5. LET full[m \in 0..Len(order)] == IF m = 0 THEN b ELSE Vendor!Placed(full[m - 1], order[m])
      IN  full[Len(order)] \in SoundTabs(items, n)
  BY <1>2, <1>3, <1>4, PlacesAll
<1>6. QED
  BY <1>5 DEF Vendor!ToppedUp, b

Asked == [t : {"buy"}, c : Copy, i : Goods] \cup [t : {"click"}, c : Copy]
Timer == [cid : Copy \cup {"none"}, late : BOOLEAN]

ShopTypes ==
    /\ stock \in SUBSET Goods /\ nextId \in Nat \ {0}
    /\ at \in [Player -> Copy \cup {"transit"}] /\ wallet \in [Player -> 0..Purse]
    /\ armed \in [Player -> Timer] /\ refill \in [Player -> Timer]
    /\ shelf \in [Player -> SUBSET Goods]
    /\ up \in [Player -> Seq(Asked)] /\ \A p \in Player : Len(up[p]) <= MaxUp

StockSound ==
    /\ Vendor!StockApart
    /\ \A i \in stock : i.id < nextId /\ i.id # 0
    /\ \A i, j \in stock : i.id = j.id => i = j

(* No other item has, or will have, the id of i.                           *)
Genuine(i) == i.id < nextId /\ \A j \in stock : j.id = i.id => j = i

Told ==
    \A p \in Player :
        /\ \A i \in shelf[p] : Genuine(i)
        /\ \A n \in DOMAIN up[p] : up[p][n].t = "buy" => Genuine(up[p][n].i)

(* Who is in the zone asks the component there, and a timer that is set    *)
(* without being late is for it.                                           *)
AtHome ==
    \A p \in Player :
        /\ at[p] # Vendor!Transit => \A n \in DOMAIN up[p] : up[p][n].c = at[p]
        /\ \A timer \in {armed[p], refill[p]} :
                timer.cid = Vendor!None \/ timer.late \/ (at[p] # Vendor!Transit /\ timer.cid = at[p])

Trading == ShopTypes /\ StockSound /\ Told /\ AtHome

LEMMA Markers == "none" \notin Copy /\ "transit" \notin Copy
BY ShopAssumption DEF Vendor!CopyAssumption, Vendor!None, Vendor!Transit

LEMMA TradingInit == Init => Trading
<1> SUFFICES ASSUME Init
             PROVE  Trading
  OBVIOUS
<1>1. /\ stock = {} /\ nextId = 1 /\ at = [p \in Player |-> "transit"]
      /\ wallet = [p \in Player |-> Purse]
      /\ armed = [p \in Player |-> [cid |-> "none", late |-> FALSE]]
      /\ refill = [p \in Player |-> [cid |-> "none", late |-> FALSE]]
      /\ shelf = [p \in Player |-> {}] /\ up = [p \in Player |-> <<>>]
  BY DEF Init, Vendor!Init, Vendor!Off, Vendor!None, Vendor!Transit
<1>2. Purse \in Nat /\ MaxUp \in Nat
  BY ShopAssumption DEF Vendor!PriceAssumption
<1>3. [cid |-> "none", late |-> FALSE] \in Timer
  BY DEF Timer
<1>4. ShopTypes
  BY <1>1, <1>2, <1>3 DEF ShopTypes
<1>5. StockSound
  BY <1>1 DEF StockSound, Vendor!StockApart, Vendor!Taken
<1>6. Told
  BY <1>1 DEF Told
<1>7. AtHome
  BY <1>1 DEF AtHome, Vendor!None, Vendor!Transit
<1>8. QED
  BY <1>4, <1>5, <1>6, <1>7 DEF Trading

(* A new stock leaves old ids to old items.                                *)
NewStock ==
    /\ stock' \in SUBSET Goods /\ nextId' \in Nat /\ nextId' >= nextId
    /\ \A j \in stock' : j \in stock \/ j.id >= nextId
    /\ StockSound'

LEMMA TabIsNewStock ==
    ASSUME Trading, NEW old \in SUBSET stock, NEW t \in SoundTabs(old, nextId),
           stock' = t.items, nextId' = t.next
    PROVE  NewStock
<1>1. /\ t \in [items : SUBSET Goods, next : Nat, taken : SUBSET Grid]
      /\ t.next >= nextId /\ t.taken = Vendor!Taken(t.items)
      /\ \A i \in t.items : i.id < t.next /\ i.id # 0 /\ (i \in old \/ i.id >= nextId)
      /\ \A i, j \in t.items : i.id = j.id => i = j
      /\ \A i, j \in t.items : Vendor!CellsOf(i) \cap Vendor!CellsOf(j) # {} => i = j
  BY DEF SoundTabs
<1>2. Vendor!StockApart'
  <2>1. Vendor!Taken(stock') \subseteq Grid
    BY <1>1
  <2>2. QED
    BY <1>1, <2>1 DEF Vendor!StockApart, Grid
<1>3. StockSound'
  BY <1>1, <1>2 DEF StockSound
<1>4. QED
  BY <1>1, <1>3 DEF NewStock

LEMMA RegeneratedIsNew ==
    ASSUME Trading, NEW p \in Player, Vendor!Regenerated(p)
    PROVE  NewStock
<1>1. nextId \in Nat \ {0}
  BY DEF Trading, ShopTypes
<1>2. PICK order \in Vendor!Candidates :
        stock' = Vendor!Generated(order, nextId).items /\ nextId' = Vendor!Generated(order, nextId).next
  BY DEF Vendor!Regenerated
<1>3. Vendor!Generated(order, nextId) \in SoundTabs({}, nextId)
  BY <1>1, GeneratedSound
<1>4. QED
  BY <1>2, <1>3, TabIsNewStock

LEMMA StaysGenuine ==
    ASSUME ShopTypes, NewStock, NEW i \in Goods, Genuine(i)
    PROVE  Genuine(i)'
<1>1. i.id < nextId' /\ i.id < nextId
  BY DEF ShopTypes, NewStock, Goods, Genuine
<1>2. ASSUME NEW j \in stock', j.id = i.id PROVE j = i
  <2>1. j \in Goods /\ ~(j.id >= nextId)
    BY <1>1, <1>2 DEF NewStock, Goods, ShopTypes
  <2>2. QED
    BY <1>2, <2>1 DEF NewStock, Genuine
<1>3. QED
  BY <1>1, <1>2 DEF Genuine

(* What is shown and asked for stays genuine, whatever the shelves take    *)
(* from the new stock.                                                     *)
LEMMA TradingStep ==
    ASSUME Trading, NewStock \/ UNCHANGED <<stock, nextId>>,
           at' \in [Player -> Copy \cup {"transit"}] /\ wallet' \in [Player -> 0..Purse],
           armed' \in [Player -> Timer] /\ refill' \in [Player -> Timer],
           shelf' \in [Player -> SUBSET Goods],
           \A p \in Player : shelf'[p] \subseteq shelf[p] \cup stock',
           up' \in [Player -> Seq(Asked)], \A p \in Player : Len(up'[p]) <= MaxUp,
           \A p \in Player : \A n \in DOMAIN up'[p] :
                up'[p][n].t = "buy" => Genuine(up'[p][n].i),
           AtHome'
    PROVE  Trading'
<1>1. NewStock
  BY DEF NewStock, Trading, ShopTypes, StockSound, Vendor!StockApart
<1>2. ShopTypes'
  BY <1>1 DEF Trading, ShopTypes, NewStock
<1>3. \A i \in stock' : Genuine(i)'
  BY <1>1 DEF NewStock, StockSound, Genuine
<1>4. ASSUME NEW i \in Goods, Genuine(i) PROVE Genuine(i)'
  BY <1>1, <1>4, StaysGenuine DEF Trading
<1>5. Told'
  <2>1. ASSUME NEW p \in Player, NEW i \in shelf'[p] PROVE Genuine(i)'
    <3>1. i \in Goods
      OBVIOUS
    <3>2. QED
      BY <1>3, <1>4, <3>1 DEF Trading, Told
  <2>2. ASSUME NEW p \in Player, NEW n \in DOMAIN up'[p], up'[p][n].t = "buy"
        PROVE  Genuine(up[p][n].i)'
    <3>1. PICK i : i = up'[p][n].i
      OBVIOUS
    <3>2. up'[p][n] \in Asked
      OBVIOUS
    <3>3. i \in Goods
      BY <2>2, <3>1, <3>2 DEF Asked
    <3>4. Genuine(i)
      BY <2>2, <3>1
    <3>5. Genuine(i)'
      BY <1>4, <3>3, <3>4
    <3>6. QED
      BY <3>1, <3>5 DEF Genuine
  <2>3. QED
    BY <2>1, <2>2 DEF Told
<1>6. QED
  BY <1>1, <1>2, <1>5 DEF Trading, NewStock

(* The requests under way, when no one is added.                           *)
LEMMA AskedStays ==
    ASSUME Trading, NEW p \in Player, NEW t, up' = up \/ Vendor!Takes(p, t)
    PROVE  /\ up' \in [Player -> Seq(Asked)] /\ \A q \in Player : Len(up'[q]) <= MaxUp
           /\ \A q \in Player : \A n \in DOMAIN up'[q] :
                /\ up'[q][n].t = "buy" => Genuine(up'[q][n].i)
                /\ \E m \in DOMAIN up[q] : up'[q][n] = up[q][m]
           /\ Vendor!Takes(p, t) => up[p] # <<>> /\ 1 \in DOMAIN up[p] /\ Head(up[p]) = up[p][1]
                              /\ up[p][1] \in Asked /\ up[p][1].t = t
<1>1. up \in [Player -> Seq(Asked)] /\ MaxUp \in Nat
  BY ShopAssumption DEF Trading, ShopTypes, Vendor!PriceAssumption
<1>2. \A q \in Player : \A n \in DOMAIN up[q] : up[q][n].t = "buy" => Genuine(up[q][n].i)
  BY DEF Trading, Told
<1>3. CASE up' = up
  <2>1. \A q \in Player : \A n \in DOMAIN up'[q] : \E m \in DOMAIN up[q] : up'[q][n] = up[q][m]
    BY <1>3
  <2>2. Vendor!Takes(p, t) => up[p] # <<>> /\ up[p][1].t = t
    BY <1>1 DEF Vendor!Takes
  <2>3. up[p] # <<>> => 1 \in DOMAIN up[p] /\ Head(up[p]) = up[p][1] /\ up[p][1] \in Asked
    BY <1>1
  <2>4. QED
    BY <1>1, <1>2, <1>3, <2>1, <2>2, <2>3 DEF Trading, ShopTypes
<1>4. CASE Vendor!Takes(p, t)
  <2>1. up[p] # <<>> /\ Head(up[p]).t = t /\ up' = [up EXCEPT ![p] = Tail(up[p])]
    BY <1>4 DEF Vendor!Takes
  <2>2. PICK s \in Seq(Asked) : s = up[p]
    BY <1>1
  <2>3. s # <<>> /\ Len(s) <= MaxUp
    BY <2>1, <2>2 DEF Trading, ShopTypes
  <2>4. /\ Tail(s) \in Seq(Asked) /\ Len(Tail(s)) <= MaxUp
        /\ \A n \in DOMAIN Tail(s) : n + 1 \in DOMAIN s /\ Tail(s)[n] = s[n + 1]
        /\ 1 \in DOMAIN s /\ Head(s) = s[1] /\ s[1] \in Asked
    BY <1>1, <2>3
  <2>5. \A q \in Player : up'[q] = IF q = p THEN Tail(s) ELSE up[q]
    BY <1>1, <2>1, <2>2
  <2>6. up' \in [Player -> Seq(Asked)]
    BY <1>1, <2>1, <2>2, <2>4
  <2>7. \A q \in Player : Len(up'[q]) <= MaxUp
    BY <2>4, <2>5 DEF Trading, ShopTypes
  <2>8. ASSUME NEW q \in Player, NEW n \in DOMAIN up'[q]
        PROVE  \E m \in DOMAIN up[q] : up'[q][n] = up[q][m]
    <3>1. CASE q = p
      <4>1. n \in DOMAIN Tail(s) /\ up'[q][n] = Tail(s)[n]
        BY <2>5, <3>1
      <4>2. n + 1 \in DOMAIN up[q] /\ up'[q][n] = up[q][n + 1]
        BY <2>2, <2>4, <3>1, <4>1
      <4>3. QED
        BY <4>2
    <3>2. CASE q # p
      BY <2>5, <3>2
    <3>3. QED
      BY <3>1, <3>2
  <2>9. ASSUME NEW q \in Player, NEW n \in DOMAIN up'[q], up'[q][n].t = "buy"
        PROVE  Genuine(up'[q][n].i)
    BY <1>2, <2>8, <2>9
  <2>10. QED
    BY <2>1, <2>2, <2>4, <2>6, <2>7, <2>8, <2>9
<1>5. QED
  BY <1>3, <1>4

LEMMA ShopEnterTrades ==
    ASSUME Trading, NEW p \in Player, NEW c \in Copy, Vendor!Enter(p, c)
    PROVE  Trading'
<1>1. /\ at[p] = "transit" /\ up[p] = <<>> /\ at' = [at EXCEPT ![p] = c]
      /\ shelf' = [shelf EXCEPT ![p] = stock']
      /\ Vendor!Regenerated(p) \/ UNCHANGED <<stock, nextId>>
      /\ UNCHANGED <<wallet, armed, refill, up>>
  BY DEF Vendor!Enter, Vendor!Transit
<1>2. ShopTypes
  BY DEF Trading
<1>3. NewStock \/ UNCHANGED <<stock, nextId>>
  BY <1>1, RegeneratedIsNew
<1>4. stock' \in SUBSET Goods
  BY <1>2, <1>3 DEF ShopTypes, NewStock
<1>5. /\ at' \in [Player -> Copy \cup {"transit"}] /\ wallet' \in [Player -> 0..Purse]
      /\ armed' \in [Player -> Timer] /\ refill' \in [Player -> Timer]
      /\ shelf' \in [Player -> SUBSET Goods]
      /\ \A q \in Player : shelf'[q] \subseteq shelf[q] \cup stock'
      /\ \A q \in Player : q # p => at'[q] = at[q]
  BY <1>1, <1>2, <1>4 DEF ShopTypes
<1>6. AtHome'
  <2> SUFFICES ASSUME NEW q \in Player
               PROVE  /\ at'[q] # Vendor!Transit => \A n \in DOMAIN up'[q] : up'[q][n].c = at'[q]
                      /\ \A timer \in {armed'[q], refill'[q]} :
                            \/ timer.cid = Vendor!None \/ timer.late
                            \/ at'[q] # Vendor!Transit /\ timer.cid = at'[q]
    BY DEF AtHome
  <2>1. CASE q = p
    BY <1>1, <2>1 DEF Trading, AtHome, Vendor!Transit
  <2>2. CASE q # p
    BY <1>1, <1>5, <2>2 DEF Trading, AtHome
  <2>3. QED
    BY <2>1, <2>2
<1>7. QED
  BY <1>1, <1>3, <1>5, <1>6, AskedStays, TradingStep

LEMMA ShopTransferTrades ==
    ASSUME Trading, NEW p \in Player, Vendor!TransferZone(p)
    PROVE  Trading'
<1> DEFINE off == [cid |-> "none", late |-> FALSE]
<1>1. /\ at' = [at EXCEPT ![p] = "transit"] /\ shelf' = [shelf EXCEPT ![p] = {}]
      /\ armed' = [armed EXCEPT ![p] = off] /\ refill' = [refill EXCEPT ![p] = off]
      /\ UNCHANGED <<stock, nextId, wallet, up>>
  BY DEF Vendor!TransferZone, Vendor!Transit, Vendor!Off, Vendor!None
<1>2. ShopTypes /\ off \in Timer
  BY DEF Trading, Timer
<1>3. /\ at' \in [Player -> Copy \cup {"transit"}] /\ wallet' \in [Player -> 0..Purse]
      /\ shelf' \in [Player -> SUBSET Goods]
      /\ \A q \in Player : shelf'[q] \subseteq shelf[q] \cup stock'
  BY <1>1, <1>2 DEF ShopTypes
<1> HIDE DEF off
<1>4. armed' \in [Player -> Timer] /\ refill' \in [Player -> Timer]
  BY <1>1, <1>2 DEF ShopTypes
<1>5. \A q \in Player : /\ armed'[q] = IF q = p THEN off ELSE armed[q]
                        /\ refill'[q] = IF q = p THEN off ELSE refill[q]
                        /\ at'[q] = IF q = p THEN "transit" ELSE at[q]
  BY <1>1, <1>2 DEF ShopTypes
<1>6. AtHome'
  <2>1. off.cid = Vendor!None
    BY DEF off, Vendor!None
  <2>2. QED
    BY <1>1, <1>5, <2>1 DEF Trading, AtHome, Vendor!Transit
<1>7. QED
  BY <1>1, <1>3, <1>4, <1>6, AskedStays, TradingStep

LEMMA ShopLevelTrades ==
    ASSUME Trading, NEW p \in Player, Vendor!LevelUp(p)
    PROVE  Trading'
<1>1. UNCHANGED <<stock, nextId, at, wallet, armed, refill, shelf, up>>
  BY DEF Vendor!LevelUp
<1>2. ShopTypes'
  BY <1>1 DEF Trading, ShopTypes
<1>3. StockSound'
  BY <1>1 DEF Trading, StockSound, Vendor!StockApart
<1>4. Told' /\ AtHome'
  BY <1>1 DEF Trading, Told, Genuine, AtHome
<1>5. QED
  BY <1>2, <1>3, <1>4 DEF Trading

(* What is asked for is shown.                                             *)
LEMMA ShopAsksTrades ==
    ASSUME Trading, NEW p \in Player, Vendor!Asks(p)
    PROVE  Trading'
<1>1. /\ at[p] # "transit" /\ Len(up[p]) < MaxUp
      /\ UNCHANGED <<stock, nextId, at, wallet, armed, refill, shelf>>
      /\ \E m : /\ up' = [up EXCEPT ![p] = Append(up[p], m)]
                /\ \/ \E i \in shelf[p] : m = [t |-> "buy", c |-> at[p], i |-> i]
                   \/ m = [t |-> "click", c |-> at[p]]
  BY DEF Vendor!Asks, Vendor!Transit
<1>2. PICK m : /\ up' = [up EXCEPT ![p] = Append(up[p], m)]
               /\ \/ \E i \in shelf[p] : m = [t |-> "buy", c |-> at[p], i |-> i]
                  \/ m = [t |-> "click", c |-> at[p]]
  BY <1>1
<1>3. ShopTypes /\ MaxUp \in Nat
  BY ShopAssumption DEF Trading, Vendor!PriceAssumption
<1>4. at[p] \in Copy
  BY <1>1, <1>3 DEF ShopTypes
<1>5. m \in Asked /\ m.c = at[p] /\ (m.t = "buy" => m.i \in shelf[p])
  <2>1. CASE \E i \in shelf[p] : m = [t |-> "buy", c |-> at[p], i |-> i]
    <3>1. PICK i \in shelf[p] : m = [t |-> "buy", c |-> at[p], i |-> i]
      BY <2>1
    <3>2. i \in Goods
      BY <1>3 DEF ShopTypes
    <3>3. QED
      BY <1>4, <3>1, <3>2 DEF Asked
  <2>2. CASE m = [t |-> "click", c |-> at[p]]
    BY <1>4, <2>2 DEF Asked
  <2>3. QED
    BY <1>2, <2>1, <2>2
<1>6. m.t = "buy" => Genuine(m.i)
  BY <1>5 DEF Trading, Told
<1>7. PICK s \in Seq(Asked) : s = up[p]
  BY <1>3 DEF ShopTypes
<1>8. /\ Append(s, m) \in Seq(Asked) /\ Len(Append(s, m)) <= MaxUp
      /\ \A n \in DOMAIN Append(s, m) :
            (n \in DOMAIN s /\ Append(s, m)[n] = s[n]) \/ Append(s, m)[n] = m
  BY <1>1, <1>3, <1>5, <1>7
<1>9. \A q \in Player : up'[q] = IF q = p THEN Append(s, m) ELSE up[q]
  BY <1>2, <1>3, <1>7 DEF ShopTypes
<1>10. up' \in [Player -> Seq(Asked)]
  BY <1>2, <1>3, <1>7, <1>8 DEF ShopTypes
<1>11. \A q \in Player : Len(up'[q]) <= MaxUp
  BY <1>3, <1>8, <1>9 DEF ShopTypes
<1>12. ASSUME NEW q \in Player, NEW n \in DOMAIN up'[q]
       PROVE  (n \in DOMAIN up[q] /\ up'[q][n] = up[q][n]) \/ (q = p /\ up'[q][n] = m)
  <2>1. CASE q = p
    BY <1>7, <1>8, <1>9, <2>1
  <2>2. CASE q # p
    BY <1>9, <2>2
  <2>3. QED
    BY <2>1, <2>2
<1>13. \A q \in Player : \A n \in DOMAIN up'[q] : up'[q][n].t = "buy" => Genuine(up'[q][n].i)
  BY <1>6, <1>12 DEF Trading, Told
<1>14. AtHome'
  <2>1. \A q \in Player : at[q] # Vendor!Transit => \A n \in DOMAIN up'[q] : up'[q][n].c = at[q]
    BY <1>5, <1>12 DEF Trading, AtHome
  <2>2. QED
    BY <1>1, <2>1 DEF Trading, AtHome
<1>15. QED
  BY <1>1, <1>3, <1>10, <1>11, <1>13, <1>14, TradingStep DEF ShopTypes

(* A timer that a request sets is late or for the zone one is in.          *)
LEMMA TimerIsHome ==
    ASSUME Trading, NEW p \in Player, NEW n \in DOMAIN up[p]
    PROVE  LET timer == Vendor!Counting(p, up[p][n].c)
           IN  timer.late \/ (at[p] # Vendor!Transit /\ timer.cid = at[p])
BY DEF Trading, AtHome, Vendor!Counting

LEMMA ShopClickTrades ==
    ASSUME Trading, NEW p \in Player, Vendor!Click(p)
    PROVE  Trading'
<1>1. /\ Vendor!Takes(p, "click")
      /\ UNCHANGED <<stock, nextId, at, wallet, refill, shelf>>
      /\ armed' = armed \/ armed' = [armed EXCEPT ![p] = Vendor!Counting(p, Head(up[p]).c)]
  BY DEF Vendor!Click
<1>2. /\ up' \in [Player -> Seq(Asked)] /\ \A q \in Player : Len(up'[q]) <= MaxUp
      /\ \A q \in Player : \A n \in DOMAIN up'[q] :
                /\ up'[q][n].t = "buy" => Genuine(up'[q][n].i)
                /\ \E m \in DOMAIN up[q] : up'[q][n] = up[q][m]
      /\ 1 \in DOMAIN up[p] /\ Head(up[p]) = up[p][1] /\ up[p][1] \in Asked
  BY <1>1, AskedStays
<1>3. ShopTypes
  BY DEF Trading
<1> DEFINE timer == Vendor!Counting(p, Head(up[p]).c)
<1>4. timer \in Timer
  BY <1>2 DEF Vendor!Counting, Timer, Asked
<1>5. timer.late \/ (at[p] # Vendor!Transit /\ timer.cid = at[p])
  BY <1>2, TimerIsHome
<1> HIDE DEF timer
<1>6. armed' \in [Player -> Timer]
  BY <1>1, <1>3, <1>4 DEF ShopTypes, timer
<1>7. \A q \in Player : armed'[q] = armed[q] \/ (q = p /\ armed'[q] = timer)
  BY <1>1, <1>3 DEF ShopTypes, timer
<1>8. AtHome'
  <2>1. \A q \in Player : at[q] # Vendor!Transit => \A n \in DOMAIN up'[q] : up'[q][n].c = at[q]
    BY <1>2 DEF Trading, AtHome
  <2>2. \A q \in Player : \A w \in {armed'[q], refill[q]} :
            w.cid = Vendor!None \/ w.late \/ (at[q] # Vendor!Transit /\ w.cid = at[q])
    BY <1>5, <1>7 DEF Trading, AtHome
  <2>3. QED
    BY <1>1, <2>1, <2>2 DEF AtHome
<1>9. QED
  BY <1>1, <1>2, <1>3, <1>6, <1>8, TradingStep DEF ShopTypes

LEMMA ShopBuyTrades ==
    ASSUME Trading, NEW p \in Player, Vendor!Buy(p)
    PROVE  Trading'
<1> DEFINE timer == Vendor!Counting(p, Head(up[p]).c)
<1>1. /\ Vendor!Takes(p, "buy") /\ UNCHANGED <<nextId, at, armed>>
      /\ \/ UNCHANGED <<stock, wallet, refill, shelf>>
         \/ \E i \in stock :
                /\ wallet[p] >= Price[i.kind]
                /\ wallet' = [wallet EXCEPT ![p] = @ - Price[i.kind]]
                /\ stock' = stock \ {i}
                /\ shelf' = [shelf EXCEPT ![p] = {j \in @ : j.id # i.id}]
                /\ refill' = [refill EXCEPT ![p] = timer]
  BY DEF Vendor!Buy, Vendor!Affordable
<1>2. /\ up' \in [Player -> Seq(Asked)] /\ \A q \in Player : Len(up'[q]) <= MaxUp
      /\ \A q \in Player : \A n \in DOMAIN up'[q] :
                /\ up'[q][n].t = "buy" => Genuine(up'[q][n].i)
                /\ \E m \in DOMAIN up[q] : up'[q][n] = up[q][m]
      /\ 1 \in DOMAIN up[p] /\ Head(up[p]) = up[p][1] /\ up[p][1] \in Asked
  BY <1>1, AskedStays
<1>3. ShopTypes
  BY DEF Trading
<1>4. timer \in Timer
  BY <1>2 DEF Vendor!Counting, Timer, Asked
<1>5. timer.late \/ (at[p] # Vendor!Transit /\ timer.cid = at[p])
  BY <1>2, TimerIsHome
<1> HIDE DEF timer
<1>6. /\ NewStock /\ wallet' \in [Player -> 0..Purse] /\ shelf' \in [Player -> SUBSET Goods]
      /\ \A q \in Player : shelf'[q] \subseteq shelf[q]
      /\ refill' \in [Player -> Timer]
      /\ \A q \in Player : refill'[q] = refill[q] \/ (q = p /\ refill'[q] = timer)
  <2>1. CASE UNCHANGED <<stock, wallet, refill, shelf>>
    <3>1. StockSound'
      BY <1>1, <2>1 DEF Trading, StockSound, Vendor!StockApart
    <3>2. QED
      BY <1>1, <1>3, <2>1, <3>1 DEF ShopTypes, NewStock
  <2>2. ASSUME NEW i \in stock,
               wallet[p] >= Price[i.kind],
               wallet' = [wallet EXCEPT ![p] = @ - Price[i.kind]],
               stock' = stock \ {i},
               shelf' = [shelf EXCEPT ![p] = {j \in @ : j.id # i.id}],
               refill' = [refill EXCEPT ![p] = timer]
        PROVE  /\ NewStock /\ wallet' \in [Player -> 0..Purse] /\ shelf' \in [Player -> SUBSET Goods]
               /\ \A q \in Player : shelf'[q] \subseteq shelf[q]
               /\ refill' \in [Player -> Timer]
               /\ \A q \in Player : refill'[q] = refill[q] \/ (q = p /\ refill'[q] = timer)
    <3>1. i \in Goods
      BY <1>3 DEF ShopTypes
    <3>2. Price[i.kind] \in Nat /\ Purse \in Nat
      BY <3>1, ShopAssumption DEF Goods, Vendor!PriceAssumption
    <3>3. wallet[p] \in 0..Purse
      BY <1>3 DEF ShopTypes
    <3>4. wallet[p] - Price[i.kind] \in 0..Purse
      BY <2>2, <3>2, <3>3
    <3>5. wallet' \in [Player -> 0..Purse]
      BY <1>3, <2>2, <3>4 DEF ShopTypes
    <3>6. /\ shelf' \in [Player -> SUBSET Goods] /\ refill' \in [Player -> Timer]
          /\ \A q \in Player : shelf'[q] \subseteq shelf[q]
      BY <1>3, <1>4, <2>2 DEF ShopTypes
    <3>7. \A q \in Player : refill'[q] = refill[q] \/ (q = p /\ refill'[q] = timer)
      BY <1>3, <2>2 DEF ShopTypes
    <3>8. StockSound'
      <4>1. Vendor!StockApart
        BY DEF Trading, StockSound
      <4>2. Vendor!Taken(stock') \subseteq Vendor!Taken(stock)
        BY <2>2 DEF Vendor!Taken
      <4>3. Vendor!StockApart'
        BY <2>2, <4>1, <4>2 DEF Vendor!StockApart
      <4>4. QED
        BY <1>1, <2>2, <4>3 DEF Trading, StockSound
    <3>9. NewStock
      BY <1>1, <1>3, <2>2, <3>8 DEF ShopTypes, NewStock
    <3>10. QED
      BY <3>5, <3>6, <3>7, <3>9
  <2>3. QED
    BY <1>1, <2>1, <2>2
<1>7. AtHome'
  <2>1. \A q \in Player : at[q] # Vendor!Transit => \A n \in DOMAIN up'[q] : up'[q][n].c = at[q]
    BY <1>2 DEF Trading, AtHome
  <2>2. \A q \in Player : \A w \in {armed[q], refill'[q]} :
            w.cid = Vendor!None \/ w.late \/ (at[q] # Vendor!Transit /\ w.cid = at[q])
    BY <1>5, <1>6 DEF Trading, AtHome
  <2>3. QED
    BY <1>1, <2>1, <2>2 DEF AtHome
<1>8. QED
  BY <1>1, <1>2, <1>3, <1>6, <1>7, TradingStep DEF ShopTypes

LEMMA ShopRestockTrades ==
    ASSUME Trading, NEW p \in Player, Vendor!FlushDueRefresh(p)
    PROVE  Trading'
<1>1. /\ Vendor!Regenerated(p) /\ UNCHANGED <<at, wallet, refill, up, armed>>
      /\ \E gone : shelf' = [shelf EXCEPT ![p] = {i \in @ : i.id \notin gone} \cup stock']
  BY DEF Vendor!FlushDueRefresh, Vendor!DoRefresh
<1>2. NewStock
  BY <1>1, RegeneratedIsNew
<1>3. ShopTypes
  BY DEF Trading
<1>4. /\ shelf' \in [Player -> SUBSET Goods]
      /\ \A q \in Player : shelf'[q] \subseteq shelf[q] \cup stock'
  BY <1>1, <1>2, <1>3 DEF ShopTypes, NewStock
<1>5. AtHome'
  BY <1>1 DEF Trading, AtHome
<1>6. QED
  BY <1>1, <1>2, <1>3, <1>4, <1>5, AskedStays, TradingStep DEF ShopTypes

LEMMA ShopRefillTrades ==
    ASSUME Trading, NEW p \in Player, Vendor!FlushPendingBuyRefill(p)
    PROVE  Trading'
<1> DEFINE off == [cid |-> "none", late |-> FALSE]
<1>1. /\ refill' = [refill EXCEPT ![p] = off]
      /\ UNCHANGED <<at, wallet, armed, up>>
      /\ \E order \in Vendor!Candidates :
            /\ stock' = Vendor!ToppedUp(order, stock, nextId).items
            /\ nextId' = Vendor!ToppedUp(order, stock, nextId).next
            /\ shelf' = [shelf EXCEPT ![p] = @ \cup (stock' \ stock)]
  BY DEF Vendor!FlushPendingBuyRefill, Vendor!Off, Vendor!None
<1>2. ShopTypes /\ off \in Timer
  BY DEF Trading, Timer
<1>3. NewStock
  <2>1. PICK order \in Vendor!Candidates :
            /\ stock' = Vendor!ToppedUp(order, stock, nextId).items
            /\ nextId' = Vendor!ToppedUp(order, stock, nextId).next
    BY <1>1
  <2>2. /\ nextId \in Nat \ {0} /\ stock \in SUBSET Goods
        /\ Vendor!Taken(stock) \subseteq Grid
        /\ \A i \in stock : i.id < nextId /\ i.id # 0
        /\ \A i, j \in stock : i.id = j.id => i = j
        /\ \A i, j \in stock : Vendor!CellsOf(i) \cap Vendor!CellsOf(j) # {} => i = j
    BY DEF Trading, ShopTypes, StockSound, Vendor!StockApart, Grid
  <2>3. Vendor!ToppedUp(order, stock, nextId) \in SoundTabs(stock, nextId)
    BY <2>2, ToppedUpSound
  <2>4. QED
    BY <2>1, <2>3, TabIsNewStock
<1>4. /\ shelf' \in [Player -> SUBSET Goods]
      /\ \A q \in Player : shelf'[q] \subseteq shelf[q] \cup stock'
  BY <1>1, <1>2, <1>3 DEF ShopTypes, NewStock
<1> HIDE DEF off
<1>5. refill' \in [Player -> Timer] /\ \A q \in Player : refill'[q] = IF q = p THEN off ELSE refill[q]
  BY <1>1, <1>2 DEF ShopTypes
<1>6. AtHome'
  <2>1. off.cid = Vendor!None
    BY DEF off, Vendor!None
  <2>2. QED
    BY <1>1, <1>5, <2>1 DEF Trading, AtHome
<1>7. QED
  BY <1>1, <1>2, <1>3, <1>4, <1>5, <1>6, AskedStays, TradingStep DEF ShopTypes

LEMMA TradingAlways == Spec => []Trading
<1>1. Trading /\ [Next]_vars => Trading'
  <2> SUFFICES ASSUME Trading, [Next]_vars
               PROVE  Trading'
    OBVIOUS
  <2>1. CASE Vendor!Next
    BY <2>1, ShopEnterTrades, ShopTransferTrades, ShopLevelTrades, ShopAsksTrades, ShopBuyTrades,
       ShopClickTrades, ShopRestockTrades, ShopRefillTrades DEF Vendor!Next
  <2>2. CASE UNCHANGED shopVars
    <3>1. UNCHANGED <<stock, nextId, at, wallet, armed, refill, shelf, up>>
      BY <2>2 DEF shopVars
    <3>2. ShopTypes' /\ Told' /\ AtHome'
      BY <3>1 DEF Trading, ShopTypes, Told, Genuine, AtHome
    <3>3. StockSound'
      BY <3>1 DEF Trading, StockSound, Vendor!StockApart
    <3>4. QED
      BY <3>2, <3>3 DEF Trading
  <2>3. QED
    BY <2>1, <2>2 DEF Next, vars
<1>2. QED
  BY <1>1, TradingInit, PTL DEF Spec

(* A purchase gets what its client showed, however often the shared stock  *)
(* was sold, refilled and regenerated meanwhile; the stock never overlaps, *)
(* and pushes go to clients that have the vendor.                          *)
THEOREM PurchaseCorrect == Spec => []BoughtAsShown
<1>1. Trading => BoughtAsShown
  <2> SUFFICES ASSUME Trading
               PROVE  Vendor!TypeOK /\ Vendor!StockApart /\ Vendor!BoughtAsShown /\ Vendor!PushesAtHome
    BY DEF BoughtAsShown
  <2>1. Vendor!TypeOK
    BY DEF Trading, ShopTypes, StockSound, Vendor!TypeOK, Vendor!Transit, Vendor!None, Timer, Goods
  <2>2. Vendor!StockApart
    BY DEF Trading, StockSound
  <2>3. Vendor!BoughtAsShown
    BY DEF Trading, Told, Genuine, Vendor!BoughtAsShown
  <2>4. Vendor!PushesAtHome
    BY DEF Trading, AtHome, Vendor!PushesAtHome
  <2>5. QED
    BY <2>1, <2>2, <2>3, <2>4
<1>2. QED
  BY <1>1, TradingAlways, PTL

-----------------------------------------------------------------------------
(* The skills of the character *)

(* The known skills are those that have a rank, each known once.           *)
Learned ==
    /\ known \in Seq(Skill)
    /\ \A i, j \in 1..Len(known) : known[i] = known[j] => i = j
    /\ rank \in [Skill -> 0..MaxRank]
    /\ \A s \in Skill : rank[s] > 0 <=> \E i \in 1..Len(known) : known[i] = s

(* What is on the bar is known, and shares no free slot.                   *)
OnBar ==
    /\ bar \in [Skill -> Slot \cup {Ability!NoSlot}]
    /\ \A s \in Skill : bar[s] # Ability!NoSlot => rank[s] > 0
    /\ \A s, t \in Skill : bar[s] \in Ability!Free /\ bar[s] = bar[t] => s = t

(* Manipulators: known skills, each with one id, the ids bounded.          *)
Ids(m) ==
    /\ \E b \in Nat : DOMAIN m \subseteq 0..b
    /\ \A i \in DOMAIN m : m[i] \in Skill /\ rank[m[i]] > 0
    /\ \A i, j \in DOMAIN m : m[i] = m[j] => i = j

Agrees(m) ==
    \A i \in Ability!Free, s \in Skill : (i \in DOMAIN m /\ m[i] = s) <=> bar[s] = i

LEMMA Slots ==
    /\ \A k \in Slot : k \in Nat /\ 0 < k /\ k < 200
    /\ Ability!NoSlot = 0 /\ Ability!OffBar = 200 /\ Ability!NoSlot \notin Slot
    /\ Authored \in [Skill -> Slot \cup {Ability!NoSlot}]
    /\ Ability!Free \subseteq Slot /\ \A s \in Skill : Authored[s] \notin Ability!Free
BY SkillsAssumption DEF Ability!SlotAssumption, Ability!OffBar, Ability!NoSlot, Ability!Free, Ability!Range

(* The id of a spawned active.                                             *)
LEMMA ActiveId ==
    ASSUME Learned, OnBar, NEW i \in Ability!Actives
    PROVE  /\ i \in 1..Len(known) /\ known[i] \in Skill \ Passive /\ rank[known[i]] > 0
           /\ Ability!IdOf(i) \in 0..(200 + Len(known))
           /\ Ability!IdOf(i) \in Ability!Free => bar[known[i]] = Ability!IdOf(i)
           /\ bar[known[i]] \in Slot => Ability!IdOf(i) = bar[known[i]]
<1>1. i \in 1..Len(known) /\ known[i] \in Skill \ Passive /\ Len(known) \in Nat
  BY DEF Learned, Ability!Actives
<1>2. rank[known[i]] > 0
  BY <1>1 DEF Learned
<1> DEFINE B == {j \in Ability!Actives : j < i /\ Ability!SlotOf(known[j]) = Ability!NoSlot}
<1>3. Ability!Cardinality(B) \in 0..Len(known)
  <2>1. B \in SUBSET (1..Len(known))
    BY DEF Learned, Ability!Actives
  <2>2. IsFiniteSet(1..Len(known)) /\ Cardinality(1..Len(known)) = Len(known)
    <3>1. 1 \in Int /\ Len(known) \in Int
      BY <1>1
    <3>2. IsFiniteSet(1..Len(known))
          /\ Cardinality(1..Len(known)) = IF 1 > Len(known) THEN 0 ELSE Len(known) - 1 + 1
      BY <3>1, FS_Interval
    <3>3. QED
      BY <1>1, <3>2
  <2>3. IsFiniteSet(B) /\ Cardinality(B) <= Len(known)
    BY <2>1, <2>2, FS_Subset
  <2>4. Cardinality(B) \in Nat
    BY <2>3, FS_CardinalityType
  <2>5. Ability!Cardinality(B) = Cardinality(B)
    BY DEF Ability!Cardinality, Cardinality
  <2>6. QED
    BY <1>1, <2>3, <2>4, <2>5
<1> HIDE DEF B
<1>4. Ability!IdOf(i) = IF Ability!SlotOf(known[i]) # Ability!NoSlot THEN Ability!SlotOf(known[i])
                  ELSE 200 + Ability!Cardinality(B)
  BY DEF Ability!IdOf, B, Ability!OffBar
<1>5. /\ bar[known[i]] \in Slot \cup {0} /\ Authored[known[i]] \in Slot \cup {0}
      /\ Authored[known[i]] \notin Ability!Free
  BY <1>1, Slots DEF OnBar
<1>6. Ability!SlotOf(known[i]) = IF bar[known[i]] # 0 THEN bar[known[i]] ELSE Authored[known[i]]
  BY DEF Ability!SlotOf, Ability!NoSlot
<1>7. Ability!SlotOf(known[i]) \in Slot \cup {0}
  BY <1>5, <1>6
<1>8. Ability!IdOf(i) \in 0..(200 + Len(known))
  BY <1>1, <1>3, <1>4, <1>7, Slots
<1>9. Ability!IdOf(i) \in Ability!Free => bar[known[i]] = Ability!IdOf(i)
  <2> SUFFICES ASSUME Ability!IdOf(i) \in Ability!Free PROVE bar[known[i]] = Ability!IdOf(i)
    OBVIOUS
  <2>1. Ability!IdOf(i) \in Slot /\ Ability!IdOf(i) < 200
    BY Slots
  <2>2. Ability!IdOf(i) = Ability!SlotOf(known[i])
    BY <1>3, <1>4, <2>1
  <2>3. QED
    BY <1>5, <1>6, <2>2
<1>10. bar[known[i]] \in Slot => Ability!IdOf(i) = bar[known[i]]
  BY <1>4, <1>6, Slots
<1>11. QED
  BY <1>1, <1>2, <1>8, <1>9, <1>10

(* What a spawn sends: an id for each known skill it sends at most.        *)
LEMMA Sent ==
    ASSUME Learned, OnBar
    PROVE  /\ \A m \in Ability!SpawnManips :
                /\ m = <<m[1], m[2]>> /\ m[1] \in 0..(200 + Len(known))
                /\ m[2] \in Skill /\ rank[m[2]] > 0
                /\ m[1] \in Ability!Free => bar[m[2]] = m[1]
           /\ \A m, n \in Ability!SpawnManips : m[2] = n[2] => m[1] = n[1]
           /\ \A s \in Skill : bar[s] \in Slot => <<bar[s], s>> \in Ability!SpawnManips
<1>1. ASSUME NEW s \in Ability!Shipped
      PROVE  /\ s \in Skill \cap Passive /\ rank[s] > 0
             /\ Ability!SlotOf(s) \in Slot /\ Ability!SlotOf(s) \in 0..(200 + Len(known))
             /\ Ability!SlotOf(s) \in Ability!Free => bar[s] = Ability!SlotOf(s)
  <2>1. s \in Ability!Range(known) /\ s \in Passive /\ Ability!SlotOf(s) # 0
    BY DEF Ability!Shipped, Ability!NoSlot
  <2>2. s \in Skill /\ rank[s] > 0 /\ Len(known) \in Nat
    BY <2>1 DEF Ability!Range, Learned
  <2>3. Ability!SlotOf(s) = IF bar[s] # 0 THEN bar[s] ELSE Authored[s]
    BY DEF Ability!SlotOf, Ability!NoSlot
  <2>4. bar[s] \in Slot \cup {0} /\ Authored[s] \in Slot \cup {0} /\ Authored[s] \notin Ability!Free
    BY <2>2, Slots DEF OnBar
  <2>5. Ability!SlotOf(s) \in Slot /\ (Ability!SlotOf(s) \in Ability!Free => bar[s] = Ability!SlotOf(s))
    BY <2>1, <2>3, <2>4
  <2>6. Ability!SlotOf(s) \in 0..(200 + Len(known))
    BY <2>2, <2>5, Slots
  <2>7. QED
    BY <2>1, <2>2, <2>5, <2>6
<1>2. ASSUME NEW m \in Ability!SpawnManips
      PROVE  \/ \E i \in Ability!Actives : m = <<Ability!IdOf(i), known[i]>>
             \/ \E s \in Ability!Shipped : m = <<Ability!SlotOf(s), s>>
  BY DEF Ability!SpawnManips
<1>3. ASSUME NEW m \in Ability!SpawnManips
      PROVE  /\ m = <<m[1], m[2]>> /\ m[1] \in 0..(200 + Len(known))
             /\ m[2] \in Skill /\ rank[m[2]] > 0
             /\ m[1] \in Ability!Free => bar[m[2]] = m[1]
  <2>1. CASE \E i \in Ability!Actives : m = <<Ability!IdOf(i), known[i]>>
    <3>1. PICK i \in Ability!Actives : m = <<Ability!IdOf(i), known[i]>>
      BY <2>1
    <3>2. m[1] = Ability!IdOf(i) /\ m[2] = known[i] /\ m = <<m[1], m[2]>>
      BY <3>1
    <3>3. QED
      BY <3>2, ActiveId
  <2>2. CASE \E s \in Ability!Shipped : m = <<Ability!SlotOf(s), s>>
    <3>1. PICK s \in Ability!Shipped : m = <<Ability!SlotOf(s), s>>
      BY <2>2
    <3>2. m[1] = Ability!SlotOf(s) /\ m[2] = s /\ m = <<m[1], m[2]>>
      BY <3>1
    <3>3. QED
      BY <1>1, <3>2
  <2>3. QED
    BY <1>2, <2>1, <2>2
<1>4. ASSUME NEW m \in Ability!SpawnManips, NEW n \in Ability!SpawnManips, m[2] = n[2]
      PROVE  m[1] = n[1]
  <2>1. CASE m[2] \in Passive
    <3>1. ASSUME NEW l \in Ability!SpawnManips, l[2] \in Passive PROVE l[1] = Ability!SlotOf(l[2])
      <4>1. ASSUME NEW i \in Ability!Actives, l = <<Ability!IdOf(i), known[i]>> PROVE FALSE
        BY <3>1, <4>1, ActiveId
      <4>2. PICK s \in Ability!Shipped : l = <<Ability!SlotOf(s), s>>
        BY <1>2, <4>1
      <4>3. QED
        BY <4>2
    <3>2. QED
      BY <1>4, <2>1, <3>1
  <2>2. CASE m[2] \notin Passive
    <3>1. ASSUME NEW l \in Ability!SpawnManips, l[2] \notin Passive
          PROVE  \E i \in Ability!Actives : l[1] = Ability!IdOf(i) /\ l[2] = known[i]
      <4>1. ASSUME NEW s \in Ability!Shipped, l = <<Ability!SlotOf(s), s>> PROVE FALSE
        BY <1>1, <3>1, <4>1
      <4>2. PICK i \in Ability!Actives : l = <<Ability!IdOf(i), known[i]>>
        BY <1>2, <4>1
      <4>3. QED
        BY <4>2
    <3>2. PICK i \in Ability!Actives : m[1] = Ability!IdOf(i) /\ m[2] = known[i]
      BY <2>2, <3>1
    <3>3. PICK j \in Ability!Actives : n[1] = Ability!IdOf(j) /\ n[2] = known[j]
      BY <1>4, <2>2, <3>1
    <3>4. i \in 1..Len(known) /\ j \in 1..Len(known)
      BY ActiveId
    <3>5. i = j
      BY <1>4, <3>2, <3>3, <3>4 DEF Learned
    <3>6. QED
      BY <3>2, <3>3, <3>5
  <2>3. QED
    BY <2>1, <2>2
<1>5. ASSUME NEW s \in Skill, bar[s] \in Slot PROVE <<bar[s], s>> \in Ability!SpawnManips
  <2>1. rank[s] > 0
    BY <1>5, Slots DEF OnBar
  <2>2. PICK i \in 1..Len(known) : known[i] = s
    BY <2>1 DEF Learned
  <2>3. i \in DOMAIN known
    BY <2>2 DEF Learned
  <2>4. CASE s \in Passive
    <3>1. Ability!SlotOf(s) = bar[s] /\ Ability!SlotOf(s) # Ability!NoSlot
      BY <1>5, Slots DEF Ability!SlotOf
    <3>2. s \in Ability!Shipped
      BY <2>2, <2>3, <2>4, <3>1 DEF Ability!Shipped, Ability!Range
    <3>3. QED
      BY <3>1, <3>2 DEF Ability!SpawnManips
  <2>5. CASE s \notin Passive
    <3>1. i \in Ability!Actives
      BY <2>2, <2>3, <2>5 DEF Ability!Actives
    <3>2. Ability!IdOf(i) = bar[s]
      BY <1>5, <2>2, <3>1, ActiveId
    <3>3. QED
      BY <2>2, <3>1, <3>2 DEF Ability!SpawnManips
  <2>6. QED
    BY <2>4, <2>5
<1>6. QED
  BY <1>3, <1>4, <1>5

(* The map takes one of the skills that claim an id.                       *)
LEMMA MapTakes ==
    ASSUME Learned, OnBar
    PROVE  /\ DOMAIN Ability!SpawnMap = {m[1] : m \in Ability!SpawnManips}
           /\ \A id \in DOMAIN Ability!SpawnMap : <<id, Ability!SpawnMap[id]>> \in Ability!SpawnManips
<1> DEFINE Takers(id) == {m[2] : m \in {n \in Ability!SpawnManips : n[1] = id}}
           Wins(id, s) == \A m \in Ability!SpawnManips : m[1] = id /\ m[2] # s => ~Ability!Overrides(m[2], s)
<1>1. DOMAIN Ability!SpawnMap = {m[1] : m \in Ability!SpawnManips}
  BY DEF Ability!SpawnMap
<1>2. ASSUME NEW id, id \in {m[1] : m \in Ability!SpawnManips}
      PROVE  \E s \in Takers(id) : Wins(id, s)
  <2>1. PICK m \in Ability!SpawnManips : m[1] = id
    BY <1>2
  <2>2. CASE \E s \in Takers(id) : s \in Passive
    <3>1. PICK s \in Takers(id) : s \in Passive
      BY <2>2
    <3>2. Wins(id, s)
      BY <3>1 DEF Ability!Overrides
    <3>3. QED
      BY <3>1, <3>2
  <2>3. CASE ~ \E s \in Takers(id) : s \in Passive
    <3> DEFINE Late == {k \in 0..Len(known) : known[Len(known) - k] \in Takers(id)
                                                /\ Len(known) - k \in 1..Len(known)}
    <3>1. Len(known) \in Nat /\ Late \in SUBSET Nat
      BY DEF Learned
    <3>2. m[2] \in Skill /\ rank[m[2]] > 0 /\ m[2] \in Takers(id)
      BY <2>1, Sent
    <3>3. PICK i \in 1..Len(known) : known[i] = m[2]
      BY <3>2 DEF Learned
    <3>4. Len(known) - i \in 0..Len(known) /\ Len(known) - (Len(known) - i) = i
      BY <3>1
    <3>5. Len(known) - i \in Late
      BY <3>2, <3>3, <3>4
    <3>6. PICK k \in Late : \A j \in Late : k <= j
      BY <3>1, <3>5, HasLeast
    <3> DEFINE last == Len(known) - k
    <3>7. last \in 1..Len(known) /\ known[last] \in Takers(id)
      BY <3>6
    <3>8. ASSUME NEW j \in 1..Len(known), known[j] \in Takers(id) PROVE j <= last
      <4>1. Len(known) - j \in 0..Len(known) /\ Len(known) - (Len(known) - j) = j
        BY <3>1
      <4>2. Len(known) - j \in Late
        BY <3>8, <4>1
      <4>3. k <= Len(known) - j /\ k \in 0..Len(known)
        BY <3>6, <4>2
      <4>4. QED
        BY <3>1, <4>3
    <3> HIDE DEF last, Late
    <3>9. ASSUME NEW n \in Ability!SpawnManips, n[1] = id, n[2] # known[last],
                 Ability!Overrides(n[2], known[last])
          PROVE  FALSE
      <4>1. n[2] \in Takers(id)
        BY <3>9
      <4>2. n[2] \notin Passive
        BY <2>3, <4>1
      <4>3. PICK i1, j1 \in DOMAIN known : i1 > j1 /\ known[i1] = n[2] /\ known[j1] = known[last]
        BY <3>9, <4>2 DEF Ability!Overrides
      <4>4. i1 \in 1..Len(known) /\ j1 \in 1..Len(known)
        BY DEF Learned
      <4>5. j1 = last
        BY <3>7, <4>3, <4>4 DEF Learned
      <4>6. i1 <= last
        BY <3>8, <4>1, <4>3, <4>4
      <4>7. QED
        BY <3>7, <4>3, <4>4, <4>5, <4>6
    <3>10. Wins(id, known[last])
      BY <3>9
    <3>11. QED
      BY <3>7, <3>10
  <2>4. QED
    BY <2>2, <2>3
<1>3. ASSUME NEW id \in DOMAIN Ability!SpawnMap PROVE <<id, Ability!SpawnMap[id]>> \in Ability!SpawnManips
  <2>1. id \in {m[1] : m \in Ability!SpawnManips}
    BY <1>1
  <2>2. Ability!SpawnMap[id] = CHOOSE s \in Takers(id) : Wins(id, s)
    BY <2>1 DEF Ability!SpawnMap
  <2>3. \E s \in Takers(id) : Wins(id, s)
    BY <1>2, <2>1
  <2> HIDE DEF Wins
  <2>4. Ability!SpawnMap[id] \in Takers(id)
    BY <2>2, <2>3
  <2>5. PICK m \in Ability!SpawnManips : m[1] = id /\ m[2] = Ability!SpawnMap[id]
    BY <2>4
  <2>6. m = <<m[1], m[2]>>
    BY Sent
  <2>7. QED
    BY <2>5, <2>6
<1>4. QED
  BY <1>1, <1>3

(* The map of a spawn follows the saved slots wherever nobody's authored    *)
(* slots interfere.                                                        *)
LEMMA SpawnFollowsBar ==
    ASSUME Learned, OnBar
    PROVE  Ids(Ability!SpawnMap) /\ Agrees(Ability!SpawnMap)
<1> DEFINE M == Ability!SpawnMap
<1>1. /\ DOMAIN M = {m[1] : m \in Ability!SpawnManips}
      /\ \A id \in DOMAIN M : <<id, M[id]>> \in Ability!SpawnManips
  BY MapTakes
<1> HIDE DEF M
<1>2. ASSUME NEW id \in DOMAIN M
      PROVE  /\ id \in 0..(200 + Len(known)) /\ M[id] \in Skill /\ rank[M[id]] > 0
             /\ id \in Ability!Free => bar[M[id]] = id
  <2>1. <<id, M[id]>> \in Ability!SpawnManips
    BY <1>1
  <2> DEFINE m == <<id, M[id]>>
  <2>2. m[1] = id /\ m[2] = M[id]
    OBVIOUS
  <2> HIDE DEF m
  <2>3. m \in Ability!SpawnManips
    BY <2>1 DEF m
  <2>4. QED
    BY <2>2, <2>3, Sent
<1>3. 200 + Len(known) \in Nat
  BY DEF Learned
<1>4. ASSUME NEW i \in DOMAIN M, NEW j \in DOMAIN M, M[i] = M[j] PROVE i = j
  <2>1. <<i, M[i]>> \in Ability!SpawnManips /\ <<j, M[j]>> \in Ability!SpawnManips
    BY <1>1
  <2>2. <<i, M[i]>>[2] = <<j, M[j]>>[2] => <<i, M[i]>>[1] = <<j, M[j]>>[1]
    BY <2>1, Sent
  <2>3. QED
    BY <1>4, <2>2
<1>5. Ids(M)
  BY <1>2, <1>3, <1>4 DEF Ids
<1>6. ASSUME NEW i \in Ability!Free, NEW s \in Skill, bar[s] = i PROVE i \in DOMAIN M /\ M[i] = s
  <2>1. bar[s] \in Slot
    BY <1>6, Slots
  <2>2. <<i, s>> \in Ability!SpawnManips
    BY <1>6, <2>1, Sent
  <2>3. <<i, s>>[1] \in {m[1] : m \in Ability!SpawnManips}
    BY <2>2
  <2>4. i \in DOMAIN M
    BY <1>1, <2>3
  <2>5. bar[M[i]] = i /\ M[i] \in Skill
    BY <1>2, <2>4
  <2>6. M[i] = s
    BY <1>6, <2>5 DEF OnBar
  <2>7. QED
    BY <2>4, <2>6
<1>7. Agrees(M)
  BY <1>2, <1>6 DEF Agrees
<1>8. QED
  BY <1>5, <1>7 DEF M

(* The next id is above the bar, and a number.                             *)
LEMMA NextIdAbove ==
    ASSUME Ids(manips)
    PROVE  Ability!NextId \in Nat /\ Ability!NextId >= 200
<1> DEFINE S == {Ability!OffBar} \cup {id + 1 : id \in {i \in DOMAIN manips : i >= Ability!OffBar}}
<1>1. PICK b \in Nat : DOMAIN manips \subseteq 0..b
  BY DEF Ids
<1>2. S \in SUBSET Nat /\ 200 \in S /\ \A x \in S : x <= b + 201
  BY <1>1 DEF Ability!OffBar
<1> HIDE DEF S
<1> DEFINE Gaps == {g \in Nat : \E x \in S : g = (b + 201) - x}
<1>3. Gaps \in SUBSET Nat /\ Gaps # {}
  <2>1. (b + 201) - 200 \in Nat
    BY <1>1
  <2>2. (b + 201) - 200 \in Gaps
    BY <1>2, <2>1
  <2>3. QED
    BY <2>2
<1>4. PICK g \in Gaps : \A h \in Gaps : g <= h
  BY <1>3, HasLeast
<1>5. PICK x \in S : g = (b + 201) - x
  BY <1>4
<1>6. ASSUME NEW y \in S PROVE x >= y
  <2>1. y \in Nat /\ y <= b + 201 /\ x \in Nat
    BY <1>2
  <2>2. (b + 201) - y \in Gaps
    BY <1>1, <2>1
  <2>3. g <= (b + 201) - y
    BY <1>4, <2>2
  <2>4. QED
    BY <1>1, <1>5, <2>1, <2>3
<1>7. Ability!Max(S) \in S /\ \A y \in S : Ability!Max(S) >= y
  BY <1>5, <1>6 DEF Ability!Max
<1>8. Ability!NextId = Ability!Max(S)
  BY DEF Ability!NextId, S
<1>9. QED
  BY <1>2, <1>7, <1>8

Worths == [s \in Skill |-> Ability!Worth(s)]

(* The gold that is gone is the price of the ranks beyond the loadout.     *)
Tuition ==
    gold \in 0..Savings /\ gold = Savings - SumOver(Worths, Skill)

(* A buff lasts no longer than its cast gave it.                           *)
Fading ==
    /\ now \in 0..MaxTime
    /\ tracked \in [Skill -> {Ability!Gone} \cup 0..MaxTime]
    /\ shown \in [Skill -> Int]
    /\ \A s \in Skill : Lasts[s] > 0 /\ shown[s] # Ability!Gone => shown[s] >= 1
    /\ Ability!BuffsNotProlonged

Casting ==
    /\ Learned /\ OnBar /\ Tuition /\ Fading
    /\ Ids(manips) /\ (spawned => Agrees(manips))

LEMMA Prices ==
    /\ MaxRank \in Nat /\ 1 <= MaxRank /\ \A k \in 1..MaxRank : Cost[k] \in Nat
    /\ Savings \in Nat /\ Buffer \in Nat /\ MaxTime \in Nat
    /\ Lasts \in [Skill -> Nat \cup {-1}]
    /\ Ability!NoBuff = -1 /\ Ability!Gone = -1
BY SkillsAssumption DEF Ability!PriceAssumption, Ability!SkillAssumption, Ability!NoBuff, Ability!Gone

LEMMA WorthInt ==
    ASSUME rank \in [Skill -> 0..MaxRank], NEW s \in Skill
    PROVE  Ability!Worth(s) \in Int
<1>1. rank[s] \in Nat /\ \A k \in 1..rank[s] : Cost[k] \in Int
  <2>1. rank[s] \in Nat /\ rank[s] <= MaxRank
    BY Prices
  <2>2. ASSUME NEW k \in 1..rank[s] PROVE Cost[k] \in Int
    <3>1. k \in 1..MaxRank
      BY <2>1, Prices
    <3>2. QED
      BY <3>1, Prices
  <2>3. QED
    BY <2>1, <2>2
<1>2. SumTo(Cost, rank[s]) \in Int
  BY <1>1, SumInt
<1>3. Cost[1] \in Int
  BY Prices
<1>4. QED
  BY <1>2, <1>3, SameSums DEF Ability!Worth

(* A rank more is worth its price.                                         *)
LEMMA RankIsWorth ==
    ASSUME NEW r \in Nat, r + 1 <= MaxRank
    PROVE  SumTo(Cost, r + 1) = SumTo(Cost, r) + Cost[r + 1]
           /\ SumTo(Cost, r) \in Int /\ Cost[r + 1] \in Nat
<1>1. ASSUME NEW k \in 1..(r + 1) PROVE Cost[k] \in Int
  <2>1. k \in 1..MaxRank
    BY Prices
  <2>2. QED
    BY <2>1, Prices
<1>2. \A k \in 1..r : Cost[k] \in Int
  BY <1>1
<1>3. r + 1 \in 1..MaxRank
  BY Prices
<1>4. QED
  BY <1>1, <1>2, <1>3, SumNext, SumInt, Prices

LEMMA SkillsFinite ==
    IsFiniteSet(Skill)
BY SkillsAssumption DEF Ability!SkillAssumption, Ability!IsFiniteSet, IsFiniteSet

LEMMA TrainPays ==
    ASSUME rank \in [Skill -> 0..MaxRank], NEW s \in Skill, rank[s] + 1 <= MaxRank,
           rank' = [rank EXCEPT ![s] = rank[s] + 1]
    PROVE  SumOver(Worths', Skill) = SumOver(Worths, Skill) + Cost[rank[s] + 1]
<1> DEFINE w == Worths
           v == Worths'
           c == Cost[rank[s] + 1]
<1>1. rank[s] \in Nat
  BY Prices
<1>2. /\ SumTo(Cost, rank[s] + 1) = SumTo(Cost, rank[s]) + c
      /\ SumTo(Cost, rank[s]) \in Int /\ c \in Nat
  BY <1>1, RankIsWorth
<1>3. Cost[1] \in Int
  BY Prices
<1>4. \A t \in Skill : w[t] = Ability!Worth(t) /\ v[t] = Ability!Worth(t)'
  BY DEF Worths
<1> HIDE DEF w, v, c
<1>5. ASSUME NEW t \in Skill
      PROVE  v[t] = IF t = s THEN w[t] + c ELSE w[t]
  <2>1. CASE t = s
    <3>1. rank'[t] = rank[s] + 1
      BY <2>1
    <3> DEFINE d == IF s \in Ability!Range(Loadout) THEN Cost[1] ELSE 0
    <3>2. Ability!Worth(t) = Ability!SumTo(Cost, rank[s]) - d /\ Ability!Worth(t)' = Ability!SumTo(Cost, rank[s] + 1) - d
      BY <2>1, <3>1 DEF Ability!Worth
    <3>3. d \in Int
      BY <1>3
    <3> HIDE DEF d
    <3>4. Ability!Worth(t) = SumTo(Cost, rank[s]) - d /\ Ability!Worth(t)' = SumTo(Cost, rank[s] + 1) - d
      BY <3>2, SameSums
    <3>5. QED
      BY <1>2, <1>4, <2>1, <3>3, <3>4
  <2>2. CASE t # s
    <3>1. rank'[t] = rank[t]
      BY <2>2
    <3>2. QED
      BY <1>4, <2>2, <3>1 DEF Ability!Worth
  <2>3. QED
    BY <2>1, <2>2
<1>6. \A t \in Skill : w[t] \in Int
  BY <1>4, WorthInt
<1>7. SumOver(v, Skill) = SumOver(w, Skill) + c
  <2>1. c \in Int /\ s \in Skill
    BY <1>2
  <2>2. QED
    BY <1>5, <1>6, <2>1, SkillsFinite, OverGrows
<1>8. QED
  BY <1>7 DEF w, v, c

LEMMA CastingInit == Init => Casting
<1> SUFFICES ASSUME Init PROVE Casting
  OBVIOUS
<1>1. /\ known = Loadout
      /\ rank = [s \in Skill |-> IF s \in Ability!Range(Loadout) THEN 1 ELSE 0]
      /\ gold = Savings
      /\ bar = [s \in Skill |-> IF s \in Ability!Range(Loadout) THEN Authored[s] ELSE Ability!NoSlot]
      /\ spawned = FALSE /\ manips = <<>> /\ now = 0
      /\ tracked = [s \in Skill |-> Ability!Gone] /\ shown = [s \in Skill |-> Ability!Gone]
  BY DEF Init, Ability!Init
<1>2. Loadout \in Seq(Skill) /\ \A i, j \in 1..Len(Loadout) : Loadout[i] = Loadout[j] => i = j
  BY SkillsAssumption DEF Ability!SkillAssumption, Ability!IsInjective
<1>3. \A s : s \in Ability!Range(Loadout) <=> \E i \in 1..Len(Loadout) : Loadout[i] = s
  BY <1>2 DEF Ability!Range
<1>4. rank \in [Skill -> 0..MaxRank]
  BY <1>1, Prices
<1>5. Learned
  BY <1>1, <1>2, <1>3, <1>4 DEF Learned
<1>6. OnBar
  <2>1. bar \in [Skill -> Slot \cup {Ability!NoSlot}]
    BY <1>1, Slots
  <2>2. \A s \in Skill : bar[s] # Ability!NoSlot => rank[s] > 0
    BY <1>1
  <2>3. \A s \in Skill : bar[s] \notin Ability!Free
    BY <1>1, Slots
  <2>4. QED
    BY <2>1, <2>2, <2>3 DEF OnBar
<1>7. Tuition
  <2>1. ASSUME NEW s \in Skill PROVE Ability!Worth(s) = 0
    <3>1. SumTo(Cost, 0) = 0
      <4>1. 0 \in Nat /\ \A k \in 1..0 : Cost[k] = 0
        OBVIOUS
      <4>2. QED
        BY <4>1, SumZero
    <3>2. SumTo(Cost, 1) = SumTo(Cost, 0) + Cost[1] /\ Cost[1] \in Nat
      <4>1. 0 \in Nat /\ 0 + 1 <= MaxRank /\ 0 + 1 = 1
        BY Prices
      <4>2. SumTo(Cost, 0 + 1) = SumTo(Cost, 0) + Cost[0 + 1] /\ Cost[0 + 1] \in Nat
        BY <4>1, RankIsWorth
      <4>3. QED
        BY <4>1, <4>2
    <3>3. CASE s \in Ability!Range(Loadout)
      <4>1. rank[s] = 1
        BY <1>1, <3>3
      <4>2. QED
        BY <3>1, <3>2, <3>3, <4>1, SameSums DEF Ability!Worth
    <3>4. CASE s \notin Ability!Range(Loadout)
      <4>1. rank[s] = 0
        BY <1>1, <3>4
      <4>2. QED
        BY <3>1, <3>4, <4>1, SameSums DEF Ability!Worth
    <3>5. QED
      BY <3>3, <3>4
  <2>2. \A s \in Skill : Worths[s] = 0
    BY <2>1 DEF Worths
  <2>3. SumOver(Worths, Skill) = 0
    BY <2>2, SkillsFinite, OverZero
  <2>4. QED
    BY <1>1, <2>3, Prices DEF Tuition
<1>8. Fading
  BY <1>1, Prices DEF Fading, Ability!BuffsNotProlonged
<1>9. Ids(manips)
  <2>1. DOMAIN manips = {}
    BY <1>1
  <2>2. DOMAIN manips \subseteq 0..0 /\ 0 \in Nat
    BY <2>1
  <2>3. QED
    BY <2>1, <2>2 DEF Ids
<1>10. QED
  BY <1>1, <1>5, <1>6, <1>7, <1>8, <1>9 DEF Casting

(* Steps that leave a part of the state alone.                             *)
LEMMA RowStays ==
    ASSUME Casting, UNCHANGED <<known, rank, gold, bar>>
    PROVE  Learned' /\ OnBar' /\ Tuition'
<1>1. Worths' = Worths
  BY DEF Worths, Ability!Worth
<1>2. QED
  BY <1>1 DEF Casting, Learned, OnBar, Tuition

LEMMA MapStays ==
    ASSUME Casting, UNCHANGED <<rank, bar, manips>>, spawned' => spawned
    PROVE  Ids(manips)' /\ (spawned' => Agrees(manips)')
BY DEF Casting, Ids, Agrees

LEMMA BuffsStay ==
    ASSUME Casting, UNCHANGED <<tracked, shown, now>>
    PROVE  Fading'
BY DEF Casting, Fading, Ability!BuffsNotProlonged

LEMMA ResendFades ==
    ASSUME Casting, Ability!ResendAll, now' = now
    PROVE  Fading'
<1>1. /\ now \in 0..MaxTime
      /\ tracked \in [Skill -> {-1} \cup 0..MaxTime]
  BY Prices DEF Casting, Fading
<1>2. /\ tracked' = [s \in Skill |-> IF Ability!Active(s) THEN tracked[s] ELSE -1]
      /\ shown' = [s \in Skill |->
            IF ~Ability!Active(s) THEN -1 ELSE IF Lasts[s] = 0 THEN 0 ELSE Ability!Remaining(s)]
  BY Prices DEF Ability!ResendAll
<1>3. ASSUME NEW s \in Skill
      PROVE  /\ tracked'[s] \in {-1} \cup 0..MaxTime /\ shown'[s] \in Int
             /\ Lasts[s] > 0 /\ shown'[s] # -1 => shown'[s] >= 1
             /\ tracked'[s] # -1 /\ Lasts[s] > 0 /\ shown'[s] # -1
                    => shown'[s] + (now - tracked'[s]) <= Lasts[s]
  <2>1. /\ tracked[s] \in {-1} \cup 0..MaxTime /\ now \in Nat /\ Buffer \in Nat
        /\ Lasts[s] \in Nat \cup {-1} /\ MaxTime \in Nat
    BY <1>1, Prices
  <2>2. Ability!Remaining(s) = Lasts[s] - (now - tracked[s]) - Buffer
    BY DEF Ability!Remaining
  <2>3. Ability!Active(s) <=> tracked[s] # -1 /\ (Lasts[s] = 0 \/ Ability!Remaining(s) > 0)
    BY Prices DEF Ability!Active
  <2>4. tracked'[s] = IF Ability!Active(s) THEN tracked[s] ELSE -1
    BY <1>2
  <2>5. shown'[s] = IF ~Ability!Active(s) THEN -1 ELSE IF Lasts[s] = 0 THEN 0 ELSE Ability!Remaining(s)
    BY <1>2
  <2>6. CASE Ability!Active(s)
    BY <2>1, <2>2, <2>3, <2>4, <2>5, <2>6
  <2>7. CASE ~Ability!Active(s)
    BY <2>1, <2>4, <2>5, <2>7
  <2>8. QED
    BY <2>6, <2>7
<1>4. tracked' \in [Skill -> {-1} \cup 0..MaxTime]
  BY <1>2, <1>3
<1>5. shown' \in [Skill -> Int]
  BY <1>2, <1>3
<1>6. QED
  BY <1>1, <1>3, <1>4, <1>5, Prices DEF Fading, Ability!BuffsNotProlonged

LEMMA SkillsEnterCasts ==
    ASSUME Casting, Ability!Enter
    PROVE  Casting'
<1>1. /\ manips' = Ability!SpawnMap /\ Ability!ResendAll /\ UNCHANGED <<known, rank, gold, bar, now>>
  BY DEF Ability!Enter, Ability!rowVars
<1>2. Ids(Ability!SpawnMap) /\ Agrees(Ability!SpawnMap)
  BY SpawnFollowsBar DEF Casting
<1> DEFINE M == Ability!SpawnMap
<1>3. Ids(M) /\ Agrees(M) /\ manips' = M /\ rank' = rank /\ bar' = bar
  BY <1>1, <1>2
<1> HIDE DEF M
<1>4. Ids(manips)' /\ Agrees(manips)'
  BY <1>3 DEF Ids, Agrees
<1>5. QED
  BY <1>1, <1>4, RowStays, ResendFades DEF Casting

LEMMA SkillsTransferCasts ==
    ASSUME Casting, Ability!TransferZone
    PROVE  Casting'
<1>1. UNCHANGED <<known, rank, gold, bar, manips, tracked, shown, now>> /\ spawned' = FALSE
  BY DEF Ability!TransferZone, Ability!rowVars
<1>2. QED
  BY <1>1, RowStays, MapStays, BuffsStay DEF Casting

LEMMA SkillsRelogCasts ==
    ASSUME Casting, Ability!Relog
    PROVE  Casting'
<1>1. /\ UNCHANGED <<known, rank, gold, bar, now>> /\ spawned' = FALSE /\ manips' = <<>>
      /\ tracked' = [s \in Skill |-> Ability!Gone] /\ shown' = [s \in Skill |-> Ability!Gone]
  BY DEF Ability!Relog, Ability!rowVars
<1>2. Ids(manips)'
  <2>1. DOMAIN manips' = {}
    BY <1>1
  <2>2. DOMAIN manips' \subseteq 0..0 /\ 0 \in Nat
    BY <2>1
  <2>3. QED
    BY <2>1, <2>2 DEF Ids
<1>3. Fading'
  BY <1>1, Prices DEF Casting, Fading, Ability!BuffsNotProlonged
<1>4. QED
  BY <1>1, <1>2, <1>3, RowStays DEF Casting

LEMMA SkillsPassCasts ==
    ASSUME Casting, Ability!Pass
    PROVE  Casting'
<1>1. /\ UNCHANGED <<known, rank, gold, bar, spawned, manips, tracked>>
      /\ now < MaxTime /\ now' = now + 1
      /\ shown' = [s \in Skill |->
            IF shown[s] > 1 THEN shown[s] - 1 ELSE IF shown[s] = 1 THEN -1 ELSE shown[s]]
  BY Prices DEF Ability!Pass, Ability!rowVars
<1>2. /\ now \in 0..MaxTime /\ tracked \in [Skill -> {-1} \cup 0..MaxTime]
      /\ shown \in [Skill -> Int]
      /\ \A s \in Skill : Lasts[s] > 0 /\ shown[s] # -1 => shown[s] >= 1
      /\ \A s \in Skill : tracked[s] # -1 /\ Lasts[s] > 0 /\ shown[s] # -1
                            => shown[s] + (now - tracked[s]) <= Lasts[s]
  BY Prices DEF Casting, Fading, Ability!BuffsNotProlonged
<1>3. ASSUME NEW s \in Skill
      PROVE  /\ shown'[s] \in Int
             /\ Lasts[s] > 0 /\ shown'[s] # -1 => shown'[s] >= 1
             /\ tracked[s] # -1 /\ Lasts[s] > 0 /\ shown'[s] # -1
                    => shown'[s] + (now' - tracked[s]) <= Lasts[s]
  <2>1. shown'[s] = IF shown[s] > 1 THEN shown[s] - 1 ELSE IF shown[s] = 1 THEN -1 ELSE shown[s]
    BY <1>1
  <2>2. /\ now' = now + 1 /\ now \in Nat /\ tracked[s] \in {-1} \cup 0..MaxTime
        /\ shown[s] \in Int /\ MaxTime \in Nat /\ Lasts[s] \in Nat \cup {-1}
        /\ Lasts[s] > 0 /\ shown[s] # -1 => shown[s] >= 1
        /\ tracked[s] # -1 /\ Lasts[s] > 0 /\ shown[s] # -1
                => shown[s] + (now - tracked[s]) <= Lasts[s]
    BY <1>1, <1>2, Prices
  <2>3. QED
    BY <2>1, <2>2
<1>4. now' \in 0..MaxTime /\ shown' \in [Skill -> Int]
  BY <1>1, <1>2, <1>3, Prices
<1>5. Fading'
  BY <1>1, <1>2, <1>3, <1>4, Prices DEF Fading, Ability!BuffsNotProlonged
<1>6. QED
  BY <1>1, <1>5, RowStays, MapStays DEF Casting

LEMMA SkillsCastCasts ==
    ASSUME Casting, NEW i \in DOMAIN manips, Ability!SelfCast(i)
    PROVE  Casting'
<1> DEFINE s == manips[i]
<1>1. /\ UNCHANGED <<known, rank, gold, bar, spawned, manips, now>>
      /\ Ability!TrackSkillBuff(s)
  BY DEF Ability!SelfCast, Ability!rowVars
<1>2. s \in Skill
  BY DEF Casting, Ids
<1> HIDE DEF s
<1>3. CASE Lasts[s] = Ability!NoBuff
  <2>1. UNCHANGED <<tracked, shown>>
    BY <1>1, <1>3 DEF Ability!TrackSkillBuff
  <2>2. QED
    BY <1>1, <2>1, RowStays, MapStays, BuffsStay DEF Casting
<1>4. CASE Lasts[s] # Ability!NoBuff
  <2>1. /\ tracked' = [tracked EXCEPT ![s] = now]
        /\ shown' = [shown EXCEPT ![s] = Lasts[s]]
    BY <1>1, <1>4 DEF Ability!TrackSkillBuff
  <2>2. /\ now \in 0..MaxTime /\ tracked \in [Skill -> {-1} \cup 0..MaxTime]
        /\ shown \in [Skill -> Int]
        /\ \A t \in Skill : Lasts[t] > 0 /\ shown[t] # -1 => shown[t] >= 1
        /\ \A t \in Skill : tracked[t] # -1 /\ Lasts[t] > 0 /\ shown[t] # -1
                              => shown[t] + (now - tracked[t]) <= Lasts[t]
    BY Prices DEF Casting, Fading, Ability!BuffsNotProlonged
  <2>3. Lasts[s] \in Int
    BY <1>2, Prices
  <2>4. tracked' \in [Skill -> {-1} \cup 0..MaxTime] /\ shown' \in [Skill -> Int]
    BY <2>1, <2>2, <2>3
  <2>5. ASSUME NEW t \in Skill
        PROVE  /\ Lasts[t] > 0 /\ shown'[t] # -1 => shown'[t] >= 1
               /\ tracked'[t] # -1 /\ Lasts[t] > 0 /\ shown'[t] # -1
                    => shown'[t] + (now - tracked'[t]) <= Lasts[t]
    <3>1. CASE t = s
      <4>1. tracked'[t] = now /\ shown'[t] = Lasts[t] /\ Lasts[t] \in Int /\ now \in Int
        BY <1>2, <2>1, <2>2, <2>3, <3>1
      <4>2. QED
        BY <4>1
    <3>2. CASE t # s
      <4>1. tracked'[t] = tracked[t] /\ shown'[t] = shown[t]
        BY <2>1, <2>2, <3>2
      <4>2. QED
        BY <2>2, <4>1
    <3>3. QED
      BY <3>1, <3>2
  <2>6. Fading'
    BY <1>1, <2>2, <2>4, <2>5, Prices DEF Fading, Ability!BuffsNotProlonged
  <2>7. QED
    BY <1>1, <2>6, RowStays, MapStays DEF Casting
<1>5. QED
  BY <1>3, <1>4

(* A rank more, perhaps of a skill not known before.                       *)
LEMMA TrainLearns ==
    ASSUME Casting, NEW s \in Skill, Ability!Train(s)
    PROVE  Learned' /\ OnBar' /\ Tuition'
<1> DEFINE next == rank[s] + 1
<1>1. /\ next <= MaxRank /\ gold >= Cost[next] /\ gold' = gold - Cost[next]
      /\ rank' = [rank EXCEPT ![s] = next]
      /\ known' = IF rank[s] = 0 THEN Append(known, s) ELSE known
      /\ bar' = bar
  BY DEF Ability!Train
<1>2. rank \in [Skill -> 0..MaxRank] /\ rank[s] \in Nat /\ next \in Nat
  BY Prices DEF Casting, Learned
<1>3. rank' \in [Skill -> 0..MaxRank] /\ rank'[s] > 0
      /\ \A t \in Skill : rank'[t] = IF t = s THEN next ELSE rank[t]
  BY <1>1, <1>2
<1>4. Learned'
  <2>1. /\ known \in Seq(Skill)
        /\ \A i, j \in 1..Len(known) : known[i] = known[j] => i = j
        /\ \A t \in Skill : rank[t] > 0 <=> \E i \in 1..Len(known) : known[i] = t
    BY DEF Casting, Learned
  <2>2. CASE rank[s] = 0
    <3> DEFINE k == Append(known, s)
               n == Len(known)
    <3>1. /\ n \in Nat /\ k \in Seq(Skill) /\ Len(k) = n + 1 /\ k[n + 1] = s
          /\ \A i \in 1..n : k[i] = known[i]
      BY <2>1
    <3>2. known' = k
      BY <1>1, <2>2
    <3> HIDE DEF k
    <3>3. \A i \in 1..n : known[i] # s
      BY <2>1, <2>2
    <3>4. \A i, j \in 1..(n + 1) : k[i] = k[j] => i = j
      <4>1. ASSUME NEW i \in 1..(n + 1), NEW j \in 1..(n + 1), k[i] = k[j] PROVE i = j
        <5>1. /\ i \in 1..n \/ i = n + 1
              /\ j \in 1..n \/ j = n + 1
          BY <3>1
        <5>2. CASE i \in 1..n /\ j \in 1..n
          BY <2>1, <3>1, <4>1, <5>2
        <5>3. CASE i = n + 1 /\ j \in 1..n
          BY <3>1, <3>3, <4>1, <5>3
        <5>4. CASE i \in 1..n /\ j = n + 1
          BY <3>1, <3>3, <4>1, <5>4
        <5>5. QED
          BY <5>1, <5>2, <5>3, <5>4
      <4>2. QED
        BY <4>1
    <3>5. ASSUME NEW t \in Skill PROVE rank'[t] > 0 <=> \E i \in 1..(n + 1) : k[i] = t
      <4>1. n + 1 \in 1..(n + 1)
        BY <3>1
      <4>2. CASE t = s
        BY <1>3, <3>1, <4>1, <4>2
      <4>3. CASE t # s
        <5>1. \A i \in 1..(n + 1) : i \in 1..n \/ i = n + 1
          BY <3>1
        <5>2. (\E i \in 1..(n + 1) : k[i] = t) <=> \E i \in 1..n : known[i] = t
          <6>1. \A i \in 1..n : i \in 1..(n + 1)
            BY <3>1
          <6>2. QED
            BY <3>1, <4>3, <5>1, <6>1
        <5>3. QED
          BY <1>3, <2>1, <4>3, <5>2
      <4>4. QED
        BY <4>2, <4>3
    <3>6. QED
      BY <1>3, <3>1, <3>2, <3>4, <3>5 DEF Learned
  <2>3. CASE rank[s] # 0
    <3>1. known' = known /\ rank[s] > 0
      BY <1>1, <1>2, <2>3
    <3>2. \A t \in Skill : rank'[t] > 0 <=> rank[t] > 0
      BY <1>3, <3>1
    <3>3. QED
      BY <1>3, <2>1, <3>1, <3>2 DEF Learned
  <2>4. QED
    BY <2>2, <2>3
<1>5. OnBar'
  <2>1. \A t \in Skill : rank[t] > 0 => rank'[t] > 0
    BY <1>3
  <2>2. QED
    BY <1>1, <2>1 DEF Casting, OnBar
<1>6. Tuition'
  <2>1. SumOver(Worths', Skill)
            = SumOver(Worths, Skill) + Cost[next]
    BY <1>1, <1>2, TrainPays
  <2>2. gold \in 0..Savings /\ gold = Savings - SumOver(Worths, Skill)
    BY DEF Casting, Tuition
  <2>3. Cost[next] \in Nat /\ Savings \in Nat
    BY <1>1, <1>2, RankIsWorth, Prices
  <2>4. SumOver(Worths, Skill) \in Int
    <3>1. \A t \in Skill : Worths[t] \in Int
      BY <1>2, WorthInt DEF Worths
    <3>2. QED
      BY <3>1, SkillsFinite, OverInt
  <2> DEFINE u == SumOver(Worths, Skill)
             c == Cost[next]
             x == SumOver(Worths', Skill)
  <2>5. x = u + c /\ u \in Int /\ c \in Nat /\ gold = Savings - u /\ gold \in 0..Savings
        /\ gold >= c /\ gold' = gold - c
    BY <1>1, <2>1, <2>2, <2>3, <2>4
  <2> HIDE DEF u, c, x
  <2>6. gold' \in 0..Savings /\ gold' = Savings - x
    BY <2>3, <2>5
  <2>7. QED
    BY <2>6 DEF Tuition, x
<1>7. QED
  BY <1>4, <1>5, <1>6

LEMMA TrainCasts ==
    ASSUME Casting, NEW s \in Skill, Ability!Train(s)
    PROVE  Casting'
<1>1. /\ spawned /\ rank[s] + 1 <= MaxRank
      /\ rank' = [rank EXCEPT ![s] = rank[s] + 1]
      /\ manips' = IF rank[s] = 0 /\ s \notin Passive
                   THEN Ability!Manip(manips, Ability!NextId, s) ELSE manips
      /\ UNCHANGED <<bar, spawned, tracked, shown, now>>
  BY DEF Ability!Train
<1>2. rank \in [Skill -> 0..MaxRank] /\ rank[s] \in Nat
  BY Prices DEF Casting, Learned
<1>3. \A t \in Skill : (rank[t] > 0 => rank'[t] > 0) /\ rank'[s] > 0
  BY <1>1, <1>2
<1>4. /\ \E b \in Nat : DOMAIN manips \subseteq 0..b
      /\ \A i \in DOMAIN manips : manips[i] \in Skill /\ rank[manips[i]] > 0
      /\ \A i, j \in DOMAIN manips : manips[i] = manips[j] => i = j
      /\ \A i \in Ability!Free, t \in Skill : (i \in DOMAIN manips /\ manips[i] = t) <=> bar[t] = i
  BY <1>1 DEF Casting, Ids, Agrees
<1>5. Ids(manips)' /\ Agrees(manips)'
  <2>1. CASE rank[s] = 0 /\ s \notin Passive
    <3> DEFINE n == Ability!NextId
               M == Ability!Manip(manips, n, s)
    <3>1. n \in Nat /\ n >= 200
      BY NextIdAbove DEF Casting
    <3>2. manips' = M
      BY <1>1, <2>1
    <3> HIDE DEF n
    <3>3. /\ DOMAIN M = DOMAIN manips \cup {n} /\ M[n] = s
          /\ \A i \in DOMAIN manips : i # n => M[i] = manips[i]
      BY DEF Ability!Manip
    <3> HIDE DEF M
    <3>4. PICK b \in Nat : DOMAIN manips \subseteq 0..b
      BY <1>4
    <3>5. DOMAIN M \subseteq 0..(b + n) /\ b + n \in Nat
      BY <3>1, <3>3, <3>4
    <3>6. \A i \in DOMAIN manips : manips[i] # s
      BY <1>4, <2>1
    <3>7. \A i \in DOMAIN M : M[i] \in Skill /\ rank'[M[i]] > 0
      BY <1>3, <1>4, <3>3
    <3>8. \A i, j \in DOMAIN M : M[i] = M[j] => i = j
      BY <1>4, <3>3, <3>6
    <3>9. n \notin Ability!Free
      BY <3>1, Slots
    <3>10. ASSUME NEW i \in Ability!Free, NEW t \in Skill
           PROVE  (i \in DOMAIN M /\ M[i] = t) <=> bar[t] = i
      BY <1>4, <3>3, <3>9
    <3>11. QED
      BY <1>1, <3>2, <3>5, <3>7, <3>8, <3>10 DEF Ids, Agrees
  <2>2. CASE ~(rank[s] = 0 /\ s \notin Passive)
    <3>1. manips' = manips
      BY <1>1, <2>2
    <3>2. QED
      BY <1>1, <1>3, <1>4, <3>1 DEF Ids, Agrees
  <2>3. QED
    BY <2>1, <2>2
<1>6. QED
  BY <1>1, <1>5, TrainLearns, BuffsStay DEF Casting

LEMMA PlaceCasts ==
    ASSUME Casting, NEW s \in Skill, NEW i \in Slot, Ability!HotbarPlace(s, i)
    PROVE  Casting'
<1> DEFINE old == Ability!IdsOf(s) \ {i}
           m == IF old = {} THEN manips ELSE Ability!Minus({CHOOSE id \in old : TRUE})
<1>1. /\ spawned /\ rank[s] > 0
      /\ manips' = Ability!Manip(m, i, s)
      /\ bar' = Ability!Placed(s, i)
      /\ UNCHANGED <<known, rank, gold, spawned, tracked, shown, now>>
  BY DEF Ability!HotbarPlace
<1>2. /\ \E b \in Nat : DOMAIN manips \subseteq 0..b
      /\ \A j \in DOMAIN manips : manips[j] \in Skill /\ rank[manips[j]] > 0
      /\ \A j, k \in DOMAIN manips : manips[j] = manips[k] => j = k
      /\ \A j \in Ability!Free, t \in Skill : (j \in DOMAIN manips /\ manips[j] = t) <=> bar[t] = j
  BY <1>1 DEF Casting, Ids, Agrees
<1>3. /\ bar \in [Skill -> Slot \cup {0}]
      /\ \A t \in Skill : bar[t] # 0 => rank[t] > 0
      /\ \A t, u \in Skill : bar[t] \in Ability!Free /\ bar[t] = bar[u] => t = u
  BY Slots DEF Casting, OnBar
<1>4. \A j \in old : j \in DOMAIN manips /\ manips[j] = s /\ j # i
  BY DEF Ability!IdsOf
<1>5. /\ DOMAIN m = DOMAIN manips \ old
      /\ \A j \in DOMAIN m : m[j] = manips[j]
  <2>1. CASE old = {}
    BY <2>1
  <2>2. CASE old # {}
    <3>1. PICK o \in old : o = CHOOSE id \in old : TRUE
      BY <2>2
    <3>2. old = {o}
      BY <1>2, <1>4
    <3>3. m = Ability!Restrict(manips, DOMAIN manips \ {o})
      BY <2>2, <3>1 DEF Ability!Minus
    <3>4. QED
      BY <3>2, <3>3 DEF Ability!Restrict
  <2>3. QED
    BY <2>1, <2>2
<1>6. \A j \in DOMAIN manips : manips[j] = s => j = i \/ j \in old
  BY DEF Ability!IdsOf
<1> HIDE DEF old, m
<1> DEFINE M == manips'
<1>7. /\ DOMAIN M = (DOMAIN manips \ old) \cup {i} /\ M[i] = s
      /\ \A j \in DOMAIN manips \ old : j # i => M[j] = manips[j]
  BY <1>1, <1>5 DEF Ability!Manip
<1> HIDE DEF M
<1>8. \A t \in Skill : bar'[t] =
        IF t = s THEN i
        ELSE IF bar[t] = i \/ (i \in DOMAIN manips /\ manips[i] = t) THEN 0
        ELSE bar[t]
  BY <1>1 DEF Ability!Placed, Ability!NoSlot
<1>9. bar' \in [Skill -> Slot \cup {0}]
  <2>1. \A t \in Skill : bar'[t] \in Slot \cup {0}
    BY <1>3, <1>8
  <2>2. QED
    BY <1>1, <2>1 DEF Ability!Placed
<1>10. /\ i \in Nat /\ i # 0 /\ 0 \notin Ability!Free
  BY Slots
<1>11. OnBar'
  <2>1. \A t \in Skill : bar'[t] # 0 => rank[t] > 0
    BY <1>1, <1>3, <1>8
  <2>2. ASSUME NEW t \in Skill, NEW u \in Skill, bar'[t] \in Ability!Free, bar'[t] = bar'[u]
        PROVE  t = u
    BY <1>3, <1>8, <1>10, <2>2
  <2>3. QED
    BY <1>1, <1>9, <2>1, <2>2, Slots DEF OnBar
<1>12. Ids(manips)'
  <2>1. PICK b \in Nat : DOMAIN manips \subseteq 0..b
    BY <1>2
  <2>2. DOMAIN M \subseteq 0..(b + i) /\ b + i \in Nat
    BY <1>7, <1>10, <2>1
  <2>3. \A j \in DOMAIN M : M[j] \in Skill /\ rank[M[j]] > 0
    BY <1>1, <1>2, <1>7
  <2>4. \A j \in DOMAIN M : j # i => M[j] # s
    BY <1>6, <1>7
  <2>5. \A j, k \in DOMAIN M : M[j] = M[k] => j = k
    BY <1>2, <1>7, <2>4
  <2>6. QED
    BY <1>1, <2>2, <2>3, <2>5 DEF Ids, M
<1>13. ASSUME NEW j \in Ability!Free, NEW t \in Skill
       PROVE  (j \in DOMAIN M /\ M[j] = t) <=> bar'[t] = j
  <2>1. CASE j = i
    BY <1>3, <1>7, <1>8, <1>10, <2>1
  <2>2. CASE j # i /\ t = s
    BY <1>6, <1>7, <1>8, <2>2
  <2>3. CASE j # i /\ t # s
    <3>1. (j \in DOMAIN M /\ M[j] = t) <=> (j \in DOMAIN manips /\ manips[j] = t)
      BY <1>4, <1>7, <2>3
    <3>2. bar'[t] = j <=> bar[t] = j
      BY <1>2, <1>8, <1>10, <2>3
    <3>3. QED
      BY <1>2, <3>1, <3>2
  <2>4. QED
    BY <2>1, <2>2, <2>3
<1>14. Agrees(manips)'
  BY <1>13 DEF Agrees, M
<1>15. Learned' /\ Tuition' /\ Fading'
  <2>1. Worths' = Worths
    BY <1>1 DEF Worths, Ability!Worth
  <2>2. QED
    BY <1>1, <2>1, BuffsStay DEF Casting, Learned, Tuition
<1>16. QED
  BY <1>11, <1>12, <1>14, <1>15 DEF Casting

LEMMA RemoveCasts ==
    ASSUME Casting, NEW i \in Slot, Ability!HotbarRemove(i)
    PROVE  Casting'
<1> DEFINE removed == IF i \in DOMAIN manips THEN {manips[i]} ELSE {t \in Skill : bar[t] = i}
           M == manips'
<1>1. /\ spawned
      /\ bar' = [t \in Skill |-> IF bar[t] = i \/ t \in removed THEN 0 ELSE bar[t]]
      /\ manips' = Ability!Minus({i})
      /\ UNCHANGED <<known, rank, gold, spawned, tracked, shown, now>>
  BY DEF Ability!HotbarRemove, Ability!NoSlot
<1>2. /\ \E b \in Nat : DOMAIN manips \subseteq 0..b
      /\ \A j \in DOMAIN manips : manips[j] \in Skill /\ rank[manips[j]] > 0
      /\ \A j, k \in DOMAIN manips : manips[j] = manips[k] => j = k
      /\ \A j \in Ability!Free, t \in Skill : (j \in DOMAIN manips /\ manips[j] = t) <=> bar[t] = j
  BY <1>1 DEF Casting, Ids, Agrees
<1>3. /\ bar \in [Skill -> Slot \cup {0}]
      /\ \A t \in Skill : bar[t] # 0 => rank[t] > 0
      /\ \A t, u \in Skill : bar[t] \in Ability!Free /\ bar[t] = bar[u] => t = u
  BY Slots DEF Casting, OnBar
<1>4. DOMAIN M = DOMAIN manips \ {i} /\ \A j \in DOMAIN M : M[j] = manips[j]
  BY <1>1 DEF Ability!Minus, Ability!Restrict
<1> HIDE DEF M
<1>5. \A t \in Skill : bar'[t] = IF bar[t] = i \/ t \in removed THEN 0 ELSE bar[t]
  BY <1>1
<1>6. /\ i # 0 /\ 0 \notin Ability!Free
  BY Slots
<1>7. bar' \in [Skill -> Slot \cup {0}]
  BY <1>1, <1>3
<1>8. \A t \in Skill, j \in Ability!Free : t \in removed /\ bar[t] = j => j = i
  BY <1>2
<1> HIDE DEF removed
<1>9. OnBar'
  <2>1. \A t \in Skill : bar'[t] # 0 => rank[t] > 0
    BY <1>3, <1>5
  <2>2. ASSUME NEW t \in Skill, NEW u \in Skill, bar'[t] \in Ability!Free, bar'[t] = bar'[u]
        PROVE  t = u
    BY <1>3, <1>5, <1>6, <2>2
  <2>3. QED
    BY <1>1, <1>7, <2>1, <2>2, Slots DEF OnBar
<1>10. Ids(manips)'
  BY <1>1, <1>2, <1>4 DEF Ids, M
<1>11. ASSUME NEW j \in Ability!Free, NEW t \in Skill
       PROVE  (j \in DOMAIN M /\ M[j] = t) <=> bar'[t] = j
  <2>1. CASE j = i
    BY <1>4, <1>5, <1>6, <2>1
  <2>2. CASE j # i
    <3>1. bar'[t] = j <=> bar[t] = j
      BY <1>5, <1>6, <1>8, <2>2
    <3>2. QED
      BY <1>2, <1>4, <2>2, <3>1
  <2>3. QED
    BY <2>1, <2>2
<1>12. Agrees(manips)'
  BY <1>11 DEF Agrees, M
<1>13. Learned' /\ Tuition' /\ Fading'
  <2>1. Worths' = Worths
    BY <1>1 DEF Worths, Ability!Worth
  <2>2. QED
    BY <1>1, <2>1, BuffsStay DEF Casting, Learned, Tuition
<1>14. QED
  BY <1>9, <1>10, <1>12, <1>13 DEF Casting

LEMMA CastingAlways == Spec => []Casting
<1>1. Casting /\ [Next]_vars => Casting'
  <2> SUFFICES ASSUME Casting, [Next]_vars
               PROVE  Casting'
    OBVIOUS
  <2>1. CASE Ability!Next
    BY <2>1, SkillsEnterCasts, SkillsTransferCasts, SkillsRelogCasts, SkillsPassCasts,
       SkillsCastCasts, TrainCasts, PlaceCasts, RemoveCasts DEF Ability!Next
  <2>2. CASE UNCHANGED skillVars
    <3>1. UNCHANGED <<known, rank, gold, bar, spawned, manips, tracked, shown, now>>
      BY <2>2 DEF skillVars
    <3>2. QED
      BY <3>1, RowStays, MapStays, BuffsStay DEF Casting
  <2>3. QED
    BY <2>1, <2>2 DEF Next, vars
<1>2. QED
  BY <1>1, CastingInit, PTL DEF Spec

(* What is cast is what the bar shows after the next login too, whatever    *)
(* was placed, removed, trained and spawned meanwhile; every rank was paid  *)
(* for, and no buff outlasts its cast over zone changes and recasts.       *)
THEOREM SkillsCorrect == Spec => []SkillsSound
<1>1. Casting => SkillsSound
  <2> SUFFICES ASSUME Casting
               PROVE  Ability!BarAgrees /\ Ability!RanksPaid /\ Ability!BuffsNotProlonged
    BY DEF SkillsSound
  <2>1. Ability!BarAgrees
    BY DEF Casting, Agrees, Ability!BarAgrees
  <2>2. Ability!BuffsNotProlonged
    BY DEF Casting, Fading
  <2>3. Ability!TypeOK
    <3>1. Ability!Range(known) = {s \in Skill : rank[s] > 0}
      <4>1. Ability!Range(known) = {known[i] : i \in 1..Len(known)}
        <5>1. DOMAIN known = 1..Len(known)
          BY DEF Casting, Learned
        <5>2. QED
          BY <5>1 DEF Ability!Range
      <4>2. \A i \in 1..Len(known) : known[i] \in Skill
        BY DEF Casting, Learned
      <4>3. QED
        BY <4>1, <4>2 DEF Casting, Learned
    <3>2. QED
      BY <3>1 DEF Casting, Learned, OnBar, Tuition, Fading, Ids, Ability!TypeOK
  <2>4. gold = Savings - Ability!SumOver(Worths, Skill)
    BY SameSums DEF Casting, Tuition
  <2>5. QED
    BY <2>1, <2>2, <2>3, <2>4 DEF Ability!RanksPaid, Worths
<1>2. QED
  BY <1>1, CastingAlways, PTL
=============================================================================
